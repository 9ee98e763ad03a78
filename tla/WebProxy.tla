------------------------------ MODULE WebProxy ------------------------------
(***************************************************************************)
(* The web proxy of flmodules/src/web_proxy: a node asks another one to    *)
(* fetch a page, and gets the answer in pieces.                            *)
(*                                                                         *)
(* Of the node that asks: the callers of get (broker.rs), the task of its  *)
(* broker (core.rs, messages.rs), the tasks it spawns for every chunk of a *)
(* body, and the readers of the answers (response.rs).  Of the proxies:    *)
(* what they send for a request.  A connection between two nodes keeps the *)
(* order of messages, but one that is closed and opened again loses some.  *)
(*                                                                         *)
(* A request stands for its nonce, and the chunks of a body are numbered.  *)
(* The counters and the configured node, which is not used, are left out.  *)
(***************************************************************************)
EXTENDS Integers, SequencesExt, Functions

CONSTANTS
    Request,   \* the calls of get
    Node,      \* the nodes that are proxies
    Chunks,    \* the chunks of a body
    Capacity,  \* 128, the capacity of the channel of a response
    MaxLists,  \* bound on the changes of the list of nodes
    MaxFaults  \* bound on messages lost

ASSUME WebProxyAssumption ==
    /\ IsFiniteSet(Node)
    /\ Chunks \in Nat /\ Capacity \in Nat \ {0}
    /\ MaxLists \in Nat /\ MaxFaults \in Nat

VARIABLES
    nodes, nodeIndex,  \* of WebProxyCore
    requests,          \* of WebProxyCore: the requests whose sender it holds, and their nodes
    caller,            \* where every call of get, and then the reader of its response, is
    emitted,           \* RequestGet messages the broker has not handled yet
    asked,             \* requests on their way to a proxy
    wire,              \* the answers on their way to this node
    tasks,             \* chunks whose task has not put them into the channel yet
    channel,           \* of every request
    text,              \* what the reader of a response has read
    arrived,           \* history: the chunks in the order they came from the network
    lists, faults      \* what has happened so far

vars == <<nodes, nodeIndex, requests, caller, emitted, asked, wire, tasks, channel, text, arrived,
          lists, faults>>

Body == 1..Chunks

ResponseMessage == [type : {"Header", "Done", "Error"}] \cup [type : {"Body"}, chunk : Body]

Header == [type |-> "Header"]
Done == [type |-> "Done"]
Error == [type |-> "Error"]
BodyMessage(chunk) == [type |-> "Body", chunk |-> chunk]

\* A list of nodes has no order of its own: the one of NodeInfosConnected.
NodeLists == UNION {SetToSeqs(S) : S \in SUBSET Node}

Caller ==
    {"new",       \* get was not called
     "called",    \* the request is emitted, the tap that waits for the answer is not there yet
     "waiting",   \* for the header, at most 5 seconds
     "answered",  \* get returned a Response, whose body is being read
     "timeout",   \* get returned an error
     "done"}      \* the body was read to its end

\* The receiver of the channel exists until the timeout drops it, or the reader is done.
Receives(r) == caller[r] \in {"called", "waiting", "answered"}

\* Faulty: the sender of a chunk's task does not count; the response keeps a sender.
SendsFromTable(r) == r \in emitted \/ r \in DOMAIN requests
SendsItself(r) == r \in emitted \/ r \in DOMAIN requests \/ Receives(r)

\* The channel ends when all its senders are dropped.
Sends(r) == r \in emitted \/ r \in DOMAIN requests \/ tasks[r] # {}

----------------------------------------------------------------------------
Init ==
    /\ nodes \in NodeLists /\ nodeIndex = 0
    /\ requests = <<>>
    /\ caller = [r \in Request |-> "new"]
    /\ emitted = {} /\ asked = {}
    /\ wire = [r \in Request |-> <<>>]
    /\ tasks = [r \in Request |-> {}]
    /\ channel = [r \in Request |-> <<>>]
    /\ text = [r \in Request |-> <<>>]
    /\ arrived = [r \in Request |-> <<>>]
    /\ lists = 0 /\ faults = 0

----------------------------------------------------------------------------
(***************************************************************************)
(* The caller of get.                                                      *)
(***************************************************************************)
Get(r) ==
    /\ caller[r] = "new"
    /\ caller' = [caller EXCEPT ![r] = "called"]
    /\ emitted' = emitted \cup {r}
    /\ UNCHANGED <<nodes, nodeIndex, requests, asked, wire, tasks, channel, text, arrived, lists,
                   faults>>

\* get_tap_out
TapOut(r) ==
    /\ caller[r] = "called"
    /\ caller' = [caller EXCEPT ![r] = "waiting"]
    /\ UNCHANGED <<nodes, nodeIndex, requests, emitted, asked, wire, tasks, channel, text, arrived,
                   lists, faults>>

\* Faulty: only a request that was sent times out.
TimeoutOfSent(r) ==
    /\ caller[r] = "waiting" /\ r \in DOMAIN requests
    /\ caller' = [caller EXCEPT ![r] = "timeout"]
    /\ channel' = [channel EXCEPT ![r] = <<>>]
    /\ UNCHANGED <<nodes, nodeIndex, requests, emitted, asked, wire, tasks, text, arrived, lists,
                   faults>>

\* The timeout drops the receiver, and with it what is in the channel.
Timeout(r) ==
    /\ caller[r] = "waiting"
    /\ caller' = [caller EXCEPT ![r] = "timeout"]
    /\ channel' = [channel EXCEPT ![r] = <<>>]
    /\ UNCHANGED <<nodes, nodeIndex, requests, emitted, asked, wire, tasks, text, arrived, lists,
                   faults>>

----------------------------------------------------------------------------
(***************************************************************************)
(* The broker of the node that asks.                                       *)
(***************************************************************************)
NodeList(list) ==
    /\ lists < MaxLists /\ list # nodes
    /\ nodes' = list
    /\ lists' = lists + 1
    /\ UNCHANGED <<nodeIndex, requests, caller, emitted, asked, wire, tasks, channel, text,
                   arrived, faults>>

\* get_node: the nodes take turns.
HandleRequestGet(r) ==
    /\ r \in emitted
    /\ emitted' = emitted \ {r}
    /\ IF nodes = <<>>
       THEN UNCHANGED <<nodeIndex, requests, asked>>
       ELSE LET i == nodeIndex % Len(nodes)
            IN  /\ requests' = [q \in DOMAIN requests \cup {r} |->
                                    IF q = r THEN nodes[i + 1] ELSE requests[q]]
                /\ nodeIndex' = i + 1
                /\ asked' = asked \cup {r}
    /\ UNCHANGED <<nodes, caller, wire, tasks, channel, text, arrived, lists, faults>>

\* A message of the answer to r arrives: nothing is done for a request that is not in the table.
Arrives(r, msg) ==
    /\ wire[r] # <<>> /\ Head(wire[r]) = msg
    /\ wire' = [wire EXCEPT ![r] = Tail(@)]
    /\ UNCHANGED <<nodes, nodeIndex, emitted, asked, channel, text, lists, faults>>

\* ResponseGet: only a tap that is there sees it.
HandleHeader(r) ==
    /\ Arrives(r, Header)
    /\ caller' = IF r \in DOMAIN requests /\ caller[r] = "waiting"
                 THEN [caller EXCEPT ![r] = "answered"] ELSE caller
    /\ UNCHANGED <<requests, tasks, arrived>>

HandleBody(r, chunk) ==
    /\ Arrives(r, BodyMessage(chunk))
    /\ IF r \in DOMAIN requests
       THEN /\ tasks' = [tasks EXCEPT ![r] = @ \cup {chunk}]
            /\ arrived' = [arrived EXCEPT ![r] = Append(@, chunk)]
       ELSE UNCHANGED <<tasks, arrived>>
    /\ UNCHANGED <<requests, caller>>

HandleDone(r) ==
    /\ Arrives(r, Done)
    /\ requests' = Restrict(requests, DOMAIN requests \ {r})
    /\ UNCHANGED <<caller, tasks, arrived>>

\* An error is only logged.
HandleError(r) ==
    /\ Arrives(r, Error)
    /\ UNCHANGED <<requests, caller, tasks, arrived>>

\* The task of a chunk: it waits for a place in the channel, and panics without a receiver.
\* Tasks run in any order.
SendBody(r, chunk) ==
    /\ chunk \in tasks[r]
    /\ Receives(r) => Len(channel[r]) < Capacity
    /\ tasks' = [tasks EXCEPT ![r] = @ \ {chunk}]
    /\ channel' = IF Receives(r) THEN [channel EXCEPT ![r] = Append(@, chunk)] ELSE channel
    /\ UNCHANGED <<nodes, nodeIndex, requests, caller, emitted, asked, wire, text, arrived, lists,
                   faults>>

----------------------------------------------------------------------------
(***************************************************************************)
(* The reader of a Response: text, bytes and chunk.                        *)
(***************************************************************************)
Chunk(r) ==
    /\ caller[r] = "answered"
    /\ channel[r] # <<>>
    /\ text' = [text EXCEPT ![r] = Append(@, Head(channel[r]))]
    /\ channel' = [channel EXCEPT ![r] = Tail(@)]
    /\ UNCHANGED <<nodes, nodeIndex, requests, caller, emitted, asked, wire, tasks, arrived, lists,
                   faults>>

EndOfText(r) ==
    /\ caller[r] = "answered"
    /\ channel[r] = <<>> /\ ~Sends(r)
    /\ caller' = [caller EXCEPT ![r] = "done"]
    /\ UNCHANGED <<nodes, nodeIndex, requests, emitted, asked, wire, tasks, channel, text, arrived,
                   lists, faults>>

----------------------------------------------------------------------------
(***************************************************************************)
(* A proxy: start_request.  It ends with two Done messages, or with an     *)
(* error and none, or it panics after some of the chunks.                  *)
(***************************************************************************)
Answers ==
    LET Begin(n) == <<Header>> \o [i \in 1..n |-> BodyMessage(i)]
    IN  {Begin(Chunks) \o <<Done, Done>>, <<Error>>} \cup {Begin(n) : n \in 0..(Chunks - 1)}

StartRequest(r) ==
    /\ r \in asked
    /\ asked' = asked \ {r}
    /\ \E answer \in Answers : wire' = [wire EXCEPT ![r] = answer]
    /\ UNCHANGED <<nodes, nodeIndex, requests, caller, emitted, tasks, channel, text, arrived,
                   lists, faults>>

----------------------------------------------------------------------------
\* A message is lost because its connection was closed.
LoseMessage(r) ==
    /\ faults < MaxFaults
    /\ \/ /\ r \in asked
          /\ asked' = asked \ {r} /\ UNCHANGED wire
       \/ /\ wire[r] # <<>>
          /\ wire' = [wire EXCEPT ![r] = Tail(@)] /\ UNCHANGED asked
    /\ faults' = faults + 1
    /\ UNCHANGED <<nodes, nodeIndex, requests, caller, emitted, tasks, channel, text, arrived,
                   lists>>

Next ==
    \/ \E list \in NodeLists : NodeList(list)
    \/ \E r \in Request :
        \/ Get(r) \/ TapOut(r) \/ Timeout(r)
        \/ HandleRequestGet(r) \/ HandleHeader(r) \/ HandleDone(r) \/ HandleError(r)
        \/ \E chunk \in Body : HandleBody(r, chunk) \/ SendBody(r, chunk)
        \/ Chunk(r) \/ EndOfText(r)
        \/ StartRequest(r) \/ LoseMessage(r)

Spec == Init /\ [][Next]_vars

\* The executor runs the tasks of this node, its timers go off, and somebody reads a Response
\* that was returned.  Nothing is assumed of the proxies, nor of the network.
Fairness ==
    \A r \in Request :
        /\ WF_vars(TapOut(r)) /\ WF_vars(Timeout(r))
        /\ WF_vars(HandleRequestGet(r))
        /\ \A chunk \in Body : WF_vars(SendBody(r, chunk))
        /\ WF_vars(Chunk(r)) /\ WF_vars(EndOfText(r))

FairSpec == Spec /\ Fairness

----------------------------------------------------------------------------
\* The types of the variables; a channel never holds more than its capacity.
TypeOK ==
    /\ nodes \in NodeLists /\ nodeIndex \in 0..Cardinality(Node)
    /\ DOMAIN requests \subseteq Request /\ Range(requests) \subseteq Node
    /\ caller \in [Request -> Caller]
    /\ emitted \subseteq Request /\ asked \subseteq Request
    /\ wire \in [Request -> Seq(ResponseMessage)]
    /\ tasks \in [Request -> SUBSET Body]
    /\ channel \in [Request -> Seq(Body)]
    /\ \A r \in Request : Len(channel[r]) <= Capacity
    /\ text \in [Request -> Seq(Body)] /\ arrived \in [Request -> Seq(Body)]
    /\ lists \in 0..MaxLists /\ faults \in 0..MaxFaults

\* The reader gets every chunk that arrived exactly once: the Done message that closes the
\* request, which may overtake the tasks of the chunks, cuts none of them off, and neither does
\* a full channel.
BodyIsComplete ==
    \A r \in Request : caller[r] = "done" =>
        /\ Range(text[r]) = Range(arrived[r])
        /\ Len(text[r]) = Len(arrived[r])

\* The table of requests, the channels and what was read from them.
ResponsesConsistent == TypeOK /\ BodyIsComplete

\* A reply is made of blocks "indexed by the second argument" (messages.rs:27): the text that is
\* read is the body in its order.
BodyInOrder ==
    \A r \in Request : caller[r] = "done" => text[r] = arrived[r]

\* Every call of get returns, with an answer or an error, also if no node was there to be asked.
GetReturns ==
    \A r \in Request : caller[r] = "called" ~> caller[r] \in {"answered", "timeout", "done"}

\* Once the request of a Response has left the table, its reader comes to the end of the text: no
\* task keeps the channel open for ever.
ReaderEnds ==
    \A r \in Request :
        caller[r] = "answered" /\ r \notin DOMAIN requests ~> caller[r] = "done"
=============================================================================
