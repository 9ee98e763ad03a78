---------------------------- MODULE GossipEvents ----------------------------
(***************************************************************************)
(* The gossip of events: chat messages and descriptions of the nodes, kept *)
(* by every node up to a limit per category and handed on to its           *)
(* neighbours (gossip_events/messages.rs and core.rs).  A node tells its   *)
(* neighbours the ids of new events, they ask for those they lack, and     *)
(* every second each node asks its neighbours for all the ids they know.   *)
(*                                                                         *)
(* The id of an event is the hash of its fields: here the event itself.    *)
(* Two connected nodes exchange messages over an ordered channel; messages *)
(* are lost when a node restarts or is not connected any more.  A file is  *)
(* emptied before it is written: a write that fails or is cut off by a     *)
(* crash leaves the old events or none.                                    *)
(***************************************************************************)
EXTENDS Integers, FiniteSets, Sequences, SequencesExt

CONSTANTS
    Node,          \* ids of the nodes
    Link,          \* the connections: a symmetric set of pairs of nodes
    Event,         \* events that nodes create: category, src and created
    Category,      \* kinds of events
    Unique(_),     \* whether a category keeps one event per source
    MaxEvents(_),  \* how many events of a category a node keeps
    WarmUp,        \* ticks until a node asks its neighbours: 3 in the code
    MaxFaults,     \* bound on disconnections, losses, restarts, failed writes
    MaxQueue       \* bound on the messages in the channels when a node ticks

ASSUME GossipAssumption ==
    /\ Link \subseteq Node \X Node
    /\ \A c \in Link : <<c[2], c[1]>> \in Link
    /\ \A e \in Event : e.category \in Category /\ e.src \in Node /\ e.created \in Int
    /\ \A c \in Category : MaxEvents(c) \in Nat
    /\ WarmUp \in Nat \ {0}
    /\ MaxFaults \in Nat

VARIABLES
    events,       \* node |-> its events, of all categories
    disk,         \* node |-> the events it would read from its data storage
    failed,       \* the running nodes whose last write failed or was cut off
    nodes,        \* node |-> the neighbours it was last told of
    outstanding,  \* node |-> the events it has asked for
    ticks,        \* node |-> its ticks since it started, up to WarmUp
    channel,      \* <<a, b>> |-> the messages from a to b
    created,      \* the events created so far
    forgotten,    \* those that nobody held after the last restart after a failed write
    faults        \* disconnections, losses, restarts and failed writes so far

store == <<disk, failed>>
history == <<created, forgotten>>
vars == <<events, store, nodes, outstanding, ticks, channel, history, faults>>

Peers(n) == {m \in Node : <<n, m>> \in Link}

----------------------------------------------------------------------------
(***************************************************************************)
(* The storage of events.  Which of several equally old events a full      *)
(* category drops depends on the order of a HashMap: the operators give    *)
(* the set of the possible results.                                        *)
(***************************************************************************)
InCategory(s, c) == {e \in s : e.category = c}

\* Faulty: drops the newest ones.
LimitDropsNewest(s, c) ==
    LET mine == InCategory(s, c) IN
    IF Cardinality(mine) <= MaxEvents(c) THEN {s}
    ELSE {s \ out : out \in
            {o \in SUBSET mine :
                /\ Cardinality(mine \ o) = MaxEvents(c)
                /\ \A d \in o, k \in mine \ o : k.created <= d.created}}

\* Drops the oldest events of category c that are over the limit.
Limit(s, c) ==
    LET mine == InCategory(s, c) IN
    IF Cardinality(mine) <= MaxEvents(c) THEN {s}
    ELSE {s \ out : out \in
            {o \in SUBSET mine :
                /\ Cardinality(mine \ o) = MaxEvents(c)
                /\ \A d \in o, k \in mine \ o : k.created >= d.created}}

\* The event of the same source that a unique category has to give up for e.
Previous(s, e) ==
    IF Unique(e.category)
    THEN {f \in InCategory(s, e.category) : f.src = e.src}
    ELSE {}

\* Faulty: the previous event of the source stays.
InsertBeside(s, e) ==
    IF e \in s \/ (\E f \in Previous(s, e) : f.created > e.created)
    THEN {[events |-> s, inserted |-> <<>>]}
    ELSE {[events |-> t, inserted |-> <<e>>] : t \in Limit(s \cup {e}, e.category)}

\* Inserts e, unless it is known or its source has a newer one; the result
\* says whether it was inserted, even when the limit dropped it at once.
Insert(s, e) ==
    IF e \in s \/ (\E f \in Previous(s, e) : f.created > e.created)
    THEN {[events |-> s, inserted |-> <<>>]}
    ELSE {[events |-> t, inserted |-> <<e>>] :
            t \in Limit((s \ Previous(s, e)) \cup {e}, e.category)}

\* Inserts e after others, with result r so far.
InsertAfter(r, e) ==
    {[events |-> i.events, inserted |-> r.inserted \o i.inserted] :
        i \in Insert(r.events, e)}

\* Inserts the events of a list one after the other.
InsertAll(s, list) ==
    LET after[i \in 0..Len(list)] ==
            IF i = 0 THEN {[events |-> s, inserted |-> <<>>]}
            ELSE UNION {InsertAfter(r, list[i]) : r \in after[i - 1]}
    IN  after[Len(list)]

----------------------------------------------------------------------------
RequestEventIDs    == [type |-> "RequestEventIDs"]
KnownEventIDs(ids) == [type |-> "KnownEventIDs", ids |-> ids]
RequestEvents(ids) == [type |-> "RequestEvents", ids |-> ids]
Events(list)       == [type |-> "Events", events |-> list]

\* What send_events sends on behalf of src: every neighbour but src is told
\* the new events, without those that it created itself.
Advertised(n, src, new) ==
    [m \in nodes[n] \ {src, n} |->
        KnownEventIDs({e \in ToSet(new) : e.src # m})]

None == [m \in {} |-> RequestEventIDs]
Reply(m, msg) == [d \in {m} |-> msg]

\* Node n sends the messages of out, at most one to a node; those to a node
\* that is not linked any more go nowhere.
WithSent(ch, n, out) ==
    [c \in Link |-> IF c[1] = n /\ c[2] \in DOMAIN out
                    THEN Append(ch[c], out[c[2]]) ELSE ch[c]]

Send(n, out) == channel' = WithSent(channel, n, out)

\* Takes the next message m to n from its neighbour src, and answers it.
Take(n, src, type) == 
    /\ channel[<<src, n>>] # <<>>
    /\ Head(channel[<<src, n>>]).type = type
Answer(n, src, out) ==
    channel' = WithSent([channel EXCEPT ![<<src, n>>] = Tail(@)], n, out)

----------------------------------------------------------------------------
Init ==
    /\ events = [n \in Node |-> {}]
    /\ disk = [n \in Node |-> {}]
    /\ failed = {}
    /\ nodes = [n \in Node |-> {}]
    /\ outstanding = [n \in Node |-> {}]
    /\ ticks = [n \in Node |-> 0]
    /\ channel = [c \in Link |-> <<>>]
    /\ created = {}
    /\ forgotten = {}
    /\ faults = 0

Fault == faults < MaxFaults /\ faults' = faults + 1

\* Writes the events of n to its file.  When that fails there is only a
\* warning, and the file keeps what it had or is left empty or unreadable.
Store(n, new) ==
    \/ /\ disk' = [disk EXCEPT ![n] = new]
       /\ failed' = failed \ {n}
       /\ UNCHANGED faults
    \/ /\ Fault
       /\ \E left \in {disk[n], {}} : disk' = [disk EXCEPT ![n] = left]
       /\ failed' = failed \cup {n}

\* Faulty: stores only when there was somebody to tell.
KeepIfTold(n, r) ==
    /\ events' = [events EXCEPT ![n] = r.events]
    /\ IF r.inserted = <<>> \/ nodes[n] = {} THEN UNCHANGED <<store, faults>>
       ELSE Store(n, r.events)

\* Keeps what was inserted, and stores it when there was something.
Keep(n, r) ==
    /\ events' = [events EXCEPT ![n] = r.events]
    /\ IF r.inserted = <<>> THEN UNCHANGED <<store, faults>>
       ELSE Store(n, r.events)

\* The user of n writes a message, or n starts and describes itself; the clock
\* of a node advances.
AddEvent(n, e) ==
    /\ e.src = n
    /\ \A f \in created : f.src = n => f.created < e.created
    /\ created' = created \cup {e}
    /\ \E r \in Insert(events[n], e) :
          /\ Keep(n, r)
          /\ IF r.inserted = <<>> THEN UNCHANGED channel
             ELSE Send(n, Advertised(n, n, r.inserted))
    /\ UNCHANGED <<nodes, outstanding, ticks, forgotten>>

\* The module that connects to other nodes reports the connected ones.
UpdateNodeList(n, ids) ==
    /\ ids \subseteq Peers(n)
    /\ IF nodes[n] \subseteq ids THEN UNCHANGED faults ELSE Fault
    /\ Send(n, [m \in (ids \ nodes[n]) \ {n} |-> RequestEventIDs])
    /\ nodes' = [nodes EXCEPT ![n] = ids]
    /\ UNCHANGED <<events, store, outstanding, ticks, history>>

\* Faulty: what was asked for once is never asked for again.
TickOnlyAsks(n) ==
    /\ \A c \in Link : Len(channel[c]) < MaxQueue
    /\ ticks' = [ticks EXCEPT ![n] = IF @ < WarmUp THEN @ + 1 ELSE @]
    /\ IF ticks[n] + 1 >= WarmUp
       THEN Send(n, [m \in nodes[n] |-> RequestEventIDs])
       ELSE UNCHANGED channel
    /\ UNCHANGED <<events, store, nodes, outstanding, history, faults>>

\* The second timer.
Tick(n) ==
    /\ \A c \in Link : Len(channel[c]) < MaxQueue
    /\ IF ticks[n] + 1 >= WarmUp
       THEN /\ ticks' = [ticks EXCEPT ![n] = WarmUp]
            /\ outstanding' = [outstanding EXCEPT ![n] = {}]
            /\ Send(n, [m \in nodes[n] |-> RequestEventIDs])
       ELSE /\ ticks' = [ticks EXCEPT ![n] = @ + 1]
            /\ UNCHANGED <<outstanding, channel>>
    /\ UNCHANGED <<events, store, nodes, history, faults>>

\* Faulty: a node answers for its own events only.
NodeRequestEventIDsOwn(n, src) ==
    /\ Take(n, src, "RequestEventIDs")
    /\ Answer(n, src, Reply(src, KnownEventIDs({e \in events[n] : e.src = n})))
    /\ UNCHANGED <<events, store, nodes, outstanding, ticks, history, faults>>

\* src asks for the ids of all events.
NodeRequestEventIDs(n, src) ==
    /\ Take(n, src, "RequestEventIDs")
    /\ Answer(n, src, Reply(src, KnownEventIDs(events[n])))
    /\ UNCHANGED <<events, store, nodes, outstanding, ticks, history, faults>>

\* src knows some events: n asks for those that it has not, and has not asked
\* for since its last tick.
NodeKnownEventIDs(n, src) ==
    /\ Take(n, src, "KnownEventIDs")
    /\ LET unknown == (Head(channel[<<src, n>>]).ids \ events[n]) \ outstanding[n]
       IN  /\ outstanding' = [outstanding EXCEPT ![n] = @ \cup unknown]
           /\ Answer(n, src, IF unknown = {} THEN None
                             ELSE Reply(src, RequestEvents(unknown)))
    /\ UNCHANGED <<events, store, nodes, ticks, history, faults>>

\* src asks for events: it gets those that are still here, in some order.
NodeRequestEvents(n, src) ==
    /\ Take(n, src, "RequestEvents")
    /\ LET known == Head(channel[<<src, n>>]).ids \cap events[n]
       IN  \E list \in SetToSeqs(known) :
              Answer(n, src, IF known = {} THEN None
                             ELSE Reply(src, Events(list)))
    /\ UNCHANGED <<events, store, nodes, outstanding, ticks, history, faults>>

\* src sends events: n tells its other neighbours of those that were new, or
\* of none.
NodeEvents(n, src) ==
    /\ Take(n, src, "Events")
    /\ LET list == Head(channel[<<src, n>>]).events
       IN  /\ outstanding' = [outstanding EXCEPT ![n] = @ \ ToSet(list)]
           /\ \E r \in InsertAll(events[n], list) :
                 /\ Keep(n, r)
                 /\ Answer(n, src, Advertised(n, src, r.inserted))
    /\ UNCHANGED <<nodes, ticks, history>>

\* The connection, or a node that is not connected any more, loses a message.
Lose(c) ==
    /\ Fault
    /\ channel[c] # <<>>
    /\ channel' = [channel EXCEPT ![c] = Tail(@)]
    /\ UNCHANGED <<events, store, nodes, outstanding, ticks, history>>

\* A node stops, crashes or not, and starts from what is in its data storage,
\* with no events when the file is empty or unreadable; what was on its way to
\* it is lost.  (The crash that cuts off a write is one fault with it.)
Restart(n) ==
    /\ IF n \in failed THEN UNCHANGED faults ELSE Fault
    /\ events' = [events EXCEPT ![n] = disk[n]]
    /\ nodes' = [nodes EXCEPT ![n] = {}]
    /\ outstanding' = [outstanding EXCEPT ![n] = {}]
    /\ ticks' = [ticks EXCEPT ![n] = 0]
    /\ channel' = [c \in Link |-> IF c[2] = n THEN <<>> ELSE channel[c]]
    /\ failed' = failed \ {n}
    /\ forgotten' = IF n \in failed THEN created \ UNION {events'[m] : m \in Node}
                    ELSE forgotten
    /\ UNCHANGED <<disk, created>>

Handle(n, src) ==
    \/ NodeRequestEventIDs(n, src)
    \/ NodeKnownEventIDs(n, src)
    \/ NodeRequestEvents(n, src)
    \/ NodeEvents(n, src)

Next ==
    \E n \in Node :
        \/ \E e \in Event : AddEvent(n, e)
        \/ \E ids \in SUBSET Peers(n) : UpdateNodeList(n, ids)
        \/ Tick(n)
        \/ \E src \in Peers(n) : NodeRequestEventIDs(n, src)
        \/ \E src \in Peers(n) : NodeKnownEventIDs(n, src)
        \/ \E src \in Peers(n) : NodeRequestEvents(n, src)
        \/ \E src \in Peers(n) : NodeEvents(n, src)
        \/ \E src \in Peers(n) : Lose(<<src, n>>)
        \/ Restart(n)

Spec == Init /\ [][Next]_vars

\* Messages are handled as they arrive, the timer never stops (only the bound
\* MaxQueue holds it up), and a node is told of its neighbours after every
\* change.
Fairness ==
    \A n \in Node :
        /\ SF_vars(Tick(n))
        /\ WF_vars(UpdateNodeList(n, Peers(n)) /\ nodes[n] # Peers(n))
        /\ \A src \in Peers(n) : WF_vars(Handle(n, src))

FairSpec == Spec /\ Fairness

----------------------------------------------------------------------------
Message ==
    {RequestEventIDs}
        \cup [type : {"KnownEventIDs", "RequestEvents"}, ids : SUBSET Event]
        \cup [type : {"Events"}, events : SetToAllKPermutations(Event)]

\* The type of every variable.
TypeOK ==
    /\ events \in [Node -> SUBSET created]
    /\ disk \in [Node -> SUBSET created]
    /\ failed \subseteq Node
    /\ nodes \in [Node -> SUBSET Node]
    /\ outstanding \in [Node -> SUBSET created]
    /\ ticks \in [Node -> 0..WarmUp]
    /\ DOMAIN channel = Link
    /\ \A c \in Link : ToSet(channel[c]) \subseteq Message
    /\ created \subseteq Event
    /\ forgotten \subseteq created

\* A node whose last write was successful has all its events in its file, also
\* those that it got while it had no neighbours (the remark in node_events),
\* and after writes that failed: one that succeeds makes up for all of them.
EventsAreDurable == \A n \in Node \ failed : disk[n] = events[n]

\* No category outgrows its limit, and one with unique events has one for
\* each node, in whatever order the events of that node arrive.
WithinLimits ==
    \A n \in Node, c \in Category :
        LET mine == InCategory(events[n], c) IN
        /\ Cardinality(mine) <= MaxEvents(c)
        /\ Unique(c) => \A e, f \in mine : e.src = f.src => e = f

\* The events of every node, between two messages: only such that a user created, and within the
\* limits of their categories.
EventsWellFormed == TypeOK /\ WithinLimits

\* "Keep only the most recent": an event goes only when its source has a newer
\* one, when the category is full of events that are as new, or when the node
\* restarts after a write that failed.
Superseded(e, s) ==
    LET newer == {f \in InCategory(s, e.category) : f.created >= e.created} IN
    \/ Unique(e.category) /\ \E f \in newer : f.src = e.src
    \/ Cardinality(newer) = MaxEvents(e.category)

OldestGoFirst ==
    [][\A n \in Node : \A e \in events[n] \ events'[n] :
          \/ Superseded(e, events'[n])
          \/ n \in failed /\ events'[n] = disk[n]]_vars

\* The events that a network should remember of those in s: the newest of
\* every source in a category with unique events, and of these the newest up
\* to the limit.
Newest(s) ==
    LET Relevant(c) ==
            {e \in InCategory(s, c) :
                ~ (Unique(c) /\ \E f \in InCategory(s, c) :
                                    f.src = e.src /\ f.created > e.created)}
        Kept(c) ==
            {e \in Relevant(c) :
                Cardinality({f \in Relevant(c) : f.created > e.created})
                    < MaxEvents(c)}
    IN  UNION {Kept(c) : c \in Category}

\* Whatever was lost, whoever restarted, whichever write failed and in whatever
\* order events arrived: in the end all nodes hold the newest events of those
\* that were created, and nothing else.  Only of events that nobody held after
\* a restart it is open whether a message brought them back.  (Events of a
\* category are created at different times.)
GossipSettles ==
    <>[](\E lost \in SUBSET forgotten :
            \A n \in Node : events[n] = Newest(created \ lost))

=============================================================================
