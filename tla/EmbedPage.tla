----------------------------- MODULE EmbedPage -----------------------------
(***************************************************************************)
(* How the browser shows a page of the DHT: embedPage of                   *)
(* flbrowser/src/main.js.  A page is an html text of anybody; it is put    *)
(* into a shadow root of its own, the scripts with a source are fetched    *)
(* and run as they arrive, and the inline scripts run once all fetches are *)
(* settled.  If that takes more than a second, an alert is shown instead.  *)
(*                                                                         *)
(* Every call of embedPage is numbered; the last one owns the screen.      *)
(* embedPage, the callbacks of its promises and its timer each run to      *)
(* their end without an interruption.  The callbacks of promises           *)
(* (microtasks) come before the next timer or network event (tasks), but   *)
(* the rust code that calls embedPage runs in microtasks, too.             *)
(*                                                                         *)
(* The alert blocks nothing here: it is a state of the embedding.          *)
(***************************************************************************)
EXTENDS Naturals, SequencesExt

CONSTANTS
    Data,        \* the html texts
    Scripts(_),  \* the <script> elements of a text: "external" or "inline"
    MaxEmbeds    \* bound on the calls of embedPage

Script == {"external", "inline"}

ASSUME EmbedAssumption ==
    /\ \A d \in Data : Scripts(d) \in Seq(Script)
    /\ MaxEmbeds \in Nat

VARIABLES
    embeds,       \* the calls of embedPage, in their order
    documentRoot  \* the global variable of the scripts: a call, or 0 if unset

embedVars == <<embeds, documentRoot>>

\* The scripts of one kind in a text, by their places.
Of(kind, d) == {i \in DOMAIN Scripts(d) : Scripts(d)[i] = kind}

\* What is known of one call.  outcome is the state of Promise.race: "waiting", "loaded" when
\* all fetches are settled but the callback of then did not run yet, "ran" once it did, and
\* "alerted" when the timer was first.  executed are the scripts that ran, in their order.
Embedding ==
    [data : Data, fetching : SUBSET Nat, timer : BOOLEAN,
     outcome : {"waiting", "loaded", "ran", "alerted"}, executed : Seq(Nat)]

\* The call whose shadow root is in the document.
Shown == Len(embeds)

MicrotaskPending == \E g \in DOMAIN embeds : embeds[g].outcome = "loaded"

----------------------------------------------------------------------------
EmbedInit == embeds = <<>> /\ documentRoot = 0

\* Faulty: the race is not waited for.
EmbedPageAtOnce(d) ==
    /\ Len(embeds) < MaxEmbeds
    /\ embeds' = Append(embeds, [data |-> d, fetching |-> Of("external", d), timer |-> TRUE,
                                executed |-> <<>>, outcome |-> "loaded"])
    /\ UNCHANGED documentRoot

\* embedPage: replaces what is shown, starts the fetches and the timer.  Promise.all of no
\* promise is fulfilled at once.
EmbedPage(d) ==
    /\ Len(embeds) < MaxEmbeds
    /\ embeds' = Append(embeds,
           [data |-> d, fetching |-> Of("external", d), timer |-> TRUE, executed |-> <<>>,
            outcome |-> IF Of("external", d) = {} THEN "loaded" ELSE "waiting"])
    /\ UNCHANGED documentRoot

\* appendScript for some scripts of call g: they are executed only if its shadow root is in the
\* document, and set documentRoot to the one that is.
Executes(g) == g = Shown

AppendScripts(g, scripts, after) ==
    IF Executes(g) /\ scripts # <<>>
    THEN /\ embeds' = [embeds EXCEPT ![g] = [after EXCEPT !.executed = @ \o scripts]]
         /\ documentRoot' = Shown
    ELSE /\ embeds' = [embeds EXCEPT ![g] = after]
         /\ UNCHANGED documentRoot

\* Faulty: no race, the timer only shows the alert.
SettledAfterAll(g, i) ==
    LET rest == embeds[g].fetching \ {i}
    IN  [embeds[g] EXCEPT !.fetching = rest, !.outcome = IF rest = {} THEN "loaded" ELSE @]

\* The fetch of script i is settled: all of Promise.all may be, and so is the race, if the
\* timer was not first.
Settled(g, i) ==
    LET e == embeds[g]
        rest == e.fetching \ {i}
    IN  [e EXCEPT !.fetching = rest,
                  !.outcome = IF rest = {} /\ @ = "waiting" THEN "loaded" ELSE @]

\* A script arrives, whatever became of the race and of the page.
ScriptArrives(g, i) ==
    /\ ~MicrotaskPending
    /\ i \in embeds[g].fetching
    /\ AppendScripts(g, <<i>>, Settled(g, i))

\* A fetch fails: the error is only logged.
FetchFails(g, i) ==
    /\ ~MicrotaskPending
    /\ i \in embeds[g].fetching
    /\ embeds' = [embeds EXCEPT ![g] = Settled(g, i)]
    /\ UNCHANGED documentRoot

\* The inline scripts in the order of the document: one sequence.
InlineScripts(d) ==
    {s \in SetToSeqs(Of("inline", d)) : \A k, l \in DOMAIN s : k < l => s[k] < s[l]}

\* The callback of then.
RunInlineScripts(g) ==
    /\ embeds[g].outcome = "loaded"
    /\ \E scripts \in InlineScripts(embeds[g].data) :
            AppendScripts(g, scripts, [embeds[g] EXCEPT !.outcome = "ran"])

\* Faulty: the timer of a page ends with it.
TimeoutOfShown(g) ==
    /\ ~MicrotaskPending
    /\ embeds[g].timer /\ g = Shown
    /\ embeds' = [embeds EXCEPT ![g].timer = FALSE,
                                ![g].outcome = IF @ = "waiting" THEN "alerted" ELSE @]
    /\ UNCHANGED documentRoot

\* The timer: it rejects the race, if that is still open.
Timeout(g) ==
    /\ ~MicrotaskPending
    /\ embeds[g].timer
    /\ embeds' = [embeds EXCEPT ![g].timer = FALSE,
                                ![g].outcome = IF @ = "waiting" THEN "alerted" ELSE @]
    /\ UNCHANGED documentRoot

BrowserNext ==
    \E g \in DOMAIN embeds :
        \/ \E i \in embeds[g].fetching : ScriptArrives(g, i) \/ FetchFails(g, i)
        \/ RunInlineScripts(g)
        \/ Timeout(g)

\* The browser runs its microtasks and its timers; a fetch may take for ever.
BrowserFairness ==
    \A g \in 1..MaxEmbeds :
        /\ WF_embedVars(g \in DOMAIN embeds /\ RunInlineScripts(g))
        /\ WF_embedVars(g \in DOMAIN embeds /\ Timeout(g))
=============================================================================
