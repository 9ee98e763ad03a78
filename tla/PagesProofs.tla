---------------------------- MODULE PagesProofs ----------------------------
(***************************************************************************)
(* Proofs about the page editor and the embedding of pages, for any pages, *)
(* texts and scripts.                                                      *)
(*                                                                         *)
(* The embedding (EmbedsOK): as long as the race of a page is open, only   *)
(* external scripts ran, and once it is won, no fetch is left; so inline   *)
(* scripts come last.  The editor (EditorOK): no step takes a page out of  *)
(* the view, and while an update waits, it is of the page that is edited   *)
(* and of the text of its click.  The user's own versions (OwnOK): what is *)
(* on its way to the storage is in the view, as new or newer, because the  *)
(* view is refreshed only when nothing is on its way.                      *)
(***************************************************************************)
EXTENDS Pages, FiniteSetTheorems, TLAPS

EmbedOK(e) ==
    /\ e \in Embedding
    /\ e.fetching \subseteq Of("external", e.data)
    /\ e.outcome \in {"loaded", "ran"} => e.fetching = {}
    /\ \A k \in DOMAIN e.executed : e.executed[k] \in DOMAIN Scripts(e.data)
    /\ e.outcome # "ran" =>
        \A k \in DOMAIN e.executed : Scripts(e.data)[e.executed[k]] = "external"
    /\ \A k, l \in DOMAIN e.executed :
        k < l /\ Scripts(e.data)[e.executed[k]] = "inline" =>
            Scripts(e.data)[e.executed[l]] = "inline" /\ e.executed[k] < e.executed[l]

EmbedsOK ==
    /\ embeds \in Seq(Embedding) /\ documentRoot \in 0..Len(embeds)
    /\ \A g \in DOMAIN embeds : EmbedOK(embeds[g])

\* Pages as the storage and the view hold them.
PagesOK(pages) == DOMAIN pages \subseteq PageID /\ \A id \in DOMAIN pages : pages[id] \in Page

ClicksOK ==
    \A i \in DOMAIN clicks : clicks[i].name \in {"view", "edit"} => clicks[i].id \in DOMAIN view

EditorOK ==
    /\ ClicksOK
    /\ homeId \in DOMAIN view
    /\ editId \in DOMAIN view \cup {NoPage}
    /\ ~Ace => editor = Empty
    /\ IF task = "updating" THEN editId # NoPage /\ updating = {atClick} ELSE updating = {}

\* What the storage gets is in the view; what it took of this user's and still has, it has as new
\* or newer; and so has the view, unless it took an answer of another node.
QueueInView ==
    \A i \in DOMAIN storing :
        /\ storing[i].id \in DOMAIN view
        /\ storing[i].page.version <= view[storing[i].id].version

OwnStored ==
    \A id \in PageID :
        own[id] # NoVersion => id \in DOMAIN stored /\ own[id] <= stored[id].version

OwnOK == QueueInView /\ OwnStored /\ ViewHasOwnUpdates

\* The types of the variables of the storage, and of the task.
StorageOK ==
    /\ PagesOK(stored)
    /\ storing \in Seq(Flo)
    /\ asked \subseteq published /\ published \subseteq PageID
    /\ own \in [PageID -> -1..MaxVersion]

TaskOK ==
    /\ PagesOK(view)
    /\ homeId \in PageID /\ editId \in PageID \cup {NoPage}
    /\ editor \in Data /\ task \in Task
    /\ updating \in SUBSET Data /\ reading \subseteq PageID
    /\ clicks \in Seq(Button) /\ clicked \in 0..MaxClicks
    /\ atClick \in Data

IInv == EmbedsOK /\ StorageOK /\ TaskOK /\ EditorOK /\ OwnOK

----------------------------------------------------------------------------
(***************************************************************************)
(* The embedding of pages.                                                 *)
(***************************************************************************)
\* An embedding with one of its fields changed.
LEMMA EmbeddingExcept ==
    ASSUME NEW e \in Embedding, NEW a
    PROVE  /\ [e EXCEPT !.fetching = a] =
                [data |-> e.data, fetching |-> a, timer |-> e.timer,
                 outcome |-> e.outcome, executed |-> e.executed]
           /\ [e EXCEPT !.timer = a] =
                [data |-> e.data, fetching |-> e.fetching, timer |-> a,
                 outcome |-> e.outcome, executed |-> e.executed]
           /\ [e EXCEPT !.outcome = a] =
                [data |-> e.data, fetching |-> e.fetching, timer |-> e.timer,
                 outcome |-> a, executed |-> e.executed]
           /\ [e EXCEPT !.executed = a] =
                [data |-> e.data, fetching |-> e.fetching, timer |-> e.timer,
                 outcome |-> e.outcome, executed |-> a]
<1>1. e = [data |-> e.data, fetching |-> e.fetching, timer |-> e.timer,
           outcome |-> e.outcome, executed |-> e.executed]
  BY DEF Embedding
<1> QED
  BY <1>1

LEMMA OfFacts ==
    ASSUME NEW d \in Data, NEW kind
    PROVE  /\ Scripts(d) \in Seq(Script)
           /\ Of(kind, d) \subseteq Nat /\ IsFiniteSet(Of(kind, d))
           /\ \A i \in Of(kind, d) : i \in DOMAIN Scripts(d) /\ Scripts(d)[i] = kind
<1>1. Scripts(d) \in Seq(Script)
  BY EmbedAssumption
<1>2. DOMAIN Scripts(d) = 1..Len(Scripts(d)) /\ Len(Scripts(d)) \in Nat
  BY <1>1
<1>3. IsFiniteSet(DOMAIN Scripts(d))
  BY <1>2, FS_Interval
<1>4. IsFiniteSet(Of(kind, d))
  BY <1>3, FS_Subset DEF Of
<1> QED
  BY <1>1, <1>2, <1>4 DEF Of

\* The inline scripts of a text are a sequence that grows.
LEMMA InlineScriptsFacts ==
    ASSUME NEW d \in Data, NEW s \in InlineScripts(d)
    PROVE  /\ s \in Seq(Nat)
           /\ \A k \in DOMAIN s : s[k] \in DOMAIN Scripts(d) /\ Scripts(d)[s[k]] = "inline"
           /\ \A k, l \in DOMAIN s : k < l => s[k] < s[l]
<1> DEFINE S == Of("inline", d)
           n == Cardinality(S)
<1>1. n \in Nat /\ S \subseteq Nat
  BY OfFacts, FS_CardinalityType
<1>2. s \in [1..n -> S] /\ \A k, l \in DOMAIN s : k < l => s[k] < s[l]
  BY DEF InlineScripts, SetToSeqs
<1>3. \A i \in S : i \in DOMAIN Scripts(d) /\ Scripts(d)[i] = "inline"
  BY OfFacts
<1> HIDE DEF S, n
<1>4. s \in Seq(Nat)
  <2>1. s \in [1..n -> Nat]
    BY <1>1, <1>2
  <2> QED
    BY <1>1, <2>1
<1> QED
  BY <1>2, <1>3, <1>4

\* One call of embedPage changes.
LEMMA OneChanges ==
    ASSUME EmbedsOK, NEW g \in DOMAIN embeds, NEW e, EmbedOK(e),
           embeds' = [embeds EXCEPT ![g] = e],
           documentRoot' \in {documentRoot, Shown}
    PROVE  EmbedsOK'
<1>1. embeds' \in Seq(Embedding) /\ Len(embeds') = Len(embeds)
  BY DEF EmbedsOK, EmbedOK
<1>2. documentRoot' \in 0..Len(embeds')
  BY <1>1 DEF EmbedsOK, Shown
<1>3. \A h \in DOMAIN embeds' : EmbedOK(embeds'[h])
  BY DEF EmbedsOK
<1> QED
  BY <1>1, <1>2, <1>3 DEF EmbedsOK

LEMMA EmbedPageOK ==
    ASSUME EmbedsOK, NEW d \in Data, EmbedPage(d)
    PROVE  /\ EmbedsOK'
           /\ \A g \in DOMAIN embeds : g \in DOMAIN embeds' /\ embeds'[g] = embeds[g]
<1> DEFINE e == [data |-> d, fetching |-> Of("external", d), timer |-> TRUE,
                 executed |-> <<>>,
                 outcome |-> IF Of("external", d) = {} THEN "loaded" ELSE "waiting"]
<1>1. embeds' = Append(embeds, e) /\ documentRoot' = documentRoot
  BY DEF EmbedPage
<1>2. e \in Embedding
  <2>1. <<>> \in Seq(Nat) /\ Of("external", d) \in SUBSET Nat
    BY OfFacts
  <2> QED
    BY <2>1 DEF Embedding
<1>3. EmbedOK(e)
  BY <1>2 DEF EmbedOK
<1> HIDE DEF e
<1>4. /\ embeds' \in Seq(Embedding) /\ Len(embeds') = Len(embeds) + 1
      /\ \A g \in DOMAIN embeds : g \in DOMAIN embeds' /\ embeds'[g] = embeds[g]
      /\ embeds'[Len(embeds) + 1] = e
  BY <1>1, <1>2 DEF EmbedsOK
<1>5. ASSUME NEW g \in DOMAIN embeds' PROVE EmbedOK(embeds'[g])
  <2>1. g \in DOMAIN embeds \/ g = Len(embeds) + 1
    BY <1>4 DEF EmbedsOK
  <2> QED
    BY <2>1, <1>3, <1>4 DEF EmbedsOK
<1> QED
  BY <1>1, <1>4, <1>5 DEF EmbedsOK

\* Scripts that run in the shown page, or not at all.
LEMMA AppendScriptsFacts ==
    ASSUME EmbedsOK, NEW g \in DOMAIN embeds, NEW s \in Seq(Nat), NEW after \in Embedding,
           AppendScripts(g, s, after)
    PROVE  \/ /\ embeds' = [embeds EXCEPT ![g] = [after EXCEPT !.executed = after.executed \o s]]
              /\ g = Shown /\ documentRoot' = g
           \/ embeds' = [embeds EXCEPT ![g] = after] /\ documentRoot' = documentRoot
BY DEF AppendScripts, Executes

LEMMA SettledOK ==
    ASSUME NEW g \in DOMAIN embeds, EmbedOK(embeds[g]), NEW i \in embeds[g].fetching
    PROVE  /\ EmbedOK(Settled(g, i))
           /\ Settled(g, i).executed = embeds[g].executed /\ Settled(g, i).data = embeds[g].data
           /\ embeds[g].outcome \notin {"loaded", "ran"} /\ Settled(g, i).outcome # "ran"
           /\ embeds[g].outcome = "alerted" => Settled(g, i).outcome = "alerted"
           /\ i \in Nat /\ i \in Of("external", embeds[g].data)
<1> DEFINE e == embeds[g]
           f == Settled(g, i)
           rest == e.fetching \ {i}
           outcome == IF rest = {} /\ e.outcome = "waiting" THEN "loaded" ELSE e.outcome
<1>1. e \in Embedding
  BY DEF EmbedOK
<1>2. f = [data |-> e.data, fetching |-> rest, timer |-> e.timer, outcome |-> outcome,
           executed |-> e.executed]
  <2> DEFINE h == [e EXCEPT !.fetching = rest]
  <2>1. f = [e EXCEPT !.fetching = rest, !.outcome = outcome]
    BY DEF Settled
  <2>2. h = [data |-> e.data, fetching |-> rest, timer |-> e.timer, outcome |-> e.outcome,
             executed |-> e.executed]
    BY <1>1, EmbeddingExcept
  <2> HIDE DEF f, rest, outcome, e
  <2>3. f = [h EXCEPT !.outcome = outcome]
    BY <1>1, <2>1 DEF Embedding
  <2> HIDE DEF h
  <2> QED
    BY <2>2, <2>3
<1>3. e.outcome \in {"waiting", "alerted"}
  BY <1>1 DEF EmbedOK, Embedding
<1>4. f \in Embedding
  <2>1. /\ e.data \in Data /\ rest \in SUBSET Nat /\ e.timer \in BOOLEAN
        /\ e.executed \in Seq(Nat)
    BY <1>1 DEF Embedding
  <2> QED
    BY <1>2, <1>3, <2>1 DEF Embedding
<1>5. i \in Nat /\ i \in Of("external", e.data)
  BY <1>1 DEF EmbedOK, Embedding
<1>6. /\ f.data = e.data /\ f.fetching = rest /\ f.executed = e.executed
      /\ f.outcome = outcome
  BY <1>2
<1>7. /\ f.outcome # "ran" /\ (f.outcome = "loaded" => rest = {})
      /\ e.outcome = "alerted" => f.outcome = "alerted"
  BY <1>3, <1>6
<1> HIDE DEF f
<1>8. EmbedOK(f)
  BY <1>3, <1>4, <1>6, <1>7 DEF EmbedOK
<1> QED
  BY <1>3, <1>5, <1>6, <1>7, <1>8 DEF f

\* What a step of the browser does to one call of embedPage.
BrowserStep(g) ==
    /\ \A h \in DOMAIN embeds \ {g} : embeds'[h] = embeds[h]
    /\ DOMAIN embeds' = DOMAIN embeds
    /\ embeds'[g].data = embeds[g].data
    /\ embeds[g].outcome = "alerted" =>
        /\ embeds'[g].outcome = "alerted"
        /\ \A i \in Range(embeds'[g].executed) \ Range(embeds[g].executed) :
                Scripts(embeds[g].data)[i] = "external"

LEMMA ScriptArrivesOK ==
    ASSUME EmbedsOK, NEW g \in DOMAIN embeds, NEW i \in embeds[g].fetching, ScriptArrives(g, i)
    PROVE  EmbedsOK' /\ BrowserStep(g)
<1> DEFINE e == embeds[g]
           f == Settled(g, i)
           x == [f EXCEPT !.executed = f.executed \o <<i>>]
<1>1. EmbedOK(e) /\ g \in 1..Len(embeds)
  BY DEF EmbedsOK
<1>2. /\ EmbedOK(f) /\ f.executed = e.executed /\ f.data = e.data
      /\ e.outcome \notin {"loaded", "ran"} /\ f.outcome # "ran"
      /\ e.outcome = "alerted" => f.outcome = "alerted"
      /\ i \in Nat /\ i \in Of("external", e.data)
  BY <1>1, SettledOK
<1>3. e \in Embedding /\ f \in Embedding
  BY <1>1, <1>2 DEF EmbedOK
<1>4. \/ embeds' = [embeds EXCEPT ![g] = x] /\ g = Shown /\ documentRoot' = g
      \/ embeds' = [embeds EXCEPT ![g] = f] /\ documentRoot' = documentRoot
  BY <1>2, <1>3, <<i>> \in Seq(Nat), AppendScriptsFacts DEF ScriptArrives
<1> HIDE DEF f
<1>5. /\ f.executed \in Seq(Nat) /\ e.data \in Data
      /\ f = [data |-> f.data, fetching |-> f.fetching, timer |-> f.timer,
              outcome |-> f.outcome, executed |-> f.executed]
  BY <1>3 DEF Embedding
<1>6. /\ x.data = e.data /\ x.outcome = f.outcome /\ x.fetching = f.fetching
      /\ x.executed = f.executed \o <<i>>
      /\ x \in Embedding
  <2>1. f.executed \o <<i>> \in Seq(Nat)
    BY <1>2, <1>5
  <2> QED
    BY <1>2, <1>3, <1>5, <2>1 DEF Embedding
<1> HIDE DEF x
<1>7. /\ DOMAIN x.executed = 1..(Len(f.executed) + 1) /\ DOMAIN f.executed = 1..Len(f.executed)
      /\ Len(f.executed) \in Nat
      /\ \A k \in DOMAIN f.executed : x.executed[k] = f.executed[k]
      /\ x.executed[Len(f.executed) + 1] = i
  BY <1>2, <1>5, <1>6
<1>8. i \in DOMAIN Scripts(e.data) /\ Scripts(e.data)[i] = "external"
  BY <1>2, <1>5, OfFacts
<1>9. \A k \in DOMAIN x.executed :
        x.executed[k] \in DOMAIN Scripts(e.data) /\ Scripts(e.data)[x.executed[k]] = "external"
  <2> SUFFICES ASSUME NEW k \in DOMAIN x.executed
               PROVE  /\ x.executed[k] \in DOMAIN Scripts(e.data)
                      /\ Scripts(e.data)[x.executed[k]] = "external"
    OBVIOUS
  <2>1. CASE k = Len(f.executed) + 1
    BY <2>1, <1>7, <1>8
  <2>2. CASE k # Len(f.executed) + 1
    <3>1. k \in DOMAIN f.executed /\ x.executed[k] = f.executed[k]
      BY <2>2, <1>7
    <3> QED
      BY <3>1, <1>2 DEF EmbedOK
  <2> QED
    BY <2>1, <2>2
<1>10. EmbedOK(x)
  BY <1>2, <1>6, <1>9 DEF EmbedOK
<1>11. EmbedsOK'
  BY <1>2, <1>4, <1>10, OneChanges DEF Shown
<1>12. embeds'[g] \in {f, x}
  BY <1>1, <1>4 DEF EmbedsOK
<1>13. \A j \in Range(x.executed) \ Range(e.executed) : Scripts(e.data)[j] = "external"
  BY <1>9 DEF Range
<1>14. BrowserStep(g)
  BY <1>1, <1>2, <1>4, <1>6, <1>12, <1>13 DEF BrowserStep, EmbedsOK
<1> QED
  BY <1>11, <1>14

LEMMA FetchFailsOK ==
    ASSUME EmbedsOK, NEW g \in DOMAIN embeds, NEW i \in embeds[g].fetching, FetchFails(g, i)
    PROVE  EmbedsOK' /\ BrowserStep(g)
<1>1. EmbedOK(embeds[g])
  BY DEF EmbedsOK
<1>2. embeds' = [embeds EXCEPT ![g] = Settled(g, i)] /\ documentRoot' = documentRoot
  BY DEF FetchFails
<1>3. /\ EmbedOK(Settled(g, i))
      /\ Settled(g, i).executed = embeds[g].executed /\ Settled(g, i).data = embeds[g].data
      /\ embeds[g].outcome = "alerted" => Settled(g, i).outcome = "alerted"
  BY <1>1, SettledOK
<1>4. EmbedsOK'
  BY <1>2, <1>3, OneChanges
<1>5. BrowserStep(g)
  BY <1>2, <1>3 DEF BrowserStep, EmbedsOK
<1> QED
  BY <1>4, <1>5

LEMMA RunInlineScriptsOK ==
    ASSUME EmbedsOK, NEW g \in DOMAIN embeds, RunInlineScripts(g)
    PROVE  EmbedsOK' /\ BrowserStep(g)
<1> DEFINE e == embeds[g]
           f == [e EXCEPT !.outcome = "ran"]
<1>1. EmbedOK(e) /\ e \in Embedding /\ e.outcome = "loaded" /\ g \in 1..Len(embeds)
  BY DEF EmbedsOK, EmbedOK, RunInlineScripts
<1>2. PICK s \in InlineScripts(e.data) : AppendScripts(g, s, f)
  BY DEF RunInlineScripts
<1> DEFINE x == [f EXCEPT !.executed = f.executed \o s]
<1>3. /\ e.data \in Data /\ e.executed \in Seq(Nat)
      /\ e = [data |-> e.data, fetching |-> e.fetching, timer |-> e.timer,
              outcome |-> e.outcome, executed |-> e.executed]
  BY <1>1 DEF Embedding
<1>4. /\ f = [data |-> e.data, fetching |-> e.fetching, timer |-> e.timer,
              outcome |-> "ran", executed |-> e.executed]
      /\ f \in Embedding
  BY <1>1, <1>3 DEF Embedding
<1>5. /\ s \in Seq(Nat)
      /\ \A k \in DOMAIN s :
            s[k] \in DOMAIN Scripts(e.data) /\ Scripts(e.data)[s[k]] = "inline"
      /\ \A k, l \in DOMAIN s : k < l => s[k] < s[l]
  BY <1>2, <1>3, InlineScriptsFacts
<1>6. \/ embeds' = [embeds EXCEPT ![g] = x] /\ g = Shown /\ documentRoot' = g
      \/ embeds' = [embeds EXCEPT ![g] = f] /\ documentRoot' = documentRoot
  BY <1>2, <1>4, <1>5, AppendScriptsFacts
<1>7. EmbedOK(f)
  BY <1>1, <1>4 DEF EmbedOK
<1>8. /\ x = [data |-> e.data, fetching |-> e.fetching, timer |-> e.timer,
              outcome |-> "ran", executed |-> e.executed \o s]
      /\ x \in Embedding
  <2>1. e.executed \o s \in Seq(Nat)
    BY <1>3, <1>5
  <2>2. x = [data |-> e.data, fetching |-> e.fetching, timer |-> e.timer,
             outcome |-> "ran", executed |-> e.executed \o s]
    <3>1. f.executed = e.executed
      BY <1>4
    <3> HIDE DEF f
    <3> QED
      BY <1>4, <3>1, EmbeddingExcept
  <2> QED
    BY <1>1, <2>1, <2>2 DEF Embedding
<1> HIDE DEF f, x
<1> DEFINE m == Len(e.executed)
           y == x.executed
<1>9. /\ m \in Nat /\ Len(s) \in Nat
      /\ DOMAIN e.executed = 1..m /\ DOMAIN s = 1..Len(s) /\ DOMAIN y = 1..(m + Len(s))
      /\ \A k \in 1..m : y[k] = e.executed[k]
      /\ \A k \in (m + 1)..(m + Len(s)) : k - m \in DOMAIN s /\ y[k] = s[k - m]
  BY <1>3, <1>5, <1>8
<1> HIDE DEF m, y
<1>10. \A k \in 1..m :
        y[k] \in DOMAIN Scripts(e.data) /\ Scripts(e.data)[y[k]] = "external"
  BY <1>1, <1>9 DEF EmbedOK
<1>11. \A k \in (m + 1)..(m + Len(s)) :
        y[k] \in DOMAIN Scripts(e.data) /\ Scripts(e.data)[y[k]] = "inline"
  <2> TAKE k \in (m + 1)..(m + Len(s))
  <2>1. k - m \in DOMAIN s /\ y[k] = s[k - m]
    BY <1>9
  <2> QED
    BY <1>5, <2>1
<1>12. \A k \in DOMAIN y : y[k] \in DOMAIN Scripts(e.data)
  BY <1>9, <1>10, <1>11
<1>13. ASSUME NEW k \in DOMAIN y, NEW l \in DOMAIN y, k < l,
              Scripts(e.data)[y[k]] = "inline"
       PROVE  Scripts(e.data)[y[l]] = "inline" /\ y[k] < y[l]
  <2>1. k \in (m + 1)..(m + Len(s)) /\ l \in (m + 1)..(m + Len(s))
    BY <1>9, <1>10, <1>13
  <2>2. s[k - m] < s[l - m]
    BY <1>5, <1>9, <1>13, <2>1
  <2> QED
    BY <1>9, <1>11, <2>1, <2>2
<1>14. EmbedOK(x)
  <2>1. /\ x.data = e.data /\ x.fetching = e.fetching /\ x.outcome = "ran"
        /\ x.executed = y
    BY <1>8 DEF y
  <2> QED
    BY <1>1, <1>8, <1>12, <1>13, <2>1 DEF EmbedOK
<1>15. EmbedsOK'
  BY <1>6, <1>7, <1>14, OneChanges DEF Shown
<1>16. /\ f.data = e.data /\ f.executed = e.executed /\ x.data = e.data
       /\ embeds'[g] \in {f, x}
  BY <1>1, <1>4, <1>6, <1>8 DEF EmbedsOK
<1>17. BrowserStep(g)
  BY <1>1, <1>6, <1>16 DEF BrowserStep, EmbedsOK
<1> QED
  BY <1>15, <1>17

LEMMA TimeoutOK ==
    ASSUME EmbedsOK, NEW g \in DOMAIN embeds, Timeout(g)
    PROVE  EmbedsOK' /\ BrowserStep(g)
<1> DEFINE e == embeds[g]
           f == [e EXCEPT !.timer = FALSE,
                          !.outcome = IF e.outcome = "waiting" THEN "alerted" ELSE e.outcome]
<1>1. EmbedOK(e) /\ e \in Embedding
  BY DEF EmbedsOK, EmbedOK
<1>2. f = [data |-> e.data, fetching |-> e.fetching, timer |-> FALSE,
           outcome |-> IF e.outcome = "waiting" THEN "alerted" ELSE e.outcome,
           executed |-> e.executed]
  <2> DEFINE h == [e EXCEPT !.timer = FALSE]
             outcome == IF e.outcome = "waiting" THEN "alerted" ELSE e.outcome
  <2>1. h = [data |-> e.data, fetching |-> e.fetching, timer |-> FALSE,
             outcome |-> e.outcome, executed |-> e.executed]
    BY <1>1, EmbeddingExcept
  <2> HIDE DEF e, outcome
  <2>2. f = [h EXCEPT !.outcome = outcome]
    BY <1>1 DEF Embedding, outcome
  <2> HIDE DEF f, h
  <2> QED
    BY <2>1, <2>2 DEF outcome
<1>3. embeds' = [embeds EXCEPT ![g] = f] /\ documentRoot' = documentRoot
  BY DEF Timeout, EmbedsOK
<1>4. f \in Embedding
  BY <1>1, <1>2 DEF Embedding
<1>5. /\ f.data = e.data /\ f.fetching = e.fetching /\ f.executed = e.executed
      /\ f.outcome \in {"loaded", "ran"} => e.outcome = f.outcome
      /\ e.outcome \in {"alerted", "ran"} => e.outcome = f.outcome
  BY <1>2
<1> HIDE DEF f
<1>6. EmbedOK(f)
  BY <1>1, <1>4, <1>5 DEF EmbedOK
<1>7. EmbedsOK'
  BY <1>3, <1>6, OneChanges
<1>8. BrowserStep(g)
  BY <1>3, <1>5 DEF BrowserStep, EmbedsOK
<1> QED
  BY <1>7, <1>8

LEMMA BrowserOK ==
    ASSUME EmbedsOK, BrowserNext
    PROVE  EmbedsOK' /\ \E g \in DOMAIN embeds : BrowserStep(g)
BY ScriptArrivesOK, FetchFailsOK, RunInlineScriptsOK, TimeoutOK DEF BrowserNext

----------------------------------------------------------------------------
(***************************************************************************)
(* The pages of the storage and of the view.                               *)
(***************************************************************************)
LEMMA VersionFacts ==
    /\ \A page \in Page : page.version \in Nat /\ page.data \in Data
    /\ \A page \in PostedPage : page \in Page
BY PagesAssumption DEF Page, PostedPage

LEMMA FoundFacts ==
    ASSUME StorageOK, NEW ids \in SUBSET PageID, NEW found \in Found(ids)
    PROVE  /\ PagesOK(found)
           /\ ids = {} => DOMAIN found = {}
           /\ \A id \in DOMAIN found : id \notin asked \cup Asked(ids) =>
                id \in DOMAIN stored /\ found[id] = stored[id]
<1> DEFINE sought == UNION {Family(id) : id \in ids}
<1>1. PICK some \in SUBSET sought : found \in [some -> Page]
  BY DEF Found
<1>2. sought \subseteq PageID /\ (ids = {} => sought = {})
  BY PagesAssumption DEF Family
<1>3. PagesOK(found) /\ (ids = {} => DOMAIN found = {})
  BY <1>1, <1>2 DEF PagesOK
<1>4. \A id \in DOMAIN found :
        \/ id \in DOMAIN stored /\ found[id] = stored[id]
        \/ id \in asked \cup Asked(ids)
  BY DEF Found
<1> QED
  BY <1>3, <1>4

LEMMA EditorContentFacts ==
    ASSUME IInv
    PROVE  /\ EditorContent \in Data /\ EditorContent = editor
           /\ \A d \in Data : EditorSet(d) \in Data /\ (~Ace => EditorSet(d) = Empty)
BY PagesAssumption DEF IInv, TaskOK, EditorOK, EditorContent, EditorSet

\* What every click that is handled has in common.
LEMMA HandleFacts ==
    ASSUME IInv, NEW name, Handle(name)
    PROVE  /\ task = "idle" /\ updating = {} /\ clicks' \in Seq(Button) /\ clicked' = clicked
           /\ Head(clicks) \in Button /\ Head(clicks).name = name
           /\ name \in {"view", "edit"} => Head(clicks).id \in DOMAIN view
           /\ DOMAIN view \subseteq DOMAIN view' => ClicksOK'
<1>1. /\ clicks \in Seq(Button) /\ clicks # <<>> /\ Head(clicks).name = name
      /\ clicks' = Tail(clicks) /\ ClicksOK /\ task = "idle" /\ updating = {}
  BY DEF Handle, IInv, TaskOK, EditorOK
<1>2. /\ 1 \in DOMAIN clicks /\ Head(clicks) = clicks[1]
      /\ \A i \in DOMAIN clicks' : i + 1 \in DOMAIN clicks /\ clicks'[i] = clicks[i + 1]
      /\ clicks' \in Seq(Button) /\ Head(clicks) \in Button
  BY <1>1
<1>3. name \in {"view", "edit"} => Head(clicks).id \in DOMAIN view
  BY <1>1, <1>2 DEF ClicksOK
<1>4. DOMAIN view \subseteq DOMAIN view' => ClicksOK'
  BY <1>1, <1>2 DEF ClicksOK
<1> QED
  BY <1>1, <1>2, <1>3, <1>4 DEF Handle

\* store_page keeps what is in the view, puts the new page into it, and leaves the queue in it.
LEMMA StorePageFacts ==
    ASSUME IInv, NEW id \in PageID, NEW page \in Page, StorePage(id, page),
           id \in DOMAIN view => view[id].version <= page.version
    PROVE  /\ PagesOK(view') /\ DOMAIN view' = DOMAIN view \cup {id} /\ view'[id] = page
           /\ storing' \in Seq(Flo)
           /\ Len(storing') = Len(storing) + 1
           /\ Last(storing') = [id |-> id, page |-> page]
           /\ QueueInView'
           /\ \A i \in DOMAIN view : view[i].version <= view'[i].version
<1> DEFINE flo == [id |-> id, page |-> page]
<1>1. storing' = Append(storing, flo) /\ view' = With(view, id, page)
  BY DEF StorePage
<1>2. PagesOK(view) /\ storing \in Seq(Flo) /\ QueueInView
  BY DEF IInv, TaskOK, StorageOK, OwnOK
<1>3. /\ PagesOK(view') /\ DOMAIN view' = DOMAIN view \cup {id} /\ view'[id] = page
      /\ \A i \in DOMAIN view \ {id} : view'[i] = view[i]
  BY <1>1, <1>2 DEF With, PagesOK
<1>4. \A i \in DOMAIN view : view[i].version <= view'[i].version
  BY <1>2, <1>3, VersionFacts DEF PagesOK
<1>5. flo \in Flo /\ flo.id = id /\ flo.page = page
  BY DEF Flo
<1> HIDE DEF flo
<1>6. /\ storing' \in Seq(Flo) /\ Len(storing') = Len(storing) + 1
      /\ Last(storing') = flo
      /\ \A i \in DOMAIN storing' :
            (i \in DOMAIN storing /\ storing'[i] = storing[i]) \/ storing'[i] = flo
  BY <1>1, <1>2, <1>5 DEF Last
<1>7. ASSUME NEW i \in DOMAIN storing'
      PROVE  /\ storing'[i].id \in DOMAIN view'
             /\ storing'[i].page.version <= view'[storing'[i].id].version
  <2>1. CASE storing'[i] = flo
    <3>1. page.version \in Nat
      BY VersionFacts
    <3> QED
      BY <2>1, <3>1, <1>3, <1>5
  <2>2. CASE i \in DOMAIN storing /\ storing'[i] = storing[i]
    <3> DEFINE j == storing[i].id
    <3>1. j \in DOMAIN view /\ storing[i].page.version <= view[j].version
      BY <2>2, <1>2 DEF QueueInView
    <3>2. storing[i] \in Flo
      BY <2>2, <1>2
    <3>3. storing[i].page.version \in Nat
      BY <3>2, VersionFacts DEF Flo
    <3>4. view[j].version \in Nat /\ view'[j].version \in Nat /\ j \in DOMAIN view'
      BY <3>1, <1>2, <1>3, VersionFacts DEF PagesOK
    <3>5. view[j].version <= view'[j].version
      BY <3>1, <1>4
    <3> QED
      BY <2>2, <3>1, <3>3, <3>4, <3>5
  <2> QED
    BY <2>1, <2>2, <1>6
<1>8. QueueInView'
  BY <1>7 DEF QueueInView
<1> QED
  BY <1>3, <1>4, <1>6, <1>8 DEF flo

----------------------------------------------------------------------------
(***************************************************************************)
(* The steps of the editor.                                                *)
(***************************************************************************)
\* The calls of embedPage so far are not touched.
EmbedsKept ==
    \A g \in DOMAIN embeds : g \in DOMAIN embeds' /\ embeds'[g] = embeds[g]

\* UpdateStoresTheText, of one step.
StoresTheText ==
    updating' # updating /\ updating # {} /\ task' # "stopped" =>
        /\ Len(storing') = Len(storing) + 1
        /\ Last(storing').id = editId /\ Last(storing').page.data = atClick

LEMMA EmbedsSame ==
    ASSUME EmbedsOK, UNCHANGED embedVars
    PROVE  EmbedsOK' /\ EmbedsKept
BY DEF EmbedsOK, EmbedsKept, embedVars

LEMMA StorageSame ==
    ASSUME StorageOK, UNCHANGED storageVars
    PROVE  StorageOK'
BY DEF StorageOK, storageVars

LEMMA OwnSame ==
    ASSUME OwnOK, UNCHANGED storageVars, UNCHANGED view
    PROVE  OwnOK'
BY DEF OwnOK, QueueInView, OwnStored, ViewHasOwnUpdates, storageVars

LEMMA TypeStep ==
    ASSUME IInv, NEW d \in Typed, Type(d)
    PROVE  IInv' /\ EmbedsKept /\ StoresTheText
<1>1. editor' \in Data /\ Ace
  BY PagesAssumption DEF Type
<1>2. /\ UNCHANGED embedVars /\ UNCHANGED storageVars
      /\ UNCHANGED <<view, homeId, editId, task, updating, reading, atClick, clicks, clicked>>
  BY DEF Type, taskVars
<1>3. EditorOK'
  BY <1>1, <1>2 DEF IInv, EditorOK, ClicksOK
<1>4. TaskOK'
  BY <1>1, <1>2 DEF IInv, TaskOK
<1> QED
  BY <1>2, <1>3, <1>4, EmbedsSame, StorageSame, OwnSame DEF IInv, StoresTheText

LEMMA ClickStep ==
    ASSUME IInv, NEW b \in Button, Click(b)
    PROVE  IInv' /\ EmbedsKept /\ StoresTheText
<1>1. /\ clicks' = Append(clicks, b) /\ clicked' = clicked + 1 /\ clicked < MaxClicks
      /\ Visible(b)
      /\ UNCHANGED embedVars /\ UNCHANGED storageVars
      /\ UNCHANGED <<view, homeId, editId, task, updating, reading, atClick, editor>>
  BY DEF Click, taskVars
<1>2. clicks \in Seq(Button) /\ clicked \in 0..MaxClicks
  BY DEF IInv, TaskOK
<1>3. clicks' \in Seq(Button) /\ clicked' \in 0..MaxClicks
  BY <1>1, <1>2, PagesAssumption
<1>4. b.name \in {"view", "edit"} => b.id \in DOMAIN view
  BY <1>1 DEF Visible
<1>5. ClicksOK'
  <2>1. \A i \in DOMAIN clicks' :
          (i \in DOMAIN clicks /\ clicks'[i] = clicks[i]) \/ clicks'[i] = b
    BY <1>1, <1>2
  <2> QED
    BY <1>1, <1>4, <2>1 DEF IInv, EditorOK, ClicksOK
<1>6. EditorOK'
  BY <1>1, <1>5 DEF IInv, EditorOK
<1>7. TaskOK'
  BY <1>1, <1>3 DEF IInv, TaskOK
<1> QED
  BY <1>1, <1>6, <1>7, EmbedsSame, StorageSame, OwnSame DEF IInv, StoresTheText

LEMMA ShowHomePageStep ==
    ASSUME IInv, ShowHomePage
    PROVE  IInv' /\ EmbedsKept /\ StoresTheText
<1> DEFINE id == Head(clicks).id
<1>1. /\ Handle("view") /\ homeId' = id /\ EmbedPage(view[id].data) /\ reading' = {id}
      /\ task' = "refreshing"
      /\ UNCHANGED storageVars
      /\ UNCHANGED <<view, editId, editor, updating, atClick>>
  BY DEF ShowHomePage
<1>2. /\ id \in DOMAIN view /\ clicks' \in Seq(Button) /\ clicked' = clicked
      /\ updating = {} /\ ClicksOK'
  BY <1>1, HandleFacts
<1> HIDE DEF id
<1>3. id \in PageID /\ view[id].data \in Data
  BY <1>2, VersionFacts DEF IInv, TaskOK, PagesOK
<1>4. EmbedsOK' /\ EmbedsKept
  BY <1>1, <1>3, EmbedPageOK DEF IInv, EmbedsKept
<1>5. EditorOK'
  BY <1>1, <1>2 DEF IInv, EditorOK
<1>6. TaskOK'
  BY <1>1, <1>2, <1>3 DEF IInv, TaskOK, Task
<1> QED
  BY <1>1, <1>2, <1>4, <1>5, <1>6, StorageSame, OwnSame DEF IInv, StoresTheText

LEMMA HandleEditPageStep ==
    ASSUME IInv, HandleEditPage
    PROVE  IInv' /\ EmbedsKept /\ StoresTheText
<1> DEFINE id == Head(clicks).id
<1>1. /\ Handle("edit") /\ EditPage(id, view)
      /\ UNCHANGED embedVars /\ UNCHANGED storageVars
      /\ UNCHANGED <<view, homeId, task, updating, reading, atClick>>
  BY DEF HandleEditPage
<1>2. /\ id \in DOMAIN view /\ clicks' \in Seq(Button) /\ clicked' = clicked
      /\ task = "idle" /\ updating = {} /\ ClicksOK'
  BY <1>1, HandleFacts
<1> HIDE DEF id
<1>3. id \in PageID /\ view[id].data \in Data
  BY <1>2, VersionFacts DEF IInv, TaskOK, PagesOK
<1>4. editId' = id /\ editor' \in Data /\ (~Ace => editor' = Empty)
  BY <1>1, <1>2, <1>3, EditorContentFacts DEF EditPage
<1>5. EditorOK'
  BY <1>1, <1>2, <1>4 DEF IInv, EditorOK
<1>6. TaskOK'
  BY <1>1, <1>2, <1>3, <1>4 DEF IInv, TaskOK
<1> QED
  BY <1>1, <1>5, <1>6, EmbedsSame, StorageSame, OwnSame DEF IInv, StoresTheText

LEMMA ResetPageStep ==
    ASSUME IInv, ResetPage
    PROVE  IInv' /\ EmbedsKept /\ StoresTheText
<1>1. /\ Handle("reset") /\ editId' = NoPage /\ editor' = EditorSet(Template)
      /\ UNCHANGED embedVars /\ UNCHANGED storageVars
      /\ UNCHANGED <<view, homeId, task, updating, reading, atClick>>
  BY DEF ResetPage
<1>2. /\ clicks' \in Seq(Button) /\ clicked' = clicked
      /\ task = "idle" /\ updating = {} /\ ClicksOK'
  BY <1>1, HandleFacts
<1>3. editor' \in Data /\ (~Ace => editor' = Empty)
  BY <1>1, EditorContentFacts, PagesAssumption
<1>4. EditorOK'
  BY <1>1, <1>2, <1>3 DEF IInv, EditorOK
<1>5. TaskOK'
  BY <1>1, <1>2, <1>3 DEF IInv, TaskOK
<1> QED
  BY <1>1, <1>4, <1>5, EmbedsSame, StorageSame, OwnSame DEF IInv, StoresTheText

LEMMA CreatePageStep ==
    ASSUME IInv, NEW id \in PageID, CreatePage(id)
    PROVE  IInv' /\ EmbedsKept /\ StoresTheText
<1> DEFINE page == [version |-> 0, data |-> EditorContent]
<1>1. /\ Handle("create") /\ StorePage(id, page) /\ EditPage(id, view')
      /\ id \notin DOMAIN view
      /\ reading' = DOMAIN view' /\ task' = "refreshing"
      /\ UNCHANGED embedVars
      /\ UNCHANGED <<stored, published, asked, own, homeId, updating, atClick>>
  BY DEF CreatePage
<1>2. /\ clicks' \in Seq(Button) /\ clicked' = clicked /\ updating = {}
      /\ DOMAIN view \subseteq DOMAIN view' => ClicksOK'
  BY <1>1, HandleFacts
<1>3. page \in Page
  BY EditorContentFacts, PagesAssumption DEF Page
<1> HIDE DEF page
<1>4. /\ PagesOK(view') /\ DOMAIN view' = DOMAIN view \cup {id} /\ view'[id] = page
      /\ storing' \in Seq(Flo)
      /\ QueueInView'
      /\ \A i \in DOMAIN view : view[i].version <= view'[i].version
  BY <1>1, <1>3, StorePageFacts
<1>5. editId' = id /\ editor' \in Data /\ (~Ace => editor' = Empty)
  BY <1>1, <1>3, <1>4, VersionFacts, EditorContentFacts DEF EditPage
<1>6. EditorOK'
  BY <1>1, <1>2, <1>4, <1>5 DEF IInv, EditorOK
<1>7. TaskOK'
  BY <1>1, <1>2, <1>4, <1>5 DEF IInv, TaskOK, Task, PagesOK
<1>8. StorageOK'
  BY <1>1, <1>4 DEF IInv, StorageOK
<1>9. OwnOK'
  <2>1. OwnStored'
    BY <1>1 DEF IInv, OwnOK, OwnStored
  <2>2. ViewHasOwnUpdates'
    <3> SUFFICES ASSUME NEW i \in PageID \ asked, own[i] # NoVersion
                 PROVE  i \in DOMAIN view' /\ own[i] <= view'[i].version
      BY <1>1 DEF ViewHasOwnUpdates
    <3>1. i \in DOMAIN view /\ own[i] <= view[i].version
      BY DEF IInv, OwnOK, ViewHasOwnUpdates
    <3>2. own[i] \in Int /\ view[i].version \in Nat /\ view'[i].version \in Nat
      BY <1>4, <3>1, VersionFacts, PagesAssumption DEF IInv, StorageOK, TaskOK, PagesOK
    <3> QED
      BY <1>4, <3>1, <3>2
  <2> QED
    BY <1>4, <2>1, <2>2 DEF OwnOK
<1> QED
  BY <1>1, <1>2, <1>6, <1>7, <1>8, <1>9, EmbedsSame DEF IInv, StoresTheText

LEMMA StoreEditPageStep ==
    ASSUME IInv, StoreEditPage
    PROVE  IInv' /\ EmbedsKept /\ StoresTheText
<1>1. /\ Handle("update")
      /\ UNCHANGED embedVars /\ UNCHANGED storageVars
      /\ UNCHANGED <<view, homeId, editId, editor, reading>>
      /\ IF editId = NoPage
         THEN task' = "stopped" /\ UNCHANGED <<updating, atClick>>
         ELSE task' = "updating" /\ updating' = {EditorContent} /\ atClick' = editor
  BY DEF StoreEditPage
<1>2. clicks' \in Seq(Button) /\ clicked' = clicked /\ updating = {} /\ ClicksOK'
  BY <1>1, HandleFacts
<1>3. /\ updating' \in SUBSET Data /\ atClick' \in Data /\ task' \in Task
      /\ IF task' = "updating" THEN editId # NoPage /\ updating' = {atClick'} ELSE updating' = {}
  BY <1>1, <1>2, EditorContentFacts DEF IInv, TaskOK, Task
<1>4. EditorOK'
  BY <1>1, <1>2, <1>3 DEF IInv, EditorOK
<1>5. TaskOK'
  BY <1>1, <1>2, <1>3 DEF IInv, TaskOK
<1> QED
  BY <1>1, <1>2, <1>4, <1>5, EmbedsSame, StorageSame, OwnSame DEF IInv, StoresTheText

LEMMA UpdatePageStep ==
    ASSUME IInv, UpdatePage
    PROVE  IInv' /\ EmbedsKept /\ StoresTheText
<1>1. PICK content \in updating :
        StorePage(editId, [version |-> view[editId].version + 1, data |-> content])
  BY DEF UpdatePage, TextToStore
<1> DEFINE page == [version |-> view[editId].version + 1, data |-> content]
<1>2. /\ task = "updating" /\ view[editId].version < MaxVersion
      /\ IF homeId = editId
         THEN EmbedPage(view'[homeId].data) /\ reading' = {homeId}
         ELSE UNCHANGED embedVars /\ UNCHANGED reading
      /\ task' = "updated" /\ updating' = {} /\ atClick' = Empty
      /\ UNCHANGED <<stored, published, asked, own, homeId, editId, editor, clicks, clicked>>
  BY DEF UpdatePage
<1>3. /\ editId \in DOMAIN view /\ editId \in PageID /\ content = atClick /\ content \in Data
      /\ view[editId].version \in Nat
  BY <1>2, VersionFacts DEF IInv, EditorOK, TaskOK, PagesOK
<1>4. page \in Page /\ page.data = atClick /\ view[editId].version <= page.version
  BY <1>2, <1>3, PagesAssumption DEF Page
<1>5. StorePage(editId, page)
  BY <1>1
<1> HIDE DEF page
<1>6. /\ PagesOK(view') /\ DOMAIN view' = DOMAIN view \cup {editId} /\ view'[editId] = page
      /\ storing' \in Seq(Flo)
      /\ Len(storing') = Len(storing) + 1
      /\ Last(storing') = [id |-> editId, page |-> page]
      /\ QueueInView'
      /\ \A i \in DOMAIN view : view[i].version <= view'[i].version
  BY <1>3, <1>4, <1>5, StorePageFacts
<1>7. EmbedsOK' /\ EmbedsKept
  <2>1. CASE homeId = editId
    <3>1. page.data \in Data
      BY <1>4, VersionFacts
    <3>2. EmbedPage(page.data)
      BY <2>1, <1>2, <1>6
    <3> QED
      BY <3>1, <3>2, EmbedPageOK DEF IInv, EmbedsKept
  <2>2. CASE homeId # editId
    BY <2>2, <1>2, EmbedsSame DEF IInv
  <2> QED
    BY <2>1, <2>2
<1>8. EditorOK'
  BY <1>2, <1>6 DEF IInv, EditorOK, ClicksOK
<1>9. TaskOK'
  BY <1>2, <1>6, PagesAssumption DEF IInv, TaskOK, Task
<1>10. StorageOK'
  BY <1>2, <1>6 DEF IInv, StorageOK
<1>11. OwnOK'
  <2>1. OwnStored'
    BY <1>2 DEF IInv, OwnOK, OwnStored
  <2>2. ViewHasOwnUpdates'
    <3> SUFFICES ASSUME NEW i \in PageID \ asked, own[i] # NoVersion
                 PROVE  i \in DOMAIN view' /\ own[i] <= view'[i].version
      BY <1>2 DEF ViewHasOwnUpdates
    <3>1. i \in DOMAIN view /\ own[i] <= view[i].version
      BY DEF IInv, OwnOK, ViewHasOwnUpdates
    <3>2. own[i] \in Int /\ view[i].version \in Nat /\ view'[i].version \in Nat
      BY <1>6, <3>1, VersionFacts, PagesAssumption DEF IInv, StorageOK, TaskOK, PagesOK
    <3> QED
      BY <1>6, <3>1, <3>2
  <2> QED
    BY <1>6, <2>1, <2>2 DEF OwnOK
<1>12. StoresTheText
  BY <1>4, <1>6 DEF StoresTheText
<1> QED
  BY <1>7, <1>8, <1>9, <1>10, <1>11, <1>12 DEF IInv

LEMMA UpdateFailsStep ==
    ASSUME IInv, UpdateFails
    PROVE  IInv' /\ EmbedsKept /\ StoresTheText
<1>1. /\ task' = "stopped" /\ updating' = {} /\ atClick' = Empty
      /\ UNCHANGED embedVars /\ UNCHANGED storageVars
      /\ UNCHANGED <<view, homeId, editId, editor, reading, clicks, clicked>>
  BY DEF UpdateFails
<1>2. EditorOK'
  BY <1>1 DEF IInv, EditorOK, ClicksOK
<1>3. TaskOK'
  BY <1>1, PagesAssumption DEF IInv, TaskOK, Task
<1> QED
  BY <1>1, <1>2, <1>3, EmbedsSame, StorageSame, OwnSame DEF IInv, StoresTheText

LEMMA UpdateCuckoosStep ==
    ASSUME IInv, UpdateCuckoos
    PROVE  IInv' /\ EmbedsKept /\ StoresTheText
<1>1. PICK found \in Found(reading) : view' = Refreshed(view, found)
  BY DEF UpdateCuckoos
<1>2. /\ task \in {"updated", "refreshing"} /\ (reading = {} \/ storing = <<>>)
      /\ asked' = asked \cup Asked(reading)
      /\ IF task = "updated" THEN EditPage(editId, view') ELSE UNCHANGED <<editId, editor>>
      /\ task' = "idle" /\ reading' = {}
      /\ UNCHANGED embedVars
      /\ UNCHANGED <<stored, storing, published, own, homeId, updating, clicks, clicked, atClick>>
  BY DEF UpdateCuckoos, StorageSettled
<1>3. /\ PagesOK(found)
      /\ reading = {} => DOMAIN found = {}
      /\ \A id \in DOMAIN found : id \notin asked' =>
            id \in DOMAIN stored /\ found[id] = stored[id]
  BY <1>2, FoundFacts DEF IInv, TaskOK
<1>4. /\ PagesOK(view') /\ DOMAIN view' = DOMAIN view \cup DOMAIN found
      /\ \A id \in DOMAIN found : view'[id] = found[id]
      /\ \A id \in DOMAIN view \ DOMAIN found : view'[id] = view[id]
  BY <1>1, <1>3 DEF IInv, TaskOK, PagesOK, Refreshed
<1>5. editId' = editId /\ editor' \in Data /\ (~Ace => editor' = Empty)
  <2>1. \A id \in DOMAIN view' : view'[id].data \in Data
    BY <1>4, VersionFacts DEF PagesOK
  <2> QED
    BY <1>2, <2>1, EditorContentFacts DEF IInv, EditorOK, TaskOK, EditPage
<1>6. EditorOK'
  BY <1>2, <1>4, <1>5 DEF IInv, EditorOK, ClicksOK
<1>7. TaskOK'
  BY <1>2, <1>4, <1>5 DEF IInv, TaskOK, Task
<1>8. StorageOK'
  <2>1. asked' \subseteq published
    BY <1>2 DEF IInv, StorageOK, Asked
  <2> QED
    BY <1>2, <2>1 DEF IInv, StorageOK
<1>9. OwnOK'
  <2>1. OwnStored'
    BY <1>2 DEF IInv, OwnOK, OwnStored
  <2>2. QueueInView'
    <3>1. CASE storing = <<>>
      BY <3>1, <1>2 DEF QueueInView
    <3>2. CASE reading = {}
      BY <3>2, <1>2, <1>3, <1>4 DEF IInv, OwnOK, QueueInView
    <3> QED
      BY <3>1, <3>2, <1>2
  <2>3. ViewHasOwnUpdates'
    <3> SUFFICES ASSUME NEW i \in PageID \ asked', own[i] # NoVersion
                 PROVE  i \in DOMAIN view' /\ own[i] <= view'[i].version
      BY <1>2 DEF ViewHasOwnUpdates
    <3>1. CASE i \in DOMAIN found
      BY <3>1, <1>3, <1>4 DEF IInv, OwnOK, OwnStored
    <3>2. CASE i \notin DOMAIN found
      BY <3>2, <1>2, <1>4 DEF IInv, OwnOK, ViewHasOwnUpdates
    <3> QED
      BY <3>1, <3>2
  <2> QED
    BY <2>1, <2>2, <2>3 DEF OwnOK
<1> QED
  BY <1>2, <1>6, <1>7, <1>8, <1>9, EmbedsSame DEF IInv, StoresTheText

----------------------------------------------------------------------------
(***************************************************************************)
(* The steps of the storage.                                               *)
(***************************************************************************)
\* The editor does not notice them.
LEMMA TaskSame ==
    ASSUME IInv, UNCHANGED embedVars, UNCHANGED taskVars, UNCHANGED <<editor, clicks, clicked>>,
           StorageOK', OwnOK'
    PROVE  IInv' /\ EmbedsKept /\ StoresTheText
<1>1. EditorOK' /\ TaskOK'
  BY DEF IInv, EditorOK, ClicksOK, TaskOK, taskVars
<1>2. StoresTheText
  BY DEF StoresTheText, taskVars
<1> QED
  BY <1>1, <1>2, EmbedsSame DEF IInv

LEMMA StoreFloStep ==
    ASSUME IInv, StoreFlo
    PROVE  IInv' /\ EmbedsKept /\ StoresTheText
<1> DEFINE f == Head(storing)
<1>1. /\ storing # <<>> /\ storing' = Tail(storing)
      /\ UNCHANGED embedVars /\ UNCHANGED asked /\ UNCHANGED taskVars
      /\ UNCHANGED <<editor, clicks, clicked>>
      /\ \/ /\ Newer(f.id, f.page)
            /\ stored' = With(stored, f.id, f.page)
            /\ own' = [own EXCEPT ![f.id] = f.page.version]
         \/ UNCHANGED <<stored, own>>
      /\ published' = published \cup {f.id} \/ UNCHANGED published
  BY DEF StoreFlo
<1>2. /\ storing \in Seq(Flo) /\ PagesOK(stored) /\ PagesOK(view)
      /\ own \in [PageID -> -1..MaxVersion] /\ view' = view
      /\ QueueInView /\ OwnStored /\ ViewHasOwnUpdates
  BY <1>1 DEF IInv, StorageOK, TaskOK, OwnOK, taskVars
<1>3. /\ f \in Flo /\ f = storing[1] /\ 1 \in DOMAIN storing
      /\ storing' \in Seq(Flo)
      /\ \A i \in DOMAIN storing' : i + 1 \in DOMAIN storing /\ storing'[i] = storing[i + 1]
  <2>1. storing \in Seq(Flo) /\ storing # <<>> /\ storing' = Tail(storing)
    BY <1>1, <1>2
  <2> QED
    BY ONLY <2>1 DEF f
<1> HIDE DEF f
<1>4. /\ f.id \in PageID /\ f.page \in Page /\ f.page.version \in 0..MaxVersion
      /\ f.page.version \in Nat
      /\ f.id \in DOMAIN view /\ f.page.version <= view[f.id].version
  BY <1>2, <1>3, VersionFacts DEF QueueInView, Page, Flo
<1>5. QueueInView'
  BY <1>2, <1>3 DEF QueueInView
<1>6. CASE UNCHANGED <<stored, own>>
  <2>1. StorageOK'
    BY <1>1, <1>3, <1>4, <1>6 DEF IInv, StorageOK
  <2>2. OwnOK'
    BY <1>1, <1>2, <1>5, <1>6 DEF OwnOK, OwnStored, ViewHasOwnUpdates
  <2> QED
    BY <1>1, <2>1, <2>2, TaskSame
<1>7. CASE /\ Newer(f.id, f.page)
           /\ stored' = With(stored, f.id, f.page)
           /\ own' = [own EXCEPT ![f.id] = f.page.version]
  <2>1. /\ PagesOK(stored') /\ DOMAIN stored' = DOMAIN stored \cup {f.id}
        /\ stored'[f.id] = f.page
        /\ \A i \in DOMAIN stored \ {f.id} : stored'[i] = stored[i]
    BY <1>2, <1>4, <1>7 DEF With, PagesOK
  <2>2. /\ own' \in [PageID -> -1..MaxVersion] /\ own'[f.id] = f.page.version
        /\ \A i \in PageID \ {f.id} : own'[i] = own[i]
    <3>1. f.page.version \in -1..MaxVersion
      BY <1>4, PagesAssumption
    <3> QED
      BY <1>2, <1>4, <1>7, <3>1
  <2>3. StorageOK'
    BY <1>1, <1>3, <1>4, <2>1, <2>2 DEF IInv, StorageOK
  <2>4. OwnStored'
    <3> SUFFICES ASSUME NEW i \in PageID, own'[i] # NoVersion
                 PROVE  i \in DOMAIN stored' /\ own'[i] <= stored'[i].version
      BY DEF OwnStored
    <3>1. CASE i = f.id
      BY <3>1, <1>4, <2>1, <2>2
    <3>2. CASE i # f.id
      BY <3>2, <1>2, <2>1, <2>2 DEF OwnStored
    <3> QED
      BY <3>1, <3>2
  <2>5. ViewHasOwnUpdates'
    <3> SUFFICES ASSUME NEW i \in PageID \ asked, own'[i] # NoVersion
                 PROVE  i \in DOMAIN view /\ own'[i] <= view[i].version
      BY <1>1, <1>2 DEF ViewHasOwnUpdates
    <3>1. CASE i = f.id
      BY <3>1, <1>4, <2>2
    <3>2. CASE i # f.id
      BY <3>2, <1>2, <2>2 DEF ViewHasOwnUpdates
    <3> QED
      BY <3>1, <3>2
  <2> QED
    BY <1>1, <1>5, <2>3, <2>4, <2>5, TaskSame DEF OwnOK
<1> QED
  BY <1>1, <1>6, <1>7 DEF f

LEMMA FloFromNetworkStep ==
    ASSUME IInv, NEW id \in PageID, NEW page \in PostedPage, FloFromNetwork(id, page)
    PROVE  IInv' /\ EmbedsKept /\ StoresTheText
<1>1. /\ Newer(id, page) /\ stored' = With(stored, id, page)
      /\ published' = published \cup {id}
      /\ UNCHANGED embedVars /\ UNCHANGED <<storing, asked, own>> /\ UNCHANGED taskVars
      /\ UNCHANGED <<editor, clicks, clicked>>
  BY DEF FloFromNetwork
<1>2. page \in Page /\ page.version \in Nat
  BY VersionFacts
<1>3. /\ PagesOK(stored) /\ PagesOK(stored') /\ DOMAIN stored' = DOMAIN stored \cup {id}
      /\ stored'[id] = page
      /\ \A i \in DOMAIN stored \ {id} : stored'[i] = stored[i]
  BY <1>1, <1>2 DEF IInv, StorageOK, With, PagesOK
<1>4. StorageOK'
  BY <1>1, <1>3 DEF IInv, StorageOK
<1>5. OwnStored'
  <2> SUFFICES ASSUME NEW i \in PageID, own[i] # NoVersion
               PROVE  i \in DOMAIN stored' /\ own[i] <= stored'[i].version
    BY <1>1 DEF OwnStored
  <2>1. i \in DOMAIN stored /\ own[i] <= stored[i].version
    BY DEF IInv, OwnOK, OwnStored
  <2>2. CASE i = id
    <3>1. stored[id].version < page.version
      BY <1>1, <1>2, <1>3, <2>1, <2>2, VersionFacts DEF Newer, PagesOK
    <3>2. own[i] \in Int /\ stored[id].version \in Nat
      BY <1>3, <2>1, <2>2, VersionFacts, PagesAssumption DEF IInv, StorageOK, PagesOK
    <3> QED
      BY <1>2, <1>3, <2>1, <2>2, <3>1, <3>2
  <2>3. CASE i # id
    BY <2>1, <2>3, <1>3
  <2> QED
    BY <2>2, <2>3
<1>6. QueueInView' /\ ViewHasOwnUpdates'
  BY <1>1 DEF IInv, OwnOK, QueueInView, ViewHasOwnUpdates, taskVars
<1> QED
  BY <1>1, <1>4, <1>5, <1>6, TaskSame DEF OwnOK

LEMMA EvictStep ==
    ASSUME IInv, NEW id \in Evictable, Evict(id)
    PROVE  IInv' /\ EmbedsKept /\ StoresTheText
<1>1. /\ stored' = Restrict(stored, DOMAIN stored \ {id})
      /\ own' = [own EXCEPT ![id] = NoVersion]
      /\ UNCHANGED embedVars /\ UNCHANGED <<storing, published, asked>> /\ UNCHANGED taskVars
      /\ UNCHANGED <<editor, clicks, clicked>>
  BY DEF Evict
<1>2. id \in PageID /\ PagesOK(stored) /\ own \in [PageID -> -1..MaxVersion]
  BY PagesAssumption DEF IInv, StorageOK
<1>3. DOMAIN stored' = DOMAIN stored \ {id} /\ \A i \in DOMAIN stored' : stored'[i] = stored[i]
  BY <1>1 DEF Restrict
<1>4. /\ own' \in [PageID -> -1..MaxVersion] /\ own'[id] = NoVersion
      /\ \A i \in PageID \ {id} : own'[i] = own[i]
  <2>1. NoVersion \in -1..MaxVersion
    BY PagesAssumption DEF NoVersion
  <2> QED
    BY <1>1, <1>2, <2>1
<1>5. StorageOK'
  BY <1>1, <1>2, <1>3, <1>4 DEF IInv, StorageOK, PagesOK
<1>6. OwnStored'
  BY <1>3, <1>4 DEF IInv, OwnOK, OwnStored
<1>7. QueueInView' /\ ViewHasOwnUpdates'
  BY <1>1, <1>4 DEF IInv, OwnOK, QueueInView, ViewHasOwnUpdates, taskVars
<1> QED
  BY <1>1, <1>5, <1>6, <1>7, TaskSame DEF OwnOK

----------------------------------------------------------------------------
LEMMA PagesNextStep ==
    ASSUME IInv, PagesNext
    PROVE  IInv' /\ EmbedsKept /\ StoresTheText
BY TypeStep, ClickStep, ShowHomePageStep, HandleEditPageStep, ResetPageStep, StoreEditPageStep,
   UpdatePageStep, UpdateFailsStep, CreatePageStep, UpdateCuckoosStep, StoreFloStep,
   FloFromNetworkStep, EvictStep DEF PagesNext

\* A step leaves the calls of embedPage alone, or is one of the browser.
LEMMA RustUnchanged ==
    ASSUME IInv, UNCHANGED rustVars, EmbedsOK'
    PROVE  IInv' /\ StoresTheText
<1>1. /\ UNCHANGED storageVars /\ UNCHANGED taskVars /\ UNCHANGED <<editor, clicks, clicked>>
  BY DEF rustVars
<1>2. EditorOK' /\ TaskOK'
  BY <1>1 DEF IInv, EditorOK, ClicksOK, TaskOK, taskVars
<1>3. StorageOK' /\ OwnOK'
  BY <1>1, StorageSame, OwnSame DEF IInv, taskVars
<1> QED
  BY <1>1, <1>2, <1>3 DEF IInv, StoresTheText, taskVars

LEMMA NextStep ==
    ASSUME IInv, [Next]_vars
    PROVE  /\ IInv' /\ StoresTheText
           /\ EmbedsKept \/ \E g \in DOMAIN embeds : BrowserStep(g)
<1>1. CASE PagesNext
  BY <1>1, PagesNextStep
<1>2. CASE BrowserNext /\ UNCHANGED rustVars
  BY <1>2, BrowserOK, RustUnchanged DEF IInv
<1>3. CASE UNCHANGED vars
  <2>1. UNCHANGED rustVars /\ EmbedsOK' /\ EmbedsKept
    BY <1>3, EmbedsSame DEF vars, IInv
  <2> QED
    BY <2>1, RustUnchanged
<1> QED
  BY <1>1, <1>2, <1>3 DEF Next

LEMMA InitIInv == Init => IInv
<1> SUFFICES ASSUME Init PROVE IInv
  OBVIOUS
<1>1. PICK d \in Posted :
        /\ stored = [id \in {Home} |-> [version |-> 0, data |-> d]]
        /\ embeds = <<[data |-> d, fetching |-> Of("external", d), timer |-> TRUE,
                       executed |-> <<>>,
                       outcome |-> IF Of("external", d) = {} THEN "loaded" ELSE "waiting"]>>
  BY DEF Init
<1>2. /\ documentRoot = 0 /\ view = stored /\ homeId = Home /\ editId = NoPage
      /\ storing = <<>> /\ published = {Home} /\ asked = {}
      /\ editor = (IF Ace THEN Template ELSE Empty)
      /\ task = "idle" /\ updating = {} /\ reading = {} /\ clicks = <<>> /\ clicked = 0
      /\ atClick = Empty /\ own = [id \in PageID |-> NoVersion]
  BY DEF Init
<1>3. d \in Data
  BY PagesAssumption
<1>4. PagesOK(stored) /\ DOMAIN stored = {Home}
  <2>1. [version |-> 0, data |-> d] \in Page
    BY <1>3, PagesAssumption DEF Page
  <2> QED
    BY <1>1, <2>1, PagesAssumption DEF PagesOK
<1>5. EmbedsOK
  <2> DEFINE e == [data |-> d, fetching |-> Of("external", d), timer |-> TRUE,
                   executed |-> <<>>,
                   outcome |-> IF Of("external", d) = {} THEN "loaded" ELSE "waiting"]
  <2>1. e \in Embedding
    <3>1. <<>> \in Seq(Nat) /\ Of("external", d) \in SUBSET Nat
      BY <1>3, OfFacts
    <3> QED
      BY <1>3, <3>1 DEF Embedding
  <2>2. EmbedOK(e)
    BY <2>1 DEF EmbedOK
  <2>3. embeds = <<e>>
    BY <1>1
  <2> HIDE DEF e
  <2>4. embeds \in Seq(Embedding) /\ Len(embeds) = 1 /\ \A g \in DOMAIN embeds : embeds[g] = e
    BY <2>1, <2>3
  <2> QED
    BY <1>2, <2>2, <2>4 DEF EmbedsOK
<1>6. EditorOK
  BY <1>2, <1>4 DEF EditorOK, ClicksOK
<1>7. StorageOK
  <2>1. own \in [PageID -> -1..MaxVersion]
    BY <1>2, PagesAssumption DEF NoVersion
  <2>2. storing \in Seq(Flo)
    BY <1>2
  <2> QED
    BY <1>2, <1>4, <2>1, <2>2, PagesAssumption DEF StorageOK
<1>8. TaskOK
  BY <1>2, <1>4, PagesAssumption DEF TaskOK, Task
<1>9. OwnOK
  BY <1>2 DEF OwnOK, QueueInView, OwnStored, ViewHasOwnUpdates
<1> QED
  BY <1>5, <1>6, <1>7, <1>8, <1>9 DEF IInv

LEMMA Invariant == Spec => []IInv
<1>1. IInv /\ [Next]_vars => IInv'
  BY NextStep
<1> QED
  BY <1>1, InitIInv, PTL DEF Spec

\* The pages that the code unwraps are in the view: the home page, the page that is edited and
\* those of the clicks that wait, whatever becomes of them in the storage (pages.rs:78-345).
THEOREM EditorStaysConsistent == Spec => []EditorConsistent
<1>1. IInv => EditorConsistent
  BY DEF IInv, EmbedsOK, StorageOK, TaskOK, EditorOK, ClicksOK, PagesOK, EditorConsistent, TypeOK
<1> QED
  BY <1>1, Invariant, PTL

\* The view does not fall behind a version of this user's that the storage has, although
\* store_page only sends it there (realm_view.rs:375), except for pages that other nodes were
\* asked for.
THEOREM OwnUpdatesStay == Spec => []ViewHasOwnUpdates
<1>1. IInv => ViewHasOwnUpdates
  BY DEF IInv, OwnOK
<1> QED
  BY <1>1, Invariant, PTL

\* The inline scripts of a page come after its external ones, in the order of the document,
\* for any page and whatever the order of the fetches, failures and timers (main.js:58-88).
THEOREM InlineScriptsComeLast == Spec => []InlineScriptsLast
<1>1. IInv => InlineScriptsLast
  BY DEF IInv, EmbedsOK, EmbedOK, InlineScriptsLast
<1> QED
  BY <1>1, Invariant, PTL

\* Promise.race decides once: after the alert no inline script runs (main.js:73-88).
THEOREM AlertIsFinal == Spec => AlertedNeverRuns
<1>1. IInv /\ [Next]_vars =>
        [\A g \in DOMAIN embeds : embeds[g].outcome = "alerted" =>
            /\ embeds'[g].outcome = "alerted"
            /\ \A i \in Range(embeds'[g].executed) \ Range(embeds[g].executed) :
                    Scripts(embeds[g].data)[i] = "external"]_vars
  <2> SUFFICES ASSUME IInv, [Next]_vars, NEW g \in DOMAIN embeds,
                      embeds[g].outcome = "alerted"
               PROVE  /\ embeds'[g].outcome = "alerted"
                      /\ \A i \in Range(embeds'[g].executed) \ Range(embeds[g].executed) :
                            Scripts(embeds[g].data)[i] = "external"
    OBVIOUS
  <2>1. CASE embeds'[g] = embeds[g]
    BY <2>1
  <2>2. CASE BrowserStep(g)
    BY <2>2 DEF BrowserStep
  <2> QED
    BY <2>1, <2>2, NextStep DEF EmbedsKept, BrowserStep
<1> QED
  BY <1>1, Invariant, PTL DEF Spec, AlertedNeverRuns

\* An update sends the storage the text of its click, not what was typed since (pages.rs:160-192).
THEOREM UpdatesStoreTheText == Spec => UpdateStoresTheText
<1>1. IInv /\ [Next]_vars =>
        [updating' # updating /\ updating # {} /\ task' # "stopped" =>
            /\ Len(storing') = Len(storing) + 1
            /\ Last(storing').id = editId /\ Last(storing').page.data = atClick]_vars
  BY NextStep DEF StoresTheText
<1> QED
  BY <1>1, Invariant, PTL DEF Spec, UpdateStoresTheText
=============================================================================
