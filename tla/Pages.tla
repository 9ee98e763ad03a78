------------------------------- MODULE Pages -------------------------------
(***************************************************************************)
(* The page editor of the browser node: Pages of flbrowser/src/pages.rs    *)
(* on the RealmView of flmodules/src/dht_storage/realm_view.rs, with the   *)
(* editor and the embedding of pages of flbrowser/src/main.js.             *)
(*                                                                         *)
(* The view keeps copies of the pages, and store_page puts a page into it  *)
(* at once.  To the DHT storage of the node the page goes as a message     *)
(* that its task handles later, and may refuse: when the storage has a     *)
(* version as new, from another node, or no room.  The view is refreshed   *)
(* only when a page is shown or created, from the storage, or from other   *)
(* nodes if the storage has not got a page, for example because it had to  *)
(* evict it.  So it may be behind the storage, or ahead of it.             *)
(*                                                                         *)
(* A click goes into a queue, and the task of Pages takes one after the    *)
(* other: while it waits for the storage, the user types and clicks on.    *)
(* Paths, parents and children of pages are left out, and a page has one   *)
(* file.                                                                   *)
(***************************************************************************)
EXTENDS EmbedPage, Functions, Integers

CONSTANTS
    PageID,      \* BlobIDs
    Home,        \* the root page of the realm
    Attached(_), \* the cuckoos of a page
    Editable,    \* the pages the signer of this node may update
    Evictable,   \* the pages far enough from the id of this node for its storage to evict
    NoPage,      \* edit_id when there is none
    Empty,       \* "", in Data
    Template,    \* what ResetPage puts into the editor, in Data
    Typed,       \* what the user may type, in Data
    Posted,      \* what the pages of other nodes may hold, in Data
    Ace,         \* whether the editor, which comes from a CDN, was loaded
    MaxVersion,  \* bound on the versions of a page
    MaxClicks,   \* bound on clicks
    MaxQueue     \* bound on the clicks that wait

ASSUME PagesAssumption ==
    /\ Home \in PageID /\ Editable \cup Evictable \subseteq PageID /\ NoPage \notin PageID
    /\ \A id \in PageID : Attached(id) \subseteq PageID
    /\ {Empty, Template} \cup Typed \cup Posted \subseteq Data
    /\ Ace \in BOOLEAN
    /\ MaxVersion \in Nat /\ MaxClicks \in Nat /\ MaxQueue \in Nat

VARIABLES
    stored,    \* the pages in the DHT storage of this node
    storing,   \* the StoreFlo messages on their way to it
    published, \* the pages that other nodes have, in whatever versions
    asked,     \* those of them this node asked for: an answer may come late
    view,      \* rv.pages.storage
    homeId,    \* home_id
    editId,    \* edit_id
    editor,    \* the text in the editor
    task,      \* where the task of Pages is: see Task
    updating,  \* the content store_edit_page has read, if it waits
    reading,   \* the pages that are refreshed with their cuckoos, while it waits
    clicks,    \* the buttons that were clicked, and not handled
    clicked,   \* number of clicks
    atClick,   \* history: the text in the editor when the update that waits was handled, or Empty
    own        \* history: page |-> the last version of this user's that the storage took, and
               \* did not evict since, or NoVersion

storageVars == <<stored, storing, published, asked, own>>
taskVars == <<view, homeId, editId, task, updating, reading, atClick>>
rustVars == <<storageVars, taskVars, editor, clicks, clicked>>
vars == <<embedVars, rustVars>>

NoVersion == -1

\* The task takes the next click, waits in store_edit_page before the page is updated or after
\* it, waits for the refresh of the view only, or has panicked.
Task == {"idle", "updating", "updated", "refreshing", "stopped"}

Page == [version : 0..MaxVersion, data : Data]

\* A page with its id, as in a StoreFlo.
Flo == [id : PageID, page : Page]

\* The pages that other nodes may have.
PostedPage == [version : 0..MaxVersion, data : Posted]

Button ==
    [name : {"update", "reset", "create"}] \cup [name : {"view", "edit"}, id : PageID]

----------------------------------------------------------------------------
\* getEditorContent and setEditorContent do nothing without the editor.
EditorContent == IF Ace THEN editor ELSE Empty
EditorSet(d) == IF Ace THEN d ELSE editor

Family(id) == {id} \cup Attached(id)

\* The pages that are asked of other nodes when ids are refreshed: those the storage has not got.
Asked(ids) == (published \cap UNION {Family(id) : id \in ids}) \ DOMAIN stored

\* What update_cuckoos may find of the pages in ids and of their cuckoos: the pages of the storage,
\* and those asked of other nodes, now or earlier, in any version or not in time.
Found(ids) ==
    {found \in UNION {[some -> Page] : some \in SUBSET UNION {Family(id) : id \in ids}} :
        /\ ids \cap DOMAIN stored \subseteq DOMAIN found
        /\ \A id \in DOMAIN found :
              \/ id \in DOMAIN stored /\ found[id] = stored[id]
              \/ id \in asked \cup Asked(ids) /\ found[id] \in PostedPage}

\* Faulty: the view is what was found.
RefreshedAnew(v, found) == found

\* The view v with the pages that were found.
Refreshed(v, found) ==
    [id \in DOMAIN v \cup DOMAIN found |-> IF id \in DOMAIN found THEN found[id] ELSE v[id]]

\* The pages with one more, or with another version of it.
With(pages, id, page) == [i \in DOMAIN pages \cup {id} |-> IF i = id THEN page ELSE pages[i]]

\* store_page: tells the storage, and puts the page into the view at once.
StorePage(id, page) ==
    /\ storing' = Append(storing, [id |-> id, page |-> page])
    /\ view' = With(view, id, page)

\* edit_page, with the view v.
EditPage(id, v) ==
    /\ editId' = id
    /\ editor' = IF id \in DOMAIN v THEN EditorSet(v[id].data) ELSE editor

----------------------------------------------------------------------------
(***************************************************************************)
(* Pages::new shows the home page, and resets the editor.                  *)
(***************************************************************************)
Init ==
    /\ \E d \in Posted :
        /\ stored = [id \in {Home} |-> [version |-> 0, data |-> d]]
        /\ embeds = <<[data |-> d, fetching |-> Of("external", d), timer |-> TRUE,
                       executed |-> <<>>,
                       outcome |-> IF Of("external", d) = {} THEN "loaded" ELSE "waiting"]>>
    /\ documentRoot = 0
    /\ view = stored /\ storing = <<>> /\ published = {Home} /\ asked = {}
    /\ homeId = Home /\ editId = NoPage
    /\ editor = IF Ace THEN Template ELSE Empty
    /\ task = "idle" /\ updating = {} /\ reading = {}
    /\ clicks = <<>> /\ clicked = 0
    /\ atClick = Empty /\ own = [id \in PageID |-> NoVersion]

----------------------------------------------------------------------------
(***************************************************************************)
(* The user types, or clicks on a button that is visible.                  *)
(***************************************************************************)
Visible(b) ==
    CASE b.name = "create" -> editId = NoPage
      [] b.name \in {"update", "reset"} -> editId # NoPage
      [] b.name = "view" -> b.id \in DOMAIN view
      [] b.name = "edit" -> b.id \in DOMAIN view \cap Editable

Type(d) ==
    /\ Ace /\ d # editor
    /\ editor' = d
    /\ UNCHANGED <<embedVars, storageVars, taskVars, clicks, clicked>>

Click(b) ==
    /\ clicked < MaxClicks /\ Len(clicks) < MaxQueue
    /\ Visible(b)
    /\ clicks' = Append(clicks, b)
    /\ clicked' = clicked + 1
    /\ UNCHANGED <<embedVars, storageVars, taskVars, editor>>

----------------------------------------------------------------------------
(***************************************************************************)
(* The task of Pages: clicked.                                             *)
(***************************************************************************)
Handle(name) ==
    /\ task = "idle"
    /\ clicks # <<>> /\ Head(clicks).name = name
    /\ clicks' = Tail(clicks)
    /\ UNCHANGED <<clicked>>

\* ViewPage, and a link to a page: show_home_page shows what the view has of the page, and
\* refreshes the page and its cuckoos.
ShowHomePage ==
    /\ Handle("view")
    /\ LET id == Head(clicks).id
       IN  homeId' = id /\ EmbedPage(view[id].data) /\ reading' = {id}
    /\ task' = "refreshing"
    /\ UNCHANGED <<storageVars, view, editId, editor, updating, atClick>>

HandleEditPage ==
    /\ Handle("edit")
    /\ EditPage(Head(clicks).id, view)
    /\ UNCHANGED <<embedVars, storageVars, view, homeId, task, updating, reading, atClick>>

ResetPage ==
    /\ Handle("reset")
    /\ editId' = NoPage
    /\ editor' = EditorSet(Template)
    /\ UNCHANGED <<embedVars, storageVars, view, homeId, task, updating, reading, atClick>>

\* create_page: stores a new page, edits it, and refreshes all pages.
CreatePage(id) ==
    /\ Handle("create")
    /\ id \in Editable \ (DOMAIN view \cup published)
    /\ StorePage(id, [version |-> 0, data |-> EditorContent])
    /\ EditPage(id, view')
    /\ reading' = DOMAIN view' /\ task' = "refreshing"
    /\ UNCHANGED <<embedVars, stored, published, asked, own, homeId, updating, atClick>>

\* store_edit_page up to where it waits; without an edit_id, its error is unwrapped.
StoreEditPage ==
    /\ Handle("update")
    /\ IF editId = NoPage
       THEN task' = "stopped" /\ UNCHANGED <<updating, atClick>>
       ELSE task' = "updating" /\ updating' = {EditorContent} /\ atClick' = editor
    /\ UNCHANGED <<embedVars, storageVars, view, homeId, editId, editor, reading>>

\* Faulty: the editor is read when the page is edited.
TextFromEditor == {EditorContent}

\* The closure of update_page has the content that was read before.
TextToStore == updating

\* update_page makes a new version of the page in the view; the home page is shown, and will be
\* refreshed.
UpdatePage ==
    /\ task = "updating"
    /\ view[editId].version < MaxVersion
    /\ \E content \in TextToStore :
          StorePage(editId, [version |-> view[editId].version + 1, data |-> content])
    /\ IF homeId = editId
       THEN EmbedPage(view'[homeId].data) /\ reading' = {homeId}
       ELSE UNCHANGED <<embedVars, reading>>
    /\ task' = "updated" /\ updating' = {} /\ atClick' = Empty
    /\ UNCHANGED <<stored, published, asked, own, homeId, editId, editor, clicks, clicked>>

\* The condition of the page, which is a flo, too, was not found in time, so the page cannot be
\* signed: the error is unwrapped.
UpdateFails ==
    /\ task = "updating"
    /\ task' = "stopped" /\ updating' = {} /\ atClick' = Empty
    /\ UNCHANGED <<embedVars, storageVars, view, homeId, editId, editor, reading, clicks, clicked>>

\* Faulty: the storage is read without regard to what it was sent.
StorageNotAwaited == TRUE

\* The storage has handled what it was sent: update_cuckoos asks for the ids of the cuckoos first,
\* and this request, as every other, settles the brokers before it returns.
StorageSettled == storing = <<>>

\* update_cuckoos of the pages to refresh, and the rest of store_edit_page: the page is edited again.
UpdateCuckoos ==
    /\ task \in {"updated", "refreshing"}
    /\ reading = {} \/ StorageSettled
    /\ \E found \in Found(reading) : view' = Refreshed(view, found)
    /\ asked' = asked \cup Asked(reading)
    /\ IF task = "updated" THEN EditPage(editId, view') ELSE UNCHANGED <<editId, editor>>
    /\ task' = "idle" /\ reading' = {}
    /\ UNCHANGED <<embedVars, stored, storing, published, own, homeId, updating, clicks, clicked,
                   atClick>>

----------------------------------------------------------------------------
(***************************************************************************)
(* The task of the DHT storage (RealmStorage.tla): what it may do to the   *)
(* pages, as one of many kinds of flos with which they share the room.     *)
(***************************************************************************)
Newer(id, page) == id \in DOMAIN stored => page.version > stored[id].version

\* The next StoreFlo: of a newer page the storage tells other nodes, even if it has no room for it.
StoreFlo ==
    /\ storing # <<>>
    /\ storing' = Tail(storing)
    /\ LET f == Head(storing) IN
       IF Newer(f.id, f.page)
       THEN /\ published' = published \cup {f.id}
            /\ \/ /\ stored' = With(stored, f.id, f.page)
                  /\ own' = [own EXCEPT ![f.id] = f.page.version]
               \/ f.id \in Evictable \ DOMAIN stored /\ UNCHANGED <<stored, own>>
       ELSE UNCHANGED <<stored, published, own>>
    /\ UNCHANGED <<embedVars, asked, taskVars, editor, clicks, clicked>>

\* Another node sends a page that is newer: one that is new, or that other nodes have.
FloFromNetwork(id, page) ==
    /\ id \in published \/ id \notin DOMAIN view
    /\ Newer(id, page)
    /\ stored' = With(stored, id, page)
    /\ published' = published \cup {id}
    /\ UNCHANGED <<embedVars, storing, asked, own, taskVars, editor, clicks, clicked>>

\* The room of a page is needed for other flos.
Evict(id) ==
    /\ id \in DOMAIN stored
    /\ stored' = Restrict(stored, DOMAIN stored \ {id})
    /\ own' = [own EXCEPT ![id] = NoVersion]
    /\ UNCHANGED <<embedVars, storing, published, asked, taskVars, editor, clicks, clicked>>

PagesNext ==
    \/ \E d \in Typed : Type(d)
    \/ \E b \in Button : Click(b)
    \/ ShowHomePage \/ HandleEditPage \/ ResetPage \/ StoreEditPage
    \/ UpdatePage \/ UpdateFails
    \/ \E id \in PageID : CreatePage(id)
    \/ UpdateCuckoos
    \/ StoreFlo
    \/ \E id \in PageID, page \in PostedPage : FloFromNetwork(id, page)
    \/ \E id \in Evictable : Evict(id)

Next == PagesNext \/ (BrowserNext /\ UNCHANGED rustVars)

Spec == Init /\ [][Next]_vars
FairSpec == Spec /\ BrowserFairness

----------------------------------------------------------------------------
\* The types of the variables of main.js and of pages.rs.
TypeOK ==
    /\ embeds \in Seq(Embedding) /\ documentRoot \in 0..Len(embeds)
    /\ DOMAIN stored \subseteq PageID /\ \A id \in DOMAIN stored : stored[id] \in Page
    /\ storing \in Seq(Flo)
    /\ asked \subseteq published /\ published \subseteq PageID
    /\ DOMAIN view \subseteq PageID /\ \A id \in DOMAIN view : view[id] \in Page
    /\ homeId \in PageID /\ editId \in PageID \cup {NoPage}
    /\ editor \in Data /\ task \in Task
    /\ updating \in SUBSET Data /\ reading \subseteq PageID
    /\ clicks \in Seq(Button) /\ clicked \in 0..MaxClicks
    /\ atClick \in Data /\ own \in [PageID -> -1..MaxVersion]

\* The pages the code takes for granted, with an expect or an error that is unwrapped, are in the
\* view, whatever the storage refuses or evicts and the network does not answer: the home page
\* (update_home_page), the page that is edited (update_page), and those of the clicks that wait.
EditorConsistent ==
    /\ TypeOK
    /\ homeId \in DOMAIN view
    /\ editId \in DOMAIN view \cup {NoPage}
    /\ \A i \in DOMAIN clicks : clicks[i].name \in {"view", "edit"} => clicks[i].id \in DOMAIN view

\* The view may lag behind the storage, and a refresh may take back what the storage refused; but
\* it never falls behind a version of this user's that the storage has, not even while it was on
\* its way there, or the next update would be refused for an earlier one of the same user.  For
\* pages that other nodes were asked for this is not so: a late answer is taken for a new one.
ViewHasOwnUpdates ==
    \A id \in PageID \ asked :
        own[id] # NoVersion => id \in DOMAIN view /\ own[id] <= view[id].version

\* The inline scripts of a page run after all of its external scripts, which they may use, and
\* in the order of the document, however the fetches and the timer come in.
InlineScriptsLast ==
    \A g \in DOMAIN embeds :
        LET e == embeds[g]
            Inline(k) == Scripts(e.data)[e.executed[k]] = "inline"
        IN  \A k, l \in DOMAIN e.executed :
                k < l /\ Inline(k) => Inline(l) /\ e.executed[k] < e.executed[l]

\* Once the user was told that the scripts of a page could not be loaded, its inline scripts do
\* not run any more, even if the missing scripts arrive after all.
AlertedNeverRuns ==
    [][\A g \in DOMAIN embeds : embeds[g].outcome = "alerted" =>
            /\ embeds'[g].outcome = "alerted"
            /\ \A i \in Range(embeds'[g].executed) \ Range(embeds[g].executed) :
                    Scripts(embeds[g].data)[i] = "external"]_vars

\* An update that does not fail sends the storage the text that was in the editor when its click
\* was handled, for the page that is edited, whatever is typed while update_page waits.  (Without
\* the editor it sends an empty page.)
UpdateStoresTheText ==
    [][updating' # updating /\ updating # {} /\ task' # "stopped" =>
            /\ Len(storing') = Len(storing) + 1
            /\ Last(storing').id = editId /\ Last(storing').page.data = atClick]_vars

\* Every page that was embedded gets its inline scripts run, or an alert: if a fetch never
\* ends, the timer decides.
EveryPageDecided ==
    \A g \in 1..MaxEmbeds :
        g \in DOMAIN embeds ~> g \in DOMAIN embeds /\ embeds[g].outcome \in {"ran", "alerted"}
=============================================================================
