------------------------------ MODULE FilesList ------------------------------
(***************************************************************************)
(* The files store of the browser: which listing the Files page shows      *)
(* while requests overlap. Each refresh and each "Load more" draws a       *)
(* number, and an answer counts only if it carries the last one drawn.     *)
(*                                                                         *)
(* A page holds one file here, so an offset counts pages; what a folder    *)
(* holds does not change, and errors are only shown.                       *)
(***************************************************************************)
EXTENDS Naturals, Sequences

CONSTANTS
    Views,      \* what can be listed: a folder, a search, a tag
    Pages,      \* bound: pages of a listing
    MaxAsked    \* bound: things asked of the store

VARIABLES
    params,     \* the view asked last
    files,      \* what is shown: view and page of each file
    hasMore,    \* the last page was full
    loading,    \* the flag that disables "Load more" and the upload
    requestId,  \* the last number drawn
    flying,     \* listings asked and not answered
    changing,   \* changes (upload, delete) not answered
    requested,  \* things asked so far
    rushed,     \* "Load more" was asked while an answer was awaited, since
                \* the list was last started afresh
    failed      \* a request failed since then

filesVars == <<params, files, hasMore, loading, requestId, flying, changing, requested,
               rushed, failed>>

Page(view, offset) ==
    IF offset < Pages THEN <<[view |-> view, page |-> offset + 1]>> ELSE <<>>

FilesInit ==
    /\ params \in Views
    /\ files = <<>> /\ hasMore = FALSE
    /\ loading = FALSE
    /\ requestId = 0
    /\ flying = {} /\ changing = 0
    /\ requested = 0
    /\ rushed = FALSE /\ failed = FALSE

\* A number is drawn and the request leaves.
Fly(kind, view, offset) ==
    /\ requestId' = requestId + 1
    /\ flying' = flying \cup
           {[id |-> requestId + 1, kind |-> kind, view |-> view, offset |-> offset]}

\* run: every action of the store raises the flag, whatever flies already.
Run ==
    /\ requested < MaxAsked
    /\ requested' = requested + 1
    /\ loading' = TRUE

\* The page is opened, the route changes, or a tag or a name is edited.
Load(view) ==
    /\ Run
    /\ params' = view
    /\ Fly("refresh", view, 0)
    /\ UNCHANGED <<files, hasMore, changing, rushed, failed>>

LoadMore ==
    /\ hasMore /\ ~loading
    /\ Run
    /\ Fly("more", params, Len(files))
    /\ rushed' = (rushed \/ flying # {})
    /\ UNCHANGED <<params, files, hasMore, changing, failed>>

\* upload, remove and removeFolder: the change first, then a refresh.
Change ==
    /\ Run
    /\ changing' = changing + 1
    /\ UNCHANGED <<params, files, hasMore, requestId, flying, rushed, failed>>

Changed ==
    /\ changing > 0
    /\ changing' = changing - 1
    /\ Fly("refresh", params, 0)
    /\ UNCHANGED <<params, files, hasMore, loading, requested, rushed, failed>>

\* It fails, or the person does not confirm: no refresh.
NotChanged ==
    /\ changing > 0
    /\ changing' = changing - 1
    /\ loading' = FALSE
    /\ UNCHANGED <<params, files, hasMore, requestId, flying, requested, rushed, failed>>

\* Mutant: any answer counts.
Answers(q) == q \in flying

\* id === requestId
Counts(q) == q.id = requestId

\* The answer comes; `finally` lowers the flag, whatever else still flies.
Answered(q) ==
    LET page == Page(q.view, q.offset)
    IN  /\ q \in flying
        /\ flying' = flying \ {q}
        /\ loading' = FALSE
        /\ IF Counts(q)
           THEN /\ files' = IF q.kind = "refresh" THEN page ELSE files \o page
                /\ hasMore' = (page # <<>>)
           ELSE UNCHANGED <<files, hasMore>>
        \* Ghosts: a first page that counts starts the list afresh.
        /\ rushed' = (rushed /\ ~(Counts(q) /\ q.kind = "refresh"))
        /\ failed' = (failed /\ ~(Counts(q) /\ q.kind = "refresh"))
        /\ UNCHANGED <<params, requestId, changing, requested>>

Failed(q) ==
    /\ q \in flying
    /\ flying' = flying \ {q}
    /\ loading' = FALSE
    /\ failed' = TRUE
    /\ UNCHANGED <<params, files, hasMore, requestId, changing, requested, rushed>>

-----------------------------------------------------------------------------
FilesNext ==
    \/ \E view \in Views : Load(view)
    \/ LoadMore \/ Change \/ Changed \/ NotChanged
    \/ \E q \in flying : Answered(q) \/ Failed(q)

FilesSpec == FilesInit /\ [][FilesNext]_filesVars

-----------------------------------------------------------------------------
(* Properties                                                              *)

Listing(view, n) == [i \in 1..n |-> [view |-> view, page |-> i]]

\* However answers are reordered, the page shows the beginning of one listing
\* without a hole or a repeat, and once nothing is awaited the listing asked
\* last; unless, since its first page, a request failed, or "Load more" was
\* asked while an answer was awaited, which the flag forbids but for two
\* requests that overlapped.
ShowsOneListing ==
    ~rushed /\ ~failed =>
        /\ \E view \in Views : files = Listing(view, Len(files))
        /\ flying = {} /\ requestId > 0 => files = Listing(params, Len(files))
=============================================================================
