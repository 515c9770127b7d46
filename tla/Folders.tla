-------------------------------- MODULE Folders --------------------------------
(***************************************************************************)
(* The tree of folders and files of one owner: requests that create,       *)
(* upload, move and delete, each a few statements of its own.              *)
(*                                                                         *)
(* Every request looks first and writes later, by primary key: between the *)
(* two another request may have moved or trashed what was looked at. A     *)
(* transaction that ends with its first write is one step, and so is the   *)
(* end of soft_delete_subtree: its two updates are conditional on the rows *)
(* themselves and on the folders selected before, so that a write of       *)
(* another request between them leaves what it would leave after them.     *)
(* Names are left out: where a name may be taken, the write may be refused.*)
(*                                                                         *)
(* A request that is refused at its first look changes nothing and is not  *)
(* modelled.                                                               *)
(***************************************************************************)
EXTENDS Integers, FiniteSets

CONSTANTS
    Folders, Files,  \* ids, the unused ones included
    Root,            \* parent_id or folder_id NULL
    Requests,        \* ids of requests; deleted_at is the request that wrote it
    Live             \* deleted_at NULL

Nodes == Folders \cup Files

ASSUME NodesAssumption == Folders \cap Files = {} /\ Root \notin Nodes
ASSUME LiveAssumption == Live \notin Requests

VARIABLES
    rows,    \* rows of folders, and of files that are ready
    parent,  \* row -> parent_id, folder_id
    stamp,   \* row -> deleted_at
    asks,    \* request -> what it asks for
    pc,      \* request -> where its handler stands
    ids,     \* request -> folders that its _subtree returned
    crossed, \* history: two moves were between walk and write at once
    raced    \* history: a row was being placed while a folder was being deleted

tree == <<rows, parent, stamp>>
history == <<crossed, raced>>
vars == <<tree, asks, pc, ids, history>>

Ask == [kind : {"insert", "move", "delete"}, node : Nodes, to : Folders \cup {Root},
        recursive : BOOLEAN]
Steps == {"idle", "found", "looked", "walked", "checked", "counted", "emptied", "selected",
          "done", "refused"}

Kind(r) == asks[r].kind
Node(r) == asks[r].node
To(r) == asks[r].to
Goto(r, label) == pc' = [pc EXCEPT ![r] = label]
Shown(x) == x \in rows /\ stamp[x] = Live

-----------------------------------------------------------------------------
(* The recursive queries                                                   *)

\* Mutant: a move into itself is refused, one below itself is not.
IsCycleSelf(f, p) == f = p

\* f is p or an ancestor of p, the trashed ones included: f is in every set that
\* holds p and is closed upwards.
IsCycle(f, p) ==
    \A S \in SUBSET Folders :
        p \in S /\ (\A x \in S : parent[x] \in S \cup {Root}) => f \in S

Below(x, S) == x \in Folders /\ Shown(x) /\ parent[x] \in S

\* Mutant: one level.
SubtreeLevel(f) == {x \in Folders : Shown(f) /\ Shown(x) /\ (x = f \/ parent[x] = f)}

\* The live folder and every live folder below it: the smallest set that holds
\* it and is closed downwards.
Subtree(f) ==
    {x \in Folders : Shown(f) /\
        \A S \in SUBSET Folders : f \in S /\ (\A y \in Folders : Below(y, S) => y \in S) => x \in S}

LiveFilesIn(S) == {x \in Files : Shown(x) /\ parent[x] \in S}

-----------------------------------------------------------------------------
\* Any forest of folders, with files in it, and nothing in the trash.
Init ==
    /\ rows \in SUBSET Nodes
    /\ parent \in [Nodes -> Folders \cup {Root}]
    /\ \A x \in Nodes : IF x \in rows THEN parent[x] \in rows \cup {Root} ELSE parent[x] = Root
    /\ \A S \in SUBSET Folders : S # {} => \E x \in S : parent[x] \notin S
    /\ stamp = [x \in Nodes |-> Live]
    /\ \E n \in Nodes : asks = [r \in Requests |->
           [kind |-> "insert", node |-> n, to |-> Root, recursive |-> FALSE]]
    /\ pc = [r \in Requests |-> "idle"]
    /\ ids = [r \in Requests |-> {}]
    /\ crossed = FALSE
    /\ raced = FALSE

\* Two folders have both been found to be out of each other's way, and neither
\* has been moved yet.
Crossing == \E q, r \in Requests : q # r /\ pc[q] = "walked" /\ pc[r] = "walked"

Placing(r) == To(r) # Root /\ pc[r] \in {"looked", "walked", "checked"}
Deleting(r) == pc[r] \in {"counted", "emptied", "selected"}
Racing == \E q, r \in Requests : Placing(q) /\ Deleting(r)

Noted ==
    /\ crossed' = (crossed \/ Crossing')
    /\ raced' = (raced \/ Racing')

\* A new row gets an id that nobody has.
Fresh(n) == n \notin rows /\ \A q \in Requests : pc[q] = "checked" => Node(q) # n

\* create_folder, upload_file: the parent is looked at.
Insert(r, a) ==
    /\ a.kind = "insert" /\ ~a.recursive
    /\ Fresh(a.node)
    /\ a.to = Root \/ Shown(a.to)
    /\ Goto(r, "checked")

\* update_folder, update_file: the row is read; the root is not looked at.
Move(r, a) ==
    /\ a.kind = "move" /\ ~a.recursive
    /\ Shown(a.node) /\ parent[a.node] # a.to
    /\ Goto(r, IF a.to = Root THEN "checked" ELSE "found")

\* delete_folder, delete_file.
Delete(r, a) ==
    /\ a.kind = "delete" /\ a.to = Root
    /\ a.recursive => a.node \in Folders
    /\ Shown(a.node)
    /\ Goto(r, "found")

Arrive(r) ==
    /\ pc[r] = "idle"
    /\ \E a \in Ask :
           /\ asks' = [asks EXCEPT ![r] = a]
           /\ Insert(r, a) \/ Move(r, a) \/ Delete(r, a)
    /\ UNCHANGED <<tree, ids>>
    /\ Noted

-----------------------------------------------------------------------------
(* Placing a row                                                           *)

\* The new parent is looked at; a file has nothing below it.
Look(r) ==
    /\ pc[r] = "found" /\ Kind(r) = "move"
    /\ Goto(r, IF ~Shown(To(r)) THEN "refused" ELSE IF Node(r) \in Folders THEN "looked" ELSE "checked")
    /\ UNCHANGED <<tree, asks, ids>>
    /\ Noted

\* BR-5.
Walk(r) ==
    /\ pc[r] = "looked"
    /\ Goto(r, IF IsCycle(Node(r), To(r)) THEN "refused" ELSE "walked")
    /\ UNCHANGED <<tree, asks, ids>>
    /\ Noted

\* An INSERT, or an UPDATE by primary key that looks at nothing else.
Place(r) ==
    /\ pc[r] \in {"checked", "walked"}
    /\ rows' = rows \cup {Node(r)}
    /\ parent' = [parent EXCEPT ![Node(r)] = To(r)]
    /\ Goto(r, "done")
    /\ UNCHANGED <<stamp, asks, ids>>
    /\ Noted

\* NameTaken: the write is rolled back.
Refuse(r) ==
    /\ pc[r] \in {"checked", "walked"}
    /\ Goto(r, "refused")
    /\ UNCHANGED <<tree, asks, ids>>
    /\ Noted

-----------------------------------------------------------------------------
(* Deleting                                                                *)

DropFile(r) ==
    /\ pc[r] = "found" /\ Kind(r) = "delete" /\ Node(r) \in Files
    /\ stamp' = [stamp EXCEPT ![Node(r)] = r]
    /\ Goto(r, "done")
    /\ UNCHANGED <<rows, parent, asks, ids>>
    /\ Noted

\* subtree_counts: the folders, then the files in them. Without ?recursive=true
\* either count refuses the request; with it they decide nothing.
CountFolders(r) ==
    /\ pc[r] = "found" /\ Kind(r) = "delete" /\ Node(r) \in Folders /\ ~asks[r].recursive
    /\ ids' = [ids EXCEPT ![r] = Subtree(Node(r))]
    /\ Goto(r, IF Subtree(Node(r)) \subseteq {Node(r)} THEN "counted" ELSE "refused")
    /\ UNCHANGED <<tree, asks>>
    /\ Noted

\* Mutant: only the folders decide.
CountFilesLate(r) ==
    /\ pc[r] = "counted"
    /\ Goto(r, "emptied")
    /\ UNCHANGED <<tree, asks, ids>>
    /\ Noted

CountFiles(r) ==
    /\ pc[r] = "counted"
    /\ Goto(r, IF LiveFilesIn(ids[r]) = {} THEN "emptied" ELSE "refused")
    /\ UNCHANGED <<tree, asks, ids>>
    /\ Noted

\* soft_delete_subtree selects again.
Select(r) ==
    /\ \/ pc[r] = "emptied"
       \/ pc[r] = "found" /\ Kind(r) = "delete" /\ asks[r].recursive
    /\ ids' = [ids EXCEPT ![r] = Subtree(Node(r))]
    /\ Goto(r, "selected")
    /\ UNCHANGED <<tree, asks>>
    /\ Noted

\* The live files in the folders selected, then those folders, whatever has
\* become of them, and the commit.
Trash(r) ==
    /\ pc[r] = "selected"
    /\ stamp' = [x \in Nodes |->
           IF x \in ids[r] \cup LiveFilesIn(ids[r]) THEN r ELSE stamp[x]]
    /\ Goto(r, "done")
    /\ UNCHANGED <<rows, parent, asks, ids>>
    /\ Noted

-----------------------------------------------------------------------------
Handler(r) ==
    \/ Arrive(r) \/ Look(r) \/ Walk(r) \/ Place(r) \/ Refuse(r)
    \/ DropFile(r) \/ CountFolders(r) \/ CountFiles(r) \/ Select(r) \/ Trash(r)

Next == \E r \in Requests : Handler(r)

Spec == Init /\ [][Next]_vars

-----------------------------------------------------------------------------
\* Every variable keeps its type; files have no children.
TypeOK ==
    /\ rows \subseteq Nodes
    /\ parent \in [Nodes -> Folders \cup {Root}]
    /\ stamp \in [Nodes -> Requests \cup {Live}]
    /\ asks \in [Requests -> Ask]
    /\ pc \in [Requests -> Steps]
    /\ ids \in [Requests -> SUBSET Folders]
    /\ crossed \in BOOLEAN /\ raced \in BOOLEAN

Acyclic == ~\E S \in SUBSET Folders : S # {} /\ \A x \in S : parent[x] \in S

\* BR-5: the folders stay a forest, trashed ones included, through any mix of
\* requests in which no two moves are between is_cycle and their write at once;
\* two that are can leave the cycle of the comment in _subtree.
CyclesNeedTwoMoves == ~crossed => Acyclic

\* BR-7: nothing shown lies in a trashed folder, through any mix of deletes,
\* moves and uploads in which no row is on its way into a folder, its target
\* looked at, while a folder is on its way to the trash.
OrphansNeedARace ==
    ~raced => \A x \in Nodes : Shown(x) => parent[x] = Root \/ Shown(parent[x])

\* BR-7: without such a race a delete without ?recursive=true trashes the folder
\* it names and nothing else, although it counts in one statement and selects
\* what it trashes in another.
SurprisesNeedARace ==
    ~raced => \A x \in Nodes : stamp[x] # Live /\ ~asks[stamp[x]].recursive => x = Node(stamp[x])
=============================================================================
