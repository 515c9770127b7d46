---------------------------- MODULE FoldersProofs ----------------------------
(***************************************************************************)
(* Theorems about Folders, for every set of folders, files and requests:   *)
(* cycles, orphans and surprises each need the race that their property    *)
(* names.                                                                  *)
(***************************************************************************)
EXTENDS Folders, TLAPS

USE NodesAssumption, LiveAssumption DEF Nodes, Kind, Node, To, Goto, Shown

-----------------------------------------------------------------------------
(* The invariant                                                           *)

\* What a handler knows where it stands: the rows it found are never deleted.
Stands ==
    \A r \in Requests :
        /\ pc[r] \in {"looked", "walked"} =>
               Node(r) \in Folders \cap rows /\ To(r) \in Folders \cap rows
        /\ pc[r] = "checked" =>
               /\ Kind(r) \in {"insert", "move"} /\ To(r) \in rows \cup {Root}
               /\ Kind(r) = "insert" => Node(r) \notin rows
               /\ Kind(r) = "move" => Node(r) \in rows /\ (To(r) = Root \/ Node(r) \in Files)
        /\ pc[r] = "found" =>
               /\ Kind(r) \in {"move", "delete"} /\ Node(r) \in rows
               /\ asks[r].recursive => Node(r) \in Folders
        /\ pc[r] \in {"counted", "emptied", "selected"} => Node(r) \in Folders \cap rows
        /\ pc[r] = "selected" => ids[r] \subseteq rows
        /\ pc[r] \in {"counted", "emptied"} => ~asks[r].recursive

\* Two new rows have different ids.
Distinct ==
    \A q, r \in Requests :
        pc[q] = "checked" /\ pc[r] = "checked" /\ Kind(q) = "insert" /\ Kind(r) = "insert" =>
            Node(q) # Node(r) \/ q = r

\* A row refers to a row, an id without a row to nothing and is not referred to.
Rooted ==
    \A x \in Nodes : IF x \in rows THEN parent[x] \in rows \cup {Root}
                                   ELSE parent[x] = Root /\ stamp[x] = Live

\* Only a request that is over has trashed anything.
Stamped == \A x \in Nodes : stamp[x] # Live => pc[stamp[x]] = "done"

\* The histories are kept.
Noticed == (Crossing => crossed) /\ (Racing => raced)

\* A folder that may be moved is not above its new parent: the set that is
\* closed upwards from the parent does not hold the folder.
WalksHold ==
    ~crossed => \A r \in Requests : pc[r] = "walked" =>
        \E U \in SUBSET Folders :
            /\ To(r) \in U /\ Node(r) \notin U
            /\ \A x \in U : parent[x] \in U \cup {Root}

\* A folder that something is on its way into is not in the trash.
TargetsHold == ~raced => \A r \in Requests : Placing(r) => Shown(To(r))

\* A selection is closed downwards.
SelectionsHold ==
    ~raced => \A r \in Requests : pc[r] = "selected" =>
        \A y \in Folders : Below(y, ids[r]) => y \in ids[r]

\* A folder that was counted empty is empty until it is trashed.
CountHolds(r) ==
    LET n == asks[r].node IN
    /\ pc[r] \in {"counted", "emptied"} /\ Shown(n) =>
           \A y \in Folders : Below(y, {n}) => y = n
    /\ pc[r] = "counted" => ids[r] \subseteq {n} /\ (Shown(n) => n \in ids[r])
    /\ pc[r] = "emptied" /\ Shown(n) => LiveFilesIn({n}) = {}
    /\ pc[r] = "selected" /\ ~asks[r].recursive => ids[r] \subseteq {n} /\ LiveFilesIn(ids[r]) = {}

CountsHold == ~raced => \A r \in Requests : CountHolds(r)

\* The types of what the requests write.
Typed ==
    /\ rows \subseteq Nodes
    /\ parent \in [Nodes -> Folders \cup {Root}]
    /\ stamp \in [Nodes -> Requests \cup {Live}]
    /\ asks \in [Requests -> Ask]
    /\ pc \in [Requests -> Steps]
    /\ ids \in [Requests -> SUBSET Folders]

IInv ==
    /\ TypeOK /\ Stands /\ Distinct /\ Rooted /\ Stamped /\ Noticed
    /\ WalksHold /\ CyclesNeedTwoMoves
    /\ TargetsHold /\ SelectionsHold /\ CountsHold /\ OrphansNeedARace /\ SurprisesNeedARace

-----------------------------------------------------------------------------
(* The subtree                                                             *)

\* The subtree of a folder that is shown holds it and is closed downwards.
LEMMA SubtreeClosed ==
    ASSUME NEW f \in Folders
    PROVE  /\ Subtree(f) \subseteq Folders \cap rows
           /\ Shown(f) => f \in Subtree(f)
           /\ \A y \in Folders : Below(y, Subtree(f)) => y \in Subtree(f)
<1>1. Subtree(f) \subseteq Folders \cap rows
    <2> DEFINE S == {y \in Folders : Shown(y)}
    <2>1. \A y \in Folders : Below(y, S) => y \in S
        BY DEF Below
    <2>2. Shown(f) => f \in S
        OBVIOUS
    <2>3. ASSUME NEW x \in Subtree(f) PROVE x \in S
        BY <2>1, <2>2 DEF Subtree
    <2> QED
        BY <2>3
<1>2. Shown(f) => f \in Subtree(f)
    BY DEF Subtree
<1>3. ASSUME NEW y \in Folders, Below(y, Subtree(f)) PROVE y \in Subtree(f)
    <2>1. parent[y] \in Subtree(f)
        BY <1>3 DEF Below
    <2>2. Shown(f)
        BY <2>1 DEF Subtree
    <2>3. ASSUME NEW S \in SUBSET Folders, f \in S, \A z \in Folders : Below(z, S) => z \in S
          PROVE  y \in S
        <3>1. parent[y] \in S
            BY <2>1, <2>3 DEF Subtree
        <3> QED
            BY <1>3, <2>3, <3>1 DEF Below
    <2> QED
        BY <2>2, <2>3 DEF Subtree
<1> QED
    BY <1>1, <1>2, <1>3

\* The subtree of a folder without live folders in it is the folder alone.
LEMMA SubtreeAlone ==
    ASSUME NEW f \in Folders, Shown(f) => \A y \in Folders : Below(y, {f}) => y = f
    PROVE  Subtree(f) \subseteq {f}
<1> SUFFICES ASSUME NEW x \in Subtree(f) PROVE x = f
    OBVIOUS
<1>1. Shown(f) /\ \A S \in SUBSET Folders :
          f \in S /\ (\A y \in Folders : Below(y, S) => y \in S) => x \in S
    BY DEF Subtree
<1>2. {f} \in SUBSET Folders
    OBVIOUS
<1>3. \A y \in Folders : Below(y, {f}) => y \in {f}
    BY <1>1
<1> QED
    BY <1>1, <1>2, <1>3

-----------------------------------------------------------------------------
(* The steps, one by one                                                   *)

\* A request that arrives.
Arrived(r, a, label) ==
    /\ pc[r] = "idle"
    /\ pc' = [pc EXCEPT ![r] = label]
    /\ asks' = [asks EXCEPT ![r] = a]
    /\ UNCHANGED <<rows, parent, stamp, ids>>

\* A request that is refused.
Lost(r) ==
    /\ pc[r] \in Steps \ {"idle", "done"}
    /\ pc' = [pc EXCEPT ![r] = "refused"]
    /\ \A q \in Requests : q # r => ids'[q] = ids[q]
    /\ ids' \in [Requests -> SUBSET Folders]
    /\ UNCHANGED <<rows, parent, stamp, asks>>

\* A new parent that is looked at.
Seen(r, label) ==
    /\ pc[r] = "found" /\ asks[r].kind = "move" /\ Shown(asks[r].to)
    /\ label = IF Node(r) \in Folders THEN "looked" ELSE "checked"
    /\ pc' = [pc EXCEPT ![r] = label]
    /\ UNCHANGED <<rows, parent, stamp, asks, ids>>

\* A move that makes no cycle.
Cleared(r) ==
    /\ pc[r] = "looked" /\ ~IsCycle(asks[r].node, asks[r].to)
    /\ pc' = [pc EXCEPT ![r] = "walked"]
    /\ UNCHANGED <<rows, parent, stamp, asks, ids>>

\* A folder without folders.
Counted(r) ==
    /\ pc[r] = "found" /\ asks[r].kind = "delete" /\ asks[r].node \in Folders /\ ~asks[r].recursive
    /\ Subtree(asks[r].node) \subseteq {asks[r].node}
    /\ ids' = [ids EXCEPT ![r] = Subtree(asks[r].node)]
    /\ pc' = [pc EXCEPT ![r] = "counted"]
    /\ UNCHANGED <<rows, parent, stamp, asks>>

\* A folder without files.
Emptied(r) ==
    /\ pc[r] = "counted" /\ LiveFilesIn(ids[r]) = {}
    /\ pc' = [pc EXCEPT ![r] = "emptied"]
    /\ UNCHANGED <<rows, parent, stamp, asks, ids>>

LEMMA ArriveCases ==
    ASSUME NEW r \in Requests, Arrive(r)
    PROVE  \E a \in Ask :
               \/ Insert(r, a) /\ Arrived(r, a, "checked")
               \/ Move(r, a) /\ a.to = Root /\ Arrived(r, a, "checked")
               \/ Move(r, a) /\ a.to # Root /\ Arrived(r, a, "found")
               \/ Delete(r, a) /\ Arrived(r, a, "found")
<1>1. PICK a \in Ask : asks' = [asks EXCEPT ![r] = a] /\ (Insert(r, a) \/ Move(r, a) \/ Delete(r, a))
    BY DEF Arrive
<1>2. CASE Insert(r, a)
    BY <1>1, <1>2 DEF Arrive, Insert, Arrived, tree
<1>3. CASE Move(r, a) /\ a.to = Root
    BY <1>1, <1>3 DEF Arrive, Move, Arrived, tree
<1>4. CASE Move(r, a) /\ a.to # Root
    BY <1>1, <1>4 DEF Arrive, Move, Arrived, tree
<1>5. CASE Delete(r, a)
    BY <1>1, <1>5 DEF Arrive, Delete, Arrived, tree
<1> QED
    BY <1>1, <1>2, <1>3, <1>4, <1>5

LEMMA LookCases ==
    ASSUME TypeOK, NEW r \in Requests, Look(r)
    PROVE  Lost(r) \/ Seen(r, "looked") \/ Seen(r, "checked")
<1>1. CASE ~Shown(To(r))
    BY <1>1 DEF Look, Lost, TypeOK, Steps, tree
<1>2. CASE Shown(To(r)) /\ Node(r) \in Folders
    BY <1>2 DEF Look, Seen, tree
<1>3. CASE Shown(To(r)) /\ Node(r) \notin Folders
    BY <1>3 DEF Look, Seen, tree
<1> QED
    BY <1>1, <1>2, <1>3

LEMMA WalkCases ==
    ASSUME TypeOK, NEW r \in Requests, Walk(r)
    PROVE  Lost(r) \/ Cleared(r)
<1>1. CASE IsCycle(Node(r), To(r))
    BY <1>1 DEF Walk, Lost, TypeOK, Steps, tree
<1>2. CASE ~IsCycle(Node(r), To(r))
    BY <1>2 DEF Walk, Cleared, tree
<1> QED
    BY <1>1, <1>2

LEMMA CountFoldersCases ==
    ASSUME TypeOK, NEW r \in Requests, CountFolders(r)
    PROVE  Lost(r) \/ Counted(r)
<1>1. CASE ~(Subtree(Node(r)) \subseteq {Node(r)})
    <2>1. ids' = [ids EXCEPT ![r] = Subtree(Node(r))] /\ Subtree(Node(r)) \subseteq Folders
        BY DEF CountFolders, Subtree
    <2>2. ids' \in [Requests -> SUBSET Folders] /\ \A q \in Requests : q # r => ids'[q] = ids[q]
        BY <2>1 DEF TypeOK
    <2> QED
        BY <1>1, <2>2 DEF CountFolders, Lost, TypeOK, Steps, tree
<1>2. CASE Subtree(Node(r)) \subseteq {Node(r)}
    BY <1>2 DEF CountFolders, Counted, tree
<1> QED
    BY <1>1, <1>2

LEMMA CountFilesCases ==
    ASSUME TypeOK, NEW r \in Requests, CountFiles(r)
    PROVE  Lost(r) \/ Emptied(r)
<1>1. CASE LiveFilesIn(ids[r]) # {}
    BY <1>1 DEF CountFiles, Lost, TypeOK, Steps, tree
<1>2. CASE LiveFilesIn(ids[r]) = {}
    BY <1>2 DEF CountFiles, Emptied, tree
<1> QED
    BY <1>1, <1>2

LEMMA RefuseCase ==
    ASSUME TypeOK, NEW r \in Requests, Refuse(r)
    PROVE  Lost(r)
    BY DEF Refuse, Lost, TypeOK, Steps, tree

\* Every step keeps the histories.
LEMMA History ==
    ASSUME TypeOK, Next
    PROVE  /\ crossed' \in BOOLEAN /\ raced' \in BOOLEAN
           /\ Noticed' /\ (crossed => crossed') /\ (raced => raced')
<1>1. Noted
    BY DEF Next, Handler, Arrive, Look, Walk, Place, Refuse, DropFile, CountFolders, CountFiles,
           Select, Trash
<1>2. crossed' = (crossed \/ Crossing') /\ raced' = (raced \/ Racing')
    BY <1>1, Zenon DEF Noted
<1>3. crossed' \in BOOLEAN /\ raced' \in BOOLEAN
    BY <1>2, Zenon
<1> QED
    BY <1>2, <1>3, Zenon DEF Noticed

\* Types are kept.
LEMMA Types ==
    ASSUME IInv, Next
    PROVE  Typed'
<1>0. TypeOK /\ Stands
    BY DEF IInv
<1>1. ASSUME NEW r \in Requests, NEW a \in Ask, Insert(r, a), Arrived(r, a, "checked")
      PROVE  Typed'
    BY <1>0, <1>1 DEF TypeOK, Stands, Typed, Insert, Arrived, Fresh, Ask, Steps
<1>2. ASSUME NEW r \in Requests, NEW a \in Ask, Move(r, a), a.to = Root, Arrived(r, a, "checked")
      PROVE  Typed'
    BY <1>0, <1>2 DEF TypeOK, Stands, Typed, Move, Arrived, Ask, Steps
<1>3. ASSUME NEW r \in Requests, NEW a \in Ask, Move(r, a), a.to # Root, Arrived(r, a, "found")
      PROVE  Typed'
    BY <1>0, <1>3 DEF TypeOK, Stands, Typed, Move, Arrived, Ask, Steps
<1>4. ASSUME NEW r \in Requests, NEW a \in Ask, Delete(r, a), Arrived(r, a, "found")
      PROVE  Typed'
    BY <1>0, <1>4 DEF TypeOK, Stands, Typed, Delete, Arrived, Ask, Steps
<1>5. ASSUME NEW r \in Requests, Lost(r)
      PROVE  Typed'
    BY <1>0, <1>5 DEF TypeOK, Stands, Typed, Lost, Steps
<1>6. ASSUME NEW r \in Requests, Seen(r, "looked")
      PROVE  Typed'
    BY <1>0, <1>6 DEF TypeOK, Stands, Typed, Seen, Steps
<1>7. ASSUME NEW r \in Requests, Seen(r, "checked")
      PROVE  Typed'
    BY <1>0, <1>7 DEF TypeOK, Stands, Typed, Seen, Steps
<1>8. ASSUME NEW r \in Requests, Cleared(r)
      PROVE  Typed'
    BY <1>0, <1>8 DEF TypeOK, Stands, Typed, Cleared, Steps
<1>9. ASSUME NEW r \in Requests, Place(r)
      PROVE  Typed'
    <2>1. Node(r) \in Nodes /\ To(r) \in Folders \cup {Root}
        BY <1>0 DEF TypeOK, Ask
    <2> QED
        BY <1>0, <1>9, <2>1 DEF TypeOK, Typed, Place, Steps
<1>10. ASSUME NEW r \in Requests, DropFile(r)
      PROVE  Typed'
    BY <1>0, <1>10 DEF TypeOK, Stands, Typed, DropFile, Steps
<1>11. ASSUME NEW r \in Requests, Counted(r)
      PROVE  Typed'
    BY <1>0, <1>11 DEF TypeOK, Stands, Typed, Counted, Steps
<1>12. ASSUME NEW r \in Requests, Emptied(r)
      PROVE  Typed'
    BY <1>0, <1>12 DEF TypeOK, Stands, Typed, Emptied, Steps
<1>13. ASSUME NEW r \in Requests, Select(r)
      PROVE  Typed'
    <2>1. Node(r) \in Folders
        BY <1>0, <1>13 DEF Stands, Select
    <2> QED
        BY <1>0, <1>13, <2>1, SubtreeClosed DEF TypeOK, Typed, Select, Steps, tree
<1>14. ASSUME NEW r \in Requests, Trash(r)
      PROVE  Typed'
    BY <1>0, <1>14 DEF TypeOK, Stands, Typed, Trash, Steps
<1>c. TypeOK
    BY DEF IInv
<1> QED
    BY <1>c, <1>1, <1>2, <1>3, <1>4, <1>5, <1>6, <1>7, <1>8, <1>9, <1>10, <1>11, <1>12,
        <1>13, <1>14, ArriveCases, LookCases, WalkCases, CountFoldersCases, CountFilesCases,
        RefuseCase DEF Next, Handler

\* Handlers stay where they may be.
LEMMA Standing ==
    ASSUME IInv, Next
    PROVE  Stands'
<1>0. TypeOK /\ Stands /\ Distinct /\ Rooted
    BY DEF IInv
<1>1. ASSUME NEW r \in Requests, NEW a \in Ask, Insert(r, a), Arrived(r, a, "checked")
      PROVE  Stands'
    BY <1>0, <1>1 DEF TypeOK, Stands, Distinct, Rooted, Insert, Arrived, Fresh, Ask, Steps
<1>2. ASSUME NEW r \in Requests, NEW a \in Ask, Move(r, a), a.to = Root, Arrived(r, a, "checked")
      PROVE  Stands'
    BY <1>0, <1>2 DEF TypeOK, Stands, Distinct, Rooted, Move, Arrived, Ask, Steps
<1>3. ASSUME NEW r \in Requests, NEW a \in Ask, Move(r, a), a.to # Root, Arrived(r, a, "found")
      PROVE  Stands'
    BY <1>0, <1>3 DEF TypeOK, Stands, Distinct, Rooted, Move, Arrived, Ask, Steps
<1>4. ASSUME NEW r \in Requests, NEW a \in Ask, Delete(r, a), Arrived(r, a, "found")
      PROVE  Stands'
    BY <1>0, <1>4 DEF TypeOK, Stands, Distinct, Rooted, Delete, Arrived, Ask, Steps
<1>5. ASSUME NEW r \in Requests, Lost(r)
      PROVE  Stands'
    BY <1>0, <1>5 DEF TypeOK, Stands, Distinct, Rooted, Lost, Steps
<1>6. ASSUME NEW r \in Requests, Seen(r, "looked")
      PROVE  Stands'
    <2>1. To(r) \in (Folders \cup {Root}) \cap rows /\ Node(r) \in Nodes
        BY <1>0, <1>6 DEF TypeOK, Ask, Seen
    <2>2. To(r) \in Folders \cap rows
        BY <1>0, <2>1 DEF TypeOK
    <2> QED
        BY <1>0, <1>6, <2>1, <2>2 DEF TypeOK, Stands, Seen
<1>7. ASSUME NEW r \in Requests, Seen(r, "checked")
      PROVE  Stands'
    <2>1. To(r) \in (Folders \cup {Root}) \cap rows /\ Node(r) \in Nodes
        BY <1>0, <1>7 DEF TypeOK, Ask, Seen
    <2>2. To(r) \in Folders \cap rows
        BY <1>0, <2>1 DEF TypeOK
    <2> QED
        BY <1>0, <1>7, <2>1, <2>2 DEF TypeOK, Stands, Seen
<1>8. ASSUME NEW r \in Requests, Cleared(r)
      PROVE  Stands'
    BY <1>0, <1>8 DEF TypeOK, Stands, Distinct, Rooted, Cleared, Steps
<1>9. ASSUME NEW r \in Requests, Place(r)
      PROVE  Stands'
    BY <1>0, <1>9 DEF TypeOK, Stands, Distinct, Rooted, Place, Steps
<1>10. ASSUME NEW r \in Requests, DropFile(r)
      PROVE  Stands'
    BY <1>0, <1>10 DEF TypeOK, Stands, Distinct, Rooted, DropFile, Steps
<1>11. ASSUME NEW r \in Requests, Counted(r)
      PROVE  Stands'
    BY <1>0, <1>11 DEF TypeOK, Stands, Distinct, Rooted, Counted, Steps
<1>12. ASSUME NEW r \in Requests, Emptied(r)
      PROVE  Stands'
    BY <1>0, <1>12 DEF TypeOK, Stands, Distinct, Rooted, Emptied, Steps
<1>13. ASSUME NEW r \in Requests, Select(r)
      PROVE  Stands'
    <2>1. Node(r) \in Folders
        BY <1>0, <1>13 DEF Stands, Select
    <2>2. ids' = [ids EXCEPT ![r] = Subtree(Node(r))]
        BY <1>13 DEF Select
    <2> QED
        BY <1>0, <1>13, <2>1, <2>2, SubtreeClosed DEF TypeOK, Stands, Select, Steps, tree
<1>14. ASSUME NEW r \in Requests, Trash(r)
      PROVE  Stands'
    BY <1>0, <1>14 DEF TypeOK, Stands, Distinct, Rooted, Trash, Steps
<1>c. TypeOK
    BY DEF IInv
<1> QED
    BY <1>c, <1>1, <1>2, <1>3, <1>4, <1>5, <1>6, <1>7, <1>8, <1>9, <1>10, <1>11, <1>12,
        <1>13, <1>14, ArriveCases, LookCases, WalkCases, CountFoldersCases, CountFilesCases,
        RefuseCase DEF Next, Handler

\* New rows keep ids of their own.
LEMMA Distinguished ==
    ASSUME IInv, Next
    PROVE  Distinct'
<1>0. TypeOK /\ Stands /\ Distinct
    BY DEF IInv
<1>1. ASSUME NEW r \in Requests, NEW a \in Ask, Insert(r, a), Arrived(r, a, "checked")
      PROVE  Distinct'
    BY <1>0, <1>1 DEF TypeOK, Stands, Distinct, Insert, Arrived, Fresh, Ask
<1>2. ASSUME NEW r \in Requests, NEW a \in Ask, Move(r, a), a.to = Root, Arrived(r, a, "checked")
      PROVE  Distinct'
    BY <1>0, <1>2 DEF TypeOK, Stands, Distinct, Move, Arrived, Ask
<1>3. ASSUME NEW r \in Requests, NEW a \in Ask, Move(r, a), a.to # Root, Arrived(r, a, "found")
      PROVE  Distinct'
    BY <1>0, <1>3 DEF TypeOK, Stands, Distinct, Move, Arrived, Ask
<1>4. ASSUME NEW r \in Requests, NEW a \in Ask, Delete(r, a), Arrived(r, a, "found")
      PROVE  Distinct'
    BY <1>0, <1>4 DEF TypeOK, Stands, Distinct, Delete, Arrived, Ask
<1>5. ASSUME NEW r \in Requests, Lost(r)
      PROVE  Distinct'
    BY <1>0, <1>5 DEF TypeOK, Stands, Distinct, Lost
<1>6. ASSUME NEW r \in Requests, Seen(r, "looked")
      PROVE  Distinct'
    BY <1>0, <1>6 DEF TypeOK, Stands, Distinct, Seen
<1>7. ASSUME NEW r \in Requests, Seen(r, "checked")
      PROVE  Distinct'
    BY <1>0, <1>7 DEF TypeOK, Stands, Distinct, Seen
<1>8. ASSUME NEW r \in Requests, Cleared(r)
      PROVE  Distinct'
    BY <1>0, <1>8 DEF TypeOK, Stands, Distinct, Cleared
<1>9. ASSUME NEW r \in Requests, Place(r)
      PROVE  Distinct'
    BY <1>0, <1>9 DEF TypeOK, Stands, Distinct, Place
<1>10. ASSUME NEW r \in Requests, DropFile(r)
      PROVE  Distinct'
    BY <1>0, <1>10 DEF TypeOK, Stands, Distinct, DropFile
<1>11. ASSUME NEW r \in Requests, Counted(r)
      PROVE  Distinct'
    BY <1>0, <1>11 DEF TypeOK, Stands, Distinct, Counted
<1>12. ASSUME NEW r \in Requests, Emptied(r)
      PROVE  Distinct'
    BY <1>0, <1>12 DEF TypeOK, Stands, Distinct, Emptied
<1>13. ASSUME NEW r \in Requests, Select(r)
      PROVE  Distinct'
    BY <1>0, <1>13 DEF TypeOK, Stands, Distinct, Select, tree
<1>14. ASSUME NEW r \in Requests, Trash(r)
      PROVE  Distinct'
    BY <1>0, <1>14 DEF TypeOK, Stands, Distinct, Trash
<1>c. TypeOK
    BY DEF IInv
<1> QED
    BY <1>c, <1>1, <1>2, <1>3, <1>4, <1>5, <1>6, <1>7, <1>8, <1>9, <1>10, <1>11, <1>12,
        <1>13, <1>14, ArriveCases, LookCases, WalkCases, CountFoldersCases, CountFilesCases,
        RefuseCase DEF Next, Handler

\* Rows refer to rows.
LEMMA Rooting ==
    ASSUME IInv, Next
    PROVE  Rooted'
<1>0. TypeOK /\ Stands /\ Rooted
    BY DEF IInv
<1>1. ASSUME NEW r \in Requests, NEW a \in Ask, Insert(r, a), Arrived(r, a, "checked")
      PROVE  Rooted'
    BY <1>0, <1>1 DEF TypeOK, Stands, Rooted, Insert, Arrived, Fresh, Ask
<1>2. ASSUME NEW r \in Requests, NEW a \in Ask, Move(r, a), a.to = Root, Arrived(r, a, "checked")
      PROVE  Rooted'
    BY <1>0, <1>2 DEF TypeOK, Stands, Rooted, Move, Arrived, Ask
<1>3. ASSUME NEW r \in Requests, NEW a \in Ask, Move(r, a), a.to # Root, Arrived(r, a, "found")
      PROVE  Rooted'
    BY <1>0, <1>3 DEF TypeOK, Stands, Rooted, Move, Arrived, Ask
<1>4. ASSUME NEW r \in Requests, NEW a \in Ask, Delete(r, a), Arrived(r, a, "found")
      PROVE  Rooted'
    BY <1>0, <1>4 DEF TypeOK, Stands, Rooted, Delete, Arrived, Ask
<1>5. ASSUME NEW r \in Requests, Lost(r)
      PROVE  Rooted'
    BY <1>0, <1>5 DEF TypeOK, Stands, Rooted, Lost
<1>6. ASSUME NEW r \in Requests, Seen(r, "looked")
      PROVE  Rooted'
    BY <1>0, <1>6 DEF TypeOK, Stands, Rooted, Seen
<1>7. ASSUME NEW r \in Requests, Seen(r, "checked")
      PROVE  Rooted'
    BY <1>0, <1>7 DEF TypeOK, Stands, Rooted, Seen
<1>8. ASSUME NEW r \in Requests, Cleared(r)
      PROVE  Rooted'
    BY <1>0, <1>8 DEF TypeOK, Stands, Rooted, Cleared
<1>9. ASSUME NEW r \in Requests, Place(r)
      PROVE  Rooted'
    BY <1>0, <1>9 DEF TypeOK, Stands, Rooted, Place
<1>10. ASSUME NEW r \in Requests, DropFile(r)
      PROVE  Rooted'
    BY <1>0, <1>10 DEF TypeOK, Stands, Rooted, DropFile
<1>11. ASSUME NEW r \in Requests, Counted(r)
      PROVE  Rooted'
    BY <1>0, <1>11 DEF TypeOK, Stands, Rooted, Counted
<1>12. ASSUME NEW r \in Requests, Emptied(r)
      PROVE  Rooted'
    BY <1>0, <1>12 DEF TypeOK, Stands, Rooted, Emptied
<1>13. ASSUME NEW r \in Requests, Select(r)
      PROVE  Rooted'
    BY <1>0, <1>13 DEF TypeOK, Stands, Rooted, Select, tree
<1>14. ASSUME NEW r \in Requests, Trash(r)
      PROVE  Rooted'
    BY <1>0, <1>14 DEF TypeOK, Stands, Rooted, Trash, LiveFilesIn
<1>c. TypeOK
    BY DEF IInv
<1> QED
    BY <1>c, <1>1, <1>2, <1>3, <1>4, <1>5, <1>6, <1>7, <1>8, <1>9, <1>10, <1>11, <1>12,
        <1>13, <1>14, ArriveCases, LookCases, WalkCases, CountFoldersCases, CountFilesCases,
        RefuseCase DEF Next, Handler

\* Stamps are of requests that are over.
LEMMA Stamping ==
    ASSUME IInv, Next
    PROVE  Stamped'
<1>0. TypeOK /\ Stamped
    BY DEF IInv
<1>1. ASSUME NEW r \in Requests, NEW a \in Ask, Insert(r, a), Arrived(r, a, "checked")
      PROVE  Stamped'
    BY <1>0, <1>1 DEF TypeOK, Stamped, Insert, Arrived, Fresh, Ask
<1>2. ASSUME NEW r \in Requests, NEW a \in Ask, Move(r, a), a.to = Root, Arrived(r, a, "checked")
      PROVE  Stamped'
    BY <1>0, <1>2 DEF TypeOK, Stamped, Move, Arrived, Ask
<1>3. ASSUME NEW r \in Requests, NEW a \in Ask, Move(r, a), a.to # Root, Arrived(r, a, "found")
      PROVE  Stamped'
    BY <1>0, <1>3 DEF TypeOK, Stamped, Move, Arrived, Ask
<1>4. ASSUME NEW r \in Requests, NEW a \in Ask, Delete(r, a), Arrived(r, a, "found")
      PROVE  Stamped'
    BY <1>0, <1>4 DEF TypeOK, Stamped, Delete, Arrived, Ask
<1>5. ASSUME NEW r \in Requests, Lost(r)
      PROVE  Stamped'
    BY <1>0, <1>5 DEF TypeOK, Stamped, Lost
<1>6. ASSUME NEW r \in Requests, Seen(r, "looked")
      PROVE  Stamped'
    BY <1>0, <1>6 DEF TypeOK, Stamped, Seen
<1>7. ASSUME NEW r \in Requests, Seen(r, "checked")
      PROVE  Stamped'
    BY <1>0, <1>7 DEF TypeOK, Stamped, Seen
<1>8. ASSUME NEW r \in Requests, Cleared(r)
      PROVE  Stamped'
    BY <1>0, <1>8 DEF TypeOK, Stamped, Cleared
<1>9. ASSUME NEW r \in Requests, Place(r)
      PROVE  Stamped'
    BY <1>0, <1>9 DEF TypeOK, Stamped, Place
<1>10. ASSUME NEW r \in Requests, DropFile(r)
      PROVE  Stamped'
    BY <1>0, <1>10 DEF TypeOK, Stamped, DropFile
<1>11. ASSUME NEW r \in Requests, Counted(r)
      PROVE  Stamped'
    BY <1>0, <1>11 DEF TypeOK, Stamped, Counted
<1>12. ASSUME NEW r \in Requests, Emptied(r)
      PROVE  Stamped'
    BY <1>0, <1>12 DEF TypeOK, Stamped, Emptied
<1>13. ASSUME NEW r \in Requests, Select(r)
      PROVE  Stamped'
    BY <1>0, <1>13 DEF TypeOK, Stamped, Select, tree
<1>14. ASSUME NEW r \in Requests, Trash(r)
      PROVE  Stamped'
    BY <1>0, <1>14 DEF TypeOK, Stamped, Trash
<1>c. TypeOK
    BY DEF IInv
<1> QED
    BY <1>c, <1>1, <1>2, <1>3, <1>4, <1>5, <1>6, <1>7, <1>8, <1>9, <1>10, <1>11, <1>12,
        <1>13, <1>14, ArriveCases, LookCases, WalkCases, CountFoldersCases, CountFilesCases,
        RefuseCase DEF Next, Handler

\* What was walked stays so.
LEMMA Walking ==
    ASSUME IInv, Next
    PROVE  WalksHold'
<1>0. TypeOK /\ Stands /\ Rooted /\ Noticed /\ WalksHold
    BY DEF IInv
<1>h. (crossed => crossed') /\ (raced => raced')
    BY <1>0, History
<1>1. ASSUME NEW r \in Requests, NEW a \in Ask, Insert(r, a), Arrived(r, a, "checked")
      PROVE  WalksHold'
    BY <1>0, <1>h, <1>1 DEF TypeOK, Stands, Rooted, Noticed, WalksHold, Insert, Arrived,
        Fresh, Ask
<1>2. ASSUME NEW r \in Requests, NEW a \in Ask, Move(r, a), a.to = Root, Arrived(r, a, "checked")
      PROVE  WalksHold'
    BY <1>0, <1>h, <1>2 DEF TypeOK, Stands, Rooted, Noticed, WalksHold, Move, Arrived, Ask
<1>3. ASSUME NEW r \in Requests, NEW a \in Ask, Move(r, a), a.to # Root, Arrived(r, a, "found")
      PROVE  WalksHold'
    BY <1>0, <1>h, <1>3 DEF TypeOK, Stands, Rooted, Noticed, WalksHold, Move, Arrived, Ask
<1>4. ASSUME NEW r \in Requests, NEW a \in Ask, Delete(r, a), Arrived(r, a, "found")
      PROVE  WalksHold'
    BY <1>0, <1>h, <1>4 DEF TypeOK, Stands, Rooted, Noticed, WalksHold, Delete, Arrived, Ask
<1>5. ASSUME NEW r \in Requests, Lost(r)
      PROVE  WalksHold'
    BY <1>0, <1>h, <1>5 DEF TypeOK, Stands, Rooted, Noticed, WalksHold, Lost
<1>6. ASSUME NEW r \in Requests, Seen(r, "looked")
      PROVE  WalksHold'
    BY <1>0, <1>h, <1>6 DEF TypeOK, Stands, Rooted, Noticed, WalksHold, Seen
<1>7. ASSUME NEW r \in Requests, Seen(r, "checked")
      PROVE  WalksHold'
    BY <1>0, <1>h, <1>7 DEF TypeOK, Stands, Rooted, Noticed, WalksHold, Seen
<1>8. ASSUME NEW r \in Requests, Cleared(r)
      PROVE  WalksHold'
    <2>1. PICK U \in SUBSET Folders :
              To(r) \in U /\ Node(r) \notin U /\ \A x \in U : parent[x] \in U \cup {Root}
        BY <1>8 DEF Cleared, IsCycle
    <2> QED
        BY <1>0, <1>h, <1>8, <2>1 DEF TypeOK, WalksHold, Cleared
<1>9. ASSUME NEW r \in Requests, Place(r)
      PROVE  WalksHold'
    <2> SUFFICES ASSUME ~crossed', NEW q \in Requests, pc'[q] = "walked"
                 PROVE  \E U \in SUBSET Folders :
                            /\ To(q)' \in U /\ Node(q)' \notin U
                            /\ \A x \in U : parent'[x] \in U \cup {Root}
        BY DEF WalksHold
    <2>1. q # r /\ pc[q] = "walked" /\ ~crossed
        BY <1>0, <1>h, <1>9 DEF TypeOK, Place
    <2>2. pc[r] = "checked"
        BY <1>0, <1>9, <2>1 DEF Noticed, Crossing, Place
    <2>3. PICK U \in SUBSET Folders :
              To(q) \in U /\ Node(q) \notin U /\ \A x \in U : parent[x] \in U \cup {Root}
        BY <1>0, <2>1 DEF WalksHold
    <2>4. To(q) \in Folders \cap rows
        BY <1>0, <2>1 DEF Stands
    <2>5. /\ parent' = [parent EXCEPT ![Node(r)] = To(r)]
          /\ UNCHANGED asks
        BY <1>9 DEF Place
    <2>6. CASE Kind(r) = "insert"
        <3>1. Node(r) \notin rows
            BY <1>0, <2>2, <2>6 DEF Stands
        <3>2. \A x \in Nodes : parent[x] # Node(r)
            BY <1>0, <3>1, Root \notin Nodes DEF Rooted, TypeOK, Ask
        <3>3. U \ {Node(r)} \in SUBSET Folders
            OBVIOUS
        <3>4. To(q)' \in U \ {Node(r)} /\ Node(q)' \notin U \ {Node(r)}
            BY <2>3, <2>4, <2>5, <3>1
        <3>5. \A x \in U \ {Node(r)} : parent'[x] \in (U \ {Node(r)}) \cup {Root}
            BY <1>0, <2>3, <2>5, <3>2 DEF TypeOK
        <3> QED
            BY <3>3, <3>4, <3>5
    <2>7. CASE Kind(r) = "move"
        <3>1. To(r) = Root \/ Node(r) \in Files
            BY <1>0, <2>2, <2>7 DEF Stands
        <3>2. \A x \in U : parent'[x] \in U \cup {Root}
            BY <1>0, <2>3, <2>5, <3>1 DEF TypeOK
        <3> QED
            BY <2>3, <2>5, <3>2
    <2> QED
        BY <1>0, <2>2, <2>6, <2>7 DEF Stands
<1>10. ASSUME NEW r \in Requests, DropFile(r)
      PROVE  WalksHold'
    BY <1>0, <1>h, <1>10 DEF TypeOK, Stands, Rooted, Noticed, WalksHold, DropFile
<1>11. ASSUME NEW r \in Requests, Counted(r)
      PROVE  WalksHold'
    BY <1>0, <1>h, <1>11 DEF TypeOK, Stands, Rooted, Noticed, WalksHold, Counted
<1>12. ASSUME NEW r \in Requests, Emptied(r)
      PROVE  WalksHold'
    BY <1>0, <1>h, <1>12 DEF TypeOK, Stands, Rooted, Noticed, WalksHold, Emptied
<1>13. ASSUME NEW r \in Requests, Select(r)
      PROVE  WalksHold'
    BY <1>0, <1>h, <1>13 DEF TypeOK, Stands, Rooted, Noticed, WalksHold, Select, tree
<1>14. ASSUME NEW r \in Requests, Trash(r)
      PROVE  WalksHold'
    BY <1>0, <1>h, <1>14 DEF TypeOK, Stands, Rooted, Noticed, WalksHold, Trash
<1>c. TypeOK
    BY DEF IInv
<1> QED
    BY <1>c, <1>1, <1>2, <1>3, <1>4, <1>5, <1>6, <1>7, <1>8, <1>9, <1>10, <1>11, <1>12,
        <1>13, <1>14, ArriveCases, LookCases, WalkCases, CountFoldersCases, CountFilesCases,
        RefuseCase DEF Next, Handler

\* No step makes a cycle.
LEMMA Forest ==
    ASSUME IInv, Next
    PROVE  CyclesNeedTwoMoves'
<1>0. TypeOK /\ Stands /\ Rooted /\ WalksHold /\ CyclesNeedTwoMoves
    BY DEF IInv
<1>h. (crossed => crossed') /\ (raced => raced')
    BY <1>0, History
<1>1. ASSUME NEW r \in Requests, NEW a \in Ask, Insert(r, a), Arrived(r, a, "checked")
      PROVE  CyclesNeedTwoMoves'
    BY <1>0, <1>h, <1>1 DEF TypeOK, Stands, Rooted, WalksHold, CyclesNeedTwoMoves, Insert,
        Arrived, Fresh, Ask, Acyclic
<1>2. ASSUME NEW r \in Requests, NEW a \in Ask, Move(r, a), a.to = Root, Arrived(r, a, "checked")
      PROVE  CyclesNeedTwoMoves'
    BY <1>0, <1>h, <1>2 DEF TypeOK, Stands, Rooted, WalksHold, CyclesNeedTwoMoves, Move,
        Arrived, Ask, Acyclic
<1>3. ASSUME NEW r \in Requests, NEW a \in Ask, Move(r, a), a.to # Root, Arrived(r, a, "found")
      PROVE  CyclesNeedTwoMoves'
    BY <1>0, <1>h, <1>3 DEF TypeOK, Stands, Rooted, WalksHold, CyclesNeedTwoMoves, Move,
        Arrived, Ask, Acyclic
<1>4. ASSUME NEW r \in Requests, NEW a \in Ask, Delete(r, a), Arrived(r, a, "found")
      PROVE  CyclesNeedTwoMoves'
    BY <1>0, <1>h, <1>4 DEF TypeOK, Stands, Rooted, WalksHold, CyclesNeedTwoMoves, Delete,
        Arrived, Ask, Acyclic
<1>5. ASSUME NEW r \in Requests, Lost(r)
      PROVE  CyclesNeedTwoMoves'
    BY <1>0, <1>h, <1>5 DEF TypeOK, Stands, Rooted, WalksHold, CyclesNeedTwoMoves, Lost,
        Acyclic
<1>6. ASSUME NEW r \in Requests, Seen(r, "looked")
      PROVE  CyclesNeedTwoMoves'
    BY <1>0, <1>h, <1>6 DEF TypeOK, Stands, Rooted, WalksHold, CyclesNeedTwoMoves, Seen,
        Acyclic
<1>7. ASSUME NEW r \in Requests, Seen(r, "checked")
      PROVE  CyclesNeedTwoMoves'
    BY <1>0, <1>h, <1>7 DEF TypeOK, Stands, Rooted, WalksHold, CyclesNeedTwoMoves, Seen,
        Acyclic
<1>8. ASSUME NEW r \in Requests, Cleared(r)
      PROVE  CyclesNeedTwoMoves'
    BY <1>0, <1>h, <1>8 DEF TypeOK, Stands, Rooted, WalksHold, CyclesNeedTwoMoves, Cleared,
        Acyclic
<1>9. ASSUME NEW r \in Requests, Place(r)
      PROVE  CyclesNeedTwoMoves'
    <2> SUFFICES ASSUME ~crossed', NEW S \in SUBSET Folders, S # {},
                        \A x \in S : parent'[x] \in S
                 PROVE  FALSE
        BY DEF CyclesNeedTwoMoves, Acyclic
    <2>1. /\ parent' = [parent EXCEPT ![Node(r)] = To(r)]
          /\ pc[r] \in {"checked", "walked"}
        BY <1>9 DEF Place
    <2>2. \A T \in SUBSET Folders : T # {} => \E x \in T : parent[x] \notin T
        BY <1>0, <1>h DEF CyclesNeedTwoMoves, Acyclic
    <2>3. \A x \in S : x # Node(r) => parent[x] \in S
        BY <1>0, <2>1 DEF TypeOK
    <2>4. Node(r) \in S
        BY <2>2, <2>3
    <2>5. To(r) \in S
        BY <1>0, <2>1, <2>4 DEF TypeOK
    <2>6. CASE pc[r] = "checked"
        <3>1. Node(r) \notin rows /\ To(r) \in rows
            BY <1>0, <2>4, <2>5, <2>6 DEF Stands
        <3>2. \A x \in Nodes : parent[x] # Node(r)
            BY <1>0, <3>1 DEF Rooted, TypeOK, Ask
        <3>3. \A x \in S \ {Node(r)} : parent[x] \in S \ {Node(r)}
            BY <2>3, <3>2
        <3>4. S \ {Node(r)} # {} /\ S \ {Node(r)} \in SUBSET Folders
            BY <2>5, <3>1
        <3> QED
            BY <2>2, <3>3, <3>4
    <2>7. CASE pc[r] = "walked"
        <3>1. PICK U \in SUBSET Folders :
                  To(r) \in U /\ Node(r) \notin U /\ \A x \in U : parent[x] \in U \cup {Root}
            BY <1>0, <1>h, <2>7 DEF WalksHold
        <3>2. \A x \in S \cap U : parent[x] \in S \cap U
            BY <2>3, <3>1
        <3>3. S \cap U # {} /\ S \cap U \in SUBSET Folders
            BY <2>5, <3>1
        <3> QED
            BY <2>2, <3>2, <3>3
    <2> QED
        BY <2>1, <2>6, <2>7
<1>10. ASSUME NEW r \in Requests, DropFile(r)
      PROVE  CyclesNeedTwoMoves'
    BY <1>0, <1>h, <1>10 DEF TypeOK, Stands, Rooted, WalksHold, CyclesNeedTwoMoves,
        DropFile, Acyclic
<1>11. ASSUME NEW r \in Requests, Counted(r)
      PROVE  CyclesNeedTwoMoves'
    BY <1>0, <1>h, <1>11 DEF TypeOK, Stands, Rooted, WalksHold, CyclesNeedTwoMoves, Counted,
        Acyclic
<1>12. ASSUME NEW r \in Requests, Emptied(r)
      PROVE  CyclesNeedTwoMoves'
    BY <1>0, <1>h, <1>12 DEF TypeOK, Stands, Rooted, WalksHold, CyclesNeedTwoMoves, Emptied,
        Acyclic
<1>13. ASSUME NEW r \in Requests, Select(r)
      PROVE  CyclesNeedTwoMoves'
    BY <1>0, <1>h, <1>13 DEF TypeOK, Stands, Rooted, WalksHold, CyclesNeedTwoMoves, Select,
        tree, Acyclic
<1>14. ASSUME NEW r \in Requests, Trash(r)
      PROVE  CyclesNeedTwoMoves'
    BY <1>0, <1>h, <1>14 DEF TypeOK, Stands, Rooted, WalksHold, CyclesNeedTwoMoves, Trash,
        Acyclic
<1>c. TypeOK
    BY DEF IInv
<1> QED
    BY <1>c, <1>1, <1>2, <1>3, <1>4, <1>5, <1>6, <1>7, <1>8, <1>9, <1>10, <1>11, <1>12,
        <1>13, <1>14, ArriveCases, LookCases, WalkCases, CountFoldersCases, CountFilesCases,
        RefuseCase DEF Next, Handler

\* Nothing goes into a folder that is trashed.
LEMMA Targets ==
    ASSUME IInv, Next
    PROVE  TargetsHold'
<1>0. TypeOK /\ Stands /\ Rooted /\ Noticed /\ TargetsHold
    BY DEF IInv
<1>h. (crossed => crossed') /\ (raced => raced')
    BY <1>0, History
<1>1. ASSUME NEW r \in Requests, NEW a \in Ask, Insert(r, a), Arrived(r, a, "checked")
      PROVE  TargetsHold'
    BY <1>0, <1>h, <1>1 DEF TypeOK, Stands, Rooted, Noticed, TargetsHold, Insert, Arrived,
        Fresh, Ask, Placing, Steps
<1>2. ASSUME NEW r \in Requests, NEW a \in Ask, Move(r, a), a.to = Root, Arrived(r, a, "checked")
      PROVE  TargetsHold'
    BY <1>0, <1>h, <1>2 DEF TypeOK, Stands, Rooted, Noticed, TargetsHold, Move, Arrived,
        Ask, Placing, Steps
<1>3. ASSUME NEW r \in Requests, NEW a \in Ask, Move(r, a), a.to # Root, Arrived(r, a, "found")
      PROVE  TargetsHold'
    BY <1>0, <1>h, <1>3 DEF TypeOK, Stands, Rooted, Noticed, TargetsHold, Move, Arrived,
        Ask, Placing, Steps
<1>4. ASSUME NEW r \in Requests, NEW a \in Ask, Delete(r, a), Arrived(r, a, "found")
      PROVE  TargetsHold'
    BY <1>0, <1>h, <1>4 DEF TypeOK, Stands, Rooted, Noticed, TargetsHold, Delete, Arrived,
        Ask, Placing, Steps
<1>5. ASSUME NEW r \in Requests, Lost(r)
      PROVE  TargetsHold'
    BY <1>0, <1>h, <1>5 DEF TypeOK, Stands, Rooted, Noticed, TargetsHold, Lost, Placing,
        Steps
<1>6. ASSUME NEW r \in Requests, Seen(r, "looked")
      PROVE  TargetsHold'
    BY <1>0, <1>h, <1>6 DEF TypeOK, Stands, Rooted, Noticed, TargetsHold, Seen, Placing,
        Steps
<1>7. ASSUME NEW r \in Requests, Seen(r, "checked")
      PROVE  TargetsHold'
    BY <1>0, <1>h, <1>7 DEF TypeOK, Stands, Rooted, Noticed, TargetsHold, Seen, Placing,
        Steps
<1>8. ASSUME NEW r \in Requests, Cleared(r)
      PROVE  TargetsHold'
    BY <1>0, <1>h, <1>8 DEF TypeOK, Stands, Rooted, Noticed, TargetsHold, Cleared, Placing,
        Steps
<1>9. ASSUME NEW r \in Requests, Place(r)
      PROVE  TargetsHold'
    BY <1>0, <1>h, <1>9 DEF TypeOK, Stands, Rooted, Noticed, TargetsHold, Place, Placing,
        Steps, Racing, Deleting
<1>10. ASSUME NEW r \in Requests, DropFile(r)
      PROVE  TargetsHold'
    <2>1. \A q \in Requests : Placing(q) => To(q) \in Folders
        BY <1>0 DEF TypeOK, Placing, Ask
    <2>2. \A q \in Requests : Placing(q)' => Placing(q)
        BY <1>0, <1>10 DEF TypeOK, Placing, DropFile
    <2> QED
        BY <1>0, <1>h, <1>10, <2>1, <2>2 DEF TypeOK, TargetsHold, DropFile
<1>11. ASSUME NEW r \in Requests, Counted(r)
      PROVE  TargetsHold'
    BY <1>0, <1>h, <1>11 DEF TypeOK, Stands, Rooted, Noticed, TargetsHold, Counted, Placing,
        Steps
<1>12. ASSUME NEW r \in Requests, Emptied(r)
      PROVE  TargetsHold'
    BY <1>0, <1>h, <1>12 DEF TypeOK, Stands, Rooted, Noticed, TargetsHold, Emptied, Placing,
        Steps
<1>13. ASSUME NEW r \in Requests, Select(r)
      PROVE  TargetsHold'
    BY <1>0, <1>h, <1>13 DEF TypeOK, Stands, Rooted, Noticed, TargetsHold, Select, tree,
        Placing, Steps
<1>14. ASSUME NEW r \in Requests, Trash(r)
      PROVE  TargetsHold'
    BY <1>0, <1>h, <1>14 DEF TypeOK, Stands, Rooted, Noticed, TargetsHold, Trash, Placing,
        Steps, Racing, Deleting
<1>c. TypeOK
    BY DEF IInv
<1> QED
    BY <1>c, <1>1, <1>2, <1>3, <1>4, <1>5, <1>6, <1>7, <1>8, <1>9, <1>10, <1>11, <1>12,
        <1>13, <1>14, ArriveCases, LookCases, WalkCases, CountFoldersCases, CountFilesCases,
        RefuseCase DEF Next, Handler

\* Selections stay closed.
LEMMA Selections ==
    ASSUME IInv, Next
    PROVE  SelectionsHold'
<1>0. TypeOK /\ Stands /\ Noticed /\ SelectionsHold
    BY DEF IInv
<1>h. (crossed => crossed') /\ (raced => raced')
    BY <1>0, History
<1>1. ASSUME NEW r \in Requests, NEW a \in Ask, Insert(r, a), Arrived(r, a, "checked")
      PROVE  SelectionsHold'
    BY <1>0, <1>h, <1>1 DEF TypeOK, Stands, Noticed, SelectionsHold, Insert, Arrived, Fresh,
        Ask, Below
<1>2. ASSUME NEW r \in Requests, NEW a \in Ask, Move(r, a), a.to = Root, Arrived(r, a, "checked")
      PROVE  SelectionsHold'
    BY <1>0, <1>h, <1>2 DEF TypeOK, Stands, Noticed, SelectionsHold, Move, Arrived, Ask,
        Below
<1>3. ASSUME NEW r \in Requests, NEW a \in Ask, Move(r, a), a.to # Root, Arrived(r, a, "found")
      PROVE  SelectionsHold'
    BY <1>0, <1>h, <1>3 DEF TypeOK, Stands, Noticed, SelectionsHold, Move, Arrived, Ask,
        Below
<1>4. ASSUME NEW r \in Requests, NEW a \in Ask, Delete(r, a), Arrived(r, a, "found")
      PROVE  SelectionsHold'
    BY <1>0, <1>h, <1>4 DEF TypeOK, Stands, Noticed, SelectionsHold, Delete, Arrived, Ask,
        Below
<1>5. ASSUME NEW r \in Requests, Lost(r)
      PROVE  SelectionsHold'
    BY <1>0, <1>h, <1>5 DEF TypeOK, Stands, Noticed, SelectionsHold, Lost, Below
<1>6. ASSUME NEW r \in Requests, Seen(r, "looked")
      PROVE  SelectionsHold'
    BY <1>0, <1>h, <1>6 DEF TypeOK, Stands, Noticed, SelectionsHold, Seen, Below
<1>7. ASSUME NEW r \in Requests, Seen(r, "checked")
      PROVE  SelectionsHold'
    BY <1>0, <1>h, <1>7 DEF TypeOK, Stands, Noticed, SelectionsHold, Seen, Below
<1>8. ASSUME NEW r \in Requests, Cleared(r)
      PROVE  SelectionsHold'
    BY <1>0, <1>h, <1>8 DEF TypeOK, Stands, Noticed, SelectionsHold, Cleared, Below
<1>9. ASSUME NEW r \in Requests, Place(r)
      PROVE  SelectionsHold'
    BY <1>0, <1>h, <1>9 DEF TypeOK, Stands, Noticed, SelectionsHold, Place, Below, Racing,
        Deleting, Placing
<1>10. ASSUME NEW r \in Requests, DropFile(r)
      PROVE  SelectionsHold'
    BY <1>0, <1>h, <1>10 DEF TypeOK, Stands, Noticed, SelectionsHold, DropFile, Below
<1>11. ASSUME NEW r \in Requests, Counted(r)
      PROVE  SelectionsHold'
    BY <1>0, <1>h, <1>11 DEF TypeOK, Stands, Noticed, SelectionsHold, Counted, Below
<1>12. ASSUME NEW r \in Requests, Emptied(r)
      PROVE  SelectionsHold'
    BY <1>0, <1>h, <1>12 DEF TypeOK, Stands, Noticed, SelectionsHold, Emptied, Below
<1>13. ASSUME NEW r \in Requests, Select(r)
      PROVE  SelectionsHold'
    <2>1. Node(r) \in Folders
        BY <1>0, <1>13 DEF Stands, Select
    <2>2. /\ pc' = [pc EXCEPT ![r] = "selected"] /\ ids' = [ids EXCEPT ![r] = Subtree(Node(r))]
          /\ UNCHANGED <<rows, parent, stamp, asks>>
        BY <1>13 DEF Select, tree
    <2>3. \A y \in Folders : Below(y, Subtree(Node(r))) => y \in Subtree(Node(r))
        BY <2>1, SubtreeClosed
    <2> QED
        BY <1>0, <1>h, <2>2, <2>3 DEF TypeOK, SelectionsHold, Below
<1>14. ASSUME NEW r \in Requests, Trash(r)
      PROVE  SelectionsHold'
    BY <1>0, <1>h, <1>14 DEF TypeOK, Stands, Noticed, SelectionsHold, Trash, Below
<1>c. TypeOK
    BY DEF IInv
<1> QED
    BY <1>c, <1>1, <1>2, <1>3, <1>4, <1>5, <1>6, <1>7, <1>8, <1>9, <1>10, <1>11, <1>12,
        <1>13, <1>14, ArriveCases, LookCases, WalkCases, CountFoldersCases, CountFilesCases,
        RefuseCase DEF Next, Handler

\* What was counted empty stays so.
LEMMA Counts ==
    ASSUME IInv, Next
    PROVE  CountsHold'
<1>0. TypeOK /\ Stands /\ Noticed /\ CountsHold
    BY DEF IInv
<1>h. (crossed => crossed') /\ (raced => raced')
    BY <1>0, History
<1>1. ASSUME NEW r \in Requests, NEW a \in Ask, Insert(r, a), Arrived(r, a, "checked")
      PROVE  CountsHold'
    BY <1>0, <1>h, <1>1 DEF TypeOK, Stands, Noticed, CountsHold, Insert, Arrived, Fresh,
        Ask, CountHolds, Below, LiveFilesIn
<1>2. ASSUME NEW r \in Requests, NEW a \in Ask, Move(r, a), a.to = Root, Arrived(r, a, "checked")
      PROVE  CountsHold'
    BY <1>0, <1>h, <1>2 DEF TypeOK, Stands, Noticed, CountsHold, Move, Arrived, Ask,
        CountHolds, Below, LiveFilesIn
<1>3. ASSUME NEW r \in Requests, NEW a \in Ask, Move(r, a), a.to # Root, Arrived(r, a, "found")
      PROVE  CountsHold'
    BY <1>0, <1>h, <1>3 DEF TypeOK, Stands, Noticed, CountsHold, Move, Arrived, Ask,
        CountHolds, Below, LiveFilesIn
<1>4. ASSUME NEW r \in Requests, NEW a \in Ask, Delete(r, a), Arrived(r, a, "found")
      PROVE  CountsHold'
    BY <1>0, <1>h, <1>4 DEF TypeOK, Stands, Noticed, CountsHold, Delete, Arrived, Ask,
        CountHolds, Below, LiveFilesIn
<1>5. ASSUME NEW r \in Requests, Lost(r)
      PROVE  CountsHold'
    BY <1>0, <1>h, <1>5 DEF TypeOK, Stands, Noticed, CountsHold, Lost, CountHolds, Below,
        LiveFilesIn
<1>6. ASSUME NEW r \in Requests, Seen(r, "looked")
      PROVE  CountsHold'
    BY <1>0, <1>h, <1>6 DEF TypeOK, Stands, Noticed, CountsHold, Seen, CountHolds, Below,
        LiveFilesIn
<1>7. ASSUME NEW r \in Requests, Seen(r, "checked")
      PROVE  CountsHold'
    BY <1>0, <1>h, <1>7 DEF TypeOK, Stands, Noticed, CountsHold, Seen, CountHolds, Below,
        LiveFilesIn
<1>8. ASSUME NEW r \in Requests, Cleared(r)
      PROVE  CountsHold'
    BY <1>0, <1>h, <1>8 DEF TypeOK, Stands, Noticed, CountsHold, Cleared, CountHolds, Below,
        LiveFilesIn
<1>9. ASSUME NEW r \in Requests, Place(r)
      PROVE  CountsHold'
    <2> SUFFICES ASSUME ~raced', NEW q \in Requests, pc'[q] \in {"counted", "emptied", "selected"}
                 PROVE  CountHolds(q)'
        BY DEF CountsHold, CountHolds
    <2>1. /\ q # r /\ pc[q] \in {"counted", "emptied", "selected"} /\ CountHolds(q)
          /\ ids'[q] = ids[q] /\ pc'[q] = pc[q]
        BY <1>0, <1>h, <1>9 DEF TypeOK, Place, CountsHold, CountHolds
    <2>2. pc[r] \in {"checked", "walked"} /\ ~Placing(r)
        BY <1>0, <1>h, <1>9, <2>1 DEF Noticed, Racing, Deleting, Place
    <2>3. To(r) = Root
        BY <2>2 DEF Placing
    <2>4. /\ parent' = [parent EXCEPT ![Node(r)] = Root] /\ rows' = rows \cup {Node(r)}
          /\ UNCHANGED <<stamp, asks>>
        BY <1>9, <2>3 DEF Place
    <2>5. \A x \in Nodes : parent'[x] # Root => parent'[x] = parent[x] /\ (Shown(x)' => Shown(x))
        BY <1>0, <2>4 DEF TypeOK
    <2>6. Node(q) \in Folders /\ Node(q) \in rows /\ ids[q] \subseteq Folders
        BY <1>0, <2>1 DEF Stands, TypeOK
    <2>7. \A S \in SUBSET Folders : LiveFilesIn(S)' \subseteq LiveFilesIn(S)
        BY <2>5 DEF LiveFilesIn
    <2>8. \A y \in Folders : Below(y, {Node(q)})' => Below(y, {Node(q)})
        BY <2>4, <2>5, <2>6 DEF Below
    <2>9. Shown(Node(q))' <=> Shown(Node(q))
        BY <2>4, <2>6
    <2> QED
        BY <2>1, <2>4, <2>6, <2>7, <2>8, <2>9 DEF CountHolds
<1>10. ASSUME NEW r \in Requests, DropFile(r)
      PROVE  CountsHold'
    BY <1>0, <1>h, <1>10 DEF TypeOK, Stands, Noticed, CountsHold, DropFile, CountHolds,
        Below, LiveFilesIn
<1>11. ASSUME NEW r \in Requests, Counted(r)
      PROVE  CountsHold'
    <2>1. Node(r) \in Folders /\ Subtree(Node(r)) \subseteq {Node(r)}
        BY <1>11 DEF Counted
    <2>2. Shown(Node(r)) => Node(r) \in Subtree(Node(r))
        BY <2>1, SubtreeClosed
    <2>3. Shown(Node(r)) => \A y \in Folders : Below(y, {Node(r)}) => y = Node(r)
        BY <2>1, <2>2, SubtreeClosed DEF Below
    <2>4. /\ pc' = [pc EXCEPT ![r] = "counted"] /\ ids' = [ids EXCEPT ![r] = Subtree(Node(r))]
          /\ UNCHANGED <<rows, parent, stamp, asks>>
        BY <1>11 DEF Counted
    <2> QED
        BY <1>0, <1>h, <2>1, <2>2, <2>3, <2>4 DEF TypeOK, CountsHold, CountHolds, Below, LiveFilesIn
<1>12. ASSUME NEW r \in Requests, Emptied(r)
      PROVE  CountsHold'
    BY <1>0, <1>h, <1>12 DEF TypeOK, Stands, Noticed, CountsHold, Emptied, CountHolds,
        Below, LiveFilesIn
<1>13. ASSUME NEW r \in Requests, Select(r)
      PROVE  CountsHold'
    <2>1. Node(r) \in Folders
        BY <1>0, <1>13 DEF Stands, Select
    <2>2. /\ pc' = [pc EXCEPT ![r] = "selected"] /\ ids' = [ids EXCEPT ![r] = Subtree(Node(r))]
          /\ UNCHANGED <<rows, parent, stamp, asks>>
        BY <1>13 DEF Select, tree
    <2>3. ASSUME ~raced, ~asks[r].recursive
          PROVE  Subtree(Node(r)) \subseteq {Node(r)} /\ LiveFilesIn(Subtree(Node(r))) = {}
        <3>1. pc[r] = "emptied"
            BY <1>13, <2>3 DEF Select
        <3>2. Shown(Node(r)) => \A y \in Folders : Below(y, {Node(r)}) => y = Node(r)
            BY <1>0, <2>3, <3>1 DEF CountsHold, CountHolds
        <3>3. Shown(Node(r)) => LiveFilesIn({Node(r)}) = {}
            BY <1>0, <2>3, <3>1 DEF CountsHold, CountHolds
        <3>4. Subtree(Node(r)) \subseteq {Node(r)}
            BY <2>1, <3>2, SubtreeAlone
        <3>5. Subtree(Node(r)) # {} => Shown(Node(r))
            BY DEF Subtree
        <3> QED
            BY <3>3, <3>4, <3>5 DEF LiveFilesIn
    <2> QED
        BY <1>0, <1>h, <2>2, <2>3 DEF TypeOK, CountsHold, CountHolds, Below, LiveFilesIn
<1>14. ASSUME NEW r \in Requests, Trash(r)
      PROVE  CountsHold'
    BY <1>0, <1>h, <1>14 DEF TypeOK, Stands, Noticed, CountsHold, Trash, CountHolds, Below,
        LiveFilesIn
<1>c. TypeOK
    BY DEF IInv
<1> QED
    BY <1>c, <1>1, <1>2, <1>3, <1>4, <1>5, <1>6, <1>7, <1>8, <1>9, <1>10, <1>11, <1>12,
        <1>13, <1>14, ArriveCases, LookCases, WalkCases, CountFoldersCases, CountFilesCases,
        RefuseCase DEF Next, Handler

\* No step leaves something shown in the trash.
LEMMA Orphans ==
    ASSUME IInv, Next
    PROVE  OrphansNeedARace'
<1>0. TypeOK /\ Stands /\ Rooted /\ TargetsHold /\ SelectionsHold /\ OrphansNeedARace
    BY DEF IInv
<1>h. (crossed => crossed') /\ (raced => raced')
    BY <1>0, History
<1>1. ASSUME NEW r \in Requests, NEW a \in Ask, Insert(r, a), Arrived(r, a, "checked")
      PROVE  OrphansNeedARace'
    BY <1>0, <1>h, <1>1 DEF TypeOK, Stands, Rooted, TargetsHold, SelectionsHold,
        OrphansNeedARace, Insert, Arrived, Fresh, Ask, Placing, Below, LiveFilesIn
<1>2. ASSUME NEW r \in Requests, NEW a \in Ask, Move(r, a), a.to = Root, Arrived(r, a, "checked")
      PROVE  OrphansNeedARace'
    BY <1>0, <1>h, <1>2 DEF TypeOK, Stands, Rooted, TargetsHold, SelectionsHold,
        OrphansNeedARace, Move, Arrived, Ask, Placing, Below, LiveFilesIn
<1>3. ASSUME NEW r \in Requests, NEW a \in Ask, Move(r, a), a.to # Root, Arrived(r, a, "found")
      PROVE  OrphansNeedARace'
    BY <1>0, <1>h, <1>3 DEF TypeOK, Stands, Rooted, TargetsHold, SelectionsHold,
        OrphansNeedARace, Move, Arrived, Ask, Placing, Below, LiveFilesIn
<1>4. ASSUME NEW r \in Requests, NEW a \in Ask, Delete(r, a), Arrived(r, a, "found")
      PROVE  OrphansNeedARace'
    BY <1>0, <1>h, <1>4 DEF TypeOK, Stands, Rooted, TargetsHold, SelectionsHold,
        OrphansNeedARace, Delete, Arrived, Ask, Placing, Below, LiveFilesIn
<1>5. ASSUME NEW r \in Requests, Lost(r)
      PROVE  OrphansNeedARace'
    BY <1>0, <1>h, <1>5 DEF TypeOK, Stands, Rooted, TargetsHold, SelectionsHold,
        OrphansNeedARace, Lost, Placing, Below, LiveFilesIn
<1>6. ASSUME NEW r \in Requests, Seen(r, "looked")
      PROVE  OrphansNeedARace'
    BY <1>0, <1>h, <1>6 DEF TypeOK, Stands, Rooted, TargetsHold, SelectionsHold,
        OrphansNeedARace, Seen, Placing, Below, LiveFilesIn
<1>7. ASSUME NEW r \in Requests, Seen(r, "checked")
      PROVE  OrphansNeedARace'
    BY <1>0, <1>h, <1>7 DEF TypeOK, Stands, Rooted, TargetsHold, SelectionsHold,
        OrphansNeedARace, Seen, Placing, Below, LiveFilesIn
<1>8. ASSUME NEW r \in Requests, Cleared(r)
      PROVE  OrphansNeedARace'
    BY <1>0, <1>h, <1>8 DEF TypeOK, Stands, Rooted, TargetsHold, SelectionsHold,
        OrphansNeedARace, Cleared, Placing, Below, LiveFilesIn
<1>9. ASSUME NEW r \in Requests, Place(r)
      PROVE  OrphansNeedARace'
    BY <1>0, <1>h, <1>9 DEF TypeOK, Stands, Rooted, TargetsHold, SelectionsHold,
        OrphansNeedARace, Place, Placing, Below, LiveFilesIn
<1>10. ASSUME NEW r \in Requests, DropFile(r)
      PROVE  OrphansNeedARace'
    BY <1>0, <1>h, <1>10 DEF TypeOK, Stands, Rooted, TargetsHold, SelectionsHold,
        OrphansNeedARace, DropFile, Placing, Below, LiveFilesIn
<1>11. ASSUME NEW r \in Requests, Counted(r)
      PROVE  OrphansNeedARace'
    BY <1>0, <1>h, <1>11 DEF TypeOK, Stands, Rooted, TargetsHold, SelectionsHold,
        OrphansNeedARace, Counted, Placing, Below, LiveFilesIn
<1>12. ASSUME NEW r \in Requests, Emptied(r)
      PROVE  OrphansNeedARace'
    BY <1>0, <1>h, <1>12 DEF TypeOK, Stands, Rooted, TargetsHold, SelectionsHold,
        OrphansNeedARace, Emptied, Placing, Below, LiveFilesIn
<1>13. ASSUME NEW r \in Requests, Select(r)
      PROVE  OrphansNeedARace'
    BY <1>0, <1>h, <1>13 DEF TypeOK, Stands, Rooted, TargetsHold, SelectionsHold,
        OrphansNeedARace, Select, tree, Placing, Below, LiveFilesIn
<1>14. ASSUME NEW r \in Requests, Trash(r)
      PROVE  OrphansNeedARace'
    BY <1>0, <1>h, <1>14 DEF TypeOK, Stands, Rooted, TargetsHold, SelectionsHold,
        OrphansNeedARace, Trash, Placing, Below, LiveFilesIn
<1>c. TypeOK
    BY DEF IInv
<1> QED
    BY <1>c, <1>1, <1>2, <1>3, <1>4, <1>5, <1>6, <1>7, <1>8, <1>9, <1>10, <1>11, <1>12,
        <1>13, <1>14, ArriveCases, LookCases, WalkCases, CountFoldersCases, CountFilesCases,
        RefuseCase DEF Next, Handler

\* No step trashes more than it should.
LEMMA Surprises ==
    ASSUME IInv, Next
    PROVE  SurprisesNeedARace'
<1>0. TypeOK /\ Stands /\ Stamped /\ CountsHold /\ SurprisesNeedARace
    BY DEF IInv
<1>h. (crossed => crossed') /\ (raced => raced')
    BY <1>0, History
<1>1. ASSUME NEW r \in Requests, NEW a \in Ask, Insert(r, a), Arrived(r, a, "checked")
      PROVE  SurprisesNeedARace'
    BY <1>0, <1>h, <1>1 DEF TypeOK, Stands, Stamped, CountsHold, SurprisesNeedARace, Insert,
        Arrived, Fresh, Ask, CountHolds, LiveFilesIn
<1>2. ASSUME NEW r \in Requests, NEW a \in Ask, Move(r, a), a.to = Root, Arrived(r, a, "checked")
      PROVE  SurprisesNeedARace'
    BY <1>0, <1>h, <1>2 DEF TypeOK, Stands, Stamped, CountsHold, SurprisesNeedARace, Move,
        Arrived, Ask, CountHolds, LiveFilesIn
<1>3. ASSUME NEW r \in Requests, NEW a \in Ask, Move(r, a), a.to # Root, Arrived(r, a, "found")
      PROVE  SurprisesNeedARace'
    BY <1>0, <1>h, <1>3 DEF TypeOK, Stands, Stamped, CountsHold, SurprisesNeedARace, Move,
        Arrived, Ask, CountHolds, LiveFilesIn
<1>4. ASSUME NEW r \in Requests, NEW a \in Ask, Delete(r, a), Arrived(r, a, "found")
      PROVE  SurprisesNeedARace'
    BY <1>0, <1>h, <1>4 DEF TypeOK, Stands, Stamped, CountsHold, SurprisesNeedARace, Delete,
        Arrived, Ask, CountHolds, LiveFilesIn
<1>5. ASSUME NEW r \in Requests, Lost(r)
      PROVE  SurprisesNeedARace'
    BY <1>0, <1>h, <1>5 DEF TypeOK, Stands, Stamped, CountsHold, SurprisesNeedARace, Lost,
        CountHolds, LiveFilesIn
<1>6. ASSUME NEW r \in Requests, Seen(r, "looked")
      PROVE  SurprisesNeedARace'
    BY <1>0, <1>h, <1>6 DEF TypeOK, Stands, Stamped, CountsHold, SurprisesNeedARace, Seen,
        CountHolds, LiveFilesIn
<1>7. ASSUME NEW r \in Requests, Seen(r, "checked")
      PROVE  SurprisesNeedARace'
    BY <1>0, <1>h, <1>7 DEF TypeOK, Stands, Stamped, CountsHold, SurprisesNeedARace, Seen,
        CountHolds, LiveFilesIn
<1>8. ASSUME NEW r \in Requests, Cleared(r)
      PROVE  SurprisesNeedARace'
    BY <1>0, <1>h, <1>8 DEF TypeOK, Stands, Stamped, CountsHold, SurprisesNeedARace,
        Cleared, CountHolds, LiveFilesIn
<1>9. ASSUME NEW r \in Requests, Place(r)
      PROVE  SurprisesNeedARace'
    BY <1>0, <1>h, <1>9 DEF TypeOK, Stands, Stamped, CountsHold, SurprisesNeedARace, Place,
        CountHolds, LiveFilesIn
<1>10. ASSUME NEW r \in Requests, DropFile(r)
      PROVE  SurprisesNeedARace'
    BY <1>0, <1>h, <1>10 DEF TypeOK, Stands, Stamped, CountsHold, SurprisesNeedARace,
        DropFile, CountHolds, LiveFilesIn
<1>11. ASSUME NEW r \in Requests, Counted(r)
      PROVE  SurprisesNeedARace'
    BY <1>0, <1>h, <1>11 DEF TypeOK, Stands, Stamped, CountsHold, SurprisesNeedARace,
        Counted, CountHolds, LiveFilesIn
<1>12. ASSUME NEW r \in Requests, Emptied(r)
      PROVE  SurprisesNeedARace'
    BY <1>0, <1>h, <1>12 DEF TypeOK, Stands, Stamped, CountsHold, SurprisesNeedARace,
        Emptied, CountHolds, LiveFilesIn
<1>13. ASSUME NEW r \in Requests, Select(r)
      PROVE  SurprisesNeedARace'
    BY <1>0, <1>h, <1>13 DEF TypeOK, Stands, Stamped, CountsHold, SurprisesNeedARace,
        Select, tree, CountHolds, LiveFilesIn
<1>14. ASSUME NEW r \in Requests, Trash(r)
      PROVE  SurprisesNeedARace'
    BY <1>0, <1>h, <1>14 DEF TypeOK, Stands, Stamped, CountsHold, SurprisesNeedARace, Trash,
        CountHolds, LiveFilesIn
<1>c. TypeOK
    BY DEF IInv
<1> QED
    BY <1>c, <1>1, <1>2, <1>3, <1>4, <1>5, <1>6, <1>7, <1>8, <1>9, <1>10, <1>11, <1>12,
        <1>13, <1>14, ArriveCases, LookCases, WalkCases, CountFoldersCases, CountFilesCases,
        RefuseCase DEF Next, Handler

-----------------------------------------------------------------------------
(* The theorems                                                            *)

LEMMA Start == Init => IInv
<1> SUFFICES ASSUME Init PROVE IInv
    OBVIOUS
<1>1. PICK n \in Nodes : asks = [r \in Requests |->
          [kind |-> "insert", node |-> n, to |-> Root, recursive |-> FALSE]]
    BY DEF Init
<1>2. TypeOK
    BY <1>1 DEF Init, TypeOK, Ask, Steps
<1>3. Stands /\ Distinct /\ Rooted /\ Stamped
    BY DEF Init, Stands, Distinct, Rooted, Stamped
<1>4. Noticed
    BY DEF Init, Noticed, Crossing, Racing, Placing
<1>5. WalksHold /\ TargetsHold /\ SelectionsHold /\ CountsHold
    BY DEF Init, WalksHold, TargetsHold, SelectionsHold, CountsHold, CountHolds, Placing
<1>6. CyclesNeedTwoMoves
    BY DEF Init, CyclesNeedTwoMoves, Acyclic
<1>7. OrphansNeedARace /\ SurprisesNeedARace
    BY DEF Init, OrphansNeedARace, SurprisesNeedARace
<1> QED
    BY <1>2, <1>3, <1>4, <1>5, <1>6, <1>7 DEF IInv

LEMMA Stutter == IInv /\ UNCHANGED vars => IInv'
<1> SUFFICES ASSUME IInv, UNCHANGED vars PROVE IInv'
    OBVIOUS
<1> USE DEF vars, tree, history
<1>1. TypeOK' /\ Stands' /\ Distinct' /\ Rooted' /\ Stamped'
    BY DEF IInv, TypeOK, Stands, Distinct, Rooted, Stamped
<1>2. Noticed'
    BY DEF IInv, Noticed, Crossing, Racing, Placing, Deleting
<1>3. WalksHold' /\ CyclesNeedTwoMoves'
    BY DEF IInv, WalksHold, CyclesNeedTwoMoves, Acyclic
<1>4. TargetsHold' /\ SelectionsHold' /\ CountsHold'
    BY DEF IInv, TargetsHold, SelectionsHold, CountsHold, CountHolds, Placing, Below,
           LiveFilesIn
<1>5. OrphansNeedARace' /\ SurprisesNeedARace'
    BY DEF IInv, OrphansNeedARace, SurprisesNeedARace
<1> QED
    BY <1>1, <1>2, <1>3, <1>4, <1>5 DEF IInv

\* The invariant holds in every reachable state.
THEOREM Invariant == Spec => []IInv
<1>1. IInv /\ Next => TypeOK'
    BY Types, History DEF IInv, Typed, TypeOK
<1>2. IInv /\ Next => Noticed'
    BY History DEF IInv
<1>3. IInv /\ [Next]_vars => IInv'
    BY <1>1, <1>2, Stutter, Standing, Distinguished, Rooting, Stamping, Walking, Forest, Targets,
       Selections, Counts, Orphans, Surprises DEF IInv
<1> QED
    BY <1>3, Start, PTL DEF Spec

\* Every variable keeps its type.
THEOREM TypeCorrect == Spec => []TypeOK
<1>1. IInv => TypeOK
    BY DEF IInv
<1> QED
    BY <1>1, Invariant, PTL

\* BR-5: the folders are a forest, for any number of requests of which no two
\* are folder moves between their walk and their write.
THEOREM Forests == Spec => []CyclesNeedTwoMoves
<1>1. IInv => CyclesNeedTwoMoves
    BY DEF IInv
<1> QED
    BY <1>1, Invariant, PTL

\* BR-7: nothing shown lies in the trash, unless a row was on its way into a
\* folder while a folder was on its way to the trash.
THEOREM NoOrphans == Spec => []OrphansNeedARace
<1>1. IInv => OrphansNeedARace
    BY DEF IInv
<1> QED
    BY <1>1, Invariant, PTL

\* BR-7: without such a race a delete that is not recursive trashes one folder.
THEOREM NoSurprises == Spec => []SurprisesNeedARace
<1>1. IInv => SurprisesNeedARace
    BY DEF IInv
<1> QED
    BY <1>1, Invariant, PTL
=============================================================================
