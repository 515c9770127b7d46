---------------------------- MODULE InvoicesProofs ----------------------------
(***************************************************************************)
(* Theorems about Invoices, for any number of requests, invoices, PDFs,    *)
(* faults and restarts: what waits is read, what is validated stays so and *)
(* holds what one person's form said.                                      *)
(*                                                                         *)
(* The steps of Invoices are first restated as what they do to the place   *)
(* of one request, to its tasks (as a set) and to the status of one        *)
(* invoice; every part of the invariant is then proved from those.         *)
(***************************************************************************)
EXTENDS Invoices, SequenceTheorems, TLAPS

USE ValuesAssumption, BoundsAssumption
USE DEF Requests, Invoices, NumberOrNone, Reading, Open, Over, Kind, Target

-----------------------------------------------------------------------------
(* The invariant                                                           *)

\* The invoices that an upload has made and not yet read.
Tasks(r) == {i \in Invoices : \E k \in 1 .. Len(todo[r]) : todo[r][k] = i}

Statuses == {"none", "gone", "queued", "extracting", "to_validate", "validated", "failed"}
Waits == {"queued", "extracting"}

\* An invoice has a status once it is made.
Born == \A i \in Invoices : status[i] = "none" <=> i > made

\* A request that has not arrived stands nowhere.
Numbered == \A r \in Requests : pc[r] = "idle" <=> r > arrived

\* A list of tasks names no invoice twice.
Once == \A r \in Requests : \A k, l \in 1 .. Len(todo[r]) : todo[r][k] = todo[r][l] => k = l

\* An invoice is a task of one upload.
Apart == \A q \in Requests : \A i \in Tasks(q) :
             i <= made /\ \A r \in Requests : i \in Tasks(r) => q = r

\* What a handler knows where it stands.
Stands ==
    \A r \in Requests :
        /\ pc[r] = "idle" => Tasks(r) = {}
        /\ pc[r] = "uploading" => asks[r].kind = "upload" /\ asks[r].files > 0
        /\ pc[r] \in Reading => ollama = TRUE /\ Current(r) \in Tasks(r)
        /\ pc[r] = "finishing" => answer[r] # Error
        /\ asks[r].kind \in {"validate", "pay", "delete"} => asks[r].invoice \in Invoices

\* The tasks to come find their invoice queued, or deleted; the one at work has
\* it for itself; without a model nothing waits.
Queues ==
    /\ \A r \in Requests :
           /\ ollama = TRUE /\ pc[r] \in Reading \cup {"uploading"} =>
                  \A i \in Tasks(r) :
                      i # Current(r) \/ pc[r] \in {"uploading", "reading"} =>
                          status[i] \in {"queued", "gone"}
           /\ pc[r] \in {"asking", "finishing"} => status[Current(r)] \in {"extracting", "gone"}
           /\ pc[r] = "refreshing" => status[Current(r)] \notin Waits
    /\ ollama = FALSE => \A i \in Invoices : status[i] \notin Waits

\* What has become of the invoice that a person's request looked at.
Targets ==
    \A r \in Requests : pc[r] \in {"loaded", "checked"} =>
        /\ asks[r].kind = "validate" =>
               status[asks[r].invoice] \in {"to_validate", "failed", "validated", "gone"}
        /\ asks[r].kind = "pay" => status[asks[r].invoice] \in {"validated", "gone"}
        /\ asks[r].kind = "delete" => status[asks[r].invoice] # "none"

\* Until the first validation the number stays as the person saw it.
Unseen ==
    \A r \in Requests :
        pc[r] \in {"loaded", "checked"} /\ asks[r].kind = "validate" =>
            \/ \E q \in Requests : asks[q].kind = "validate" /\ pc[q] = "done"
                                   /\ asks[q].invoice = asks[r].invoice
            \/ status[asks[r].invoice] = "gone"
            \/ /\ status[asks[r].invoice] # "validated"
               /\ number[asks[r].invoice] = seen[r]

\* StuckNeedsAFault, said of the sets of tasks.
Awaited ==
    \A i \in Invoices : status[i] \in Waits /\ faults = 0 =>
        \E r \in Requests : pc[r] \in Reading \cup {"uploading", "refused"} /\ i \in Tasks(r)

\* OneForm, with the validators spelled out.
Alone(i) == \A q, r \in Requests :
    /\ asks[q].kind = "validate" /\ asks[q].invoice = i /\ pc[q] = "done"
    /\ asks[r].kind = "validate" /\ asks[r].invoice = i /\ pc[r] = "done"
    => q = r
Formed ==
    \A i \in Invoices : status[i] = "validated" =>
        /\ taxes[i] \in Requests /\ pc[taxes[i]] = "done"
        /\ Alone(i) => number[i] = asks[taxes[i]].number

IInv ==
    /\ TypeOK /\ Numbered /\ Once /\ Apart /\ Stands /\ Queues /\ Targets /\ Unseen
    /\ Awaited /\ Formed

\* What ValidatedStays says of one step, and a little more.
Forward ==
    \A i \in Invoices :
        /\ status[i] = "gone" => status'[i] = "gone"
        /\ status[i] = "validated" => status'[i] \in {"validated", "gone"}
        /\ status[i] \in {"to_validate", "failed"} =>
               status'[i] \in {"to_validate", "failed", "validated", "gone"}
        /\ status[i] # "none" => status'[i] # "none"

-----------------------------------------------------------------------------
(* The steps                                                               *)

Others(r) ==
    \A q \in Requests \ {r} :
        /\ pc'[q] = pc[q] /\ asks'[q] = asks[q] /\ seen'[q] = seen[q] /\ answer'[q] = answer[q]
        /\ Tasks(q)' = Tasks(q) /\ Current(q)' = Current(q)
Own(r) == asks'[r] = asks[r] /\ seen'[r] = seen[r]
Kept(r) == Tasks(r)' = Tasks(r) /\ Current(r)' = Current(r)

\* The task at work leaves the list.
Popped(r) ==
    /\ Others(r) /\ Own(r) /\ Tasks(r)' = Tasks(r) \ {Current(r)}
    /\ \/ pc'[r] = "reading" /\ Current(r)' \in Tasks(r)'
       \/ pc'[r] = "done" /\ Tasks(r)' = {}

StatusAt(i, s) == status'[i] = s /\ \A j \in Invoices \ {i} : status'[j] = status[j]

\* Arrivals, each at its first place.
Begun(r) ==
    /\ r = arrived + 1 /\ arrived' = r /\ pc[r] = "idle" /\ Others(r) /\ Kept(r)
    /\ asks'[r].kind \in {"validate", "pay", "delete"} => asks'[r].invoice \in Invoices
    /\ UNCHANGED <<made, status, number, taxes, ollama, faults>>
UploadBegun(r) ==
    Begun(r) /\ pc'[r] = "uploading" /\ asks'[r].kind = "upload" /\ asks'[r].files > 0
ManualBegun(r) == Begun(r) /\ pc'[r] = "loaded" /\ asks'[r].kind = "manual"
ValidateBegun(r) ==
    /\ Begun(r) /\ pc'[r] = "loaded" /\ asks'[r].kind = "validate"
    /\ status[asks'[r].invoice] \in {"to_validate", "failed"}
    /\ seen'[r] = number[asks'[r].invoice]
PayBegun(r) ==
    /\ Begun(r) /\ pc'[r] = "checked" /\ asks'[r].kind = "pay"
    /\ status[asks'[r].invoice] = "validated"
DeleteBegun(r) ==
    /\ Begun(r) /\ pc'[r] = "checked" /\ asks'[r].kind = "delete"
    /\ status[asks'[r].invoice] # "none"

\* A PDF is stored and its invoice made.
Stored(r) ==
    /\ pc[r] = "uploading" /\ pc'[r] = "uploading" /\ Others(r) /\ Own(r)
    /\ made + 1 \in Invoices /\ made' = made + 1
    /\ Tasks(r)' = Tasks(r) \cup {made + 1}
    /\ StatusAt(made + 1, IF ollama = TRUE THEN "queued" ELSE "to_validate")
    /\ UNCHANGED <<arrived, number, taxes, ollama, faults>>

\* A request moves on and changes nothing but its place.
Moves(r) ==
    /\ Others(r) /\ Own(r) /\ Kept(r)
    /\ UNCHANGED <<arrived, made, status, number, taxes, ollama>>
\* It gives up,
GivenUp(r) ==
    /\ Moves(r) /\ faults' = faults
    /\ \/ pc[r] = "uploading" /\ pc'[r] = "refused"
       \/ pc[r] \in {"loaded", "checked"} /\ pc'[r] \in {"refused", "broken"}
\* ends without effect on a status,
Ended(r) ==
    /\ Moves(r) /\ faults' = faults /\ pc'[r] = "done" /\ asks[r].kind # "validate"
    /\ \/ pc[r] = "uploading" /\ ollama = FALSE
       \/ pc[r] = "checked"
\* passes its check,
Cleared(r) == Moves(r) /\ faults' = faults /\ pc[r] = "loaded" /\ pc'[r] = "checked"
\* is answered, and reads,
Answered(r) ==
    /\ Moves(r) /\ faults' = faults /\ ollama = TRUE /\ Current(r) \in Tasks(r)
    /\ pc[r] = "uploading" /\ pc'[r] = "reading"
\* has an answer of the model,
Found(r) ==
    /\ Moves(r) /\ faults' = faults /\ pc[r] = "asking" /\ pc'[r] = "finishing"
    /\ answer'[r] # Error
\* which comes too late,
Late(r) ==
    /\ Moves(r) /\ faults' = faults /\ pc[r] = "finishing" /\ pc'[r] = "refreshing"
    /\ status[Current(r)] \notin Waits
\* or fails.
Failing(r) ==
    /\ Moves(r) /\ faults \in Nat /\ faults' \in {faults, faults + 1}
    /\ pc[r] \in {"asking", "finishing", "refreshing"} /\ pc'[r] = "failing"

\* The steps of a reading on its invoice.
Works(r) ==
    Own(r) /\ Others(r) /\ UNCHANGED <<arrived, made, taxes, ollama, faults>>
Started(r) ==
    /\ Works(r) /\ Kept(r) /\ pc[r] = "reading" /\ pc'[r] = "asking"
    /\ status[Current(r)] \notin {"none", "gone"} /\ StatusAt(Current(r), "extracting")
    /\ number' = number
Recorded(r) ==
    /\ Works(r) /\ Kept(r) /\ pc[r] = "finishing" /\ pc'[r] = "refreshing"
    /\ status[Current(r)] \in Waits /\ StatusAt(Current(r), "to_validate")
    /\ \A i \in Invoices \ {Current(r)} : number'[i] = number[i]
Failed(r) ==
    /\ Works(r) /\ Popped(r) /\ pc[r] = "failing"
    /\ status[Current(r)] \in Waits /\ StatusAt(Current(r), "failed")
    /\ number' = number
Passed(r) ==
    /\ Popped(r) /\ pc[r] \in {"reading", "refreshing", "failing"}
    /\ UNCHANGED <<arrived, made, status, number, taxes, ollama>>
    /\ faults \in Nat
    /\ \/ status[Current(r)] \notin Waits /\ faults' = faults
       \/ faults' = faults + 1

\* The writes of a person.
Writes(r) ==
    /\ pc[r] = "checked" /\ pc'[r] = "done" /\ Others(r) /\ Own(r) /\ Kept(r)
    /\ UNCHANGED <<arrived, ollama, faults>>
Typed(r) ==
    /\ Writes(r) /\ asks[r].kind = "manual" /\ made + 1 \in Invoices /\ made' = made + 1
    /\ StatusAt(made + 1, "validated")
    /\ taxes'[made + 1] = r /\ number'[made + 1] = asks[r].number
    /\ \A i \in Invoices \ {made + 1} : number'[i] = number[i] /\ taxes'[i] = taxes[i]
Confirmed(r) ==
    LET i == asks[r].invoice IN
    /\ Writes(r) /\ asks[r].kind = "validate" /\ made' = made
    /\ status[i] \notin {"none", "gone"} /\ StatusAt(i, "validated")
    /\ taxes'[i] = r
    /\ \/ number'[i] = number[i] /\ asks[r].number = seen[r]
       \/ number'[i] = asks[r].number
    /\ \A j \in Invoices \ {i} : number'[j] = number[j] /\ taxes'[j] = taxes[j]
Deleted(r) ==
    /\ Writes(r) /\ asks[r].kind = "delete"
    /\ StatusAt(asks[r].invoice, "gone") /\ UNCHANGED <<made, number, taxes>>

\* A restart, with its sweep or without.
Died ==
    /\ \A r \in Requests : /\ pc'[r] = IF pc[r] \in Open THEN "dead" ELSE pc[r]
                           /\ Tasks(r)' = Tasks(r) /\ Current(r)' = Current(r)
    /\ UNCHANGED <<arrived, asks, seen, answer, made, number, taxes, ollama>>
Sweeping ==
    /\ Died /\ faults' = faults
    /\ \A i \in Invoices : status'[i] = IF status[i] \in Waits THEN "failed" ELSE status[i]
Unswept ==
    Died /\ faults \in Nat /\ faults' = faults + 1 /\ status' = status

StepOf(r) ==
    \/ UploadBegun(r) \/ ManualBegun(r) \/ ValidateBegun(r) \/ PayBegun(r) \/ DeleteBegun(r)
    \/ Stored(r) \/ GivenUp(r) \/ Ended(r) \/ Cleared(r) \/ Answered(r)
    \/ Found(r) \/ Late(r) \/ Failing(r)
    \/ Started(r) \/ Recorded(r) \/ Failed(r) \/ Passed(r)
    \/ Typed(r) \/ Confirmed(r) \/ Deleted(r)
Step == Sweeping \/ Unswept \/ \E r \in Requests : StepOf(r)

-----------------------------------------------------------------------------
(* Every step of Invoices is one of those                                  *)

LEMMA Ranges ==
    ASSUME TypeOK
    PROVE  /\ \A r \in Requests : Tasks(r) \subseteq Invoices
           /\ status \in [Invoices -> Statuses] /\ made \in 0 .. MaxInvoices
           /\ ollama \in BOOLEAN /\ faults \in Nat /\ arrived \in Nat /\ Born
    BY DEF TypeOK, Tasks, Statuses, Born

LEMMA ListsAre ==
    ASSUME TypeOK
    PROVE  /\ \A r \in Requests : todo[r] \in Seq(Invoices) /\ Len(todo[r]) \in Nat
           /\ \A r \in Requests : \A k \in 1 .. Len(todo[r]) : todo[r][k] \in Invoices
    BY DEF TypeOK

\* The task at work is the first.
LEMMA CurrentIs ==
    ASSUME TypeOK, NEW r \in Requests, Len(todo[r]) > 0
    PROVE  Current(r) = todo[r][1] /\ Current(r) \in Tasks(r) /\ Current(r) \in Invoices
<1>1. todo[r] \in Seq(Invoices) /\ todo[r] # <<>>
    BY DEF TypeOK
<1>2. Current(r) = todo[r][1] /\ Current(r) \in Invoices
    BY <1>1, HeadTailProperties DEF Current
<1> QED
    BY <1>2, ListsAre DEF Tasks

LEMMA TasksCount ==
    ASSUME TypeOK, NEW r \in Requests
    PROVE  Tasks(r) # {} <=> Len(todo[r]) > 0
<1>1. Len(todo[r]) > 0 => Tasks(r) # {}
    BY CurrentIs
<1>2. Tasks(r) # {} => Len(todo[r]) > 0
    BY ListsAre DEF Tasks
<1> QED
    BY <1>1, <1>2

LEMMA SameLists ==
    ASSUME Once, UNCHANGED todo
    PROVE  Once' /\ \A r \in Requests : Tasks(r)' = Tasks(r) /\ Current(r)' = Current(r)
    BY DEF Once, Tasks, Current

\* A step of one request that leaves the lists alone.
LEMMA OnlyPlace ==
    ASSUME TypeOK, Once, NEW r \in Requests, NEW l, pc' = [pc EXCEPT ![r] = l],
           UNCHANGED <<asks, seen, todo, answer>>
    PROVE  Others(r) /\ Own(r) /\ Kept(r) /\ pc'[r] = l
<1>1. pc'[r] = l /\ \A q \in Requests \ {r} : pc'[q] = pc[q]
    BY DEF TypeOK
<1> QED
    BY <1>1, SameLists DEF Others, Own, Kept

\* The task at work leaves its list.
LEMMA Pops ==
    ASSUME TypeOK, Once, NEW r \in Requests, Len(todo[r]) > 0, NextTask(r),
           UNCHANGED <<asks, seen, answer>>
    PROVE  /\ Popped(r) /\ Once'
           /\ todo' \in [Requests -> Seq(Invoices)]
           /\ pc' \in [Requests -> {"idle"} \cup Open \cup Over]
<1>1. todo[r] \in Seq(Invoices) /\ todo[r] # <<>> /\ Len(todo[r]) \in Nat
    BY ListsAre
<1>2. /\ Tail(todo[r]) \in Seq(Invoices)
      /\ Len(Tail(todo[r])) = Len(todo[r]) - 1
      /\ \A k \in 1 .. Len(todo[r]) - 1 : Tail(todo[r])[k] = todo[r][k + 1]
    BY <1>1, HeadTailProperties
<1>3. /\ todo'[r] = Tail(todo[r])
      /\ \A q \in Requests \ {r} : todo'[q] = todo[q]
      /\ todo' \in [Requests -> Seq(Invoices)]
    BY <1>2 DEF NextTask, TypeOK
<1>4. Once'
    <2> SUFFICES ASSUME NEW q \in Requests,
                        NEW k \in 1 .. Len(todo'[q]), NEW m \in 1 .. Len(todo'[q]),
                        todo'[q][k] = todo'[q][m]
                 PROVE  k = m
        BY DEF Once
    <2>1. CASE q = r
        <3>0. Len(todo'[q]) = Len(todo[r]) - 1
            BY <1>2, <1>3, <2>1
        <3> DEFINE n == Len(todo[r])
        <3>a. n \in Nat /\ k \in 1 .. n - 1 /\ m \in 1 .. n - 1
            BY <1>1, <3>0
        <3> HIDE DEF n
        <3>b. k + 1 \in 1 .. n /\ m + 1 \in 1 .. n
            BY <3>a
        <3>1. /\ k \in 1 .. Len(todo[r]) - 1 /\ m \in 1 .. Len(todo[r]) - 1
              /\ k + 1 \in 1 .. Len(todo[r]) /\ m + 1 \in 1 .. Len(todo[r])
            BY <3>a, <3>b DEF n
        <3>2. todo[r][k + 1] = todo[r][m + 1]
            BY <1>2, <1>3, <2>1, <3>1
        <3>3. k + 1 = m + 1
            BY <3>1, <3>2 DEF Once
        <3> QED
            BY <3>3
    <2>2. CASE q # r
        BY <1>3, <2>2 DEF Once
    <2> QED
        BY <2>1, <2>2
<1>5. Tasks(r)' = Tasks(r) \ {Current(r)}
    <2>1. ASSUME NEW i \in Tasks(r)' PROVE i \in Tasks(r) \ {Current(r)}
        <3>1. PICK k \in 1 .. Len(todo[r]) - 1 : todo[r][k + 1] = i /\ i \in Invoices
            BY <1>2, <1>3, <2>1 DEF Tasks
        <3>2. k + 1 \in 1 .. Len(todo[r]) /\ 1 \in 1 .. Len(todo[r]) /\ k + 1 # 1
            BY <1>1, <3>1
        <3>3. i # todo[r][1]
            BY <3>1, <3>2 DEF Once
        <3> QED
            BY <3>1, <3>2, <3>3, CurrentIs DEF Tasks
    <2>2. ASSUME NEW i \in Tasks(r) \ {Current(r)} PROVE i \in Tasks(r)'
        <3>1. PICK k \in 1 .. Len(todo[r]) : todo[r][k] = i /\ i \in Invoices
            BY DEF Tasks
        <3>2. k # 1
            BY <2>2, <3>1, CurrentIs
        <3>3. k - 1 \in 1 .. Len(todo[r]) - 1 /\ (k - 1) + 1 = k
            BY <1>1, <3>1, <3>2
        <3>4. todo'[r][k - 1] = i /\ k - 1 \in 1 .. Len(todo'[r])
            BY <1>2, <1>3, <3>1, <3>3
        <3> QED
            BY <3>1, <3>4 DEF Tasks
    <2> QED
        BY <2>1, <2>2
<1>6. \A q \in Requests \ {r} : Tasks(q)' = Tasks(q) /\ Current(q)' = Current(q)
    BY <1>3 DEF Tasks, Current
<1>7. /\ \/ pc' = [pc EXCEPT ![r] = "done"] /\ Len(todo[r]) = 1
         \/ pc' = [pc EXCEPT ![r] = "reading"] /\ Len(todo[r]) > 1
    <2>1. CASE Len(todo[r]) = 1
        BY <2>1 DEF NextTask, Goto
    <2>2. CASE Len(todo[r]) # 1
        <3>1. \A n \in Nat : n > 0 /\ n # 1 => n > 1
            OBVIOUS
        <3>2. Len(todo[r]) > 1
            BY <1>1, <2>2, <3>1
        <3> QED
            BY <2>2, <3>2 DEF NextTask, Goto
    <2> QED
        BY <2>1, <2>2
<1>8. /\ \A q \in Requests \ {r} : pc'[q] = pc[q]
      /\ pc' \in [Requests -> {"idle"} \cup Open \cup Over]
      /\ \/ pc'[r] = "done" /\ Len(todo[r]) = 1
         \/ pc'[r] = "reading" /\ Len(todo[r]) > 1
    BY <1>7 DEF TypeOK
<1>9. CASE pc'[r] = "done" /\ Len(todo[r]) = 1
    <2>1. Tasks(r)' = {}
        BY <1>2, <1>3, <1>9 DEF Tasks
    <2> QED
        BY <1>3, <1>4, <1>5, <1>6, <1>8, <1>9, <2>1 DEF Popped, Others, Own
<1>10. CASE pc'[r] = "reading" /\ Len(todo[r]) > 1
    <2>0. Len(todo'[r]) = Len(todo[r]) - 1 /\ todo'[r] \in Seq(Invoices)
        BY <1>2, <1>3
    <2>1. todo'[r] # <<>> /\ todo'[r] \in Seq(Invoices) /\ 1 \in 1 .. Len(todo'[r])
        BY <1>1, <1>10, <2>0
    <2>2. Current(r)' = todo'[r][1] /\ todo'[r][1] \in Invoices
        BY <2>1, HeadTailProperties DEF Current
    <2>3. Current(r)' \in Tasks(r)'
        BY <2>1, <2>2 DEF Tasks
    <2> QED
        BY <1>3, <1>4, <1>5, <1>6, <1>8, <1>10, <2>3 DEF Popped, Others, Own
<1> QED
    BY <1>8, <1>9, <1>10

LEMMA ArriveIs == ASSUME IInv, Arrive PROVE TypeOK' /\ Once' /\ Step
<1>0. TypeOK /\ Once /\ Numbered
    BY DEF IInv
<1>1. arrived + 1 \in Requests /\ arrived < MaxRequests /\ arrived' = arrived + 1
    BY <1>0 DEF Arrive, TypeOK
<1>r. PICK r \in Requests : r = arrived + 1
    BY <1>1
<1>2. PICK b \in Bodies : asks' = [asks EXCEPT ![r] = b] /\ Begin(r, b)
    BY <1>r DEF Arrive
<1>3. /\ b \in Body
      /\ b.kind = "upload" => b.files > 0
      /\ b.kind \in {"validate", "pay", "delete"} => b.invoice \in Invoices
    <2>1. b \in Body /\ (b.kind = "upload" <=> b.files > 0)
          /\ (b.kind \in {"validate", "pay", "delete"} <=> b.invoice # 0)
        BY DEF Bodies
    <2>2. b.invoice \in Invoices \cup {0}
        BY <2>1 DEF Body
    <2> QED
        BY <2>1, <2>2
<1>4. UNCHANGED <<todo, answer, made, status, filed, number, taxes, paid, ollama, faults, restarts>>
    BY DEF Arrive, row, rest
<1>5. Once' /\ \A q \in Requests : Tasks(q)' = Tasks(q) /\ Current(q)' = Current(q)
    BY <1>0, <1>4, SameLists
<1>6. pc[r] = "idle"
    BY <1>0, <1>r DEF Numbered, TypeOK
<1>7. asks'[r] = b /\ asks' \in [Requests -> Body]
      /\ \A q \in Requests \ {r} : asks'[q] = asks[q]
    BY <1>0, <1>1, <1>2, <1>3 DEF TypeOK
<1>8. ASSUME NEW l \in {"uploading", "loaded", "checked"}, Goto(r, l),
             \A q \in Requests \ {r} : seen'[q] = seen[q],
             seen' \in [Requests -> NumberOrNone \cup BOOLEAN]
      PROVE  TypeOK' /\ pc'[r] = l /\ Begun(r)
    <2>1. /\ pc'[r] = l /\ pc' \in [Requests -> {"idle"} \cup Open \cup Over]
          /\ \A q \in Requests \ {r} : pc'[q] = pc[q]
        BY <1>0, <1>1, <1>8 DEF TypeOK, Goto
    <2>2. TypeOK'
        BY <1>0, <1>1, <1>4, <1>7, <1>8, <2>1 DEF TypeOK
    <2>3. Others(r) /\ Kept(r)
        BY <1>4, <1>5, <1>7, <1>8, <2>1 DEF Others, Kept
    <2>4. Begun(r)
        BY <1>1, <1>r, <1>3, <1>4, <1>6, <1>7, <2>1, <2>3 DEF Begun
    <2> QED
        BY <2>1, <2>2, <2>4
<1>9. seen' = seen => /\ \A q \in Requests \ {r} : seen'[q] = seen[q]
                      /\ seen' \in [Requests -> NumberOrNone \cup BOOLEAN]
    BY <1>0 DEF TypeOK
<1>10. CASE b.kind = "upload"
    <2>1. Goto(r, "uploading") /\ seen' = seen
        BY <1>2, <1>10 DEF Begin
    <2>2. TypeOK' /\ UploadBegun(r)
        BY <1>3, <1>7, <1>8, <1>9, <1>10, <2>1 DEF UploadBegun
    <2> QED
        BY <1>1, <1>5, <2>2 DEF Step, StepOf
<1>11. CASE b.kind = "manual"
    <2>1. Goto(r, "loaded") /\ seen' = seen
        BY <1>2, <1>11 DEF Begin
    <2>2. TypeOK' /\ ManualBegun(r)
        BY <1>7, <1>8, <1>9, <1>11, <2>1 DEF ManualBegun
    <2> QED
        BY <1>1, <1>5, <2>2 DEF Step, StepOf
<1>12. CASE b.kind = "validate"
    <2>1. /\ Goto(r, "loaded") /\ seen' = [seen EXCEPT ![r] = number[b.invoice]]
          /\ status[b.invoice] \in {"to_validate", "failed"}
        BY <1>2, <1>12 DEF Begin
    <2>2. number[b.invoice] \in NumberOrNone
        BY <1>0, <1>3, <1>12 DEF TypeOK
    <2>3. /\ \A q \in Requests \ {r} : seen'[q] = seen[q]
          /\ seen' \in [Requests -> NumberOrNone \cup BOOLEAN] /\ seen'[r] = number[b.invoice]
        BY <1>0, <1>1, <2>1, <2>2 DEF TypeOK
    <2>4. TypeOK' /\ ValidateBegun(r)
        BY <1>7, <1>8, <1>12, <2>1, <2>3 DEF ValidateBegun
    <2> QED
        BY <1>1, <1>5, <2>4 DEF Step, StepOf
<1>13. CASE b.kind = "pay"
    <2>1. /\ Goto(r, "checked") /\ seen' = [seen EXCEPT ![r] = paid[b.invoice]]
          /\ status[b.invoice] = "validated"
        BY <1>2, <1>13 DEF Begin
    <2>2. paid[b.invoice] \in BOOLEAN
        BY <1>0, <1>3, <1>13 DEF TypeOK
    <2>3. /\ \A q \in Requests \ {r} : seen'[q] = seen[q]
          /\ seen' \in [Requests -> NumberOrNone \cup BOOLEAN]
        BY <1>0, <1>1, <2>1, <2>2, Zenon DEF TypeOK
    <2>4. TypeOK' /\ PayBegun(r)
        BY <1>7, <1>8, <1>13, <2>1, <2>3 DEF PayBegun
    <2> QED
        BY <1>1, <1>5, <2>4 DEF Step, StepOf
<1>14. CASE b.kind = "delete"
    <2>1. Goto(r, "checked") /\ seen' = seen /\ status[b.invoice] # "none"
        BY <1>2, <1>14 DEF Begin, Present
    <2>2. TypeOK' /\ DeleteBegun(r)
        BY <1>7, <1>8, <1>9, <1>14, <2>1 DEF DeleteBegun
    <2> QED
        BY <1>1, <1>5, <2>2 DEF Step, StepOf
<1> QED
    BY <1>3, <1>10, <1>11, <1>12, <1>13, <1>14 DEF Body, Kinds

\* A step of one request that changes its place only, and the faults.
LEMMA PlaceTyped ==
    ASSUME TypeOK, NEW r \in Requests, NEW l \in Open \cup Over, pc' = [pc EXCEPT ![r] = l],
           faults' \in 0 .. MaxFaults, answer' \in [Requests -> NumberOrNone \cup {Error}],
           UNCHANGED <<arrived, asks, seen, todo, made, row, ollama, restarts>>
    PROVE  TypeOK'
    BY DEF TypeOK, row

\* A step that changes the status of an invoice already made.
LEMMA StatusTyped ==
    ASSUME TypeOK, NEW i \in Invoices, status[i] # "none", NEW s \in Statuses \ {"none"},
           status' = [status EXCEPT ![i] = s], made' = made
    PROVE  /\ status' \in [Invoices -> Statuses] /\ StatusAt(i, s)
           /\ \A j \in Invoices : status'[j] = "none" <=> j > made'
    BY DEF TypeOK, Statuses, StatusAt

LEMMA StoreIs ==
    ASSUME IInv, NEW r \in Requests, Store(r)
    PROVE  TypeOK' /\ Once' /\ StepOf(r)
<1>0. TypeOK /\ Once /\ Apart
    BY DEF IInv
<1>1. /\ todo[r] \in Seq(Invoices) /\ Len(todo[r]) \in Nat /\ made \in Nat
      /\ made + 1 \in Invoices
    BY <1>0, ListsAre DEF Store, TypeOK
<1>2. /\ Append(todo[r], made + 1) \in Seq(Invoices)
      /\ Len(Append(todo[r], made + 1)) = Len(todo[r]) + 1
      /\ \A k \in 1 .. Len(todo[r]) : Append(todo[r], made + 1)[k] = todo[r][k]
      /\ Append(todo[r], made + 1)[Len(todo[r]) + 1] = made + 1
    BY <1>1, AppendProperties
<1>3. /\ todo'[r] = Append(todo[r], made + 1)
      /\ \A q \in Requests \ {r} : todo'[q] = todo[q]
      /\ todo' \in [Requests -> Seq(Invoices)]
    BY <1>0, <1>2 DEF Store, TypeOK
<1>4. \A k \in 1 .. Len(todo[r]) : todo[r][k] \in Invoices /\ todo[r][k] <= made
    BY <1>0, ListsAre DEF Apart, Tasks
<1>5. \A k \in 1 .. Len(todo'[r]) :
          \/ k \in 1 .. Len(todo[r]) /\ todo'[r][k] = todo[r][k]
          \/ k = Len(todo[r]) + 1 /\ todo'[r][k] = made + 1
    <2>1. \A n \in Nat : \A k \in 1 .. n + 1 : k \in 1 .. n \/ k = n + 1
        OBVIOUS
    <2>2. Len(todo'[r]) = Len(todo[r]) + 1
        BY <1>2, <1>3
    <2> QED
        BY <1>1, <1>2, <1>3, <2>1, <2>2
<1>6. Once'
    <2> SUFFICES ASSUME NEW q \in Requests,
                        NEW k \in 1 .. Len(todo'[q]), NEW m \in 1 .. Len(todo'[q]),
                        todo'[q][k] = todo'[q][m]
                 PROVE  k = m
        BY DEF Once
    <2>1. CASE q = r
        <3>1. \A n \in 1 .. Len(todo[r]) : todo[r][n] # made + 1
            BY <1>1, <1>4, SMTT(20)
        <3> QED
            BY <1>0, <1>5, <2>1, <3>1 DEF Once
    <2>2. CASE q # r
        BY <1>0, <1>3, <2>2 DEF Once
    <2> QED
        BY <2>1, <2>2
<1>7. Tasks(r)' = Tasks(r) \cup {made + 1}
    <2>1. ASSUME NEW i \in Tasks(r)' PROVE i \in Tasks(r) \cup {made + 1}
        BY <1>5, <2>1 DEF Tasks
    <2>2. ASSUME NEW i \in Tasks(r) PROVE i \in Tasks(r)'
        <3>1. PICK k \in 1 .. Len(todo[r]) : todo[r][k] = i /\ i \in Invoices
            BY DEF Tasks
        <3>2. k \in 1 .. Len(todo'[r]) /\ todo'[r][k] = i
            BY <1>1, <1>2, <1>3, <3>1
        <3> QED
            BY <3>1, <3>2 DEF Tasks
    <2>3. made + 1 \in Tasks(r)'
        <3>1. Len(todo[r]) + 1 \in 1 .. Len(todo'[r]) /\ todo'[r][Len(todo[r]) + 1] = made + 1
            BY <1>1, <1>2, <1>3
        <3> QED
            BY <1>1, <3>1 DEF Tasks
    <2> QED
        BY <2>1, <2>2, <2>3
<1>8. \A q \in Requests \ {r} : Tasks(q)' = Tasks(q) /\ Current(q)' = Current(q)
    BY <1>3 DEF Tasks, Current
<1>9. /\ StatusAt(made + 1, IF ollama = TRUE THEN "queued" ELSE "to_validate")
      /\ status' \in [Invoices -> Statuses]
      /\ \A i \in Invoices : status'[i] = "none" <=> i > made'
    <2>1. CASE ollama = TRUE
        BY <1>0, <1>1, <2>1 DEF Store, TypeOK, StatusAt, Statuses
    <2>2. CASE ollama = FALSE
        BY <1>0, <1>1, <2>2 DEF Store, TypeOK, StatusAt, Statuses
    <2> QED
        BY <1>0, <2>1, <2>2 DEF TypeOK
<1>10. filed' \in [Invoices -> BOOLEAN]
    BY <1>0, Zenon DEF Store, TypeOK, Body
<1>11. TypeOK'
    BY <1>0, <1>1, <1>3, <1>9, <1>10 DEF Store, TypeOK, Statuses, rest
<1>12. Stored(r)
    BY <1>1, <1>7, <1>8, <1>9 DEF Store, Stored, Others, Own, rest
<1> QED
    BY <1>6, <1>11, <1>12 DEF StepOf

LEMMA RefuseIs ==
    ASSUME IInv, NEW r \in Requests, Refuse(r)
    PROVE  TypeOK' /\ Once' /\ StepOf(r)
<1>0. TypeOK /\ Once
    BY DEF IInv
<1>1. /\ pc' = [pc EXCEPT ![r] = "refused"] /\ pc[r] = "uploading"
      /\ UNCHANGED <<arrived, asks, run, made, row, rest>>
    BY DEF Refuse, Goto
<1>2. GivenUp(r)
    BY <1>0, <1>1, OnlyPlace DEF GivenUp, Moves, run, row, rest
<1>3. faults' \in 0 .. MaxFaults /\ answer' \in [Requests -> NumberOrNone \cup {Error}]
    BY <1>0, <1>1 DEF TypeOK, run, rest
<1> QED
    BY <1>0, <1>1, <1>2, <1>3, PlaceTyped, SameLists DEF StepOf, run, rest

LEMMA RespondIs ==
    ASSUME IInv, NEW r \in Requests, Respond(r)
    PROVE  TypeOK' /\ Once' /\ StepOf(r)
<1>0. TypeOK /\ Once /\ Stands
    BY DEF IInv
<1>1. pc[r] = "uploading" /\ UNCHANGED <<arrived, asks, run, made, row, rest>>
    BY DEF Respond
<1>2. Current(r) \in Tasks(r) /\ asks[r].kind = "upload"
    <2>1. asks[r].files > 0 /\ asks[r].kind = "upload" /\ Len(todo[r]) = asks[r].files
        BY <1>0, <1>1 DEF Stands, Respond
    <2> QED
        BY <1>0, <2>1, CurrentIs
<1>3. faults' \in 0 .. MaxFaults /\ answer' \in [Requests -> NumberOrNone \cup {Error}]
    BY <1>0, <1>1 DEF TypeOK, run, rest
<1>4. CASE ollama = TRUE
    <2>1. pc' = [pc EXCEPT ![r] = "reading"]
        BY <1>4 DEF Respond, Goto
    <2>2. Answered(r)
        BY <1>0, <1>1, <1>2, <1>4, <2>1, OnlyPlace DEF Answered, Moves, run, row, rest
    <2> QED
        BY <1>0, <1>1, <1>3, <2>1, <2>2, PlaceTyped, SameLists DEF StepOf, run, rest
<1>5. CASE ollama = FALSE
    <2>1. pc' = [pc EXCEPT ![r] = "done"]
        BY <1>5 DEF Respond, Goto
    <2>2. Ended(r)
        BY <1>0, <1>1, <1>2, <1>5, <2>1, OnlyPlace DEF Ended, Moves, run, row, rest
    <2> QED
        BY <1>0, <1>1, <1>3, <2>1, <2>2, PlaceTyped, SameLists DEF StepOf, run, rest
<1> QED
    BY <1>0, <1>4, <1>5 DEF TypeOK

LEMMA StartIs ==
    ASSUME IInv, NEW r \in Requests, Start(r)
    PROVE  TypeOK' /\ Once' /\ StepOf(r)
<1>0. TypeOK /\ Once /\ Stands
    BY DEF IInv
<1>1. /\ pc[r] = "reading" /\ Current(r) \in Invoices /\ Len(todo[r]) > 0
      /\ UNCHANGED <<arrived, asks, seen, answer, made, filed, number, taxes, paid,
                     ollama, faults, restarts>>
    BY <1>0, Ranges, TasksCount DEF Start, Stands, rest
<1>2. CASE Present(Current(r))
    <2>1. /\ status' = [status EXCEPT ![Current(r)] = "extracting"]
          /\ pc' = [pc EXCEPT ![r] = "asking"] /\ todo' = todo
          /\ status[Current(r)] \notin {"none", "gone"}
        BY <1>2 DEF Start, Goto, Present
    <2>2. /\ status' \in [Invoices -> Statuses] /\ StatusAt(Current(r), "extracting")
          /\ \A j \in Invoices : status'[j] = "none" <=> j > made'
        BY <1>0, <1>1, <2>1, StatusTyped DEF Statuses
    <2>3. TypeOK'
        BY <1>0, <1>1, <2>1, <2>2 DEF TypeOK, Statuses
    <2>4. Started(r)
        BY <1>0, <1>1, <2>1, <2>2, OnlyPlace DEF Started, Works
    <2> QED
        BY <1>0, <2>1, <2>3, <2>4, SameLists DEF StepOf
<1>3. CASE ~Present(Current(r))
    <2>1. NextTask(r) /\ status' = status /\ status[Current(r)] \notin Waits
        BY <1>3 DEF Start, Present, Waits
    <2>2. /\ Popped(r) /\ Once' /\ todo' \in [Requests -> Seq(Invoices)]
          /\ pc' \in [Requests -> {"idle"} \cup Open \cup Over]
        BY <1>0, <1>1, <2>1, Pops
    <2>3. TypeOK'
        BY <1>0, <1>1, <2>1, <2>2 DEF TypeOK
    <2>4. Passed(r)
        BY <1>0, <1>1, <2>1, <2>2, Ranges DEF Passed
    <2> QED
        BY <2>2, <2>3, <2>4 DEF StepOf
<1> QED
    BY <1>2, <1>3

LEMMA AskIs ==
    ASSUME IInv, NEW r \in Requests, Ask(r)
    PROVE  TypeOK' /\ Once' /\ StepOf(r)
<1>0. TypeOK /\ Once
    BY DEF IInv
<1>1. /\ pc[r] = "asking"
      /\ UNCHANGED <<arrived, asks, seen, todo, made, row, rest>>
    BY DEF Ask
<1>2. PICK a \in NumberOrNone \cup {Error} :
          /\ answer' = [answer EXCEPT ![r] =
                 IF a # Error /\ filed[Current(r)] /\ Taken(a, Current(r)) THEN None ELSE a]
          /\ Goto(r, IF a = Error THEN "failing" ELSE "finishing")
    BY DEF Ask
<1>3. PICK n \in NumberOrNone \cup {Error} :
          answer' = [answer EXCEPT ![r] = n] /\ (a # Error => n # Error)
    <2>1. CASE a # Error /\ filed[Current(r)] /\ Taken(a, Current(r))
        BY <1>2, <2>1
    <2>2. CASE ~(a # Error /\ filed[Current(r)] /\ Taken(a, Current(r)))
        BY <1>2, <2>2
    <2> QED
        BY <2>1, <2>2
<1>4. /\ answer' \in [Requests -> NumberOrNone \cup {Error}] /\ answer'[r] = n
      /\ \A q \in Requests \ {r} : answer'[q] = answer[q]
    BY <1>0, <1>3 DEF TypeOK
<1>5. Once' /\ \A q \in Requests : Tasks(q)' = Tasks(q) /\ Current(q)' = Current(q)
    BY <1>0, <1>1, SameLists
<1>6. ASSUME NEW l \in {"failing", "finishing"}, pc' = [pc EXCEPT ![r] = l]
      PROVE  TypeOK' /\ Moves(r) /\ faults' = faults /\ pc'[r] = l
    <2>1. pc'[r] = l /\ \A q \in Requests \ {r} : pc'[q] = pc[q]
        BY <1>0, <1>6 DEF TypeOK
    <2>2. faults' \in 0 .. MaxFaults /\ faults' = faults
        BY <1>0, <1>1 DEF TypeOK, rest
    <2>3. TypeOK'
        BY <1>0, <1>1, <1>4, <1>6, <2>2, PlaceTyped DEF rest
    <2>4. Moves(r)
        BY <1>1, <1>4, <1>5, <2>1 DEF Moves, Others, Own, Kept, row, rest
    <2> QED
        BY <2>1, <2>2, <2>3, <2>4
<1>7. CASE a = Error
    <2>1. pc' = [pc EXCEPT ![r] = "failing"]
        BY <1>2, <1>7 DEF Goto
    <2> QED
        BY <1>0, <1>1, <1>5, <1>6, <2>1, Ranges DEF StepOf, Failing
<1>8. CASE a # Error
    <2>1. pc' = [pc EXCEPT ![r] = "finishing"]
        BY <1>2, <1>8 DEF Goto
    <2> QED
        BY <1>1, <1>3, <1>4, <1>5, <1>6, <1>8, <2>1 DEF StepOf, Found
<1> QED
    BY <1>7, <1>8

LEMMA FinishIs ==
    ASSUME IInv, NEW r \in Requests, Finish(r)
    PROVE  TypeOK' /\ Once' /\ StepOf(r)
<1>0. TypeOK /\ Once /\ Stands
    BY DEF IInv
<1>1. /\ pc[r] = "finishing" /\ Current(r) \in Invoices /\ answer[r] \in NumberOrNone
      /\ UNCHANGED <<arrived, asks, seen, todo, answer, made, filed, taxes, paid,
                     ollama, faults, restarts>>
    BY <1>0, Ranges DEF Finish, Stands, TypeOK, run, rest
<1>2. Once'
    BY <1>0, <1>1, SameLists
<1>3. faults' \in 0 .. MaxFaults /\ answer' \in [Requests -> NumberOrNone \cup {Error}]
    BY <1>0, <1>1 DEF TypeOK
<1>4. CASE Waiting(Current(r)) /\ filed[Current(r)] /\ Taken(answer[r], Current(r))
    <2>1. pc' = [pc EXCEPT ![r] = "failing"] /\ status' = status /\ number' = number
        BY <1>4 DEF Finish, Goto
    <2>2. Failing(r)
        BY <1>0, <1>1, <2>1, OnlyPlace, Ranges DEF Failing, Moves
    <2>3. TypeOK'
        BY <1>0, <1>1, <1>3, <2>1, PlaceTyped DEF row
    <2> QED
        BY <1>2, <2>2, <2>3 DEF StepOf
<1>5. CASE ~(Waiting(Current(r)) /\ filed[Current(r)] /\ Taken(answer[r], Current(r)))
    <2>1. /\ pc' = [pc EXCEPT ![r] = "refreshing"]
          /\ status' = [status EXCEPT ![Current(r)] =
                 IF Waiting(Current(r)) THEN "to_validate" ELSE @]
          /\ number' = [number EXCEPT ![Current(r)] =
                 IF Waiting(Current(r)) /\ answer[r] # None THEN answer[r] ELSE @]
        BY <1>5 DEF Finish, Goto
    <2>2. number' \in [Invoices -> NumberOrNone]
        BY <1>0, <1>1, <2>1 DEF TypeOK
    <2>3. \A i \in Invoices \ {Current(r)} : number'[i] = number[i]
        BY <1>0, <2>1 DEF TypeOK
    <2>4. pc' \in [Requests -> {"idle"} \cup Open \cup Over]
        BY <1>0, <2>1 DEF TypeOK
    <2>5. CASE Waiting(Current(r))
        <3>1. status' = [status EXCEPT ![Current(r)] = "to_validate"]
            BY <2>1, <2>5
        <3>2. status[Current(r)] \in Waits /\ status[Current(r)] # "none"
            BY <2>5 DEF Waiting, Waits
        <3>3. /\ status' \in [Invoices -> Statuses] /\ StatusAt(Current(r), "to_validate")
              /\ \A j \in Invoices : status'[j] = "none" <=> j > made'
            BY <1>0, <1>1, <3>1, <3>2, StatusTyped DEF Statuses
        <3>4. TypeOK'
            BY <1>0, <1>1, <2>2, <2>4, <3>3 DEF TypeOK, Statuses
        <3>5. Recorded(r)
            BY <1>0, <1>1, <2>1, <2>3, <3>2, <3>3, OnlyPlace DEF Recorded, Works
        <3> QED
            BY <1>2, <3>4, <3>5 DEF StepOf
    <2>6. CASE ~Waiting(Current(r))
        <3>1. status' = status /\ number' = number /\ status[Current(r)] \notin Waits
            BY <1>0, <1>1, <2>1, <2>6 DEF TypeOK, Waiting, Waits
        <3>2. TypeOK'
            BY <1>0, <1>1, <1>3, <2>1, <3>1, PlaceTyped DEF row
        <3>3. Late(r)
            BY <1>0, <1>1, <2>1, <3>1, OnlyPlace DEF Late, Moves
        <3> QED
            BY <1>2, <3>2, <3>3 DEF StepOf
    <2> QED
        BY <2>5, <2>6
<1> QED
    BY <1>4, <1>5

LEMMA RefreshIs ==
    ASSUME IInv, NEW r \in Requests, Refresh(r)
    PROVE  TypeOK' /\ Once' /\ StepOf(r)
<1>0. TypeOK /\ Once /\ Stands /\ Queues
    BY DEF IInv
<1>1. /\ pc[r] = "refreshing" /\ Current(r) \in Invoices /\ Len(todo[r]) > 0
      /\ status[Current(r)] \notin Waits
      /\ UNCHANGED <<arrived, asks, seen, answer, made, row, ollama, faults, restarts>>
    BY <1>0, Ranges, TasksCount DEF Refresh, Stands, Queues, rest
<1>2. CASE Present(Current(r))
    <2>1. NextTask(r)
        BY <1>2 DEF Refresh
    <2>2. /\ Popped(r) /\ Once' /\ todo' \in [Requests -> Seq(Invoices)]
          /\ pc' \in [Requests -> {"idle"} \cup Open \cup Over]
        BY <1>0, <1>1, <2>1, Pops
    <2>3. TypeOK'
        BY <1>0, <1>1, <2>2 DEF TypeOK, row
    <2>4. Passed(r)
        BY <1>0, <1>1, <2>2, Ranges DEF Passed, row
    <2> QED
        BY <2>2, <2>3, <2>4 DEF StepOf
<1>3. CASE ~Present(Current(r))
    <2>1. pc' = [pc EXCEPT ![r] = "failing"] /\ todo' = todo
        BY <1>3 DEF Refresh, Goto
    <2>2. Failing(r)
        BY <1>0, <1>1, <2>1, OnlyPlace, Ranges DEF Failing, Moves, row
    <2>3. faults' \in 0 .. MaxFaults /\ answer' \in [Requests -> NumberOrNone \cup {Error}]
        BY <1>0, <1>1 DEF TypeOK
    <2>4. TypeOK'
        BY <1>0, <1>1, <2>1, <2>3, PlaceTyped
    <2> QED
        BY <1>0, <2>1, <2>2, <2>4, SameLists DEF StepOf
<1> QED
    BY <1>2, <1>3

LEMMA FailIs ==
    ASSUME IInv, NEW r \in Requests, Fail(r)
    PROVE  TypeOK' /\ Once' /\ StepOf(r)
<1>0. TypeOK /\ Once /\ Stands
    BY DEF IInv
<1>1. /\ pc[r] = "failing" /\ Current(r) \in Invoices /\ Len(todo[r]) > 0
      /\ NextTask(r)
      /\ UNCHANGED <<arrived, asks, seen, answer, made, filed, number, taxes, paid,
                     ollama, faults, restarts>>
    BY <1>0, Ranges, TasksCount DEF Fail, Stands, rest
<1>2. /\ Popped(r) /\ Once' /\ todo' \in [Requests -> Seq(Invoices)]
      /\ pc' \in [Requests -> {"idle"} \cup Open \cup Over]
    BY <1>0, <1>1, Pops
<1>3. CASE Waiting(Current(r))
    <2>1. /\ status' = [status EXCEPT ![Current(r)] = "failed"]
          /\ status[Current(r)] \in Waits /\ status[Current(r)] # "none"
        BY <1>3 DEF Fail, Waiting, Waits
    <2>2. /\ status' \in [Invoices -> Statuses] /\ StatusAt(Current(r), "failed")
          /\ \A j \in Invoices : status'[j] = "none" <=> j > made'
        BY <1>0, <1>1, <2>1, StatusTyped DEF Statuses
    <2>3. TypeOK'
        BY <1>0, <1>1, <1>2, <2>2 DEF TypeOK, Statuses
    <2>4. Failed(r)
        BY <1>1, <1>2, <2>1, <2>2 DEF Failed, Works, Popped
    <2> QED
        BY <1>2, <2>3, <2>4 DEF StepOf
<1>4. CASE ~Waiting(Current(r))
    <2>1. status' = status /\ status[Current(r)] \notin Waits
        BY <1>0, <1>1, <1>4 DEF Fail, TypeOK, Waiting, Waits
    <2>2. TypeOK'
        BY <1>0, <1>1, <1>2, <2>1 DEF TypeOK
    <2>3. Passed(r)
        BY <1>0, <1>1, <1>2, <2>1, Ranges DEF Passed
    <2> QED
        BY <1>2, <2>2, <2>3 DEF StepOf
<1> QED
    BY <1>3, <1>4

LEMMA FaultIs ==
    ASSUME IInv, NEW r \in Requests, Fault(r)
    PROVE  TypeOK' /\ Once' /\ StepOf(r)
<1>0. TypeOK /\ Once /\ Stands
    BY DEF IInv
<1>1. /\ pc[r] \in Reading \ {"asking"} /\ Len(todo[r]) > 0
      /\ faults' = faults + 1 /\ faults' \in 0 .. MaxFaults /\ faults \in Nat
      /\ UNCHANGED <<arrived, asks, seen, answer, made, row, ollama, restarts>>
    <2>1. pc[r] \in Reading /\ Len(todo[r]) > 0
        BY <1>0, TasksCount DEF Fault, Stands
    <2>2. faults < MaxFaults /\ faults \in 0 .. MaxFaults
        BY <1>0 DEF Fault, TypeOK
    <2> QED
        BY <2>1, <2>2 DEF Fault
<1>2. CASE pc[r] \in {"reading", "failing"}
    <2>1. NextTask(r)
        BY <1>2 DEF Fault
    <2>2. /\ Popped(r) /\ Once' /\ todo' \in [Requests -> Seq(Invoices)]
          /\ pc' \in [Requests -> {"idle"} \cup Open \cup Over]
        BY <1>0, <1>1, <2>1, Pops
    <2>3. TypeOK'
        BY <1>0, <1>1, <2>2 DEF TypeOK, row
    <2>4. Passed(r)
        BY <1>1, <1>2, <2>2 DEF Passed, row
    <2> QED
        BY <2>2, <2>3, <2>4 DEF StepOf
<1>3. CASE pc[r] \notin {"reading", "failing"}
    <2>1. pc' = [pc EXCEPT ![r] = "failing"] /\ todo' = todo
        BY <1>3 DEF Fault, Goto
    <2>2. Failing(r)
        BY <1>0, <1>1, <1>3, <2>1, OnlyPlace DEF Failing, Moves, row
    <2>3. answer' \in [Requests -> NumberOrNone \cup {Error}]
        BY <1>0, <1>1 DEF TypeOK
    <2>4. TypeOK'
        BY <1>0, <1>1, <2>1, <2>3 DEF TypeOK, row
    <2> QED
        BY <1>0, <2>1, <2>2, <2>4, SameLists DEF StepOf
<1> QED
    BY <1>2, <1>3

LEMMA CheckIs ==
    ASSUME IInv, NEW r \in Requests, Check(r)
    PROVE  TypeOK' /\ Once' /\ StepOf(r)
<1>0. TypeOK /\ Once
    BY DEF IInv
<1>1. pc[r] = "loaded" /\ UNCHANGED <<arrived, asks, run, made, row, rest>>
    BY DEF Check
<1>2. faults' \in 0 .. MaxFaults /\ answer' \in [Requests -> NumberOrNone \cup {Error}]
    BY <1>0, <1>1 DEF TypeOK, run, rest
<1>3. CASE Taken(asks[r].number, Target(r))
    <2>1. pc' = [pc EXCEPT ![r] = "refused"]
        BY <1>3 DEF Check, Goto
    <2>2. GivenUp(r)
        BY <1>0, <1>1, <2>1, OnlyPlace DEF GivenUp, Moves, run, row, rest
    <2> QED
        BY <1>0, <1>1, <1>2, <2>1, <2>2, PlaceTyped, SameLists DEF StepOf, run, rest
<1>4. CASE ~Taken(asks[r].number, Target(r))
    <2>1. pc' = [pc EXCEPT ![r] = "checked"]
        BY <1>4 DEF Check, Goto
    <2>2. Cleared(r)
        BY <1>0, <1>1, <2>1, OnlyPlace DEF Cleared, Moves, run, row, rest
    <2> QED
        BY <1>0, <1>1, <1>2, <2>1, <2>2, PlaceTyped, SameLists DEF StepOf, run, rest
<1> QED
    BY <1>3, <1>4

\* A write that breaks.
LEMMA BreakIs ==
    ASSUME IInv, NEW r \in Requests, pc[r] = "checked", Break(r),
           UNCHANGED <<arrived, asks, run, rest>>
    PROVE  TypeOK' /\ Once' /\ StepOf(r)
<1>0. TypeOK /\ Once
    BY DEF IInv
<1>1. pc' = [pc EXCEPT ![r] = "broken"] /\ UNCHANGED <<made, row>>
    BY DEF Break, Goto
<1>2. faults' \in 0 .. MaxFaults /\ answer' \in [Requests -> NumberOrNone \cup {Error}]
    BY <1>0 DEF TypeOK, run, rest
<1>3. GivenUp(r)
    BY <1>0, <1>1, OnlyPlace DEF GivenUp, Moves, run, row, rest
<1> QED
    BY <1>0, <1>1, <1>2, <1>3, PlaceTyped, SameLists DEF StepOf, run, rest

LEMMA ManualIs ==
    ASSUME IInv, NEW r \in Requests, Manual(r)
    PROVE  TypeOK' /\ Once' /\ StepOf(r)
<1>0. TypeOK /\ Once
    BY DEF IInv
<1>1. /\ pc[r] = "checked" /\ asks[r].kind = "manual" /\ made + 1 \in Invoices
      /\ asks[r].number \in NumberOrNone
      /\ UNCHANGED <<arrived, asks, run, rest>>
    BY <1>0 DEF Manual, TypeOK, Body
<1>2. CASE Taken(asks[r].number, made + 1)
    BY <1>1, <1>2, BreakIs DEF Manual
<1>3. CASE ~Taken(asks[r].number, made + 1)
    <2>1. /\ made' = made + 1
          /\ status' = [status EXCEPT ![made + 1] = "validated"]
          /\ filed' = [filed EXCEPT ![made + 1] = TRUE]
          /\ number' = [number EXCEPT ![made + 1] = asks[r].number]
          /\ taxes' = [taxes EXCEPT ![made + 1] = r]
          /\ pc' = [pc EXCEPT ![r] = "done"] /\ paid' = paid
        BY <1>3 DEF Manual, Goto
    <2>2. /\ StatusAt(made + 1, "validated") /\ status' \in [Invoices -> Statuses]
          /\ \A i \in Invoices : status'[i] = "none" <=> i > made'
        BY <1>0, <1>1, <2>1 DEF TypeOK, StatusAt, Statuses
    <2>3. /\ filed' \in [Invoices -> BOOLEAN] /\ number' \in [Invoices -> NumberOrNone]
          /\ taxes' \in [Invoices -> Requests \cup {0}]
          /\ pc' \in [Requests -> {"idle"} \cup Open \cup Over]
        BY <1>0, <1>1, <2>1 DEF TypeOK
    <2>4. /\ taxes'[made + 1] = r /\ number'[made + 1] = asks[r].number
          /\ \A i \in Invoices \ {made + 1} : number'[i] = number[i] /\ taxes'[i] = taxes[i]
        BY <1>0, <1>1, <2>1 DEF TypeOK
    <2>5. TypeOK'
        BY <1>0, <1>1, <2>1, <2>2, <2>3 DEF TypeOK, Statuses, run, rest
    <2>6. Typed(r)
        BY <1>0, <1>1, <2>1, <2>2, <2>4, OnlyPlace DEF Typed, Writes, run, rest
    <2> QED
        BY <1>0, <1>1, <2>5, <2>6, SameLists DEF StepOf, run
<1> QED
    BY <1>2, <1>3

LEMMA ValidateIs ==
    ASSUME IInv, NEW r \in Requests, Validate(r)
    PROVE  TypeOK' /\ Once' /\ StepOf(r)
<1> DEFINE n == IF asks[r].number = seen[r] THEN number[asks[r].invoice] ELSE asks[r].number
<1>0. TypeOK /\ Once /\ Stands
    BY DEF IInv
<1>1. /\ pc[r] = "checked" /\ asks[r].kind = "validate" /\ asks[r].invoice \in Invoices
      /\ asks[r].number \in NumberOrNone /\ number[asks[r].invoice] \in NumberOrNone
      /\ UNCHANGED <<arrived, asks, run, rest>>
    BY <1>0 DEF Validate, Stands, TypeOK, Body
<1>2. CASE ~Present(asks[r].invoice) \/ Taken(Written(r), asks[r].invoice)
    BY <1>1, <1>2, BreakIs DEF Validate
<1>3. CASE ~(~Present(asks[r].invoice) \/ Taken(Written(r), asks[r].invoice))
    <2>1. /\ status' = [status EXCEPT ![asks[r].invoice] = "validated"]
          /\ filed' = [filed EXCEPT ![asks[r].invoice] = TRUE]
          /\ number' = [number EXCEPT ![asks[r].invoice] = n]
          /\ taxes' = [taxes EXCEPT ![asks[r].invoice] = r]
          /\ pc' = [pc EXCEPT ![r] = "done"] /\ made' = made /\ paid' = paid
          /\ status[asks[r].invoice] \notin {"none", "gone"}
        BY <1>3 DEF Validate, Goto, Written, Present
    <2>2. n \in NumberOrNone
        BY <1>1
    <2>3. /\ StatusAt(asks[r].invoice, "validated") /\ status' \in [Invoices -> Statuses]
          /\ \A i \in Invoices : status'[i] = "none" <=> i > made'
        BY <1>0, <1>1, <2>1, StatusTyped DEF Statuses
    <2> HIDE DEF n
    <2>4. /\ filed' \in [Invoices -> BOOLEAN] /\ number' \in [Invoices -> NumberOrNone]
          /\ taxes' \in [Invoices -> Requests \cup {0}]
          /\ pc' \in [Requests -> {"idle"} \cup Open \cup Over]
        BY <1>0, <1>1, <2>1, <2>2 DEF TypeOK
    <2>5. /\ taxes'[asks[r].invoice] = r /\ number'[asks[r].invoice] = n
          /\ \A i \in Invoices \ {asks[r].invoice} : number'[i] = number[i] /\ taxes'[i] = taxes[i]
        BY <1>0, <1>1, <2>1 DEF TypeOK
    <2>6. TypeOK'
        BY <1>0, <1>1, <2>1, <2>3, <2>4 DEF TypeOK, Statuses, run, rest
    <2>7. Confirmed(r)
        BY <1>0, <1>1, <2>1, <2>3, <2>5, OnlyPlace DEF Confirmed, Writes, run, rest, n
    <2> QED
        BY <1>0, <1>1, <2>6, <2>7, SameLists DEF StepOf, run
<1> QED
    BY <1>2, <1>3

LEMMA PayIs ==
    ASSUME IInv, NEW r \in Requests, Pay(r)
    PROVE  TypeOK' /\ Once' /\ StepOf(r)
<1>0. TypeOK /\ Once
    BY DEF IInv
<1>1. /\ pc[r] = "checked" /\ asks[r].kind = "pay"
      /\ UNCHANGED <<arrived, asks, run, rest>>
    BY DEF Pay
<1>2. CASE ~(asks[r].paid = seen[r] \/ Present(asks[r].invoice))
    BY <1>1, <1>2, BreakIs DEF Pay
<1>3. CASE asks[r].paid = seen[r] \/ Present(asks[r].invoice)
    <2>1. /\ pc' = [pc EXCEPT ![r] = "done"]
          /\ UNCHANGED <<made, status, filed, number, taxes>>
        BY <1>3 DEF Pay, Goto
    <2>2. paid' \in [Invoices -> BOOLEAN]
        <3>1. CASE asks[r].paid = seen[r]
            <4>1. paid' = [paid EXCEPT ![asks[r].invoice] = paid[asks[r].invoice]]
                BY <1>3, <3>1 DEF Pay
            <4> QED
                BY <1>0, <4>1 DEF TypeOK
        <3>2. CASE asks[r].paid # seen[r]
            <4>1. paid' = [paid EXCEPT ![asks[r].invoice] = asks[r].paid]
                BY <1>3, <3>2 DEF Pay
            <4>2. asks[r].paid \in BOOLEAN
                BY <1>0 DEF TypeOK, Body
            <4> QED
                BY <1>0, <4>1, <4>2, Zenon DEF TypeOK
        <3> QED
            BY <3>1, <3>2
    <2>3. pc' \in [Requests -> {"idle"} \cup Open \cup Over]
        BY <1>0, <2>1 DEF TypeOK
    <2>4. TypeOK'
        BY <1>0, <1>1, <2>1, <2>2, <2>3 DEF TypeOK, run, rest
    <2>5. Ended(r)
        BY <1>0, <1>1, <2>1, OnlyPlace DEF Ended, Moves, run, rest
    <2> QED
        BY <1>0, <1>1, <2>4, <2>5, SameLists DEF StepOf, run
<1> QED
    BY <1>2, <1>3

LEMMA DeleteIs ==
    ASSUME IInv, NEW r \in Requests, Delete(r)
    PROVE  TypeOK' /\ Once' /\ StepOf(r)
<1>0. TypeOK /\ Once /\ Stands /\ Targets
    BY DEF IInv
<1>1. /\ pc[r] = "checked" /\ asks[r].kind = "delete"
      /\ pc' = [pc EXCEPT ![r] = "done"]
      /\ status' = [status EXCEPT ![asks[r].invoice] = "gone"]
      /\ UNCHANGED <<arrived, asks, run, made, filed, number, taxes, paid, rest>>
    BY DEF Delete, Goto
<1>2. asks[r].invoice \in Invoices /\ status[asks[r].invoice] # "none"
    BY <1>0, <1>1 DEF Stands, Targets
<1>3. /\ StatusAt(asks[r].invoice, "gone") /\ status' \in [Invoices -> Statuses]
      /\ \A i \in Invoices : status'[i] = "none" <=> i > made'
    BY <1>0, <1>1, <1>2, StatusTyped DEF Statuses
<1>4. pc' \in [Requests -> {"idle"} \cup Open \cup Over]
    BY <1>0, <1>1 DEF TypeOK
<1>5. TypeOK'
    BY <1>0, <1>1, <1>3, <1>4 DEF TypeOK, Statuses, run, rest
<1>6. Deleted(r)
    BY <1>0, <1>1, <1>3, OnlyPlace DEF Deleted, Writes, run, rest
<1> QED
    BY <1>0, <1>1, <1>5, <1>6, SameLists DEF StepOf, run

LEMMA RestartIs == ASSUME IInv, Restart PROVE TypeOK' /\ Once' /\ Step
<1>0. TypeOK /\ Once
    BY DEF IInv
<1>1. /\ pc' = [r \in Requests |-> IF pc[r] \in Open THEN "dead" ELSE pc[r]]
      /\ restarts' \in 0 .. MaxRestarts
      /\ UNCHANGED <<arrived, asks, seen, todo, answer, made, filed, number, taxes, paid, ollama>>
    BY <1>0 DEF Restart, TypeOK, run
<1>2. /\ \A r \in Requests : pc'[r] = IF pc[r] \in Open THEN "dead" ELSE pc[r]
      /\ pc' \in [Requests -> {"idle"} \cup Open \cup Over]
    BY <1>0, <1>1 DEF TypeOK
<1>3. Once' /\ \A r \in Requests : Tasks(r)' = Tasks(r) /\ Current(r)' = Current(r)
    BY <1>0, <1>1, SameLists
<1>4. Died
    BY <1>1, <1>2, <1>3 DEF Died
<1>5. CASE status' = Swept /\ UNCHANGED faults
    <2>1. /\ \A i \in Invoices : status'[i] = IF status[i] \in Waits THEN "failed" ELSE status[i]
          /\ status' \in [Invoices -> Statuses]
        BY <1>0, <1>5 DEF Swept, Waiting, Waits, TypeOK, Statuses
    <2>2. \A i \in Invoices : status'[i] = "none" <=> i > made'
        BY <1>0, <1>1, <2>1 DEF TypeOK, Waits
    <2>3. TypeOK'
        BY <1>0, <1>1, <1>2, <1>5, <2>1, <2>2 DEF TypeOK, Statuses
    <2>4. Sweeping
        BY <1>4, <1>5, <2>1 DEF Sweeping
    <2> QED
        BY <1>3, <2>3, <2>4 DEF Step
<1>6. CASE faults < MaxFaults /\ faults' = faults + 1 /\ UNCHANGED status
    <2>1. TypeOK'
        BY <1>0, <1>1, <1>2, <1>6 DEF TypeOK
    <2>2. Unswept
        BY <1>0, <1>4, <1>6, Ranges DEF Unswept
    <2> QED
        BY <1>3, <2>1, <2>2 DEF Step
<1> QED
    BY <1>5, <1>6 DEF Restart

LEMMA Resolved == ASSUME IInv, Next PROVE TypeOK' /\ Once' /\ Step
<1>1. ASSUME NEW r \in Requests, Upload(r) PROVE TypeOK' /\ Once' /\ StepOf(r)
    BY <1>1, StoreIs, RefuseIs, RespondIs, StartIs, AskIs, FinishIs, RefreshIs, FailIs
    DEF Upload
<1>2. ASSUME NEW r \in Requests, Person(r) PROVE TypeOK' /\ Once' /\ StepOf(r)
    BY <1>2, CheckIs, ManualIs, ValidateIs, PayIs, DeleteIs DEF Person
<1> QED
    BY <1>1, <1>2, ArriveIs, RestartIs, FaultIs DEF Next, Step

-----------------------------------------------------------------------------
(* What each step keeps                                                    *)

\* A status only moves on.
LEMMA Onward ==
    ASSUME IInv, Step
    PROVE  Forward
<1>0. Born /\ Stands /\ Queues /\ Targets
    BY Ranges DEF IInv
<1>1. /\ \A r \in Requests : Tasks(r) \subseteq Invoices
      /\ status \in [Invoices -> Statuses] /\ made \in 0 .. MaxInvoices
      /\ ollama \in BOOLEAN /\ faults \in Nat /\ arrived \in Nat
    BY Ranges DEF IInv
<1>2. ASSUME NEW r \in Requests, UploadBegun(r) PROVE Forward
    BY <1>0, <1>1, <1>2 DEF Born, Stands, Queues, Targets, Forward, UploadBegun, Begun,
        Others, Kept, Statuses, Waits
<1>3. ASSUME NEW r \in Requests, ManualBegun(r) PROVE Forward
    BY <1>0, <1>1, <1>3 DEF Born, Stands, Queues, Targets, Forward, ManualBegun, Begun,
        Others, Kept, Statuses, Waits
<1>4. ASSUME NEW r \in Requests, ValidateBegun(r) PROVE Forward
    BY <1>0, <1>1, <1>4 DEF Born, Stands, Queues, Targets, Forward, ValidateBegun,
        Begun, Others, Kept, Statuses, Waits
<1>5. ASSUME NEW r \in Requests, PayBegun(r) PROVE Forward
    BY <1>0, <1>1, <1>5 DEF Born, Stands, Queues, Targets, Forward, PayBegun, Begun,
        Others, Kept, Statuses, Waits
<1>6. ASSUME NEW r \in Requests, DeleteBegun(r) PROVE Forward
    BY <1>0, <1>1, <1>6 DEF Born, Stands, Queues, Targets, Forward, DeleteBegun, Begun,
        Others, Kept, Statuses, Waits
<1>7. ASSUME NEW r \in Requests, Stored(r) PROVE Forward
    BY <1>0, <1>1, <1>7 DEF Born, Stands, Queues, Targets, Forward, Stored, Others, Own,
        StatusAt, Statuses, Waits
<1>8. ASSUME NEW r \in Requests, GivenUp(r) PROVE Forward
    BY <1>0, <1>1, <1>8 DEF Born, Stands, Queues, Targets, Forward, GivenUp, Moves,
        Others, Own, Kept, Statuses, Waits
<1>9. ASSUME NEW r \in Requests, Ended(r) PROVE Forward
    BY <1>0, <1>1, <1>9 DEF Born, Stands, Queues, Targets, Forward, Ended, Moves,
        Others, Own, Kept, Statuses, Waits
<1>10. ASSUME NEW r \in Requests, Cleared(r) PROVE Forward
    BY <1>0, <1>1, <1>10 DEF Born, Stands, Queues, Targets, Forward, Cleared, Moves,
        Others, Own, Kept, Statuses, Waits
<1>11. ASSUME NEW r \in Requests, Answered(r) PROVE Forward
    BY <1>0, <1>1, <1>11 DEF Born, Stands, Queues, Targets, Forward, Answered, Moves,
        Others, Own, Kept, Statuses, Waits
<1>12. ASSUME NEW r \in Requests, Found(r) PROVE Forward
    BY <1>0, <1>1, <1>12 DEF Born, Stands, Queues, Targets, Forward, Found, Moves,
        Others, Own, Kept, Statuses, Waits
<1>13. ASSUME NEW r \in Requests, Late(r) PROVE Forward
    BY <1>0, <1>1, <1>13 DEF Born, Stands, Queues, Targets, Forward, Late, Moves,
        Others, Own, Kept, Statuses, Waits
<1>14. ASSUME NEW r \in Requests, Failing(r) PROVE Forward
    BY <1>0, <1>1, <1>14 DEF Born, Stands, Queues, Targets, Forward, Failing, Moves,
        Others, Own, Kept, Statuses, Waits
<1>15. ASSUME NEW r \in Requests, Started(r) PROVE Forward
    BY <1>0, <1>1, <1>15 DEF Born, Stands, Queues, Targets, Forward, Started, Kept,
        StatusAt, Works, Others, Own, Statuses, Waits
<1>16. ASSUME NEW r \in Requests, Recorded(r) PROVE Forward
    BY <1>0, <1>1, <1>16 DEF Born, Stands, Queues, Targets, Forward, Recorded, Kept,
        StatusAt, Works, Others, Own, Statuses, Waits
<1>17. ASSUME NEW r \in Requests, Failed(r) PROVE Forward
    BY <1>0, <1>1, <1>17 DEF Born, Stands, Queues, Targets, Forward, Failed, Popped,
        Others, Own, StatusAt, Works, Statuses, Waits
<1>18. ASSUME NEW r \in Requests, Passed(r) PROVE Forward
    BY <1>0, <1>1, <1>18 DEF Born, Stands, Queues, Targets, Forward, Passed, Popped,
        Others, Own, Statuses, Waits
<1>19. ASSUME NEW r \in Requests, Typed(r) PROVE Forward
    BY <1>0, <1>1, <1>19 DEF Born, Stands, Queues, Targets, Forward, Typed, StatusAt,
        Writes, Others, Own, Kept, Statuses, Waits
<1>20. ASSUME NEW r \in Requests, Confirmed(r) PROVE Forward
    BY <1>0, <1>1, <1>20 DEF Born, Stands, Queues, Targets, Forward, Confirmed,
        StatusAt, Writes, Others, Own, Kept, Statuses, Waits
<1>21. ASSUME NEW r \in Requests, Deleted(r) PROVE Forward
    BY <1>0, <1>1, <1>21 DEF Born, Stands, Queues, Targets, Forward, Deleted, StatusAt,
        Writes, Others, Own, Kept, Statuses, Waits
<1>22. ASSUME Sweeping PROVE Forward
    BY <1>0, <1>1, <1>22 DEF Born, Stands, Queues, Targets, Forward, Sweeping, Died,
        Statuses, Waits
<1>23. ASSUME Unswept PROVE Forward
    BY <1>0, <1>1, <1>23 DEF Born, Stands, Queues, Targets, Forward, Unswept, Died,
        Statuses, Waits
<1> QED
    BY <1>2, <1>3, <1>4, <1>5, <1>6, <1>7, <1>8, <1>9, <1>10, <1>11, <1>12, <1>13,
        <1>14, <1>15, <1>16, <1>17, <1>18, <1>19, <1>20, <1>21, <1>22, <1>23 DEF Step,
        StepOf

\* Requests are numbered in order.
LEMMA Numbering ==
    ASSUME IInv, Step
    PROVE  Numbered'
<1>0. Numbered
    BY Ranges DEF IInv
<1>1. /\ \A r \in Requests : Tasks(r) \subseteq Invoices
      /\ status \in [Invoices -> Statuses] /\ made \in 0 .. MaxInvoices
      /\ ollama \in BOOLEAN /\ faults \in Nat /\ arrived \in Nat
    BY Ranges DEF IInv
<1>2. ASSUME NEW r \in Requests, UploadBegun(r) PROVE Numbered'
    BY <1>0, <1>1, <1>2 DEF Numbered, UploadBegun, Begun, Others, Kept, Statuses, Waits
<1>3. ASSUME NEW r \in Requests, ManualBegun(r) PROVE Numbered'
    BY <1>0, <1>1, <1>3 DEF Numbered, ManualBegun, Begun, Others, Kept, Statuses, Waits
<1>4. ASSUME NEW r \in Requests, ValidateBegun(r) PROVE Numbered'
    BY <1>0, <1>1, <1>4 DEF Numbered, ValidateBegun, Begun, Others, Kept, Statuses,
        Waits
<1>5. ASSUME NEW r \in Requests, PayBegun(r) PROVE Numbered'
    BY <1>0, <1>1, <1>5 DEF Numbered, PayBegun, Begun, Others, Kept, Statuses, Waits
<1>6. ASSUME NEW r \in Requests, DeleteBegun(r) PROVE Numbered'
    BY <1>0, <1>1, <1>6 DEF Numbered, DeleteBegun, Begun, Others, Kept, Statuses, Waits
<1>7. ASSUME NEW r \in Requests, Stored(r) PROVE Numbered'
    BY <1>0, <1>1, <1>7 DEF Numbered, Stored, Others, Own, StatusAt, Statuses, Waits
<1>8. ASSUME NEW r \in Requests, GivenUp(r) PROVE Numbered'
    BY <1>0, <1>1, <1>8 DEF Numbered, GivenUp, Moves, Others, Own, Kept, Statuses, Waits
<1>9. ASSUME NEW r \in Requests, Ended(r) PROVE Numbered'
    BY <1>0, <1>1, <1>9 DEF Numbered, Ended, Moves, Others, Own, Kept, Statuses, Waits
<1>10. ASSUME NEW r \in Requests, Cleared(r) PROVE Numbered'
    BY <1>0, <1>1, <1>10 DEF Numbered, Cleared, Moves, Others, Own, Kept, Statuses,
        Waits
<1>11. ASSUME NEW r \in Requests, Answered(r) PROVE Numbered'
    BY <1>0, <1>1, <1>11 DEF Numbered, Answered, Moves, Others, Own, Kept, Statuses,
        Waits
<1>12. ASSUME NEW r \in Requests, Found(r) PROVE Numbered'
    BY <1>0, <1>1, <1>12 DEF Numbered, Found, Moves, Others, Own, Kept, Statuses, Waits
<1>13. ASSUME NEW r \in Requests, Late(r) PROVE Numbered'
    BY <1>0, <1>1, <1>13 DEF Numbered, Late, Moves, Others, Own, Kept, Statuses, Waits
<1>14. ASSUME NEW r \in Requests, Failing(r) PROVE Numbered'
    BY <1>0, <1>1, <1>14 DEF Numbered, Failing, Moves, Others, Own, Kept, Statuses,
        Waits
<1>15. ASSUME NEW r \in Requests, Started(r) PROVE Numbered'
    BY <1>0, <1>1, <1>15 DEF Numbered, Started, Kept, StatusAt, Works, Others, Own,
        Statuses, Waits
<1>16. ASSUME NEW r \in Requests, Recorded(r) PROVE Numbered'
    BY <1>0, <1>1, <1>16 DEF Numbered, Recorded, Kept, StatusAt, Works, Others, Own,
        Statuses, Waits
<1>17. ASSUME NEW r \in Requests, Failed(r) PROVE Numbered'
    BY <1>0, <1>1, <1>17 DEF Numbered, Failed, Popped, Others, Own, StatusAt, Works,
        Statuses, Waits
<1>18. ASSUME NEW r \in Requests, Passed(r) PROVE Numbered'
    BY <1>0, <1>1, <1>18 DEF Numbered, Passed, Popped, Others, Own, Statuses, Waits
<1>19. ASSUME NEW r \in Requests, Typed(r) PROVE Numbered'
    BY <1>0, <1>1, <1>19 DEF Numbered, Typed, StatusAt, Writes, Others, Own, Kept,
        Statuses, Waits
<1>20. ASSUME NEW r \in Requests, Confirmed(r) PROVE Numbered'
    BY <1>0, <1>1, <1>20 DEF Numbered, Confirmed, StatusAt, Writes, Others, Own, Kept,
        Statuses, Waits
<1>21. ASSUME NEW r \in Requests, Deleted(r) PROVE Numbered'
    BY <1>0, <1>1, <1>21 DEF Numbered, Deleted, StatusAt, Writes, Others, Own, Kept,
        Statuses, Waits
<1>22. ASSUME Sweeping PROVE Numbered'
    BY <1>0, <1>1, <1>22 DEF Numbered, Sweeping, Died, Statuses, Waits
<1>23. ASSUME Unswept PROVE Numbered'
    BY <1>0, <1>1, <1>23 DEF Numbered, Unswept, Died, Statuses, Waits
<1> QED
    BY <1>2, <1>3, <1>4, <1>5, <1>6, <1>7, <1>8, <1>9, <1>10, <1>11, <1>12, <1>13,
        <1>14, <1>15, <1>16, <1>17, <1>18, <1>19, <1>20, <1>21, <1>22, <1>23 DEF Step,
        StepOf

\* An invoice stays in one list.
LEMMA Parting ==
    ASSUME IInv, Step
    PROVE  Apart'
<1>0. Born /\ Apart /\ Stands
    BY Ranges DEF IInv
<1>1. /\ \A r \in Requests : Tasks(r) \subseteq Invoices
      /\ status \in [Invoices -> Statuses] /\ made \in 0 .. MaxInvoices
      /\ ollama \in BOOLEAN /\ faults \in Nat /\ arrived \in Nat
    BY Ranges DEF IInv
<1>2. ASSUME NEW r \in Requests, UploadBegun(r) PROVE Apart'
    BY <1>0, <1>1, <1>2 DEF Born, Apart, Stands, UploadBegun, Begun, Others, Kept,
        Statuses, Waits
<1>3. ASSUME NEW r \in Requests, ManualBegun(r) PROVE Apart'
    BY <1>0, <1>1, <1>3 DEF Born, Apart, Stands, ManualBegun, Begun, Others, Kept,
        Statuses, Waits
<1>4. ASSUME NEW r \in Requests, ValidateBegun(r) PROVE Apart'
    BY <1>0, <1>1, <1>4 DEF Born, Apart, Stands, ValidateBegun, Begun, Others, Kept,
        Statuses, Waits
<1>5. ASSUME NEW r \in Requests, PayBegun(r) PROVE Apart'
    BY <1>0, <1>1, <1>5 DEF Born, Apart, Stands, PayBegun, Begun, Others, Kept,
        Statuses, Waits
<1>6. ASSUME NEW r \in Requests, DeleteBegun(r) PROVE Apart'
    BY <1>0, <1>1, <1>6 DEF Born, Apart, Stands, DeleteBegun, Begun, Others, Kept,
        Statuses, Waits
<1>7. ASSUME NEW r \in Requests, Stored(r) PROVE Apart'
    BY <1>0, <1>1, <1>7 DEF Born, Apart, Stands, Stored, Others, Own, StatusAt,
        Statuses, Waits
<1>8. ASSUME NEW r \in Requests, GivenUp(r) PROVE Apart'
    BY <1>0, <1>1, <1>8 DEF Born, Apart, Stands, GivenUp, Moves, Others, Own, Kept,
        Statuses, Waits
<1>9. ASSUME NEW r \in Requests, Ended(r) PROVE Apart'
    BY <1>0, <1>1, <1>9 DEF Born, Apart, Stands, Ended, Moves, Others, Own, Kept,
        Statuses, Waits
<1>10. ASSUME NEW r \in Requests, Cleared(r) PROVE Apart'
    BY <1>0, <1>1, <1>10 DEF Born, Apart, Stands, Cleared, Moves, Others, Own, Kept,
        Statuses, Waits
<1>11. ASSUME NEW r \in Requests, Answered(r) PROVE Apart'
    BY <1>0, <1>1, <1>11 DEF Born, Apart, Stands, Answered, Moves, Others, Own, Kept,
        Statuses, Waits
<1>12. ASSUME NEW r \in Requests, Found(r) PROVE Apart'
    BY <1>0, <1>1, <1>12 DEF Born, Apart, Stands, Found, Moves, Others, Own, Kept,
        Statuses, Waits
<1>13. ASSUME NEW r \in Requests, Late(r) PROVE Apart'
    BY <1>0, <1>1, <1>13 DEF Born, Apart, Stands, Late, Moves, Others, Own, Kept,
        Statuses, Waits
<1>14. ASSUME NEW r \in Requests, Failing(r) PROVE Apart'
    BY <1>0, <1>1, <1>14 DEF Born, Apart, Stands, Failing, Moves, Others, Own, Kept,
        Statuses, Waits
<1>15. ASSUME NEW r \in Requests, Started(r) PROVE Apart'
    BY <1>0, <1>1, <1>15 DEF Born, Apart, Stands, Started, Kept, StatusAt, Works,
        Others, Own, Statuses, Waits
<1>16. ASSUME NEW r \in Requests, Recorded(r) PROVE Apart'
    BY <1>0, <1>1, <1>16 DEF Born, Apart, Stands, Recorded, Kept, StatusAt, Works,
        Others, Own, Statuses, Waits
<1>17. ASSUME NEW r \in Requests, Failed(r) PROVE Apart'
    BY <1>0, <1>1, <1>17 DEF Born, Apart, Stands, Failed, Popped, Others, Own, StatusAt,
        Works, Statuses, Waits
<1>18. ASSUME NEW r \in Requests, Passed(r) PROVE Apart'
    BY <1>0, <1>1, <1>18 DEF Born, Apart, Stands, Passed, Popped, Others, Own, Statuses,
        Waits
<1>19. ASSUME NEW r \in Requests, Typed(r) PROVE Apart'
    BY <1>0, <1>1, <1>19 DEF Born, Apart, Stands, Typed, StatusAt, Writes, Others, Own,
        Kept, Statuses, Waits
<1>20. ASSUME NEW r \in Requests, Confirmed(r) PROVE Apart'
    BY <1>0, <1>1, <1>20 DEF Born, Apart, Stands, Confirmed, StatusAt, Writes, Others,
        Own, Kept, Statuses, Waits
<1>21. ASSUME NEW r \in Requests, Deleted(r) PROVE Apart'
    BY <1>0, <1>1, <1>21 DEF Born, Apart, Stands, Deleted, StatusAt, Writes, Others,
        Own, Kept, Statuses, Waits
<1>22. ASSUME Sweeping PROVE Apart'
    BY <1>0, <1>1, <1>22 DEF Born, Apart, Stands, Sweeping, Died, Statuses, Waits
<1>23. ASSUME Unswept PROVE Apart'
    BY <1>0, <1>1, <1>23 DEF Born, Apart, Stands, Unswept, Died, Statuses, Waits
<1> QED
    BY <1>2, <1>3, <1>4, <1>5, <1>6, <1>7, <1>8, <1>9, <1>10, <1>11, <1>12, <1>13,
        <1>14, <1>15, <1>16, <1>17, <1>18, <1>19, <1>20, <1>21, <1>22, <1>23 DEF Step,
        StepOf

\* Handlers stay where they may be.
LEMMA Standing ==
    ASSUME IInv, Step
    PROVE  Stands'
<1>0. Stands
    BY Ranges DEF IInv
<1>1. /\ \A r \in Requests : Tasks(r) \subseteq Invoices
      /\ status \in [Invoices -> Statuses] /\ made \in 0 .. MaxInvoices
      /\ ollama \in BOOLEAN /\ faults \in Nat /\ arrived \in Nat
    BY Ranges DEF IInv
<1>2. ASSUME NEW r \in Requests, UploadBegun(r) PROVE Stands'
    BY <1>0, <1>1, <1>2 DEF Stands, UploadBegun, Begun, Others, Kept, Statuses, Waits
<1>3. ASSUME NEW r \in Requests, ManualBegun(r) PROVE Stands'
    BY <1>0, <1>1, <1>3 DEF Stands, ManualBegun, Begun, Others, Kept, Statuses, Waits
<1>4. ASSUME NEW r \in Requests, ValidateBegun(r) PROVE Stands'
    BY <1>0, <1>1, <1>4 DEF Stands, ValidateBegun, Begun, Others, Kept, Statuses, Waits
<1>5. ASSUME NEW r \in Requests, PayBegun(r) PROVE Stands'
    BY <1>0, <1>1, <1>5 DEF Stands, PayBegun, Begun, Others, Kept, Statuses, Waits
<1>6. ASSUME NEW r \in Requests, DeleteBegun(r) PROVE Stands'
    BY <1>0, <1>1, <1>6 DEF Stands, DeleteBegun, Begun, Others, Kept, Statuses, Waits
<1>7. ASSUME NEW r \in Requests, Stored(r) PROVE Stands'
    BY <1>0, <1>1, <1>7 DEF Stands, Stored, Others, Own, StatusAt, Statuses, Waits
<1>8. ASSUME NEW r \in Requests, GivenUp(r) PROVE Stands'
    BY <1>0, <1>1, <1>8 DEF Stands, GivenUp, Moves, Others, Own, Kept, Statuses, Waits
<1>9. ASSUME NEW r \in Requests, Ended(r) PROVE Stands'
    BY <1>0, <1>1, <1>9 DEF Stands, Ended, Moves, Others, Own, Kept, Statuses, Waits
<1>10. ASSUME NEW r \in Requests, Cleared(r) PROVE Stands'
    BY <1>0, <1>1, <1>10 DEF Stands, Cleared, Moves, Others, Own, Kept, Statuses, Waits
<1>11. ASSUME NEW r \in Requests, Answered(r) PROVE Stands'
    BY <1>0, <1>1, <1>11 DEF Stands, Answered, Moves, Others, Own, Kept, Statuses, Waits
<1>12. ASSUME NEW r \in Requests, Found(r) PROVE Stands'
    BY <1>0, <1>1, <1>12 DEF Stands, Found, Moves, Others, Own, Kept, Statuses, Waits
<1>13. ASSUME NEW r \in Requests, Late(r) PROVE Stands'
    BY <1>0, <1>1, <1>13 DEF Stands, Late, Moves, Others, Own, Kept, Statuses, Waits
<1>14. ASSUME NEW r \in Requests, Failing(r) PROVE Stands'
    BY <1>0, <1>1, <1>14 DEF Stands, Failing, Moves, Others, Own, Kept, Statuses, Waits
<1>15. ASSUME NEW r \in Requests, Started(r) PROVE Stands'
    BY <1>0, <1>1, <1>15 DEF Stands, Started, Kept, StatusAt, Works, Others, Own,
        Statuses, Waits
<1>16. ASSUME NEW r \in Requests, Recorded(r) PROVE Stands'
    BY <1>0, <1>1, <1>16 DEF Stands, Recorded, Kept, StatusAt, Works, Others, Own,
        Statuses, Waits
<1>17. ASSUME NEW r \in Requests, Failed(r) PROVE Stands'
    BY <1>0, <1>1, <1>17 DEF Stands, Failed, Popped, Others, Own, StatusAt, Works,
        Statuses, Waits
<1>18. ASSUME NEW r \in Requests, Passed(r) PROVE Stands'
    BY <1>0, <1>1, <1>18 DEF Stands, Passed, Popped, Others, Own, Statuses, Waits
<1>19. ASSUME NEW r \in Requests, Typed(r) PROVE Stands'
    BY <1>0, <1>1, <1>19 DEF Stands, Typed, StatusAt, Writes, Others, Own, Kept,
        Statuses, Waits
<1>20. ASSUME NEW r \in Requests, Confirmed(r) PROVE Stands'
    BY <1>0, <1>1, <1>20 DEF Stands, Confirmed, StatusAt, Writes, Others, Own, Kept,
        Statuses, Waits
<1>21. ASSUME NEW r \in Requests, Deleted(r) PROVE Stands'
    BY <1>0, <1>1, <1>21 DEF Stands, Deleted, StatusAt, Writes, Others, Own, Kept,
        Statuses, Waits
<1>22. ASSUME Sweeping PROVE Stands'
    BY <1>0, <1>1, <1>22 DEF Stands, Sweeping, Died, Statuses, Waits
<1>23. ASSUME Unswept PROVE Stands'
    BY <1>0, <1>1, <1>23 DEF Stands, Unswept, Died, Statuses, Waits
<1> QED
    BY <1>2, <1>3, <1>4, <1>5, <1>6, <1>7, <1>8, <1>9, <1>10, <1>11, <1>12, <1>13,
        <1>14, <1>15, <1>16, <1>17, <1>18, <1>19, <1>20, <1>21, <1>22, <1>23 DEF Step,
        StepOf

\* Nothing but its own task, the sweep and a delete touches what waits.
LEMMA Queueing ==
    ASSUME IInv, Step
    PROVE  Queues'
<1>0. Born /\ Apart /\ Stands /\ Queues /\ Targets
    BY Ranges DEF IInv
<1>1. /\ \A r \in Requests : Tasks(r) \subseteq Invoices
      /\ status \in [Invoices -> Statuses] /\ made \in 0 .. MaxInvoices
      /\ ollama \in BOOLEAN /\ faults \in Nat /\ arrived \in Nat
    BY Ranges DEF IInv
<1>2. ASSUME NEW r \in Requests, UploadBegun(r) PROVE Queues'
    BY <1>0, <1>1, <1>2 DEF Born, Apart, Stands, Queues, Targets, UploadBegun, Begun,
        Others, Kept, Statuses, Waits
<1>3. ASSUME NEW r \in Requests, ManualBegun(r) PROVE Queues'
    BY <1>0, <1>1, <1>3 DEF Born, Apart, Stands, Queues, Targets, ManualBegun, Begun,
        Others, Kept, Statuses, Waits
<1>4. ASSUME NEW r \in Requests, ValidateBegun(r) PROVE Queues'
    BY <1>0, <1>1, <1>4 DEF Born, Apart, Stands, Queues, Targets, ValidateBegun, Begun,
        Others, Kept, Statuses, Waits
<1>5. ASSUME NEW r \in Requests, PayBegun(r) PROVE Queues'
    BY <1>0, <1>1, <1>5 DEF Born, Apart, Stands, Queues, Targets, PayBegun, Begun,
        Others, Kept, Statuses, Waits
<1>6. ASSUME NEW r \in Requests, DeleteBegun(r) PROVE Queues'
    BY <1>0, <1>1, <1>6 DEF Born, Apart, Stands, Queues, Targets, DeleteBegun, Begun,
        Others, Kept, Statuses, Waits
<1>7. ASSUME NEW r \in Requests, Stored(r) PROVE Queues'
    BY <1>0, <1>1, <1>7 DEF Born, Apart, Stands, Queues, Targets, Stored, Others, Own,
        StatusAt, Statuses, Waits
<1>8. ASSUME NEW r \in Requests, GivenUp(r) PROVE Queues'
    BY <1>0, <1>1, <1>8 DEF Born, Apart, Stands, Queues, Targets, GivenUp, Moves,
        Others, Own, Kept, Statuses, Waits
<1>9. ASSUME NEW r \in Requests, Ended(r) PROVE Queues'
    BY <1>0, <1>1, <1>9 DEF Born, Apart, Stands, Queues, Targets, Ended, Moves, Others,
        Own, Kept, Statuses, Waits
<1>10. ASSUME NEW r \in Requests, Cleared(r) PROVE Queues'
    BY <1>0, <1>1, <1>10 DEF Born, Apart, Stands, Queues, Targets, Cleared, Moves,
        Others, Own, Kept, Statuses, Waits
<1>11. ASSUME NEW r \in Requests, Answered(r) PROVE Queues'
    BY <1>0, <1>1, <1>11 DEF Born, Apart, Stands, Queues, Targets, Answered, Moves,
        Others, Own, Kept, Statuses, Waits
<1>12. ASSUME NEW r \in Requests, Found(r) PROVE Queues'
    BY <1>0, <1>1, <1>12 DEF Born, Apart, Stands, Queues, Targets, Found, Moves, Others,
        Own, Kept, Statuses, Waits
<1>13. ASSUME NEW r \in Requests, Late(r) PROVE Queues'
    BY <1>0, <1>1, <1>13 DEF Born, Apart, Stands, Queues, Targets, Late, Moves, Others,
        Own, Kept, Statuses, Waits
<1>14. ASSUME NEW r \in Requests, Failing(r) PROVE Queues'
    BY <1>0, <1>1, <1>14 DEF Born, Apart, Stands, Queues, Targets, Failing, Moves,
        Others, Own, Kept, Statuses, Waits
<1>15. ASSUME NEW r \in Requests, Started(r) PROVE Queues'
    BY <1>0, <1>1, <1>15 DEF Born, Apart, Stands, Queues, Targets, Started, Kept,
        StatusAt, Works, Others, Own, Statuses, Waits
<1>16. ASSUME NEW r \in Requests, Recorded(r) PROVE Queues'
    BY <1>0, <1>1, <1>16 DEF Born, Apart, Stands, Queues, Targets, Recorded, Kept,
        StatusAt, Works, Others, Own, Statuses, Waits
<1>17. ASSUME NEW r \in Requests, Failed(r) PROVE Queues'
    BY <1>0, <1>1, <1>17 DEF Born, Apart, Stands, Queues, Targets, Failed, Popped,
        Others, Own, StatusAt, Works, Statuses, Waits
<1>18. ASSUME NEW r \in Requests, Passed(r) PROVE Queues'
    BY <1>0, <1>1, <1>18 DEF Born, Apart, Stands, Queues, Targets, Passed, Popped,
        Others, Own, Statuses, Waits
<1>19. ASSUME NEW r \in Requests, Typed(r) PROVE Queues'
    BY <1>0, <1>1, <1>19 DEF Born, Apart, Stands, Queues, Targets, Typed, StatusAt,
        Writes, Others, Own, Kept, Statuses, Waits
<1>20. ASSUME NEW r \in Requests, Confirmed(r) PROVE Queues'
    BY <1>0, <1>1, <1>20, SMTT(20) DEF Born, Apart, Stands, Queues, Targets, Confirmed, StatusAt,
        Writes, Others, Own, Kept, Statuses, Waits
<1>21. ASSUME NEW r \in Requests, Deleted(r) PROVE Queues'
    BY <1>0, <1>1, <1>21, SMTT(20) DEF Born, Apart, Stands, Queues, Targets, Deleted, StatusAt,
        Writes, Others, Own, Kept, Statuses, Waits
<1>22. ASSUME Sweeping PROVE Queues'
    BY <1>0, <1>1, <1>22 DEF Born, Apart, Stands, Queues, Targets, Sweeping, Died,
        Statuses, Waits
<1>23. ASSUME Unswept PROVE Queues'
    BY <1>0, <1>1, <1>23 DEF Born, Apart, Stands, Queues, Targets, Unswept, Died,
        Statuses, Waits
<1> QED
    BY <1>2, <1>3, <1>4, <1>5, <1>6, <1>7, <1>8, <1>9, <1>10, <1>11, <1>12, <1>13,
        <1>14, <1>15, <1>16, <1>17, <1>18, <1>19, <1>20, <1>21, <1>22, <1>23 DEF Step,
        StepOf

\* What a person looked at never waits again.
LEMMA Targeting ==
    ASSUME IInv, Step, Forward
    PROVE  Targets'
<1>0. Targets /\ Stands
    BY Ranges DEF IInv
<1>1. /\ \A r \in Requests : Tasks(r) \subseteq Invoices
      /\ status \in [Invoices -> Statuses] /\ made \in 0 .. MaxInvoices
      /\ ollama \in BOOLEAN /\ faults \in Nat /\ arrived \in Nat
    BY Ranges DEF IInv
<1>2. ASSUME NEW r \in Requests, UploadBegun(r) PROVE Targets'
    BY <1>0, <1>1, <1>2 DEF Targets, Stands, Forward, UploadBegun, Begun, Others, Kept,
        Statuses, Waits
<1>3. ASSUME NEW r \in Requests, ManualBegun(r) PROVE Targets'
    BY <1>0, <1>1, <1>3 DEF Targets, Stands, Forward, ManualBegun, Begun, Others, Kept,
        Statuses, Waits
<1>4. ASSUME NEW r \in Requests, ValidateBegun(r) PROVE Targets'
    BY <1>0, <1>1, <1>4 DEF Targets, Stands, Forward, ValidateBegun, Begun, Others,
        Kept, Statuses, Waits
<1>5. ASSUME NEW r \in Requests, PayBegun(r) PROVE Targets'
    BY <1>0, <1>1, <1>5 DEF Targets, Stands, Forward, PayBegun, Begun, Others, Kept,
        Statuses, Waits
<1>6. ASSUME NEW r \in Requests, DeleteBegun(r) PROVE Targets'
    BY <1>0, <1>1, <1>6 DEF Targets, Stands, Forward, DeleteBegun, Begun, Others, Kept,
        Statuses, Waits
<1>7. ASSUME NEW r \in Requests, Stored(r) PROVE Targets'
    BY <1>0, <1>1, <1>7, SMTT(20) DEF Targets, Stands, Forward, Stored, Others, Own, StatusAt,
        Statuses, Waits
<1>8. ASSUME NEW r \in Requests, GivenUp(r) PROVE Targets'
    BY <1>0, <1>1, <1>8 DEF Targets, Stands, Forward, GivenUp, Moves, Others, Own, Kept,
        Statuses, Waits
<1>9. ASSUME NEW r \in Requests, Ended(r) PROVE Targets'
    BY <1>0, <1>1, <1>9 DEF Targets, Stands, Forward, Ended, Moves, Others, Own, Kept,
        Statuses, Waits
<1>10. ASSUME NEW r \in Requests, Cleared(r) PROVE Targets'
    BY <1>0, <1>1, <1>10 DEF Targets, Stands, Forward, Cleared, Moves, Others, Own,
        Kept, Statuses, Waits
<1>11. ASSUME NEW r \in Requests, Answered(r) PROVE Targets'
    BY <1>0, <1>1, <1>11 DEF Targets, Stands, Forward, Answered, Moves, Others, Own,
        Kept, Statuses, Waits
<1>12. ASSUME NEW r \in Requests, Found(r) PROVE Targets'
    BY <1>0, <1>1, <1>12 DEF Targets, Stands, Forward, Found, Moves, Others, Own, Kept,
        Statuses, Waits
<1>13. ASSUME NEW r \in Requests, Late(r) PROVE Targets'
    BY <1>0, <1>1, <1>13 DEF Targets, Stands, Forward, Late, Moves, Others, Own, Kept,
        Statuses, Waits
<1>14. ASSUME NEW r \in Requests, Failing(r) PROVE Targets'
    BY <1>0, <1>1, <1>14 DEF Targets, Stands, Forward, Failing, Moves, Others, Own,
        Kept, Statuses, Waits
<1>15. ASSUME NEW r \in Requests, Started(r) PROVE Targets'
    BY <1>0, <1>1, <1>15 DEF Targets, Stands, Forward, Started, Kept, StatusAt, Works,
        Others, Own, Statuses, Waits
<1>16. ASSUME NEW r \in Requests, Recorded(r) PROVE Targets'
    BY <1>0, <1>1, <1>16 DEF Targets, Stands, Forward, Recorded, Kept, StatusAt, Works,
        Others, Own, Statuses, Waits
<1>17. ASSUME NEW r \in Requests, Failed(r) PROVE Targets'
    BY <1>0, <1>1, <1>17 DEF Targets, Stands, Forward, Failed, Popped, Others, Own,
        StatusAt, Works, Statuses, Waits
<1>18. ASSUME NEW r \in Requests, Passed(r) PROVE Targets'
    BY <1>0, <1>1, <1>18 DEF Targets, Stands, Forward, Passed, Popped, Others, Own,
        Statuses, Waits
<1>19. ASSUME NEW r \in Requests, Typed(r) PROVE Targets'
    BY <1>0, <1>1, <1>19 DEF Targets, Stands, Forward, Typed, StatusAt, Writes, Others,
        Own, Kept, Statuses, Waits
<1>20. ASSUME NEW r \in Requests, Confirmed(r) PROVE Targets'
    BY <1>0, <1>1, <1>20 DEF Targets, Stands, Forward, Confirmed, StatusAt, Writes,
        Others, Own, Kept, Statuses, Waits
<1>21. ASSUME NEW r \in Requests, Deleted(r) PROVE Targets'
    BY <1>0, <1>1, <1>21 DEF Targets, Stands, Forward, Deleted, StatusAt, Writes,
        Others, Own, Kept, Statuses, Waits
<1>22. ASSUME Sweeping PROVE Targets'
    BY <1>0, <1>1, <1>22 DEF Targets, Stands, Forward, Sweeping, Died, Statuses, Waits
<1>23. ASSUME Unswept PROVE Targets'
    BY <1>0, <1>1, <1>23 DEF Targets, Stands, Forward, Unswept, Died, Statuses, Waits
<1> QED
    BY <1>2, <1>3, <1>4, <1>5, <1>6, <1>7, <1>8, <1>9, <1>10, <1>11, <1>12, <1>13,
        <1>14, <1>15, <1>16, <1>17, <1>18, <1>19, <1>20, <1>21, <1>22, <1>23 DEF Step,
        StepOf

\* What a person saw stands as long as nothing is written on what waits for a person.
LEMMA SightsStand ==
    ASSUME Unseen, Targets, Forward,
           \A q \in Requests : asks[q].kind = "validate" => asks[q].invoice \in Invoices,
           \A q \in Requests : pc[q] = "done" => pc'[q] = "done" /\ asks'[q] = asks[q],
           \A q \in Requests : pc'[q] \in {"loaded", "checked"} /\ asks'[q].kind = "validate" =>
               /\ pc[q] \in {"loaded", "checked"}
               /\ asks'[q] = asks[q] /\ seen'[q] = seen[q],
           \A i \in Invoices : status[i] \in {"to_validate", "failed", "validated"} =>
               number'[i] = number[i] /\ (status'[i] = "validated" => status[i] = "validated")
    PROVE  Unseen'
<1> SUFFICES ASSUME NEW r \in Requests, pc'[r] \in {"loaded", "checked"},
                    asks'[r].kind = "validate"
             PROVE  \/ \E q \in Requests : asks'[q].kind = "validate" /\ pc'[q] = "done"
                                           /\ asks'[q].invoice = asks'[r].invoice
                    \/ status'[asks'[r].invoice] = "gone"
                    \/ /\ status'[asks'[r].invoice] # "validated"
                       /\ number'[asks'[r].invoice] = seen'[r]
    BY DEF Unseen
<1>1. asks'[r] = asks[r] /\ seen'[r] = seen[r] /\ asks[r].invoice \in Invoices
    OBVIOUS
<1>2. CASE \E q \in Requests : asks[q].kind = "validate" /\ pc[q] = "done"
                               /\ asks[q].invoice = asks[r].invoice
    BY <1>1, <1>2
<1>3. CASE status[asks[r].invoice] = "gone"
    BY <1>1, <1>3 DEF Forward
<1>4. CASE status[asks[r].invoice] # "validated" /\ number[asks[r].invoice] = seen[r]
    BY <1>1, <1>4 DEF Forward, Targets
<1> QED
    BY <1>1, <1>2, <1>3, <1>4 DEF Unseen

\* Only a validation changes the number that a person saw.
LEMMA Seeing ==
    ASSUME IInv, Step, Forward
    PROVE  Unseen'
<1>0. Born /\ Numbered /\ Stands /\ Targets /\ Unseen
    BY Ranges DEF IInv
<1>1. /\ \A r \in Requests : Tasks(r) \subseteq Invoices
      /\ status \in [Invoices -> Statuses] /\ made \in 0 .. MaxInvoices
      /\ ollama \in BOOLEAN /\ faults \in Nat /\ arrived \in Nat
    BY Ranges DEF IInv
<1>2. ASSUME NEW r \in Requests, UploadBegun(r) PROVE Unseen'
    BY <1>0, <1>1, <1>2, SightsStand DEF Born, Stands, UploadBegun, Begun, Others, Kept
<1>3. ASSUME NEW r \in Requests, ManualBegun(r) PROVE Unseen'
    BY <1>0, <1>1, <1>3, SightsStand DEF Born, Stands, ManualBegun, Begun, Others, Kept
<1>4. ASSUME NEW r \in Requests, ValidateBegun(r) PROVE Unseen'
    BY <1>0, <1>1, <1>4, SMTT(20) DEF Born, Numbered, Stands, Targets, Unseen, Forward,
        ValidateBegun, Begun, Others, Kept, Statuses, Waits
<1>5. ASSUME NEW r \in Requests, PayBegun(r) PROVE Unseen'
    BY <1>0, <1>1, <1>5, SightsStand DEF Born, Stands, PayBegun, Begun, Others, Kept
<1>6. ASSUME NEW r \in Requests, DeleteBegun(r) PROVE Unseen'
    BY <1>0, <1>1, <1>6, SightsStand DEF Born, Stands, DeleteBegun, Begun, Others, Kept
<1>7. ASSUME NEW r \in Requests, Stored(r) PROVE Unseen'
    BY <1>0, <1>1, <1>7, SightsStand DEF Born, Stands, Stored, Others, Own, StatusAt
<1>8. ASSUME NEW r \in Requests, GivenUp(r) PROVE Unseen'
    BY <1>0, <1>1, <1>8, SightsStand DEF Born, Stands, GivenUp, Moves, Others, Own, Kept
<1>9. ASSUME NEW r \in Requests, Ended(r) PROVE Unseen'
    BY <1>0, <1>1, <1>9, SightsStand DEF Born, Stands, Ended, Moves, Others, Own, Kept
<1>10. ASSUME NEW r \in Requests, Cleared(r) PROVE Unseen'
    BY <1>0, <1>1, <1>10, SightsStand DEF Born, Stands, Cleared, Moves, Others, Own, Kept
<1>11. ASSUME NEW r \in Requests, Answered(r) PROVE Unseen'
    BY <1>0, <1>1, <1>11, SightsStand DEF Born, Stands, Answered, Moves, Others, Own,
        Kept
<1>12. ASSUME NEW r \in Requests, Found(r) PROVE Unseen'
    BY <1>0, <1>1, <1>12, SightsStand DEF Born, Stands, Found, Moves, Others, Own, Kept
<1>13. ASSUME NEW r \in Requests, Late(r) PROVE Unseen'
    BY <1>0, <1>1, <1>13, SightsStand DEF Born, Stands, Late, Moves, Others, Own, Kept,
        Waits
<1>14. ASSUME NEW r \in Requests, Failing(r) PROVE Unseen'
    BY <1>0, <1>1, <1>14, SightsStand DEF Born, Stands, Failing, Moves, Others, Own, Kept
<1>15. ASSUME NEW r \in Requests, Started(r) PROVE Unseen'
    BY <1>0, <1>1, <1>15, SightsStand DEF Born, Stands, Started, Kept, StatusAt, Works,
        Others, Own
<1>16. ASSUME NEW r \in Requests, Recorded(r) PROVE Unseen'
    BY <1>0, <1>1, <1>16, SightsStand DEF Born, Stands, Recorded, Kept, StatusAt, Works,
        Others, Own, Waits
<1>17. ASSUME NEW r \in Requests, Failed(r) PROVE Unseen'
    BY <1>0, <1>1, <1>17, SightsStand DEF Born, Stands, Failed, Popped, Others, Own,
        StatusAt, Works, Waits
<1>18. ASSUME NEW r \in Requests, Passed(r) PROVE Unseen'
    BY <1>0, <1>1, <1>18, SightsStand DEF Born, Stands, Passed, Popped, Others, Own,
        Waits
<1>19. ASSUME NEW r \in Requests, Typed(r) PROVE Unseen'
    BY <1>0, <1>1, <1>19, SightsStand DEF Born, Stands, Typed, StatusAt, Writes, Others,
        Own, Kept
<1>20. ASSUME NEW r \in Requests, Confirmed(r) PROVE Unseen'
    <2> SUFFICES ASSUME NEW q \in Requests, pc'[q] \in {"loaded", "checked"},
                        asks'[q].kind = "validate"
                 PROVE  \/ \E p \in Requests : asks'[p].kind = "validate" /\ pc'[p] = "done"
                                               /\ asks'[p].invoice = asks'[q].invoice
                        \/ status'[asks'[q].invoice] = "gone"
                        \/ /\ status'[asks'[q].invoice] # "validated"
                           /\ number'[asks'[q].invoice] = seen'[q]
        BY DEF Unseen
    <2>1. /\ q # r /\ pc'[q] = pc[q] /\ seen'[q] = seen[q] /\ asks[q].invoice \in Invoices
          /\ \A p \in Requests : asks'[p] = asks[p]
          /\ \A p \in Requests : pc[p] = "done" => pc'[p] = "done"
          /\ pc'[r] = "done" /\ asks[r].kind = "validate"
        BY <1>0, <1>20 DEF Confirmed, Writes, Others, Own, Stands
    <2>2. CASE asks[q].invoice = asks[r].invoice
        BY <2>1, <2>2
    <2>3. CASE asks[q].invoice # asks[r].invoice
        <3>1. /\ status'[asks[q].invoice] = status[asks[q].invoice]
              /\ number'[asks[q].invoice] = number[asks[q].invoice]
            BY <1>20, <2>1, <2>3 DEF Confirmed, StatusAt
        <3>2. \/ \E p \in Requests : asks[p].kind = "validate" /\ pc[p] = "done"
                                     /\ asks[p].invoice = asks[q].invoice
              \/ status[asks[q].invoice] = "gone"
              \/ /\ status[asks[q].invoice] # "validated"
                 /\ number[asks[q].invoice] = seen[q]
            BY <1>0, <2>1 DEF Unseen
        <3> QED
            BY <2>1, <3>1, <3>2
    <2> QED
        BY <2>2, <2>3
<1>21. ASSUME NEW r \in Requests, Deleted(r) PROVE Unseen'
    BY <1>0, <1>1, <1>21, SightsStand DEF Born, Stands, Deleted, StatusAt, Writes,
        Others, Own, Kept
<1>22. ASSUME Sweeping PROVE Unseen'
    BY <1>0, <1>1, <1>22, SightsStand DEF Born, Stands, Sweeping, Died, Waits
<1>23. ASSUME Unswept PROVE Unseen'
    BY <1>0, <1>1, <1>23, SightsStand DEF Born, Stands, Unswept, Died
<1> QED
    BY <1>2, <1>3, <1>4, <1>5, <1>6, <1>7, <1>8, <1>9, <1>10, <1>11, <1>12, <1>13,
        <1>14, <1>15, <1>16, <1>17, <1>18, <1>19, <1>20, <1>21, <1>22, <1>23 DEF Step,
        StepOf

\* No task leaves its invoice waiting, unless a statement fails.
LEMMA Awaiting ==
    ASSUME IInv, Step
    PROVE  Awaited'
<1>0. Stands /\ Queues /\ Targets /\ Awaited
    BY Ranges DEF IInv
<1>1. /\ \A r \in Requests : Tasks(r) \subseteq Invoices
      /\ status \in [Invoices -> Statuses] /\ made \in 0 .. MaxInvoices
      /\ ollama \in BOOLEAN /\ faults \in Nat /\ arrived \in Nat
    BY Ranges DEF IInv
<1>2. ASSUME NEW r \in Requests, UploadBegun(r) PROVE Awaited'
    BY <1>0, <1>1, <1>2 DEF Stands, Queues, Targets, Awaited, UploadBegun, Begun,
        Others, Kept, Statuses, Waits
<1>3. ASSUME NEW r \in Requests, ManualBegun(r) PROVE Awaited'
    BY <1>0, <1>1, <1>3 DEF Stands, Queues, Targets, Awaited, ManualBegun, Begun,
        Others, Kept, Statuses, Waits
<1>4. ASSUME NEW r \in Requests, ValidateBegun(r) PROVE Awaited'
    BY <1>0, <1>1, <1>4 DEF Stands, Queues, Targets, Awaited, ValidateBegun, Begun,
        Others, Kept, Statuses, Waits
<1>5. ASSUME NEW r \in Requests, PayBegun(r) PROVE Awaited'
    BY <1>0, <1>1, <1>5 DEF Stands, Queues, Targets, Awaited, PayBegun, Begun, Others,
        Kept, Statuses, Waits
<1>6. ASSUME NEW r \in Requests, DeleteBegun(r) PROVE Awaited'
    BY <1>0, <1>1, <1>6 DEF Stands, Queues, Targets, Awaited, DeleteBegun, Begun,
        Others, Kept, Statuses, Waits
<1>7. ASSUME NEW r \in Requests, Stored(r) PROVE Awaited'
    BY <1>0, <1>1, <1>7 DEF Stands, Queues, Targets, Awaited, Stored, Others, Own,
        StatusAt, Statuses, Waits
<1>8. ASSUME NEW r \in Requests, GivenUp(r) PROVE Awaited'
    BY <1>0, <1>1, <1>8 DEF Stands, Queues, Targets, Awaited, GivenUp, Moves, Others,
        Own, Kept, Statuses, Waits
<1>9. ASSUME NEW r \in Requests, Ended(r) PROVE Awaited'
    BY <1>0, <1>1, <1>9 DEF Stands, Queues, Targets, Awaited, Ended, Moves, Others, Own,
        Kept, Statuses, Waits
<1>10. ASSUME NEW r \in Requests, Cleared(r) PROVE Awaited'
    BY <1>0, <1>1, <1>10 DEF Stands, Queues, Targets, Awaited, Cleared, Moves, Others,
        Own, Kept, Statuses, Waits
<1>11. ASSUME NEW r \in Requests, Answered(r) PROVE Awaited'
    BY <1>0, <1>1, <1>11 DEF Stands, Queues, Targets, Awaited, Answered, Moves, Others,
        Own, Kept, Statuses, Waits
<1>12. ASSUME NEW r \in Requests, Found(r) PROVE Awaited'
    BY <1>0, <1>1, <1>12 DEF Stands, Queues, Targets, Awaited, Found, Moves, Others,
        Own, Kept, Statuses, Waits
<1>13. ASSUME NEW r \in Requests, Late(r) PROVE Awaited'
    BY <1>0, <1>1, <1>13 DEF Stands, Queues, Targets, Awaited, Late, Moves, Others, Own,
        Kept, Statuses, Waits
<1>14. ASSUME NEW r \in Requests, Failing(r) PROVE Awaited'
    BY <1>0, <1>1, <1>14 DEF Stands, Queues, Targets, Awaited, Failing, Moves, Others,
        Own, Kept, Statuses, Waits
<1>15. ASSUME NEW r \in Requests, Started(r) PROVE Awaited'
    BY <1>0, <1>1, <1>15 DEF Stands, Queues, Targets, Awaited, Started, Kept, StatusAt,
        Works, Others, Own, Statuses, Waits
<1>16. ASSUME NEW r \in Requests, Recorded(r) PROVE Awaited'
    BY <1>0, <1>1, <1>16 DEF Stands, Queues, Targets, Awaited, Recorded, Kept, StatusAt,
        Works, Others, Own, Statuses, Waits
<1>17. ASSUME NEW r \in Requests, Failed(r) PROVE Awaited'
    BY <1>0, <1>1, <1>17 DEF Stands, Queues, Targets, Awaited, Failed, Popped, Others,
        Own, StatusAt, Works, Statuses, Waits
<1>18. ASSUME NEW r \in Requests, Passed(r) PROVE Awaited'
    BY <1>0, <1>1, <1>18 DEF Stands, Queues, Targets, Awaited, Passed, Popped, Others,
        Own, Statuses, Waits
<1>19. ASSUME NEW r \in Requests, Typed(r) PROVE Awaited'
    BY <1>0, <1>1, <1>19 DEF Stands, Queues, Targets, Awaited, Typed, StatusAt, Writes,
        Others, Own, Kept, Statuses, Waits
<1>20. ASSUME NEW r \in Requests, Confirmed(r) PROVE Awaited'
    BY <1>0, <1>1, <1>20 DEF Stands, Queues, Targets, Awaited, Confirmed, StatusAt,
        Writes, Others, Own, Kept, Statuses, Waits
<1>21. ASSUME NEW r \in Requests, Deleted(r) PROVE Awaited'
    BY <1>0, <1>1, <1>21 DEF Stands, Queues, Targets, Awaited, Deleted, StatusAt,
        Writes, Others, Own, Kept, Statuses, Waits
<1>22. ASSUME Sweeping PROVE Awaited'
    BY <1>0, <1>1, <1>22 DEF Stands, Queues, Targets, Awaited, Sweeping, Died, Statuses,
        Waits
<1>23. ASSUME Unswept PROVE Awaited'
    BY <1>0, <1>1, <1>23 DEF Stands, Queues, Targets, Awaited, Unswept, Died, Statuses,
        Waits
<1> QED
    BY <1>2, <1>3, <1>4, <1>5, <1>6, <1>7, <1>8, <1>9, <1>10, <1>11, <1>12, <1>13,
        <1>14, <1>15, <1>16, <1>17, <1>18, <1>19, <1>20, <1>21, <1>22, <1>23 DEF Step,
        StepOf

\* What is written on a validated invoice stands as long as nothing is written.
LEMMA FormsStand ==
    ASSUME Formed,
           \A q \in Requests : pc[q] = "done" => pc'[q] = "done" /\ asks'[q] = asks[q],
           \A i \in Invoices : status'[i] = "validated" =>
               status[i] = "validated" /\ number'[i] = number[i] /\ taxes'[i] = taxes[i]
    PROVE  Formed'
<1> SUFFICES ASSUME NEW i \in Invoices, status'[i] = "validated"
             PROVE  /\ taxes'[i] \in Requests /\ pc'[taxes'[i]] = "done"
                    /\ Alone(i)' => number'[i] = asks'[taxes'[i]].number
    BY DEF Formed
<1>1. Alone(i)' => Alone(i)
    BY DEF Alone
<1>2. /\ taxes[i] \in Requests /\ pc[taxes[i]] = "done"
      /\ Alone(i) => number[i] = asks[taxes[i]].number
    BY DEF Formed
<1> QED
    BY <1>1, <1>2

\* The last validation wrote what its form said, if it was the only one.
LEMMA Forming ==
    ASSUME IInv, Step
    PROVE  Formed'
<1>0. Stands /\ Targets /\ Unseen /\ Formed
    BY Ranges DEF IInv
<1>1. /\ \A r \in Requests : Tasks(r) \subseteq Invoices
      /\ status \in [Invoices -> Statuses] /\ made \in 0 .. MaxInvoices
      /\ ollama \in BOOLEAN /\ faults \in Nat /\ arrived \in Nat
    BY Ranges DEF IInv
<1>2. ASSUME NEW r \in Requests, UploadBegun(r) PROVE Formed'
    BY <1>0, <1>1, <1>2, FormsStand DEF Stands, UploadBegun, Begun, Others, Kept
<1>3. ASSUME NEW r \in Requests, ManualBegun(r) PROVE Formed'
    BY <1>0, <1>1, <1>3, FormsStand DEF Stands, ManualBegun, Begun, Others, Kept
<1>4. ASSUME NEW r \in Requests, ValidateBegun(r) PROVE Formed'
    BY <1>0, <1>1, <1>4, FormsStand DEF Stands, ValidateBegun, Begun, Others, Kept
<1>5. ASSUME NEW r \in Requests, PayBegun(r) PROVE Formed'
    BY <1>0, <1>1, <1>5, FormsStand DEF Stands, PayBegun, Begun, Others, Kept
<1>6. ASSUME NEW r \in Requests, DeleteBegun(r) PROVE Formed'
    BY <1>0, <1>1, <1>6, FormsStand DEF Stands, DeleteBegun, Begun, Others, Kept
<1>7. ASSUME NEW r \in Requests, Stored(r) PROVE Formed'
    BY <1>0, <1>1, <1>7, FormsStand DEF Stands, Stored, Others, Own, StatusAt
<1>8. ASSUME NEW r \in Requests, GivenUp(r) PROVE Formed'
    BY <1>0, <1>1, <1>8, FormsStand DEF Stands, GivenUp, Moves, Others, Own, Kept
<1>9. ASSUME NEW r \in Requests, Ended(r) PROVE Formed'
    BY <1>0, <1>1, <1>9, FormsStand DEF Stands, Ended, Moves, Others, Own, Kept
<1>10. ASSUME NEW r \in Requests, Cleared(r) PROVE Formed'
    BY <1>0, <1>1, <1>10, FormsStand DEF Stands, Cleared, Moves, Others, Own, Kept
<1>11. ASSUME NEW r \in Requests, Answered(r) PROVE Formed'
    BY <1>0, <1>1, <1>11, FormsStand DEF Stands, Answered, Moves, Others, Own, Kept
<1>12. ASSUME NEW r \in Requests, Found(r) PROVE Formed'
    BY <1>0, <1>1, <1>12, FormsStand DEF Stands, Found, Moves, Others, Own, Kept
<1>13. ASSUME NEW r \in Requests, Late(r) PROVE Formed'
    BY <1>0, <1>1, <1>13, FormsStand DEF Stands, Late, Moves, Others, Own, Kept, Waits
<1>14. ASSUME NEW r \in Requests, Failing(r) PROVE Formed'
    BY <1>0, <1>1, <1>14, FormsStand DEF Stands, Failing, Moves, Others, Own, Kept
<1>15. ASSUME NEW r \in Requests, Started(r) PROVE Formed'
    BY <1>0, <1>1, <1>15, FormsStand DEF Stands, Started, Kept, StatusAt, Works, Others,
        Own
<1>16. ASSUME NEW r \in Requests, Recorded(r) PROVE Formed'
    BY <1>0, <1>1, <1>16, FormsStand DEF Stands, Recorded, Kept, StatusAt, Works, Others,
        Own, Waits
<1>17. ASSUME NEW r \in Requests, Failed(r) PROVE Formed'
    BY <1>0, <1>1, <1>17, FormsStand DEF Stands, Failed, Popped, Others, Own, StatusAt,
        Works, Waits
<1>18. ASSUME NEW r \in Requests, Passed(r) PROVE Formed'
    BY <1>0, <1>1, <1>18, FormsStand DEF Stands, Passed, Popped, Others, Own, Waits
<1>19. ASSUME NEW r \in Requests, Typed(r) PROVE Formed'
    <2> SUFFICES ASSUME NEW i \in Invoices, status'[i] = "validated"
                 PROVE  /\ taxes'[i] \in Requests /\ pc'[taxes'[i]] = "done"
                        /\ Alone(i)' => number'[i] = asks'[taxes'[i]].number
        BY DEF Formed

    <2>1. /\ \A q \in Requests : asks'[q] = asks[q]
          /\ \A q \in Requests : pc[q] = "done" => pc'[q] = "done"
          /\ pc'[r] = "done"
        BY <1>19 DEF Typed, Writes, Others, Own
    <2>2. CASE i = made + 1
        BY <1>19, <2>1, <2>2 DEF Typed
    <2>3. CASE i # made + 1
        <3>1. status[i] = "validated" /\ number'[i] = number[i] /\ taxes'[i] = taxes[i]
            BY <1>19, <2>3 DEF Typed, StatusAt
        <3>2. Alone(i)' => Alone(i)
            BY <2>1 DEF Alone
        <3>3. /\ taxes[i] \in Requests /\ pc[taxes[i]] = "done"
              /\ Alone(i) => number[i] = asks[taxes[i]].number
            BY <1>0, <3>1 DEF Formed
        <3> QED
            BY <2>1, <3>1, <3>2, <3>3
    <2> QED
        BY <2>2, <2>3
<1>20. ASSUME NEW r \in Requests, Confirmed(r) PROVE Formed'
    <2> SUFFICES ASSUME NEW i \in Invoices, status'[i] = "validated"
                 PROVE  /\ taxes'[i] \in Requests /\ pc'[taxes'[i]] = "done"
                        /\ Alone(i)' => number'[i] = asks'[taxes'[i]].number
        BY DEF Formed

    <2> DEFINE k == asks[r].invoice
    <2>1. /\ \A q \in Requests : asks'[q] = asks[q]
          /\ \A q \in Requests : pc[q] = "done" => pc'[q] = "done"
          /\ pc'[r] = "done" /\ pc[r] = "checked" /\ asks[r].kind = "validate"
        BY <1>20 DEF Confirmed, Writes, Others, Own
    <2>2. CASE i = k
        <3>1. /\ taxes'[i] = r /\ status[i] # "gone"
              /\ \/ number'[i] = number[i] /\ asks[r].number = seen[r]
                 \/ number'[i] = asks[r].number
            BY <1>20, <2>2 DEF Confirmed
        <3>2. ASSUME Alone(i)' PROVE number'[i] = asks[r].number
            <4>1. ~\E q \in Requests : asks[q].kind = "validate" /\ pc[q] = "done"
                                       /\ asks[q].invoice = i
                BY <2>1, <2>2, <3>2 DEF Alone
            <4>2. number[i] = seen[r]
                BY <1>0, <2>1, <2>2, <3>1, <4>1 DEF Unseen
            <4> QED
                BY <3>1, <4>2
        <3> QED
            BY <2>1, <3>1, <3>2
    <2>3. CASE i # k
        <3>1. status[i] = "validated" /\ number'[i] = number[i] /\ taxes'[i] = taxes[i]
            BY <1>20, <2>3 DEF Confirmed, StatusAt
        <3>2. Alone(i)' => Alone(i)
            BY <2>1 DEF Alone
        <3>3. /\ taxes[i] \in Requests /\ pc[taxes[i]] = "done"
              /\ Alone(i) => number[i] = asks[taxes[i]].number
            BY <1>0, <3>1 DEF Formed
        <3> QED
            BY <2>1, <3>1, <3>2, <3>3
    <2> QED
        BY <2>2, <2>3
<1>21. ASSUME NEW r \in Requests, Deleted(r) PROVE Formed'
    BY <1>0, <1>1, <1>21, FormsStand DEF Stands, Deleted, StatusAt, Writes, Others, Own,
        Kept
<1>22. ASSUME Sweeping PROVE Formed'
    BY <1>0, <1>1, <1>22, FormsStand DEF Stands, Sweeping, Died, Waits
<1>23. ASSUME Unswept PROVE Formed'
    BY <1>0, <1>1, <1>23, FormsStand DEF Stands, Unswept, Died
<1> QED
    BY <1>2, <1>3, <1>4, <1>5, <1>6, <1>7, <1>8, <1>9, <1>10, <1>11, <1>12, <1>13,
        <1>14, <1>15, <1>16, <1>17, <1>18, <1>19, <1>20, <1>21, <1>22, <1>23 DEF Step,
        StepOf

-----------------------------------------------------------------------------
(* The theorems                                                            *)

LEMMA Starts == ASSUME Init PROVE IInv
<1> USE DEF Init
<1>1. \A r \in Requests : Tasks(r) = {}
    BY DEF Tasks
<1>2. TypeOK
    <2>1. asks \in [Requests -> Body]
        BY DEF Body, Kinds
    <2>2. \A r \in Requests : todo[r] \in Seq(Invoices)
        OBVIOUS
    <2>3. todo \in [Requests -> Seq(Invoices)]
        BY <2>2
    <2>4. \A i \in Invoices : status[i] = "none" <=> i > made
        OBVIOUS
    <2>5. /\ arrived \in 0 .. MaxRequests /\ made \in 0 .. MaxInvoices
          /\ faults \in 0 .. MaxFaults /\ restarts \in 0 .. MaxRestarts
        OBVIOUS
    <2>6. /\ pc \in [Requests -> {"idle"} \cup Open \cup Over]
          /\ seen \in [Requests -> NumberOrNone \cup BOOLEAN]
          /\ answer \in [Requests -> NumberOrNone \cup {Error}]
        OBVIOUS
    <2>7. /\ status \in [Invoices -> Statuses] /\ number \in [Invoices -> NumberOrNone]
          /\ taxes \in [Invoices -> Requests \cup {0}]
          /\ filed \in [Invoices -> BOOLEAN] /\ paid \in [Invoices -> BOOLEAN]
        BY DEF Statuses
    <2>8. ollama \in BOOLEAN
        OBVIOUS
    <2> HIDE DEF Init
    <2> QED
        BY <2>1, <2>3, <2>4, <2>5, <2>6, <2>7, <2>8 DEF TypeOK, Statuses
<1>3. Numbered /\ Once /\ Apart /\ Stands /\ Queues
    BY <1>1 DEF Numbered, Once, Apart, Stands, Queues, Waits
<1>4. Targets /\ Unseen /\ Awaited /\ Formed
    BY DEF Targets, Unseen, Awaited, Formed, Waits
<1> QED
    BY <1>2, <1>3, <1>4 DEF IInv

LEMMA Stutters == ASSUME IInv, UNCHANGED vars PROVE IInv'
<1> USE DEF vars, row, run, rest
<1>1. /\ \A r \in Requests : Tasks(r)' = Tasks(r) /\ Current(r)' = Current(r)
      /\ \A i \in Invoices : Alone(i)' = Alone(i)
    BY DEF Tasks, Current, Alone
<1>2. TypeOK' /\ Numbered' /\ Once'
    BY DEF IInv, TypeOK, Numbered, Once
<1>3. Apart' /\ Stands' /\ Queues'
    BY <1>1 DEF IInv, Apart, Stands, Queues
<1>4. Targets' /\ Unseen'
    BY DEF IInv, Targets, Unseen
<1>5. Awaited' /\ Formed'
    BY <1>1 DEF IInv, Awaited, Formed
<1> QED
    BY <1>2, <1>3, <1>4, <1>5 DEF IInv

LEMMA Keeps == ASSUME IInv, Next PROVE IInv' /\ Forward
<1>1. TypeOK' /\ Once' /\ Step
    BY Resolved
<1>2. Forward
    BY <1>1, Onward
<1>3. Numbered' /\ Apart' /\ Stands' /\ Queues' /\ Targets' /\ Unseen' /\ Awaited' /\ Formed'
    BY <1>1, <1>2, Numbering, Parting, Standing, Queueing, Targeting, Seeing, Awaiting, Forming
<1> QED
    BY <1>1, <1>2, <1>3 DEF IInv

\* The invariant holds in every reachable state.
THEOREM Invariant == Spec => []IInv
<1>1. Init => IInv
    BY Starts
<1>2. IInv /\ [Next]_vars => IInv'
    BY Stutters, Keeps
<1> QED
    BY <1>1, <1>2, PTL DEF Spec

\* Every variable keeps its type, and an invoice is without a status exactly until
\* it is made.
THEOREM TypeCorrect == Spec => []TypeOK
<1>1. IInv => TypeOK
    BY DEF IInv
<1> QED
    BY <1>1, Invariant, PTL

\* An invoice that waits for its reading has one to come, through deletes, restarts
\* and failed readings, unless a statement failed or its upload was refused at a
\* later PDF.
THEOREM Reached == Spec => []StuckNeedsAFault
<1>1. ASSUME IInv PROVE StuckNeedsAFault
    <2> SUFFICES ASSUME NEW i \in Invoices, Waiting(i), ~(faults > 0)
                 PROVE  \E r \in Reads(i) : pc[r] \in Reading \cup {"uploading", "refused"}
        BY DEF StuckNeedsAFault
    <2>1. faults = 0 /\ status[i] \in Waits
        BY <1>1 DEF IInv, TypeOK, Waiting, Waits
    <2>2. PICK r \in Requests : pc[r] \in Reading \cup {"uploading", "refused"} /\ i \in Tasks(r)
        BY <1>1, <2>1 DEF IInv, Awaited
    <2>3. todo[r] \in Seq(Invoices)
        BY <1>1 DEF IInv, TypeOK
    <2>4. \E k \in DOMAIN todo[r] : todo[r][k] = i
        BY <2>2, <2>3 DEF Tasks
    <2> QED
        BY <2>2, <2>4 DEF Reads
<1> QED
    BY <1>1, Invariant, PTL

\* A validated invoice is one that a person confirmed, and if no other did it holds
\* what that person's form said.
THEOREM Confirmation == Spec => []OneForm
<1>1. ASSUME IInv PROVE OneForm
    <2> SUFFICES ASSUME NEW i \in Invoices, status[i] = "validated"
                 PROVE  /\ taxes[i] # 0 /\ pc[taxes[i]] = "done"
                        /\ (\A q, r \in Validators(i) : q = r) =>
                               number[i] = asks[taxes[i]].number
        BY DEF OneForm
    <2>1. /\ taxes[i] \in Requests /\ pc[taxes[i]] = "done"
          /\ Alone(i) => number[i] = asks[taxes[i]].number
        BY <1>1 DEF IInv, Formed
    <2>2. (\A q, r \in Validators(i) : q = r) => Alone(i)
        BY DEF Validators, Alone
    <2> QED
        BY <2>1, <2>2
<1> QED
    BY <1>1, Invariant, PTL

\* No late outcome of a reading, sweep or other request undoes a validation, and
\* nothing brings a deleted invoice back.
THEOREM Lasting == Spec => ValidatedStays
<1> DEFINE Stays == \A i \in Invoices :
               /\ status[i] = "validated" => status'[i] \in {"validated", "gone"}
               /\ status[i] = "gone" => status'[i] = "gone"
<1>1. IInv /\ [Next]_vars => [Stays]_vars
    <2>1. ASSUME IInv, Next PROVE Stays
        BY <2>1, Keeps DEF Forward
    <2> QED
        BY <2>1
<1>2. ValidatedStays <=> [][Stays]_vars
    BY DEF ValidatedStays
<1> HIDE DEF Stays
<1> QED
    BY <1>1, <1>2, Invariant, PTL DEF Spec
=============================================================================
