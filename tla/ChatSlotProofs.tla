--------------------------- MODULE ChatSlotProofs ---------------------------
(***************************************************************************)
(* ChatRuns implements ReplySlot: every step of the routes, the tasks, the *)
(* flush threads and the restarts is a step of the slot or leaves it as it *)
(* is, for every set of conversations and requests and every bound.        *)
(***************************************************************************)
EXTENDS ChatRunsProofs

USE DEF Preparing, Running, Over

Writing == {"added", "created", "streaming", "flushing", "saving"}

\* What ties a row to its writer: it is open exactly while its writer is at
\* work, but for a failed statement, and never ahead of what the run received.
SlotInv ==
    \A r \in Requests :
        /\ row[r].text <= text[r]
        /\ pc[r] \in {"idle", "admitted"} \cup (Preparing \ {"added"}) => row[r].status = "none"
        /\ pc[r] \in Writing => row[r].status = "streaming"
        /\ row[r].status = "streaming" /\ faults = 0 => pc[r] \in Writing
        /\ row[r].status = "none" => flush[r] = NoText
        /\ pc[r] = "saving" => outcome[r] \in {"complete", "stopped", "error"}

SlotShapes ==
    /\ FlushShapes
    /\ faults \in Nat
    /\ conv \in [Requests -> Conversations]

LEMMA TypeSlotShapes == TypeOK => SlotShapes
    BY TypeFlushShapes, BoundsAssumption DEF TypeOK, SlotShapes, RequestType, ControlType

\* The row of a reply that is being written is in the table.
LEMMA WritingStored ==
    ASSUME PromptStands, NEW r \in Requests, pc[r] \in Writing \cup Running
    PROVE  Stored(r)
<1>1. \E a \in history[conv[r]] : IsReply(r, a)
    BY DEF PromptStands, Writing
<1> QED
    BY <1>1 DEF Stored

LEMMA SlotStep ==
    /\ SlotShapes /\ CancelOnlyInStream /\ PromptStands /\ FlushInv
    /\ SlotInv /\ [Next]_vars
    => SlotInv'
<1> SUFFICES ASSUME SlotShapes, CancelOnlyInStream, PromptStands, FlushInv,
                    SlotInv, [Next]_vars
             PROVE  SlotInv'
    OBVIOUS
<1> USE BoundsAssumption
    DEF SlotShapes, FlushShapes, SlotInv, Writing, db, request, task, counters, Goto
<1>1. ASSUME NEW r \in Requests, Admit(r)
       PROVE  SlotInv'
    BY <1>1 DEF Admit
<1>2. ASSUME NEW r \in Requests, Reserve(r)
       PROVE  SlotInv'
    BY <1>2 DEF Reserve
<1>3. ASSUME NEW r \in Requests, ReadHistory(r)
       PROVE  SlotInv'
    BY <1>3 DEF ReadHistory
<1>4. ASSUME NEW r \in Requests, PrepareSend(r)
       PROVE  SlotInv'
    BY <1>4 DEF PrepareSend, GiveUp
<1>5. ASSUME NEW r \in Requests, PrepareEdit(r)
       PROVE  SlotInv'
    BY <1>5 DEF PrepareEdit, GiveUp
<1>6. ASSUME NEW r \in Requests, Truncate(r)
       PROVE  SlotInv'
    BY <1>6 DEF Truncate
<1>7. ASSUME NEW r \in Requests, PrepareRegenerate(r)
       PROVE  SlotInv'
    BY <1>7 DEF PrepareRegenerate, GiveUp
<1>8. ASSUME NEW r \in Requests, Compose(r)
       PROVE  SlotInv'
    BY <1>8 DEF Compose
<1>9. ASSUME NEW r \in Requests, AddReply(r)
       PROVE  SlotInv'
    BY <1>9 DEF AddReply, GiveUp
<1>10. ASSUME NEW r \in Requests, Fail(r)
       PROVE  SlotInv'
    BY <1>10 DEF Fail, GiveUp
<1>11. ASSUME NEW r \in Requests, Start(r)
       PROVE  SlotInv'
    BY <1>11 DEF Start
<1>12. ASSUME NEW r \in Requests, Begin(r)
       PROVE  SlotInv'
    BY <1>12 DEF Begin
<1>13. ASSUME NEW r \in Requests, Delta(r)
       PROVE  SlotInv'
    BY <1>13 DEF Delta
<1>14. ASSUME NEW r \in Requests, EndStream(r)
       PROVE  SlotInv'
    BY <1>14 DEF EndStream
<1>15. ASSUME NEW r \in Requests, Flush(r)
       PROVE  SlotInv'
    <2>1. flush[r] = text[r] /\ row[r].status # "none"
        BY <1>15 DEF Flush, FlushInv
    <2>2. \A q \in Requests : row'[q].status = row[q].status /\ row'[q].text <= text[q]
        BY <1>15, <2>1 DEF Flush, Updated
    <2> QED
        BY <1>15, <2>2 DEF Flush
<1>16. ASSUME NEW r \in Requests, Flushed(r)
       PROVE  SlotInv'
    BY <1>16 DEF Flushed
<1>17. ASSUME NEW r \in Requests, Cancelled(r)
       PROVE  SlotInv'
    BY <1>17 DEF Cancelled, CancelOnlyInStream
<1>18. ASSUME NEW r \in Requests, Save(r)
       PROVE  SlotInv'
    <2>1. Stored(r)
        BY <1>18, WritingStored DEF Save
    <2>2. \/ row' = [row EXCEPT ![r] = [status |-> outcome[r], text |-> text[r]]]
             /\ faults' = faults
          \/ row' = row /\ faults' = faults + 1
        BY <1>18, <2>1 DEF Save, Updated
    <2> QED
        BY <1>18, <2>2 DEF Save
<1>19. ASSUME NEW r \in Requests, Finish(r)
       PROVE  SlotInv'
    BY <1>19 DEF Finish
<1>20. ASSUME NEW r \in Requests, Title(r)
       PROVE  SlotInv'
    BY <1>20 DEF Title
<1>21. ASSUME NEW c \in Conversations, AdmitStop(c)
       PROVE  SlotInv'
    BY <1>21 DEF AdmitStop
<1>22. ASSUME NEW c \in Conversations, Stop(c)
       PROVE  SlotInv'
    BY <1>22 DEF Stop, Halt
<1>23. ASSUME NEW c \in Conversations, AdmitDelete(c)
       PROVE  SlotInv'
    BY <1>23 DEF AdmitDelete
<1>24. ASSUME NEW c \in Conversations, DeleteStops(c)
       PROVE  SlotInv'
    BY <1>24 DEF DeleteStops, Halt
<1>25. ASSUME NEW c \in Conversations, SoftDelete(c)
       PROVE  SlotInv'
    BY <1>25 DEF SoftDelete
<1>26. ASSUME NEW c \in Conversations, Rename(c)
       PROVE  SlotInv'
    BY <1>26 DEF Rename
<1>27. CASE Restart
    <2>1. \A r \in Requests : row[r].status = "streaming" /\ faults = 0 => Stored(r)
        BY WritingStored
    <2>2. ASSUME NEW r \in Requests
          PROVE  /\ row'[r].text = row[r].text
                 /\ row'[r].status \in {row[r].status, "stopped"}
                 /\ row'[r].status = "stopped" => row[r].status \in {"stopped", "streaming"}
                 /\ ~(row'[r].status = "streaming" /\ faults' = 0)
        BY <1>27, <2>1 DEF Restart, Swept
    <2>3. ASSUME NEW r \in Requests
          PROVE  /\ pc'[r] \in Over \cup {"idle"}
                 /\ pc'[r] = "idle" => pc[r] = "idle"
                 /\ flush'[r] = NoText
        BY <1>27 DEF Restart
    <2>4. UNCHANGED text
        BY <1>27 DEF Restart
    <2> QED
        BY <2>2, <2>3, <2>4
<1>28. CASE UNCHANGED vars
    BY <1>28 DEF vars
<1> QED
    BY <1>1, <1>2, <1>3, <1>4, <1>5, <1>6, <1>7, <1>8, <1>9, <1>10, <1>11, <1>12, <1>13, <1>14,
       <1>15, <1>16, <1>17, <1>18, <1>19, <1>20, <1>21, <1>22, <1>23, <1>24, <1>25, <1>26, <1>27, <1>28
       DEF Next, Handler, Model, Task, Others

-----------------------------------------------------------------------------
(* The refinement                                                          *)

Turned == {r \in Requests : pc[r] \notin {"idle", "admitted"}}
Holding == {r \in Requests : pc[r] \in Preparing \cup Running}

\* A slot is taken in ReplySlot when the registry has a key.
LEMMA TakenKey ==
    ASSUME RegistryExact, Shapes, NEW c \in Conversations
    PROVE  (\E q \in Holding : conv[q] = c) <=> runs[c] # Absent
<1>1. ASSUME NEW q \in Holding, conv[q] = c
      PROVE  runs[c] # Absent
    BY <1>1, RegistryAssumption DEF Holding, RegistryExact
<1>2. ASSUME runs[c] # Absent
      PROVE  \E q \in Holding : conv[q] = c
    BY <1>2 DEF Holding, RegistryExact, Shapes
<1> QED
    BY <1>1, <1>2

LEMMA SlotInitially == Init => Slots!Init
    BY DEF Init, Slots!Init

\* Every step maps to a step of the slot or to a stutter.
LEMMA SlotRefined ==
    /\ SlotShapes /\ Shapes /\ RegistryInv /\ PromptStands /\ FlushInv
    /\ SlotInv /\ [Next]_vars
    => [Slots!Next]_Slots!vars
<1> SUFFICES ASSUME SlotShapes, Shapes, RegistryInv, PromptStands, FlushInv,
                    SlotInv, [Next]_vars
             PROVE  [Slots!Next]_Slots!vars
    OBVIOUS
<1> USE DEF db, request, task, counters, Goto
<1>1. ASSUME NEW r \in Requests, Admit(r)
       PROVE  [Slots!Next]_Slots!vars
    <2>1. Turned' = Turned /\ Holding' = Holding
        BY <1>1 DEF Admit, Turned, Holding, Shapes
    <2>2. UNCHANGED <<conv, row, faults>>
        BY <1>1 DEF Admit
    <2> QED
        BY <2>1, <2>2 DEF Slots!vars, Turned, Holding
<1>2. ASSUME NEW r \in Requests, Reserve(r)
       PROVE  [Slots!Next]_Slots!vars
    <2>1. UNCHANGED <<conv, row, faults>>
        BY <1>2 DEF Reserve
    <2>2. r \notin Turned /\ Turned' = Turned \cup {r}
        BY <1>2 DEF Reserve, Turned, Shapes
    <2>3. Holding' = IF \E q \in Holding : conv[q] = conv[r] THEN Holding ELSE Holding \cup {r}
        <3>1. (\E q \in Holding : conv[q] = conv[r]) <=> runs[conv[r]] # Absent
            BY TakenKey DEF Shapes, RegistryInv
        <3>2. CASE runs[conv[r]] = Absent
            BY <1>2, <3>1, <3>2 DEF Reserve, Holding, Shapes
        <3>3. CASE runs[conv[r]] # Absent
            BY <1>2, <3>1, <3>3 DEF Reserve, Holding, Shapes
        <3> QED
            BY <3>2, <3>3
    <2>4. Slots!Ask(r)
        BY <2>1, <2>2, <2>3 DEF Slots!Ask, Slots!Taken, Turned, Holding
    <2> QED
        BY <2>4 DEF Slots!Next
<1>3. ASSUME NEW r \in Requests, ReadHistory(r)
       PROVE  [Slots!Next]_Slots!vars
    <2>1. Turned' = Turned /\ Holding' = Holding
        BY <1>3 DEF ReadHistory, Turned, Holding, Shapes
    <2>2. UNCHANGED <<conv, row, faults>>
        BY <1>3 DEF ReadHistory
    <2> QED
        BY <2>1, <2>2 DEF Slots!vars, Turned, Holding
<1>4. ASSUME NEW r \in Requests, PrepareSend(r)
       PROVE  [Slots!Next]_Slots!vars
    <2>1. UNCHANGED <<conv, row, faults>>
        BY <1>4 DEF PrepareSend
    <2>2. Turned' = Turned /\ r \in Holding
        BY <1>4 DEF PrepareSend, GiveUp, Turned, Holding, Shapes
    <2>3. Holding' = Holding \/ Holding' = Holding \ {r}
        BY <1>4 DEF PrepareSend, GiveUp, Turned, Holding, Shapes
    <2>4. row[r].status # "streaming"
        BY <1>4 DEF PrepareSend, SlotInv
    <2>5. CASE Holding' = Holding
        BY <2>1, <2>2, <2>5 DEF Slots!vars, Turned, Holding
    <2>6. CASE Holding' = Holding \ {r}
        <3>1. Slots!Leave(r)
            BY <2>1, <2>2, <2>4, <2>6 DEF Slots!Leave, Slots!Open, Turned, Holding
        <3> QED
            BY <3>1 DEF Slots!Next
    <2> QED
        BY <2>3, <2>5, <2>6
<1>5. ASSUME NEW r \in Requests, PrepareEdit(r)
       PROVE  [Slots!Next]_Slots!vars
    <2>1. UNCHANGED <<conv, row, faults>>
        BY <1>5 DEF PrepareEdit
    <2>2. Turned' = Turned /\ r \in Holding
        BY <1>5 DEF PrepareEdit, GiveUp, Turned, Holding, Shapes
    <2>3. Holding' = Holding \/ Holding' = Holding \ {r}
        BY <1>5 DEF PrepareEdit, GiveUp, Turned, Holding, Shapes
    <2>4. row[r].status # "streaming"
        BY <1>5 DEF PrepareEdit, SlotInv
    <2>5. CASE Holding' = Holding
        BY <2>1, <2>2, <2>5 DEF Slots!vars, Turned, Holding
    <2>6. CASE Holding' = Holding \ {r}
        <3>1. Slots!Leave(r)
            BY <2>1, <2>2, <2>4, <2>6 DEF Slots!Leave, Slots!Open, Turned, Holding
        <3> QED
            BY <3>1 DEF Slots!Next
    <2> QED
        BY <2>3, <2>5, <2>6
<1>6. ASSUME NEW r \in Requests, Truncate(r)
       PROVE  [Slots!Next]_Slots!vars
    <2>1. Turned' = Turned /\ Holding' = Holding
        BY <1>6 DEF Truncate, Turned, Holding, Shapes
    <2>2. UNCHANGED <<conv, row, faults>>
        BY <1>6 DEF Truncate
    <2> QED
        BY <2>1, <2>2 DEF Slots!vars, Turned, Holding
<1>7. ASSUME NEW r \in Requests, PrepareRegenerate(r)
       PROVE  [Slots!Next]_Slots!vars
    <2>1. UNCHANGED <<conv, row, faults>>
        BY <1>7 DEF PrepareRegenerate
    <2>2. Turned' = Turned /\ r \in Holding
        BY <1>7 DEF PrepareRegenerate, GiveUp, Turned, Holding, Shapes
    <2>3. Holding' = Holding \/ Holding' = Holding \ {r}
        BY <1>7 DEF PrepareRegenerate, GiveUp, Turned, Holding, Shapes
    <2>4. row[r].status # "streaming"
        BY <1>7 DEF PrepareRegenerate, SlotInv
    <2>5. CASE Holding' = Holding
        BY <2>1, <2>2, <2>5 DEF Slots!vars, Turned, Holding
    <2>6. CASE Holding' = Holding \ {r}
        <3>1. Slots!Leave(r)
            BY <2>1, <2>2, <2>4, <2>6 DEF Slots!Leave, Slots!Open, Turned, Holding
        <3> QED
            BY <3>1 DEF Slots!Next
    <2> QED
        BY <2>3, <2>5, <2>6
<1>8. ASSUME NEW r \in Requests, Compose(r)
       PROVE  [Slots!Next]_Slots!vars
    <2>1. Turned' = Turned /\ Holding' = Holding
        BY <1>8 DEF Compose, Turned, Holding, Shapes
    <2>2. UNCHANGED <<conv, row, faults>>
        BY <1>8 DEF Compose
    <2> QED
        BY <2>1, <2>2 DEF Slots!vars, Turned, Holding
<1>9. ASSUME NEW r \in Requests, AddReply(r)
       PROVE  [Slots!Next]_Slots!vars
    <2>1. UNCHANGED <<conv, faults>>
        BY <1>9 DEF AddReply
    <2>2. Turned' = Turned /\ r \in Holding
        BY <1>9 DEF AddReply, GiveUp, Turned, Holding, Shapes
    <2>3. row[r].status = "none"
        BY <1>9 DEF AddReply, SlotInv
    <2>4. CASE live[conv[r]]
        <3>1. Holding' = Holding
            BY <1>9, <2>4 DEF AddReply, Holding, Shapes
        <3>2. row' = [row EXCEPT ![r] = [status |-> "streaming", text |-> 0]]
            BY <1>9, <2>4 DEF AddReply
        <3>3. Slots!Begin(r)
            BY <2>1, <2>2, <2>3, <3>1, <3>2 DEF Slots!Begin, Turned, Holding
        <3> QED
            BY <3>3 DEF Slots!Next
    <2>5. CASE ~live[conv[r]]
        <3>1. Holding' = Holding \ {r} /\ row' = row
            BY <1>9, <2>5 DEF AddReply, GiveUp, Holding, Shapes
        <3>2. Slots!Leave(r)
            BY <2>1, <2>2, <2>3, <3>1 DEF Slots!Leave, Slots!Open, Turned, Holding
        <3> QED
            BY <3>2 DEF Slots!Next
    <2> QED
        BY <2>4, <2>5
<1>10. ASSUME NEW r \in Requests, Fail(r)
       PROVE  [Slots!Next]_Slots!vars
    <2>1. UNCHANGED <<conv, row>> /\ faults' > 0
        BY <1>10 DEF Fail, SlotShapes
    <2>2. Turned' = Turned /\ r \in Holding /\ Holding' = Holding \ {r}
        BY <1>10 DEF Fail, GiveUp, Turned, Holding, Shapes
    <2>3. Slots!Break
        BY <2>1, <2>2 DEF Slots!Break, Turned, Holding
    <2> QED
        BY <2>3 DEF Slots!Next
<1>11. ASSUME NEW r \in Requests, Start(r)
       PROVE  [Slots!Next]_Slots!vars
    <2>1. Turned' = Turned /\ Holding' = Holding
        BY <1>11 DEF Start, Turned, Holding, Shapes
    <2>2. UNCHANGED <<conv, row, faults>>
        BY <1>11 DEF Start
    <2> QED
        BY <2>1, <2>2 DEF Slots!vars, Turned, Holding
<1>12. ASSUME NEW r \in Requests, Begin(r)
       PROVE  [Slots!Next]_Slots!vars
    <2>1. Turned' = Turned /\ Holding' = Holding
        BY <1>12 DEF Begin, Turned, Holding, Shapes
    <2>2. UNCHANGED <<conv, row, faults>>
        BY <1>12 DEF Begin
    <2> QED
        BY <2>1, <2>2 DEF Slots!vars, Turned, Holding
<1>13. ASSUME NEW r \in Requests, Delta(r)
       PROVE  [Slots!Next]_Slots!vars
    <2>1. Turned' = Turned /\ Holding' = Holding
        BY <1>13 DEF Delta, Turned, Holding, Shapes
    <2>2. UNCHANGED <<conv, row, faults>>
        BY <1>13 DEF Delta
    <2> QED
        BY <2>1, <2>2 DEF Slots!vars, Turned, Holding
<1>14. ASSUME NEW r \in Requests, EndStream(r)
       PROVE  [Slots!Next]_Slots!vars
    <2>1. Turned' = Turned /\ Holding' = Holding
        BY <1>14 DEF EndStream, Turned, Holding, Shapes
    <2>2. UNCHANGED <<conv, row, faults>>
        BY <1>14 DEF EndStream
    <2> QED
        BY <2>1, <2>2 DEF Slots!vars, Turned, Holding
<1>15. ASSUME NEW r \in Requests, Flush(r)
       PROVE  [Slots!Next]_Slots!vars
    <2>1. Turned' = Turned /\ Holding' = Holding
        BY <1>15 DEF Flush, Turned, Holding, Shapes
    <2>2. UNCHANGED <<conv, faults>>
        BY <1>15 DEF Flush
    <2>3. CASE row' = row
        BY <2>1, <2>2, <2>3 DEF Slots!vars, Turned, Holding
    <2>4. CASE row' # row
        <3>1. row' = [row EXCEPT ![r] = [row[r] EXCEPT !.text = flush[r]]]
            BY <1>15, <2>4 DEF Flush, Updated
        <3>2. flush[r] = text[r] /\ row[r].text <= text[r] /\ row[r].status # "none"
            BY <1>15 DEF Flush, FlushInv, SlotInv
        <3>3. row[r].status = "streaming"
            <4>1. Settled(r) => row[r].text = flush[r]
                BY <1>15, <3>2 DEF Flush, FlushInv
            <4>2. row[r] = [row[r] EXCEPT !.text = row[r].text] /\ row = [row EXCEPT ![r] = row[r]]
                BY DEF SlotShapes, FlushShapes
            <4>3. ~Settled(r)
                BY <2>4, <3>1, <4>1, <4>2
            <4> QED
                BY <3>2, <4>3 DEF Settled, SlotShapes, FlushShapes, Statuses
        <3>4. r \in Holding \/ faults > 0
            BY <3>3 DEF SlotInv, Writing, Holding, SlotShapes
        <3>5. row'[r].text >= row[r].text
            <4>1. row'[r].text = flush[r]
                BY <3>1 DEF SlotShapes, FlushShapes
            <4>2. row[r].text \in Nat /\ text[r] \in Nat
                BY BoundsAssumption DEF SlotShapes, FlushShapes
            <4> QED
                BY <3>2, <4>1, <4>2
        <3>6. row' = [row EXCEPT ![r] = [status |-> "streaming", text |-> row'[r].text]]
            <4>1. row[r] \in [status : Statuses, text : 0..MaxDeltas]
                BY DEF SlotShapes, FlushShapes
            <4>2. [row[r] EXCEPT !.text = flush[r]] = [status |-> "streaming", text |-> flush[r]]
                BY <3>3, <4>1
            <4>3. row'[r].text = flush[r]
                BY <3>1 DEF SlotShapes, FlushShapes
            <4> QED
                BY <3>1, <4>2, <4>3
        <3>7. Slots!Extend(r)
            BY <2>1, <2>2, <3>3, <3>4, <3>5, <3>6
               DEF Slots!Extend, Slots!Open, Slots!Written, Turned, Holding
        <3> QED
            BY <3>7 DEF Slots!Next
    <2> QED
        BY <2>3, <2>4
<1>16. ASSUME NEW r \in Requests, Flushed(r)
       PROVE  [Slots!Next]_Slots!vars
    <2>1. Turned' = Turned /\ Holding' = Holding
        BY <1>16 DEF Flushed, Turned, Holding, Shapes
    <2>2. UNCHANGED <<conv, row, faults>>
        BY <1>16 DEF Flushed
    <2> QED
        BY <2>1, <2>2 DEF Slots!vars, Turned, Holding
<1>17. ASSUME NEW r \in Requests, Cancelled(r)
       PROVE  [Slots!Next]_Slots!vars
    <2>1. Turned' = Turned /\ Holding' = Holding
        BY <1>17 DEF Cancelled, Turned, Holding, Shapes, RegistryInv, CancelOnlyInStream
    <2>2. UNCHANGED <<conv, row, faults>>
        BY <1>17 DEF Cancelled
    <2> QED
        BY <2>1, <2>2 DEF Slots!vars, Turned, Holding
<1>18. ASSUME NEW r \in Requests, Save(r)
       PROVE  [Slots!Next]_Slots!vars
    <2>1. Turned' = Turned /\ Holding' = Holding /\ r \in Holding /\ UNCHANGED conv
        BY <1>18 DEF Save, Turned, Holding, Shapes
    <2>2. Stored(r) /\ row[r].status = "streaming"
        BY <1>18, WritingStored DEF Save, SlotInv, Writing
    <2>3. CASE row' = Updated(r, [status |-> outcome[r], text |-> text[r]]) /\ UNCHANGED faults
        <3>1. row' = [row EXCEPT ![r] = [status |-> outcome[r], text |-> text[r]]]
            BY <2>2, <2>3 DEF Updated
        <3>2. outcome[r] \in Slots!Settled /\ row'[r].text >= row[r].text
            BY <1>18, <3>1, BoundsAssumption
               DEF Save, SlotInv, SlotShapes, FlushShapes, Slots!Settled
        <3>3. row' = [row EXCEPT ![r] = [status |-> outcome[r], text |-> row'[r].text]]
            BY <3>1 DEF SlotShapes, FlushShapes
        <3>4. Slots!Settle(r)
            BY <2>1, <2>2, <2>3, <3>2, <3>3
               DEF Slots!Settle, Slots!Open, Slots!Written, Turned, Holding
        <3> QED
            BY <3>4 DEF Slots!Next
    <2>4. CASE faults' = faults + 1 /\ UNCHANGED row
        <3>1. faults' > 0
            BY <2>4 DEF SlotShapes
        <3>2. Slots!Break
            BY <2>1, <2>4, <3>1 DEF Slots!Break, Turned, Holding
        <3> QED
            BY <3>2 DEF Slots!Next
    <2> QED
        BY <1>18, <2>3, <2>4 DEF Save
<1>19. ASSUME NEW r \in Requests, Finish(r)
       PROVE  [Slots!Next]_Slots!vars
    <2>1. UNCHANGED <<conv, row, faults>>
        BY <1>19 DEF Finish
    <2>2. Turned' = Turned /\ r \in Holding /\ Holding' = Holding \ {r}
        BY <1>19 DEF Finish, Turned, Holding, Shapes
    <2>3. row[r].status # "streaming" \/ faults > 0
        BY <1>19 DEF Finish, SlotInv, Writing, SlotShapes
    <2>4. Slots!Leave(r)
        BY <2>1, <2>2, <2>3 DEF Slots!Leave, Slots!Open, Turned, Holding
    <2> QED
        BY <2>4 DEF Slots!Next
<1>20. ASSUME NEW r \in Requests, Title(r)
       PROVE  [Slots!Next]_Slots!vars
    <2>1. Turned' = Turned /\ Holding' = Holding
        BY <1>20 DEF Title, Turned, Holding, Shapes
    <2>2. UNCHANGED <<conv, row, faults>>
        BY <1>20 DEF Title
    <2> QED
        BY <2>1, <2>2 DEF Slots!vars, Turned, Holding
<1>21. ASSUME NEW c \in Conversations, AdmitStop(c)
       PROVE  [Slots!Next]_Slots!vars
    <2>1. Turned' = Turned /\ Holding' = Holding
        BY <1>21 DEF AdmitStop, Turned, Holding, Shapes
    <2>2. UNCHANGED <<conv, row, faults>>
        BY <1>21 DEF AdmitStop
    <2> QED
        BY <2>1, <2>2 DEF Slots!vars, Turned, Holding
<1>22. ASSUME NEW c \in Conversations, Stop(c)
       PROVE  [Slots!Next]_Slots!vars
    <2>1. Turned' = Turned /\ Holding' = Holding
        BY <1>22 DEF Stop, Turned, Holding, Shapes
    <2>2. UNCHANGED <<conv, row, faults>>
        BY <1>22 DEF Stop
    <2> QED
        BY <2>1, <2>2 DEF Slots!vars, Turned, Holding
<1>23. ASSUME NEW c \in Conversations, AdmitDelete(c)
       PROVE  [Slots!Next]_Slots!vars
    <2>1. Turned' = Turned /\ Holding' = Holding
        BY <1>23 DEF AdmitDelete, Turned, Holding, Shapes
    <2>2. UNCHANGED <<conv, row, faults>>
        BY <1>23 DEF AdmitDelete
    <2> QED
        BY <2>1, <2>2 DEF Slots!vars, Turned, Holding
<1>24. ASSUME NEW c \in Conversations, DeleteStops(c)
       PROVE  [Slots!Next]_Slots!vars
    <2>1. Turned' = Turned /\ Holding' = Holding
        BY <1>24 DEF DeleteStops, Turned, Holding, Shapes
    <2>2. UNCHANGED <<conv, row, faults>>
        BY <1>24 DEF DeleteStops
    <2> QED
        BY <2>1, <2>2 DEF Slots!vars, Turned, Holding
<1>25. ASSUME NEW c \in Conversations, SoftDelete(c)
       PROVE  [Slots!Next]_Slots!vars
    <2>1. Turned' = Turned /\ Holding' = Holding
        BY <1>25 DEF SoftDelete, Turned, Holding, Shapes
    <2>2. UNCHANGED <<conv, row, faults>>
        BY <1>25 DEF SoftDelete
    <2> QED
        BY <2>1, <2>2 DEF Slots!vars, Turned, Holding
<1>26. ASSUME NEW c \in Conversations, Rename(c)
       PROVE  [Slots!Next]_Slots!vars
    <2>1. Turned' = Turned /\ Holding' = Holding
        BY <1>26 DEF Rename, Turned, Holding, Shapes
    <2>2. UNCHANGED <<conv, row, faults>>
        BY <1>26 DEF Rename
    <2> QED
        BY <2>1, <2>2 DEF Slots!vars, Turned, Holding
<1>27. CASE Restart
    <2>1. Turned \subseteq Turned' /\ Turned' \subseteq Requests /\ Holding' = {}
        BY <1>27 DEF Restart, Turned, Holding, Shapes
    <2>2. UNCHANGED conv /\ DOMAIN row' = Requests
        BY <1>27 DEF Restart, Swept, SlotShapes, FlushShapes
    <2>3. faults > 0 => faults' > 0
        BY <1>27 DEF Restart, SlotShapes
    <2>4. \A r \in Requests : row[r].status = "streaming" /\ faults = 0 => Stored(r)
        BY WritingStored DEF SlotInv
    <2>5. ASSUME NEW r \in Requests
          PROVE  \/ row'[r] = row[r] /\ (row[r].status # "streaming" \/ faults' > 0)
                 \/ /\ row[r].status = "streaming"
                    /\ row'[r] = [row[r] EXCEPT !.status = "stopped"]
        BY <1>27, <2>4 DEF Restart, Swept, SlotShapes
    <2>6. (faults > 0)' \in BOOLEAN /\ (faults > 0 => (faults > 0)')
        BY <2>3
    <2>7. Slots!Crash
        BY <2>1, <2>2, <2>5, <2>6 DEF Slots!Crash, Slots!Open, Turned, Holding
    <2> QED
        BY <2>7 DEF Slots!Next
<1>28. CASE UNCHANGED vars
    BY <1>28 DEF vars, Slots!vars
<1> QED
    BY <1>1, <1>2, <1>3, <1>4, <1>5, <1>6, <1>7, <1>8, <1>9, <1>10, <1>11, <1>12, <1>13, <1>14,
       <1>15, <1>16, <1>17, <1>18, <1>19, <1>20, <1>21, <1>22, <1>23, <1>24, <1>25, <1>26, <1>27, <1>28
       DEF Next, Handler, Model, Task, Others

-----------------------------------------------------------------------------
(* Theorems                                                                *)

LEMMA SlotAlways == Spec => []SlotInv
<1>1. Init => SlotInv
    BY BoundsAssumption DEF Init, SlotInv, Writing
<1>2. TypeOK /\ RegistryInv /\ FlushInv /\ TableInv /\ SlotInv /\ [Next]_vars => SlotInv'
    BY TypeSlotShapes, SlotStep DEF RegistryInv, TableInv, Held
<1> QED
    BY <1>1, <1>2, TypeCorrect, RegistryAlways, FlushAlways, TableAlways, PTL DEF Spec

\* The routes, tasks, flushes and sweeps of the chat give each conversation one
\* reply slot, as ReplySlot says it.
THEOREM Implements == Spec => ImplementsSlots
<1>1. Init => Slots!Init
    BY SlotInitially
<1>2. TypeOK /\ RegistryInv /\ FlushInv /\ TableInv /\ SlotInv /\ [Next]_vars
      => [Slots!Next]_Slots!vars
    BY TypeSlotShapes, TypeShapes, SlotRefined DEF TableInv, Held
<1> QED
    BY <1>1, <1>2, TypeCorrect, RegistryAlways, FlushAlways, TableAlways, SlotAlways, PTL
       DEF Spec, ImplementsSlots, Slots!Spec

\* Unless a statement failed, a reply that is still in the table and streaming
\* has a writer at work that will settle it.
THEOREM Writers == Spec => []StreamingHasWriter
<1>1. SlotInv => StreamingHasWriter
    BY DEF SlotInv, StreamingHasWriter, Writing
<1> QED
    BY <1>1, SlotAlways, PTL
=============================================================================
