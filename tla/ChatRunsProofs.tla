--------------------------- MODULE ChatRunsProofs ---------------------------
(***************************************************************************)
(* Theorems about ChatRuns, for every set of conversations and requests    *)
(* and every bound: types, the exclusion the registry gives, what a late   *)
(* flush may write, in which order messages stand, what a stop stops and   *)
(* how often a title is written.                                           *)
(***************************************************************************)
EXTENDS ChatRuns, TLAPS

USE DEF Preparing, Running, Over, Kinds, Statuses

\* What a message holds.
LEMMA Fields == \A m \in Message : /\ m.by \in Requests /\ m.at \in Nat
                                   /\ m.role \in {"user", "assistant"}
    BY DEF Message

-----------------------------------------------------------------------------
(* Types                                                                   *)

\* The type invariant is inductive.
LEMMA TypeStep == TypeOK /\ [Next]_vars => TypeOK'
<1> SUFFICES ASSUME TypeOK, [Next]_vars
             PROVE  TypeOK'
    OBVIOUS
<1> USE BoundsAssumption, RegistryAssumption DEF TypeOK, db, request, task, counters, times, Goto
<1>1. ASSUME NEW r \in Requests, Admit(r)
       PROVE  TypeOK'
    <2>1. StoreType'
        BY <1>1 DEF Admit, StoreType
    <2>2. RequestType'
        <3>1. pivot' \in [Requests -> Requests]
            BY <1>1, Fields DEF Admit, StoreType, RequestType
        <3>2. clock' \in Nat /\ began' \in [Requests -> Nat]
            BY <1>1 DEF Admit, BeginTransaction, RequestType
        <3> QED
            BY <1>1, <3>1, <3>2 DEF Admit, RequestType
    <2>3. TaskType'
        BY <1>1 DEF Admit, TaskType
    <2>4. ControlType'
        BY <1>1 DEF Admit, ControlType, RequestType
    <2> QED
        BY <2>1, <2>2, <2>3, <2>4
<1>2. ASSUME NEW r \in Requests, Reserve(r)
       PROVE  TypeOK'
    <2>1. StoreType'
        BY <1>2 DEF Reserve, StoreType
    <2>2. RequestType'
        BY <1>2 DEF Reserve, EndTransaction, RequestType
    <2>3. TaskType'
        BY <1>2 DEF Reserve, TaskType
    <2>4. ControlType'
        BY <1>2 DEF Reserve, ControlType, RequestType
    <2> QED
        BY <2>1, <2>2, <2>3, <2>4
<1>3. ASSUME NEW r \in Requests, ReadHistory(r)
       PROVE  TypeOK'
    <2>1. StoreType'
        BY <1>3 DEF ReadHistory, StoreType
    <2>2. RequestType'
        BY <1>3 DEF ReadHistory, RequestType, StoreType
    <2>3. TaskType'
        BY <1>3 DEF ReadHistory, TaskType
    <2>4. ControlType'
        BY <1>3 DEF ReadHistory, ControlType, RequestType
    <2> QED
        BY <2>1, <2>2, <2>3, <2>4
<1>4. ASSUME NEW r \in Requests, PrepareSend(r)
       PROVE  TypeOK'
    <2>1. StoreType'
        <3>1. Asks(r) \in Message
            BY DEF Asks, Message, RequestType
        <3>2. history' \in [Conversations -> SUBSET Message]
            BY <1>4, <3>1 DEF PrepareSend, StoreType
        <3> QED
            BY <1>4, <3>2 DEF PrepareSend, StoreType
    <2>2. RequestType'
        BY <1>4 DEF PrepareSend, GiveUp, EndTransaction, RequestType
    <2>3. TaskType'
        BY <1>4 DEF PrepareSend, TaskType, RequestType
    <2>4. ControlType'
        BY <1>4 DEF PrepareSend, GiveUp, Released, ControlType, RequestType
    <2> QED
        BY <2>1, <2>2, <2>3, <2>4
<1>5. ASSUME NEW r \in Requests, PrepareEdit(r)
       PROVE  TypeOK'
    <2>1. StoreType'
        <3>1. ASSUME NEW m \in Message
              PROVE  Reworded(r, m) \in Message
            BY DEF Reworded, Message
        <3>2. {Reworded(r, m) : m \in history[conv[r]]} \in SUBSET Message
            BY <3>1 DEF StoreType, RequestType
        <3>3. history' \in [Conversations -> SUBSET Message]
            BY <1>5, <3>2 DEF PrepareEdit, StoreType
        <3> QED
            BY <1>5, <3>3 DEF PrepareEdit, StoreType
    <2>2. RequestType'
        BY <1>5 DEF PrepareEdit, GiveUp, EndTransaction, RequestType
    <2>3. TaskType'
        BY <1>5 DEF PrepareEdit, TaskType
    <2>4. ControlType'
        BY <1>5 DEF PrepareEdit, GiveUp, Released, ControlType, RequestType
    <2> QED
        BY <2>1, <2>2, <2>3, <2>4
<1>6. ASSUME NEW r \in Requests, Truncate(r)
       PROVE  TypeOK'
    <2>1. StoreType'
        <3>1. history' \in [Conversations -> SUBSET Message]
            BY <1>6 DEF Truncate, StoreType, RequestType
        <3> QED
            BY <1>6, <3>1 DEF Truncate, StoreType
    <2>2. RequestType'
        BY <1>6 DEF Truncate, RequestType
    <2>3. TaskType'
        BY <1>6 DEF Truncate, TaskType
    <2>4. ControlType'
        BY <1>6 DEF Truncate, ControlType, RequestType
    <2> QED
        BY <2>1, <2>2, <2>3, <2>4
<1>7. ASSUME NEW r \in Requests, PrepareRegenerate(r)
       PROVE  TypeOK'
    <2>1. StoreType'
        <3>1. history' \in [Conversations -> SUBSET Message]
            BY <1>7 DEF PrepareRegenerate, StoreType, RequestType
        <3> QED
            BY <1>7, <3>1 DEF PrepareRegenerate, StoreType
    <2>2. RequestType'
        <3>1. UNCHANGED <<kind, conv, pivot, seen>>
            BY <1>7 DEF PrepareRegenerate
        <3>2. clock' = clock /\ began' \in [Requests -> Nat]
            BY <1>7 DEF PrepareRegenerate, GiveUp, EndTransaction, times, RequestType
        <3> QED
            BY <3>1, <3>2 DEF RequestType
    <2>3. TaskType'
        BY <1>7 DEF PrepareRegenerate, TaskType
    <2>4. ControlType'
        BY <1>7 DEF PrepareRegenerate, GiveUp, Released, ControlType, RequestType
    <2> QED
        BY <2>1, <2>2, <2>3, <2>4
<1>8. ASSUME NEW r \in Requests, Compose(r)
       PROVE  TypeOK'
    <2>1. StoreType'
        BY <1>8 DEF Compose, StoreType
    <2>2. RequestType'
        <3>1. UNCHANGED <<kind, conv, pivot>> /\ seen' \in [Requests -> SUBSET Message]
            BY <1>8 DEF Compose, RequestType, StoreType
        <3>2. clock' \in Nat /\ began' \in [Requests -> Nat]
            BY <1>8 DEF Compose, BeginTransaction, times, RequestType
        <3> QED
            BY <3>1, <3>2 DEF RequestType
    <2>3. TaskType'
        BY <1>8 DEF Compose, TaskType
    <2>4. ControlType'
        BY <1>8 DEF Compose, ControlType, RequestType
    <2> QED
        BY <2>1, <2>2, <2>3, <2>4
<1>9. ASSUME NEW r \in Requests, AddReply(r)
       PROVE  TypeOK'
    <2>1. StoreType'
        <3>1. Replies(r) \in Message
            BY DEF Replies, Message, RequestType
        <3>2. history' \in [Conversations -> SUBSET Message]
            BY <1>9, <3>1 DEF AddReply, StoreType
        <3>3. row' \in [Requests -> [status : Statuses, text : 0..MaxDeltas]]
            <4>1. [status |-> "streaming", text |-> 0] \in [status : Statuses, text : 0..MaxDeltas]
                OBVIOUS
            <4> QED
                BY <1>9, <4>1 DEF AddReply, StoreType
        <3> QED
            BY <1>9, <3>2, <3>3 DEF AddReply, StoreType
    <2>2. RequestType'
        BY <1>9 DEF AddReply, GiveUp, EndTransaction, RequestType
    <2>3. TaskType'
        BY <1>9 DEF AddReply, TaskType
    <2>4. ControlType'
        BY <1>9 DEF AddReply, GiveUp, Released, ControlType, RequestType
    <2> QED
        BY <2>1, <2>2, <2>3, <2>4
<1>10. ASSUME NEW r \in Requests, Fail(r)
       PROVE  TypeOK'
    <2>1. StoreType'
        BY <1>10 DEF Fail, StoreType
    <2>2. RequestType'
        BY <1>10 DEF Fail, GiveUp, EndTransaction, RequestType
    <2>3. TaskType'
        BY <1>10 DEF Fail, TaskType
    <2>4. ControlType'
        BY <1>10 DEF Fail, GiveUp, Released, ControlType, RequestType
    <2> QED
        BY <2>1, <2>2, <2>3, <2>4
<1>11. ASSUME NEW r \in Requests, Start(r)
       PROVE  TypeOK'
    <2>1. StoreType'
        BY <1>11 DEF Start, StoreType
    <2>2. RequestType'
        BY <1>11 DEF Start, RequestType
    <2>3. TaskType'
        BY <1>11 DEF Start, TaskType
    <2>4. ControlType'
        BY <1>11 DEF Start, ControlType, RequestType
    <2> QED
        BY <2>1, <2>2, <2>3, <2>4
<1>12. ASSUME NEW r \in Requests, Begin(r)
       PROVE  TypeOK'
    <2>1. StoreType'
        BY <1>12 DEF Begin, StoreType
    <2>2. RequestType'
        BY <1>12 DEF Begin, RequestType
    <2>3. TaskType'
        BY <1>12 DEF Begin, TaskType, RequestType
    <2>4. ControlType'
        BY <1>12 DEF Begin, ControlType, RequestType
    <2> QED
        BY <2>1, <2>2, <2>3, <2>4
<1>13. ASSUME NEW r \in Requests, Delta(r)
       PROVE  TypeOK'
    <2>1. StoreType'
        BY <1>13 DEF Delta, StoreType
    <2>2. RequestType'
        BY <1>13 DEF Delta, RequestType
    <2>3. TaskType'
        <3>1. text[r] + 1 \in 0..MaxDeltas
            BY <1>13 DEF Delta, TaskType
        <3>2. text' \in [Requests -> 0..MaxDeltas] /\ text'[r] = text[r] + 1
            BY <1>13, <3>1 DEF Delta, TaskType
        <3>3. flush' \in [Requests -> {NoText} \cup 0..MaxDeltas]
            BY <1>13, <3>1, <3>2 DEF Delta, TaskType
        <3> QED
            BY <1>13, <3>2, <3>3 DEF Delta, TaskType
    <2>4. ControlType'
        BY <1>13 DEF Delta, ControlType, RequestType
    <2> QED
        BY <2>1, <2>2, <2>3, <2>4
<1>14. ASSUME NEW r \in Requests, EndStream(r)
       PROVE  TypeOK'
    <2>1. StoreType'
        BY <1>14 DEF EndStream, StoreType
    <2>2. RequestType'
        BY <1>14 DEF EndStream, RequestType
    <2>3. TaskType'
        BY <1>14 DEF EndStream, TaskType, RequestType
    <2>4. ControlType'
        BY <1>14 DEF EndStream, ControlType, RequestType
    <2> QED
        BY <2>1, <2>2, <2>3, <2>4
<1>15. ASSUME NEW r \in Requests, Flush(r)
       PROVE  TypeOK'
    <2>1. StoreType'
        <3>1. [row[r] EXCEPT !.text = flush[r]] \in [status : Statuses, text : 0..MaxDeltas]
            <4>1. flush[r] \in 0..MaxDeltas
                BY <1>15 DEF Flush, TaskType
            <4>2. row[r] \in [status : Statuses, text : 0..MaxDeltas]
                BY DEF StoreType
            <4> QED
                BY <4>1, <4>2
        <3>2. row' \in [Requests -> [status : Statuses, text : 0..MaxDeltas]]
            BY <1>15, <3>1 DEF Flush, Updated, StoreType
        <3> QED
            BY <1>15, <3>2 DEF Flush, StoreType
    <2>2. RequestType'
        BY <1>15 DEF Flush, RequestType
    <2>3. TaskType'
        BY <1>15 DEF Flush, TaskType, RequestType
    <2>4. ControlType'
        BY <1>15 DEF Flush, ControlType, RequestType
    <2> QED
        BY <2>1, <2>2, <2>3, <2>4
<1>16. ASSUME NEW r \in Requests, Flushed(r)
       PROVE  TypeOK'
    <2>1. StoreType'
        BY <1>16 DEF Flushed, StoreType
    <2>2. RequestType'
        BY <1>16 DEF Flushed, RequestType
    <2>3. TaskType'
        BY <1>16 DEF Flushed, TaskType
    <2>4. ControlType'
        BY <1>16 DEF Flushed, ControlType, RequestType
    <2> QED
        BY <2>1, <2>2, <2>3, <2>4
<1>17. ASSUME NEW r \in Requests, Cancelled(r)
       PROVE  TypeOK'
    <2>1. StoreType'
        BY <1>17 DEF Cancelled, StoreType
    <2>2. RequestType'
        BY <1>17 DEF Cancelled, RequestType
    <2>3. TaskType'
        BY <1>17 DEF Cancelled, TaskType, RequestType
    <2>4. ControlType'
        BY <1>17 DEF Cancelled, ControlType, RequestType
    <2> QED
        BY <2>1, <2>2, <2>3, <2>4
<1>18. ASSUME NEW r \in Requests, Save(r)
       PROVE  TypeOK'
    <2>1. StoreType'
        <3>1. [status |-> outcome[r], text |-> text[r]] \in [status : Statuses, text : 0..MaxDeltas]
            BY DEF TaskType
        <3>2. row' \in [Requests -> [status : Statuses, text : 0..MaxDeltas]]
            BY <1>18, <3>1 DEF Save, Updated, StoreType
        <3> QED
            BY <1>18, <3>2 DEF Save, StoreType
    <2>2. RequestType'
        BY <1>18 DEF Save, RequestType
    <2>3. TaskType'
        BY <1>18 DEF Save, TaskType
    <2>4. ControlType'
        BY <1>18 DEF Save, ControlType, RequestType
    <2> QED
        BY <2>1, <2>2, <2>3, <2>4
<1>19. ASSUME NEW r \in Requests, Finish(r)
       PROVE  TypeOK'
    <2>1. StoreType'
        BY <1>19 DEF Finish, StoreType
    <2>2. RequestType'
        BY <1>19 DEF Finish, RequestType
    <2>3. TaskType'
        BY <1>19 DEF Finish, TaskType, RequestType
    <2>4. ControlType'
        BY <1>19 DEF Finish, ControlType, RequestType
    <2> QED
        BY <2>1, <2>2, <2>3, <2>4
<1>20. ASSUME NEW r \in Requests, Title(r)
       PROVE  TypeOK'
    <2>1. StoreType'
        <3>1. name' \in [Conversations -> {"fallback", "model", "user"}]
            BY <1>20 DEF Title, StoreType
        <3> QED
            BY <1>20, <3>1 DEF Title, StoreType
    <2>2. RequestType'
        BY <1>20 DEF Title, RequestType
    <2>3. TaskType'
        BY <1>20 DEF Title, TaskType, RequestType
    <2>4. ControlType'
        BY <1>20 DEF Title, ControlType, RequestType
    <2> QED
        BY <2>1, <2>2, <2>3, <2>4
<1>21. ASSUME NEW c \in Conversations, AdmitStop(c)
       PROVE  TypeOK'
    <2>1. StoreType'
        BY <1>21 DEF AdmitStop, StoreType
    <2>2. RequestType'
        BY <1>21 DEF AdmitStop, RequestType
    <2>3. TaskType'
        BY <1>21 DEF AdmitStop, TaskType
    <2>4. ControlType'
        BY <1>21 DEF AdmitStop, ControlType, RequestType
    <2> QED
        BY <2>1, <2>2, <2>3, <2>4
<1>22. ASSUME NEW c \in Conversations, Stop(c)
       PROVE  TypeOK'
    <2>1. StoreType'
        BY <1>22 DEF Stop, StoreType
    <2>2. RequestType'
        BY <1>22 DEF Stop, RequestType
    <2>3. TaskType'
        <3>1. Cancellable(runs[c]) \in BOOLEAN
            BY DEF Cancellable
        <3>2. stopped' \in [Requests -> BOOLEAN] /\ cancelled' \in [Requests -> BOOLEAN]
            BY <1>22, <3>1 DEF Stop, Halt, TaskType
        <3> QED
            BY <1>22, <3>2 DEF Stop, TaskType
    <2>4. ControlType'
        BY <1>22 DEF Stop, ControlType, RequestType
    <2> QED
        BY <2>1, <2>2, <2>3, <2>4
<1>23. ASSUME NEW c \in Conversations, AdmitDelete(c)
       PROVE  TypeOK'
    <2>1. StoreType'
        BY <1>23 DEF AdmitDelete, StoreType
    <2>2. RequestType'
        BY <1>23 DEF AdmitDelete, RequestType
    <2>3. TaskType'
        BY <1>23 DEF AdmitDelete, TaskType
    <2>4. ControlType'
        BY <1>23 DEF AdmitDelete, ControlType, RequestType
    <2> QED
        BY <2>1, <2>2, <2>3, <2>4
<1>24. ASSUME NEW c \in Conversations, DeleteStops(c)
       PROVE  TypeOK'
    <2>1. StoreType'
        BY <1>24 DEF DeleteStops, StoreType
    <2>2. RequestType'
        BY <1>24 DEF DeleteStops, RequestType
    <2>3. TaskType'
        <3>1. Cancellable(runs[c]) \in BOOLEAN
            BY DEF Cancellable
        <3>2. stopped' \in [Requests -> BOOLEAN] /\ cancelled' \in [Requests -> BOOLEAN]
            BY <1>24, <3>1 DEF DeleteStops, Halt, TaskType
        <3> QED
            BY <1>24, <3>2 DEF DeleteStops, TaskType
    <2>4. ControlType'
        BY <1>24 DEF DeleteStops, ControlType, RequestType
    <2> QED
        BY <2>1, <2>2, <2>3, <2>4
<1>25. ASSUME NEW c \in Conversations, SoftDelete(c)
       PROVE  TypeOK'
    <2>1. StoreType'
        BY <1>25 DEF SoftDelete, StoreType, RequestType
    <2>2. RequestType'
        BY <1>25 DEF SoftDelete, RequestType
    <2>3. TaskType'
        BY <1>25 DEF SoftDelete, TaskType
    <2>4. ControlType'
        BY <1>25 DEF SoftDelete, ControlType, RequestType
    <2> QED
        BY <2>1, <2>2, <2>3, <2>4
<1>26. ASSUME NEW c \in Conversations, Rename(c)
       PROVE  TypeOK'
    <2>1. StoreType'
        BY <1>26 DEF Rename, StoreType, RequestType
    <2>2. RequestType'
        BY <1>26 DEF Rename, RequestType
    <2>3. TaskType'
        BY <1>26 DEF Rename, TaskType
    <2>4. ControlType'
        BY <1>26 DEF Rename, ControlType, RequestType
    <2> QED
        BY <2>1, <2>2, <2>3, <2>4
<1>27. CASE Restart
    <2>1. StoreType'
        <3>1. Swept \in [Requests -> [status : Statuses, text : 0..MaxDeltas]]
            BY DEF Swept, StoreType
        <3>2. row' \in [Requests -> [status : Statuses, text : 0..MaxDeltas]]
            BY <1>27, <3>1 DEF Restart, StoreType
        <3> QED
            BY <1>27, <3>2 DEF Restart, StoreType
    <2>2. RequestType'
        BY <1>27 DEF Restart, RequestType
    <2>3. TaskType'
        BY <1>27 DEF Restart, TaskType, RequestType
    <2>4. ControlType'
        BY <1>27 DEF Restart, ControlType, RequestType
    <2> QED
        BY <2>1, <2>2, <2>3, <2>4
<1>28. CASE UNCHANGED vars
    BY <1>28 DEF vars, StoreType, RequestType, TaskType, ControlType
<1> QED
    BY <1>1, <1>2, <1>3, <1>4, <1>5, <1>6, <1>7, <1>8, <1>9, <1>10, <1>11, <1>12, <1>13, <1>14, <1>15, <1>16, <1>17, <1>18, <1>19, <1>20, <1>21, <1>22, <1>23, <1>24, <1>25, <1>26, <1>27, <1>28 DEF Next, Handler, Model, Task, Others

-----------------------------------------------------------------------------
(* The registry                                                            *)

RegistryInv == OneReplyAtATime /\ RegistryExact /\ CancelOnlyInStream

\* What the registry proofs need of the types.
Shapes ==
    /\ runs \in [Conversations -> {Absent, Reserved} \cup Requests]
    /\ conv \in [Requests -> Conversations]
    /\ pc \in [Requests -> {"idle", "admitted"} \cup Preparing \cup Running \cup Over]
    /\ cancelled \in [Requests -> BOOLEAN]
    /\ stopped \in [Requests -> BOOLEAN]

LEMMA TypeShapes == TypeOK => Shapes
    BY DEF TypeOK, Shapes, RequestType, TaskType, ControlType

\* No step leaves two requests at work on a conversation, a key without its
\* worker or a cancellation outside the stream.
LEMMA RegistryStep == Shapes /\ RegistryInv /\ [Next]_vars => RegistryInv'
<1> SUFFICES ASSUME Shapes, RegistryInv, [Next]_vars
             PROVE  RegistryInv'
    OBVIOUS
<1> USE RegistryAssumption DEF Shapes, RegistryInv, db, request, task, counters, Goto
<1>1. ASSUME NEW r \in Requests, Admit(r)
       PROVE  RegistryInv'
    <2>1. OneReplyAtATime'
        BY <1>1 DEF Admit, OneReplyAtATime, RegistryExact, CancelOnlyInStream
    <2>2. RegistryExact'
        BY <1>1 DEF Admit, RegistryExact, OneReplyAtATime, CancelOnlyInStream
    <2>3. CancelOnlyInStream'
        BY <1>1 DEF Admit, CancelOnlyInStream
    <2> QED
        BY <2>1, <2>2, <2>3
<1>2. ASSUME NEW r \in Requests, Reserve(r)
       PROVE  RegistryInv'
    <2>1. OneReplyAtATime'
        BY <1>2 DEF Reserve, OneReplyAtATime, RegistryExact, CancelOnlyInStream
    <2>2. RegistryExact'
        BY <1>2 DEF Reserve, RegistryExact, OneReplyAtATime, CancelOnlyInStream
    <2>3. CancelOnlyInStream'
        BY <1>2 DEF Reserve, CancelOnlyInStream
    <2> QED
        BY <2>1, <2>2, <2>3
<1>3. ASSUME NEW r \in Requests, ReadHistory(r)
       PROVE  RegistryInv'
    <2>1. OneReplyAtATime'
        BY <1>3 DEF ReadHistory, OneReplyAtATime, RegistryExact, CancelOnlyInStream
    <2>2. RegistryExact'
        BY <1>3 DEF ReadHistory, RegistryExact, OneReplyAtATime, CancelOnlyInStream
    <2>3. CancelOnlyInStream'
        BY <1>3 DEF ReadHistory, CancelOnlyInStream
    <2> QED
        BY <2>1, <2>2, <2>3
<1>4. ASSUME NEW r \in Requests, PrepareSend(r)
       PROVE  RegistryInv'
    <2>1. OneReplyAtATime'
        BY <1>4 DEF PrepareSend, GiveUp, Released, OneReplyAtATime, RegistryExact, CancelOnlyInStream
    <2>2. RegistryExact'
        BY <1>4 DEF PrepareSend, GiveUp, Released, RegistryExact, OneReplyAtATime, CancelOnlyInStream
    <2>3. CancelOnlyInStream'
        BY <1>4 DEF PrepareSend, GiveUp, Released, CancelOnlyInStream
    <2> QED
        BY <2>1, <2>2, <2>3
<1>5. ASSUME NEW r \in Requests, PrepareEdit(r)
       PROVE  RegistryInv'
    <2>1. OneReplyAtATime'
        BY <1>5 DEF PrepareEdit, GiveUp, Released, OneReplyAtATime, RegistryExact, CancelOnlyInStream
    <2>2. RegistryExact'
        BY <1>5 DEF PrepareEdit, GiveUp, Released, RegistryExact, OneReplyAtATime, CancelOnlyInStream
    <2>3. CancelOnlyInStream'
        BY <1>5 DEF PrepareEdit, GiveUp, Released, CancelOnlyInStream
    <2> QED
        BY <2>1, <2>2, <2>3
<1>6. ASSUME NEW r \in Requests, Truncate(r)
       PROVE  RegistryInv'
    <2>1. OneReplyAtATime'
        BY <1>6 DEF Truncate, OneReplyAtATime, RegistryExact, CancelOnlyInStream
    <2>2. RegistryExact'
        BY <1>6 DEF Truncate, RegistryExact, OneReplyAtATime, CancelOnlyInStream
    <2>3. CancelOnlyInStream'
        BY <1>6 DEF Truncate, CancelOnlyInStream
    <2> QED
        BY <2>1, <2>2, <2>3
<1>7. ASSUME NEW r \in Requests, PrepareRegenerate(r)
       PROVE  RegistryInv'
    <2>1. OneReplyAtATime'
        BY <1>7 DEF PrepareRegenerate, GiveUp, Released, OneReplyAtATime, RegistryExact, CancelOnlyInStream
    <2>2. RegistryExact'
        BY <1>7 DEF PrepareRegenerate, GiveUp, Released, RegistryExact, OneReplyAtATime, CancelOnlyInStream
    <2>3. CancelOnlyInStream'
        BY <1>7 DEF PrepareRegenerate, GiveUp, Released, CancelOnlyInStream
    <2> QED
        BY <2>1, <2>2, <2>3
<1>8. ASSUME NEW r \in Requests, Compose(r)
       PROVE  RegistryInv'
    <2>1. OneReplyAtATime'
        BY <1>8 DEF Compose, OneReplyAtATime, RegistryExact, CancelOnlyInStream
    <2>2. RegistryExact'
        BY <1>8 DEF Compose, RegistryExact, OneReplyAtATime, CancelOnlyInStream
    <2>3. CancelOnlyInStream'
        BY <1>8 DEF Compose, CancelOnlyInStream
    <2> QED
        BY <2>1, <2>2, <2>3
<1>9. ASSUME NEW r \in Requests, AddReply(r)
       PROVE  RegistryInv'
    <2>1. OneReplyAtATime'
        BY <1>9 DEF AddReply, GiveUp, Released, OneReplyAtATime, RegistryExact, CancelOnlyInStream
    <2>2. RegistryExact'
        BY <1>9 DEF AddReply, GiveUp, Released, RegistryExact, OneReplyAtATime, CancelOnlyInStream
    <2>3. CancelOnlyInStream'
        BY <1>9 DEF AddReply, GiveUp, Released, CancelOnlyInStream
    <2> QED
        BY <2>1, <2>2, <2>3
<1>10. ASSUME NEW r \in Requests, Fail(r)
       PROVE  RegistryInv'
    <2>1. OneReplyAtATime'
        BY <1>10 DEF Fail, GiveUp, Released, OneReplyAtATime, RegistryExact, CancelOnlyInStream
    <2>2. RegistryExact'
        BY <1>10 DEF Fail, GiveUp, Released, RegistryExact, OneReplyAtATime, CancelOnlyInStream
    <2>3. CancelOnlyInStream'
        BY <1>10 DEF Fail, GiveUp, Released, CancelOnlyInStream
    <2> QED
        BY <2>1, <2>2, <2>3
<1>11. ASSUME NEW r \in Requests, Start(r)
       PROVE  RegistryInv'
    <2>1. OneReplyAtATime'
        BY <1>11 DEF Start, OneReplyAtATime, RegistryExact, CancelOnlyInStream
    <2>2. RegistryExact'
        BY <1>11 DEF Start, RegistryExact, OneReplyAtATime, CancelOnlyInStream
    <2>3. CancelOnlyInStream'
        BY <1>11 DEF Start, CancelOnlyInStream
    <2> QED
        BY <2>1, <2>2, <2>3
<1>12. ASSUME NEW r \in Requests, Begin(r)
       PROVE  RegistryInv'
    <2>1. OneReplyAtATime'
        BY <1>12 DEF Begin, OneReplyAtATime, RegistryExact, CancelOnlyInStream
    <2>2. RegistryExact'
        BY <1>12 DEF Begin, RegistryExact, OneReplyAtATime, CancelOnlyInStream
    <2>3. CancelOnlyInStream'
        BY <1>12 DEF Begin, CancelOnlyInStream
    <2> QED
        BY <2>1, <2>2, <2>3
<1>13. ASSUME NEW r \in Requests, Delta(r)
       PROVE  RegistryInv'
    <2>1. OneReplyAtATime'
        BY <1>13 DEF Delta, OneReplyAtATime, RegistryExact, CancelOnlyInStream
    <2>2. RegistryExact'
        BY <1>13 DEF Delta, RegistryExact, OneReplyAtATime, CancelOnlyInStream
    <2>3. CancelOnlyInStream'
        BY <1>13 DEF Delta, CancelOnlyInStream
    <2> QED
        BY <2>1, <2>2, <2>3
<1>14. ASSUME NEW r \in Requests, EndStream(r)
       PROVE  RegistryInv'
    <2>1. OneReplyAtATime'
        BY <1>14 DEF EndStream, OneReplyAtATime, RegistryExact, CancelOnlyInStream
    <2>2. RegistryExact'
        BY <1>14 DEF EndStream, RegistryExact, OneReplyAtATime, CancelOnlyInStream
    <2>3. CancelOnlyInStream'
        BY <1>14 DEF EndStream, CancelOnlyInStream
    <2> QED
        BY <2>1, <2>2, <2>3
<1>15. ASSUME NEW r \in Requests, Flush(r)
       PROVE  RegistryInv'
    <2>1. OneReplyAtATime'
        BY <1>15 DEF Flush, OneReplyAtATime, RegistryExact, CancelOnlyInStream
    <2>2. RegistryExact'
        BY <1>15 DEF Flush, RegistryExact, OneReplyAtATime, CancelOnlyInStream
    <2>3. CancelOnlyInStream'
        BY <1>15 DEF Flush, CancelOnlyInStream
    <2> QED
        BY <2>1, <2>2, <2>3
<1>16. ASSUME NEW r \in Requests, Flushed(r)
       PROVE  RegistryInv'
    <2>1. OneReplyAtATime'
        BY <1>16 DEF Flushed, OneReplyAtATime, RegistryExact, CancelOnlyInStream
    <2>2. RegistryExact'
        BY <1>16 DEF Flushed, RegistryExact, OneReplyAtATime, CancelOnlyInStream
    <2>3. CancelOnlyInStream'
        BY <1>16 DEF Flushed, CancelOnlyInStream
    <2> QED
        BY <2>1, <2>2, <2>3
<1>17. ASSUME NEW r \in Requests, Cancelled(r)
       PROVE  RegistryInv'
    <2>1. OneReplyAtATime'
        BY <1>17 DEF Cancelled, OneReplyAtATime, RegistryExact, CancelOnlyInStream
    <2>2. RegistryExact'
        BY <1>17 DEF Cancelled, RegistryExact, OneReplyAtATime, CancelOnlyInStream
    <2>3. CancelOnlyInStream'
        BY <1>17 DEF Cancelled, CancelOnlyInStream
    <2> QED
        BY <2>1, <2>2, <2>3
<1>18. ASSUME NEW r \in Requests, Save(r)
       PROVE  RegistryInv'
    <2>1. OneReplyAtATime'
        BY <1>18 DEF Save, OneReplyAtATime, RegistryExact, CancelOnlyInStream
    <2>2. RegistryExact'
        BY <1>18 DEF Save, RegistryExact, OneReplyAtATime, CancelOnlyInStream
    <2>3. CancelOnlyInStream'
        BY <1>18 DEF Save, CancelOnlyInStream
    <2> QED
        BY <2>1, <2>2, <2>3
<1>19. ASSUME NEW r \in Requests, Finish(r)
       PROVE  RegistryInv'
    <2>1. OneReplyAtATime'
        BY <1>19 DEF Finish, OneReplyAtATime, RegistryExact, CancelOnlyInStream
    <2>2. RegistryExact'
        BY <1>19 DEF Finish, RegistryExact, OneReplyAtATime, CancelOnlyInStream
    <2>3. CancelOnlyInStream'
        BY <1>19 DEF Finish, CancelOnlyInStream
    <2> QED
        BY <2>1, <2>2, <2>3
<1>20. ASSUME NEW r \in Requests, Title(r)
       PROVE  RegistryInv'
    <2>1. OneReplyAtATime'
        BY <1>20 DEF Title, OneReplyAtATime, RegistryExact, CancelOnlyInStream
    <2>2. RegistryExact'
        BY <1>20 DEF Title, RegistryExact, OneReplyAtATime, CancelOnlyInStream
    <2>3. CancelOnlyInStream'
        BY <1>20 DEF Title, CancelOnlyInStream
    <2> QED
        BY <2>1, <2>2, <2>3
<1>21. ASSUME NEW c \in Conversations, AdmitStop(c)
       PROVE  RegistryInv'
    <2>1. OneReplyAtATime'
        BY <1>21 DEF AdmitStop, OneReplyAtATime, RegistryExact, CancelOnlyInStream
    <2>2. RegistryExact'
        BY <1>21 DEF AdmitStop, RegistryExact, OneReplyAtATime, CancelOnlyInStream
    <2>3. CancelOnlyInStream'
        BY <1>21 DEF AdmitStop, CancelOnlyInStream
    <2> QED
        BY <2>1, <2>2, <2>3
<1>22. ASSUME NEW c \in Conversations, Stop(c)
       PROVE  RegistryInv'
    <2>1. OneReplyAtATime'
        BY <1>22 DEF Stop, Halt, Cancellable, OneReplyAtATime, RegistryExact, CancelOnlyInStream
    <2>2. RegistryExact'
        BY <1>22 DEF Stop, Halt, Cancellable, RegistryExact, OneReplyAtATime, CancelOnlyInStream
    <2>3. CancelOnlyInStream'
        BY <1>22 DEF Stop, Halt, Cancellable, CancelOnlyInStream
    <2> QED
        BY <2>1, <2>2, <2>3
<1>23. ASSUME NEW c \in Conversations, AdmitDelete(c)
       PROVE  RegistryInv'
    <2>1. OneReplyAtATime'
        BY <1>23 DEF AdmitDelete, OneReplyAtATime, RegistryExact, CancelOnlyInStream
    <2>2. RegistryExact'
        BY <1>23 DEF AdmitDelete, RegistryExact, OneReplyAtATime, CancelOnlyInStream
    <2>3. CancelOnlyInStream'
        BY <1>23 DEF AdmitDelete, CancelOnlyInStream
    <2> QED
        BY <2>1, <2>2, <2>3
<1>24. ASSUME NEW c \in Conversations, DeleteStops(c)
       PROVE  RegistryInv'
    <2>1. OneReplyAtATime'
        BY <1>24 DEF DeleteStops, Halt, Cancellable, OneReplyAtATime, RegistryExact, CancelOnlyInStream
    <2>2. RegistryExact'
        BY <1>24 DEF DeleteStops, Halt, Cancellable, RegistryExact, OneReplyAtATime, CancelOnlyInStream
    <2>3. CancelOnlyInStream'
        BY <1>24 DEF DeleteStops, Halt, Cancellable, CancelOnlyInStream
    <2> QED
        BY <2>1, <2>2, <2>3
<1>25. ASSUME NEW c \in Conversations, SoftDelete(c)
       PROVE  RegistryInv'
    <2>1. OneReplyAtATime'
        BY <1>25 DEF SoftDelete, OneReplyAtATime, RegistryExact, CancelOnlyInStream
    <2>2. RegistryExact'
        BY <1>25 DEF SoftDelete, RegistryExact, OneReplyAtATime, CancelOnlyInStream
    <2>3. CancelOnlyInStream'
        BY <1>25 DEF SoftDelete, CancelOnlyInStream
    <2> QED
        BY <2>1, <2>2, <2>3
<1>26. ASSUME NEW c \in Conversations, Rename(c)
       PROVE  RegistryInv'
    <2>1. OneReplyAtATime'
        BY <1>26 DEF Rename, OneReplyAtATime, RegistryExact, CancelOnlyInStream
    <2>2. RegistryExact'
        BY <1>26 DEF Rename, RegistryExact, OneReplyAtATime, CancelOnlyInStream
    <2>3. CancelOnlyInStream'
        BY <1>26 DEF Rename, CancelOnlyInStream
    <2> QED
        BY <2>1, <2>2, <2>3
<1>27. CASE Restart
    <2>1. OneReplyAtATime'
        BY <1>27 DEF Restart, OneReplyAtATime, RegistryExact, CancelOnlyInStream
    <2>2. RegistryExact'
        BY <1>27 DEF Restart, RegistryExact, OneReplyAtATime, CancelOnlyInStream
    <2>3. CancelOnlyInStream'
        BY <1>27 DEF Restart, CancelOnlyInStream
    <2> QED
        BY <2>1, <2>2, <2>3
<1>28. CASE UNCHANGED vars
    BY <1>28 DEF vars, OneReplyAtATime, RegistryExact, CancelOnlyInStream
<1> QED
    BY <1>1, <1>2, <1>3, <1>4, <1>5, <1>6, <1>7, <1>8, <1>9, <1>10, <1>11, <1>12, <1>13, <1>14, <1>15, <1>16, <1>17, <1>18, <1>19, <1>20, <1>21, <1>22, <1>23, <1>24, <1>25, <1>26, <1>27, <1>28 DEF Next, Handler, Model, Task, Others

-----------------------------------------------------------------------------
(* Late flushes                                                            *)

Settled(r) == row[r].status \in {"complete", "stopped", "error"}

\* A flush in flight carries the run's whole text, and a settled row already
\* holds it: the stream awaits each flush, so only a cancelled one is late.
FlushInv ==
    \A r \in Requests :
        /\ flush[r] # NoText =>
              /\ flush[r] = text[r]
              /\ pc[r] \in {"flushing", "saving", "saved"} \cup Over
        /\ Settled(r) =>
              /\ pc[r] \in {"saved"} \cup Over
              /\ flush[r] # NoText => row[r].text = text[r]
        /\ row[r].status \in {"complete", "error"} => row[r].text = text[r]
        /\ pc[r] = "idle" => row[r].status = "none"

FlushShapes ==
    /\ row \in [Requests -> [status : Statuses, text : 0..MaxDeltas]]
    /\ text \in [Requests -> 0..MaxDeltas]
    /\ flush \in [Requests -> {NoText} \cup 0..MaxDeltas]
    /\ outcome \in [Requests -> Statuses \ {"streaming"}]
    /\ pc \in [Requests -> {"idle", "admitted"} \cup Preparing \cup Running \cup Over]

LEMMA TypeFlushShapes == TypeOK => FlushShapes
    BY DEF TypeOK, FlushShapes, StoreType, TaskType, ControlType

LEMMA FlushStep ==
    FlushShapes /\ CancelOnlyInStream /\ FlushInv /\ [Next]_vars => FlushInv'
<1> SUFFICES ASSUME FlushShapes, CancelOnlyInStream, FlushInv, [Next]_vars
             PROVE  FlushInv'
    OBVIOUS
<1> USE BoundsAssumption DEF FlushShapes, FlushInv, Settled, db, request, task, counters, Goto
<1>1. ASSUME NEW r \in Requests, Admit(r)
       PROVE  FlushInv'
    BY <1>1 DEF Admit
<1>2. ASSUME NEW r \in Requests, Reserve(r)
       PROVE  FlushInv'
    BY <1>2 DEF Reserve
<1>3. ASSUME NEW r \in Requests, ReadHistory(r)
       PROVE  FlushInv'
    BY <1>3 DEF ReadHistory
<1>4. ASSUME NEW r \in Requests, PrepareSend(r)
       PROVE  FlushInv'
    BY <1>4, ZenonT(40) DEF PrepareSend, GiveUp
<1>5. ASSUME NEW r \in Requests, PrepareEdit(r)
       PROVE  FlushInv'
    BY <1>5 DEF PrepareEdit, GiveUp
<1>6. ASSUME NEW r \in Requests, Truncate(r)
       PROVE  FlushInv'
    BY <1>6 DEF Truncate
<1>7. ASSUME NEW r \in Requests, PrepareRegenerate(r)
       PROVE  FlushInv'
    BY <1>7 DEF PrepareRegenerate, GiveUp
<1>8. ASSUME NEW r \in Requests, Compose(r)
       PROVE  FlushInv'
    BY <1>8 DEF Compose
<1>9. ASSUME NEW r \in Requests, AddReply(r)
       PROVE  FlushInv'
    <2>1. pc[r] = "composed" /\ pc'[r] \in {"added", "refused"} /\ flush[r] = NoText
        BY <1>9 DEF AddReply, GiveUp
    <2>2. row'[r] = row[r] \/ row'[r].status = "streaming"
        BY <1>9 DEF AddReply
    <2>3. ~ Settled(r)
        BY <2>1
    <2>4. \A q \in Requests \ {r} : row'[q] = row[q] /\ pc'[q] = pc[q]
        BY <1>9 DEF AddReply, GiveUp
    <2>5. UNCHANGED <<flush, text>>
        BY <1>9 DEF AddReply
    <2> QED
        BY <2>1, <2>2, <2>3, <2>4, <2>5
<1>10. ASSUME NEW r \in Requests, Fail(r)
       PROVE  FlushInv'
    BY <1>10 DEF Fail, GiveUp
<1>11. ASSUME NEW r \in Requests, Start(r)
       PROVE  FlushInv'
    BY <1>11 DEF Start
<1>12. ASSUME NEW r \in Requests, Begin(r)
       PROVE  FlushInv'
    BY <1>12 DEF Begin
<1>13. ASSUME NEW r \in Requests, Delta(r)
       PROVE  FlushInv'
    BY <1>13 DEF Delta
<1>14. ASSUME NEW r \in Requests, EndStream(r)
       PROVE  FlushInv'
    BY <1>14 DEF EndStream
<1>15. ASSUME NEW r \in Requests, Flush(r)
       PROVE  FlushInv'
    BY <1>15 DEF Flush, Updated
<1>16. ASSUME NEW r \in Requests, Flushed(r)
       PROVE  FlushInv'
    BY <1>16 DEF Flushed
<1>17. ASSUME NEW r \in Requests, Cancelled(r)
       PROVE  FlushInv'
    BY <1>17 DEF Cancelled, CancelOnlyInStream
<1>18. ASSUME NEW r \in Requests, Save(r)
       PROVE  FlushInv'
    BY <1>18 DEF Save, Updated
<1>19. ASSUME NEW r \in Requests, Finish(r)
       PROVE  FlushInv'
    BY <1>19 DEF Finish
<1>20. ASSUME NEW r \in Requests, Title(r)
       PROVE  FlushInv'
    BY <1>20 DEF Title
<1>21. ASSUME NEW c \in Conversations, AdmitStop(c)
       PROVE  FlushInv'
    BY <1>21 DEF AdmitStop
<1>22. ASSUME NEW c \in Conversations, Stop(c)
       PROVE  FlushInv'
    BY <1>22 DEF Stop, Halt
<1>23. ASSUME NEW c \in Conversations, AdmitDelete(c)
       PROVE  FlushInv'
    BY <1>23 DEF AdmitDelete
<1>24. ASSUME NEW c \in Conversations, DeleteStops(c)
       PROVE  FlushInv'
    BY <1>24 DEF DeleteStops, Halt
<1>25. ASSUME NEW c \in Conversations, SoftDelete(c)
       PROVE  FlushInv'
    BY <1>25 DEF SoftDelete
<1>26. ASSUME NEW c \in Conversations, Rename(c)
       PROVE  FlushInv'
    BY <1>26 DEF Rename
<1>27. CASE Restart
    BY <1>27 DEF Restart, Swept
<1>28. CASE UNCHANGED vars
    BY <1>28 DEF vars
<1> QED
    BY <1>1, <1>2, <1>3, <1>4, <1>5, <1>6, <1>7, <1>8, <1>9, <1>10, <1>11, <1>12, <1>13, <1>14, <1>15, <1>16, <1>17, <1>18, <1>19, <1>20, <1>21, <1>22, <1>23, <1>24, <1>25, <1>26, <1>27, <1>28 DEF Next, Handler, Model, Task, Others

\* A step that changes a settled row: none.
LEMMA FrozenStep ==
    FlushShapes /\ FlushInv /\ [Next]_vars
    => \A r \in Requests : Settled(r) => row'[r] = row[r]
<1> SUFFICES ASSUME FlushShapes, FlushInv, [Next]_vars, NEW q \in Requests, Settled(q)
             PROVE  row'[q] = row[q]
    OBVIOUS
<1> USE DEF db, request, task, counters, Goto
<1>1. ASSUME NEW r \in Requests, AddReply(r)
       PROVE  row'[q] = row[q]
    BY <1>1 DEF AddReply, FlushInv, FlushShapes, Settled
<1>2. ASSUME NEW r \in Requests, Flush(r)
       PROVE  row'[q] = row[q]
    <2>1. row[q] = [row[q] EXCEPT !.text = row[q].text]
        BY DEF FlushShapes
    <2>2. q = r => row[q].text = flush[r]
        BY <1>2 DEF Flush, FlushInv
    <2> QED
        BY <1>2, <2>1, <2>2 DEF Flush, Updated, FlushShapes
<1>3. ASSUME NEW r \in Requests, Save(r)
       PROVE  row'[q] = row[q]
    BY <1>3 DEF Save, Updated, FlushInv, FlushShapes, Settled
<1>4. CASE Restart
    BY <1>4 DEF Restart, Swept, FlushShapes, Settled
<1>5. CASE UNCHANGED row
    BY <1>5
<1> QED
    BY <1>1, <1>2, <1>3, <1>4, <1>5
       DEF Next, Handler, Model, Task, Others, vars, Admit, Reserve, ReadHistory, PrepareSend,
           PrepareEdit, Truncate, PrepareRegenerate, Compose, Fail, Start, Begin, Delta,
           EndStream, Flushed, Cancelled, Finish, Title, AdmitStop, Stop, AdmitDelete,
           DeleteStops, SoftDelete, Rename

-----------------------------------------------------------------------------
(* The table of messages                                                   *)

\* Where a request may have a transaction open that will date a row.
Open == {"admitted", "reserved", "read", "prepared", "composed"}

\* Where a request stands once its message, or its reply, may be in the table.
Spoken == (Preparing \ {"reserved", "read"}) \cup Running \cup Over
Answered == {"added"} \cup Running \cup Over

\* Two open transactions began at different times, and no row has the date of
\* one, nor two rows the same.
Dates ==
    /\ \A r \in Requests : began[r] <= clock
    /\ \A r \in Requests : began[r] # 0 => pc[r] \in Open
    /\ \A r \in Requests : pc[r] \in Open \ {"prepared"} => began[r] # 0
    /\ \A r \in Requests : pc[r] = "prepared" /\ began[r] # 0 => kind[r] = "regenerate"
    /\ \A r, q \in Requests : began[r] = began[q] => r = q \/ began[r] = 0
    /\ \A c \in Conversations : \A m \in history[c] : 0 < m.at /\ m.at <= clock
    /\ \A c \in Conversations : \A m \in history[c] : \A r \in Requests : m.at # began[r]
    /\ \A c \in Conversations : \A x, y \in history[c] : x.at = y.at => x = y

\* No request speaks twice in one role, and there is no reply without a question.
Rows ==
    /\ \A c \in Conversations : \A m \in history[c] :
           pc[m.by] \in (IF m.role = "user" THEN Spoken ELSE Answered)
    /\ \A c \in Conversations : \A x, y \in history[c] :
           x.by = y.by /\ x.role = y.role => x = y
    /\ \A c \in Conversations : history[c] # {} => \E m \in history[c] : m.role = "user"

\* What the request at work on a conversation knows of it.
Held ==
    /\ \A r \in Requests : pc[r] \in {"read", "composed"} => seen[r] = history[conv[r]]
    /\ \A r \in Requests : pc[r] \in {"prepared", "composed"} => history[conv[r]] # {}
    /\ PromptStands

\* Every row of S is older than the transaction of r.
Newest(r, S) == \A m \in S : m.at < began[r]

\* A request of the conversation of r is between its message and its reply.
Answering(r) == \E q \in Requests : conv[q] = conv[r] /\ pc[q] \in {"prepared", "edited", "composed"}

\* Unless a statement failed or the conversation is deleted, a message nobody
\* answered is older than any transaction that may date a reply to it.
EarlyPlaced(r) ==
    pc[r] \in {"admitted", "reserved", "read"} =>
        \/ faults > 0 \/ ~live[conv[r]] \/ Answering(r)
        \/ EndsInReply(history[conv[r]])
        \/ Newest(r, history[conv[r]])

LatePlaced(r) ==
    pc[r] \in {"prepared", "composed"} /\ began[r] # 0 =>
        \/ kind[r] = "regenerate" /\ (faults > 0 \/ ~live[conv[r]])
        \/ Newest(r, history[conv[r]])

Placed == \A r \in Requests : EarlyPlaced(r) /\ LatePlaced(r)

TableInv == Dates /\ Rows /\ Held /\ Placed

\* The reply a of c stands: below its whole prompt, and below no other answer
\* that came later.
StandsIn(c, a) ==
    /\ seen[a.by] \subseteq Above(history[c], a)
    /\ \A q \in Above(history[c], a) \ seen[a.by] :
          /\ q.role = "user"
          /\ \A x \in Above(history[c], a) : ~IsReply(q.by, x)

\* The reply a is about to go: an edit has just rewritten a message above it.
Doomed(c, a) ==
    \E r \in Requests : \E p \in Above(history[c], a) :
        conv[r] = c /\ pc[r] = "edited" /\ IsPivot(r, p)

StandInv ==
    faults = 0 /\ crashes = 0 =>
        \A c \in Conversations : \A a \in history[c] :
            a.role = "assistant" => StandsIn(c, a) \/ Doomed(c, a)

\* A stopped run has left its stream, or is about to.
StopInv == \A r \in Requests : stopped[r] /\ pc[r] \in {"streaming", "flushing"} => cancelled[r]

TableShapes ==
    /\ live \in [Conversations -> BOOLEAN]
    /\ history \in [Conversations -> SUBSET Message]
    /\ seen \in [Requests -> SUBSET Message]
    /\ kind \in [Requests -> Kinds]
    /\ conv \in [Requests -> Conversations]
    /\ pivot \in [Requests -> Requests]
    /\ pc \in [Requests -> {"idle", "admitted"} \cup Preparing \cup Running \cup Over]
    /\ began \in [Requests -> Nat] /\ clock \in Nat
    /\ faults \in Nat /\ crashes \in Nat

LEMMA TypeTableShapes == TypeOK => TableShapes
    BY BoundsAssumption DEF TypeOK, TableShapes, StoreType, RequestType, ControlType

\* Nobody else is at work on the conversation of a request that is.
LEMMA Alone ==
    ASSUME OneReplyAtATime, NEW r \in Requests, pc[r] \in Preparing \cup Running
    PROVE  \A q \in Requests \ {r} : conv[q] = conv[r] => pc[q] \notin Preparing \cup Running
BY DEF OneReplyAtATime

-----------------------------------------------------------------------------
(* What a step does to the table                                           *)

\* Failures are only counted up.
Failing ==
    /\ faults > 0 => faults' > 0
    /\ faults' = 0 => faults = 0
    /\ crashes' = 0 => crashes = 0

\* A step that leaves the table and the transactions alone: the task of a run,
\* a stop, a rename or a delete.
Still ==
    /\ UNCHANGED <<history, seen, began, clock, kind, conv, pivot>>
    /\ Failing
    /\ \A c \in Conversations : live'[c] => live[c]
    /\ \A r \in Requests :
          \/ pc'[r] = pc[r]
          \/ pc[r] \in {"added"} \cup Running /\ pc'[r] \in Running \cup {"ended", "dead"}

\* A request is refused, or a statement of it fails.
GivenUp(r) ==
    /\ pc[r] \in {"admitted"} \cup Preparing
    /\ pc[r] \in {"prepared", "edited"} => faults' > 0
    /\ pc[r] = "composed" => faults' > 0 \/ ~live[conv[r]]
    /\ pc' = [pc EXCEPT ![r] = "refused"]
    /\ began' = [began EXCEPT ![r] = 0]
    /\ UNCHANGED <<history, seen, clock, kind, conv, pivot, live, crashes>>
    /\ Failing

\* A request goes on from one await to the next, and nothing else happens.
Onwards(r, label) ==
    /\ pc' = [pc EXCEPT ![r] = label]
    /\ UNCHANGED <<kind, conv, live, faults, crashes>>

\* The steps that write to the table, read it, or begin a transaction.
Admitted(r) ==
    /\ pc[r] = "idle" /\ Onwards(r, "admitted") /\ BeginTransaction(r)
    /\ \A q \in Requests \ {r} : pivot'[q] = pivot[q]
    /\ UNCHANGED <<history, seen>>

Reserving(r) ==
    /\ pc[r] = "admitted" /\ Onwards(r, "reserved")
    /\ UNCHANGED <<history, seen, began, clock, pivot>>

Reading(r) ==
    /\ pc[r] = "reserved" /\ Onwards(r, "read")
    /\ seen' = [seen EXCEPT ![r] = history[conv[r]]]
    /\ UNCHANGED <<history, began, clock, pivot>>

Sending(r) ==
    /\ pc[r] = "read" /\ kind[r] = "send" /\ Onwards(r, "prepared")
    /\ history' = [history EXCEPT ![conv[r]] = @ \cup {Asks(r)}]
    /\ EndTransaction(r) /\ UNCHANGED <<seen, pivot>>

Editing(r) ==
    /\ pc[r] = "read" /\ kind[r] = "edit" /\ Onwards(r, "edited")
    /\ \E m \in seen[r] : IsPivot(r, m)
    /\ history' = [history EXCEPT ![conv[r]] = {Reworded(r, m) : m \in @}]
    /\ EndTransaction(r) /\ UNCHANGED <<seen, pivot>>

Truncating(r) ==
    /\ pc[r] = "edited" /\ Onwards(r, "prepared")
    /\ \E p \in history[conv[r]] :
          /\ IsPivot(r, p)
          /\ history' = [history EXCEPT ![conv[r]] = {m \in @ : m.at <= p.at}]
    /\ UNCHANGED <<seen, began, clock, pivot>>

Replacing(r) ==
    /\ pc[r] = "read" /\ kind[r] = "regenerate" /\ Onwards(r, "prepared")
    /\ EndsInReply(seen[r])
    /\ \E m \in seen[r] : m.role = "user"
    /\ history' = [history EXCEPT ![conv[r]] = {m \in @ : ~IsLast(seen[r], m)}]
    /\ EndTransaction(r) /\ UNCHANGED <<seen, pivot>>

Retrying(r) ==
    /\ pc[r] = "read" /\ kind[r] = "regenerate" /\ Onwards(r, "prepared")
    /\ ~EndsInReply(seen[r])
    /\ \E m \in seen[r] : m.role = "user"
    /\ UNCHANGED <<history, seen, began, clock, pivot>>

Composing(r) ==
    /\ pc[r] = "prepared" /\ Onwards(r, "composed")
    /\ seen' = [seen EXCEPT ![r] = history[conv[r]]]
    /\ IF began[r] = 0 THEN BeginTransaction(r) ELSE UNCHANGED times
    /\ UNCHANGED <<history, pivot>>

Answers(r) ==
    /\ pc[r] = "composed" /\ live[conv[r]] /\ Onwards(r, "added")
    /\ history' = [history EXCEPT ![conv[r]] = @ \cup {Replies(r)}]
    /\ EndTransaction(r) /\ UNCHANGED <<seen, pivot>>

Restarted ==
    /\ UNCHANGED <<history, seen, clock, kind, conv, pivot, live>>
    /\ began' = [r \in Requests |-> 0]
    /\ Failing /\ crashes' > 0
    /\ \A r \in Requests :
           pc'[r] = (IF pc[r] \in Over \cup {"idle"} THEN pc[r] ELSE "lost")

\* Every step is one of these.
Effects ==
    \/ Still
    \/ Restarted
    \/ \E r \in Requests :
          \/ GivenUp(r) \/ Admitted(r) \/ Reserving(r) \/ Reading(r)
          \/ Sending(r) \/ Editing(r) \/ Truncating(r) \/ Replacing(r) \/ Retrying(r)
          \/ Composing(r) \/ Answers(r)

\* Every step has one of these effects on the table.
LEMMA EffectsStep ==
    ASSUME TableShapes, CancelOnlyInStream, Rows, Held, [Next]_vars
    PROVE  Effects
<1> USE DEF TableShapes, db, request, task, counters, times, Goto
<1>1. ASSUME NEW r \in Requests, Admit(r)
      PROVE  Effects
    <2>1. /\ pc[r] = "idle" /\ Onwards(r, "admitted") /\ BeginTransaction(r)
          /\ UNCHANGED <<history, seen>>
        BY <1>1 DEF Admit, Onwards
    <2>2. \A q \in Requests \ {r} : pivot'[q] = pivot[q]
        BY <1>1 DEF Admit
    <2> QED
        BY <2>1, <2>2 DEF Effects, Admitted
<1>2. ASSUME NEW r \in Requests, Reserve(r)
      PROVE  Effects
    <2>1. CASE runs[conv[r]] = Absent
        BY <1>2, <2>1 DEF Reserve, Effects, Reserving, Onwards
    <2>2. CASE runs[conv[r]] # Absent
        BY <1>2, <2>2 DEF Reserve, EndTransaction, Effects, GivenUp, Failing
    <2> QED
        BY <2>1, <2>2
<1>3. ASSUME NEW r \in Requests, ReadHistory(r)
      PROVE  Effects
    BY <1>3 DEF ReadHistory, Effects, Reading, Onwards
<1>4. ASSUME NEW r \in Requests, PrepareSend(r)
      PROVE  Effects
    <2>1. CASE live[conv[r]]
        BY <1>4, <2>1 DEF PrepareSend, EndTransaction, Effects, Sending, Onwards
    <2>2. CASE ~live[conv[r]]
        BY <1>4, <2>2 DEF PrepareSend, GiveUp, EndTransaction, Effects, GivenUp, Failing
    <2> QED
        BY <2>1, <2>2
<1>5. ASSUME NEW r \in Requests, PrepareEdit(r)
      PROVE  Effects
    <2>1. CASE \E m \in seen[r] : IsPivot(r, m)
        BY <1>5, <2>1 DEF PrepareEdit, EndTransaction, Effects, Editing, Onwards
    <2>2. CASE ~ \E m \in seen[r] : IsPivot(r, m)
        BY <1>5, <2>2 DEF PrepareEdit, GiveUp, EndTransaction, Effects, GivenUp, Failing
    <2> QED
        BY <2>1, <2>2
<1>6. ASSUME NEW r \in Requests, Truncate(r)
      PROVE  Effects
    BY <1>6 DEF Truncate, Effects, Truncating, Onwards
<1>7. ASSUME NEW r \in Requests, PrepareRegenerate(r)
      PROVE  Effects
    <2>1. pc[r] = "read" /\ seen[r] = history[conv[r]] /\ kind[r] = "regenerate"
        BY <1>7 DEF PrepareRegenerate, Held
    <2>2. EndsInReply(seen[r]) => \E m \in seen[r] : m.role = "user"
        BY <2>1 DEF EndsInReply, IsLast, Rows
    <2>3. CASE EndsInReply(seen[r])
        BY <1>7, <2>1, <2>2, <2>3 DEF PrepareRegenerate, EndTransaction, Effects, Replacing,
           Onwards
    <2>4. CASE ~EndsInReply(seen[r]) /\ \E m \in seen[r] : m.role = "user"
        BY <1>7, <2>1, <2>4 DEF PrepareRegenerate, Effects, Retrying, Onwards
    <2>5. CASE ~EndsInReply(seen[r]) /\ ~ \E m \in seen[r] : m.role = "user"
        BY <1>7, <2>1, <2>5 DEF PrepareRegenerate, GiveUp, EndTransaction, Effects, GivenUp,
           Failing
    <2> QED
        BY <2>2, <2>3, <2>4, <2>5
<1>8. ASSUME NEW r \in Requests, Compose(r)
      PROVE  Effects
    BY <1>8 DEF Compose, Effects, Composing, Onwards
<1>9. ASSUME NEW r \in Requests, AddReply(r)
      PROVE  Effects
    <2>1. CASE live[conv[r]]
        BY <1>9, <2>1 DEF AddReply, EndTransaction, Effects, Answers, Onwards
    <2>2. CASE ~live[conv[r]]
        BY <1>9, <2>2 DEF AddReply, GiveUp, EndTransaction, Effects, GivenUp, Failing
    <2> QED
        BY <2>1, <2>2
<1>10. ASSUME NEW r \in Requests, Fail(r)
      PROVE  Effects
    <2>1. faults' > 0 /\ Failing
        BY <1>10 DEF Fail, Failing
    <2>2. /\ pc' = [pc EXCEPT ![r] = "refused"]
          /\ began' = [began EXCEPT ![r] = 0]
          /\ UNCHANGED <<history, seen, clock, kind, conv, pivot, live, crashes>>
          /\ pc[r] \in Preparing
        BY <1>10 DEF Fail, GiveUp, EndTransaction
    <2>3. GivenUp(r)
        BY <2>1, <2>2 DEF GivenUp
    <2> QED
        BY <2>3 DEF Effects
<1>11. ASSUME NEW r \in Requests, Start(r)
      PROVE  Effects
    <2>1. UNCHANGED <<history, seen, began, clock, kind, conv, pivot>>
        BY <1>11 DEF Start
    <2>2. Failing /\ \A c \in Conversations : live'[c] => live[c]
        BY <1>11 DEF Start, Failing
    <2>3. ASSUME NEW q \in Requests
          PROVE  \/ pc'[q] = pc[q]
                 \/ pc[q] \in {"added"} \cup Running /\ pc'[q] \in Running \cup {"ended", "dead"}
        BY <1>11 DEF Start
    <2> QED
        BY <2>1, <2>2, <2>3 DEF Effects, Still
<1>12. ASSUME NEW r \in Requests, Begin(r)
      PROVE  Effects
    <2>1. UNCHANGED <<history, seen, began, clock, kind, conv, pivot>>
        BY <1>12 DEF Begin
    <2>2. Failing /\ \A c \in Conversations : live'[c] => live[c]
        BY <1>12 DEF Begin, Failing
    <2>3. ASSUME NEW q \in Requests
          PROVE  \/ pc'[q] = pc[q]
                 \/ pc[q] \in {"added"} \cup Running /\ pc'[q] \in Running \cup {"ended", "dead"}
        BY <1>12 DEF Begin
    <2> QED
        BY <2>1, <2>2, <2>3 DEF Effects, Still
<1>13. ASSUME NEW r \in Requests, Delta(r)
      PROVE  Effects
    <2>1. UNCHANGED <<history, seen, began, clock, kind, conv, pivot>>
        BY <1>13 DEF Delta
    <2>2. Failing /\ \A c \in Conversations : live'[c] => live[c]
        BY <1>13 DEF Delta, Failing
    <2>3. ASSUME NEW q \in Requests
          PROVE  \/ pc'[q] = pc[q]
                 \/ pc[q] \in {"added"} \cup Running /\ pc'[q] \in Running \cup {"ended", "dead"}
        BY <1>13 DEF Delta
    <2> QED
        BY <2>1, <2>2, <2>3 DEF Effects, Still
<1>14. ASSUME NEW r \in Requests, EndStream(r)
      PROVE  Effects
    <2>1. UNCHANGED <<history, seen, began, clock, kind, conv, pivot>>
        BY <1>14 DEF EndStream
    <2>2. Failing /\ \A c \in Conversations : live'[c] => live[c]
        BY <1>14 DEF EndStream, Failing
    <2>3. ASSUME NEW q \in Requests
          PROVE  \/ pc'[q] = pc[q]
                 \/ pc[q] \in {"added"} \cup Running /\ pc'[q] \in Running \cup {"ended", "dead"}
        BY <1>14 DEF EndStream
    <2> QED
        BY <2>1, <2>2, <2>3 DEF Effects, Still
<1>15. ASSUME NEW r \in Requests, Flush(r)
      PROVE  Effects
    <2>1. UNCHANGED <<history, seen, began, clock, kind, conv, pivot>>
        BY <1>15 DEF Flush
    <2>2. Failing /\ \A c \in Conversations : live'[c] => live[c]
        BY <1>15 DEF Flush, Failing
    <2>3. ASSUME NEW q \in Requests
          PROVE  \/ pc'[q] = pc[q]
                 \/ pc[q] \in {"added"} \cup Running /\ pc'[q] \in Running \cup {"ended", "dead"}
        BY <1>15 DEF Flush
    <2> QED
        BY <2>1, <2>2, <2>3 DEF Effects, Still
<1>16. ASSUME NEW r \in Requests, Flushed(r)
      PROVE  Effects
    <2>1. UNCHANGED <<history, seen, began, clock, kind, conv, pivot>>
        BY <1>16 DEF Flushed
    <2>2. Failing /\ \A c \in Conversations : live'[c] => live[c]
        BY <1>16 DEF Flushed, Failing
    <2>3. ASSUME NEW q \in Requests
          PROVE  \/ pc'[q] = pc[q]
                 \/ pc[q] \in {"added"} \cup Running /\ pc'[q] \in Running \cup {"ended", "dead"}
        BY <1>16 DEF Flushed
    <2> QED
        BY <2>1, <2>2, <2>3 DEF Effects, Still
<1>17. ASSUME NEW r \in Requests, Cancelled(r)
      PROVE  Effects
    <2>1. UNCHANGED <<history, seen, began, clock, kind, conv, pivot>>
        BY <1>17 DEF Cancelled
    <2>2. Failing /\ \A c \in Conversations : live'[c] => live[c]
        BY <1>17 DEF Cancelled, Failing
    <2>3. ASSUME NEW q \in Requests
          PROVE  \/ pc'[q] = pc[q]
                 \/ pc[q] \in {"added"} \cup Running /\ pc'[q] \in Running \cup {"ended", "dead"}
        BY <1>17 DEF Cancelled, CancelOnlyInStream
    <2> QED
        BY <2>1, <2>2, <2>3 DEF Effects, Still
<1>18. ASSUME NEW r \in Requests, Save(r)
      PROVE  Effects
    <2>1. UNCHANGED <<history, seen, began, clock, kind, conv, pivot>>
        BY <1>18 DEF Save
    <2>2. Failing /\ \A c \in Conversations : live'[c] => live[c]
        BY <1>18 DEF Save, Failing
    <2>3. ASSUME NEW q \in Requests
          PROVE  \/ pc'[q] = pc[q]
                 \/ pc[q] \in {"added"} \cup Running /\ pc'[q] \in Running \cup {"ended", "dead"}
        BY <1>18 DEF Save
    <2> QED
        BY <2>1, <2>2, <2>3 DEF Effects, Still
<1>19. ASSUME NEW r \in Requests, Finish(r)
      PROVE  Effects
    <2>1. UNCHANGED <<history, seen, began, clock, kind, conv, pivot>>
        BY <1>19 DEF Finish
    <2>2. Failing /\ \A c \in Conversations : live'[c] => live[c]
        BY <1>19 DEF Finish, Failing
    <2>3. ASSUME NEW q \in Requests
          PROVE  \/ pc'[q] = pc[q]
                 \/ pc[q] \in {"added"} \cup Running /\ pc'[q] \in Running \cup {"ended", "dead"}
        BY <1>19 DEF Finish
    <2> QED
        BY <2>1, <2>2, <2>3 DEF Effects, Still
<1>20. ASSUME NEW r \in Requests, Title(r)
      PROVE  Effects
    <2>1. UNCHANGED <<history, seen, began, clock, kind, conv, pivot>>
        BY <1>20 DEF Title
    <2>2. Failing /\ \A c \in Conversations : live'[c] => live[c]
        BY <1>20 DEF Title, Failing
    <2>3. ASSUME NEW q \in Requests
          PROVE  \/ pc'[q] = pc[q]
                 \/ pc[q] \in {"added"} \cup Running /\ pc'[q] \in Running \cup {"ended", "dead"}
        BY <1>20 DEF Title
    <2> QED
        BY <2>1, <2>2, <2>3 DEF Effects, Still
<1>21. ASSUME NEW c \in Conversations, AdmitStop(c)
      PROVE  Effects
    <2>1. \A d \in Conversations : live'[d] => live[d]
        BY <1>21 DEF AdmitStop
    <2> QED
        BY <1>21, <2>1 DEF AdmitStop, Effects, Still, Failing
<1>22. ASSUME NEW c \in Conversations, Stop(c)
      PROVE  Effects
    <2>1. \A d \in Conversations : live'[d] => live[d]
        BY <1>22 DEF Stop
    <2> QED
        BY <1>22, <2>1 DEF Stop, Effects, Still, Failing
<1>23. ASSUME NEW c \in Conversations, AdmitDelete(c)
      PROVE  Effects
    <2>1. \A d \in Conversations : live'[d] => live[d]
        BY <1>23 DEF AdmitDelete
    <2> QED
        BY <1>23, <2>1 DEF AdmitDelete, Effects, Still, Failing
<1>24. ASSUME NEW c \in Conversations, DeleteStops(c)
      PROVE  Effects
    <2>1. \A d \in Conversations : live'[d] => live[d]
        BY <1>24 DEF DeleteStops
    <2> QED
        BY <1>24, <2>1 DEF DeleteStops, Effects, Still, Failing
<1>25. ASSUME NEW c \in Conversations, SoftDelete(c)
      PROVE  Effects
    <2>1. \A d \in Conversations : live'[d] => live[d]
        BY <1>25 DEF SoftDelete
    <2> QED
        BY <1>25, <2>1 DEF SoftDelete, Effects, Still, Failing
<1>26. ASSUME NEW c \in Conversations, Rename(c)
      PROVE  Effects
    <2>1. \A d \in Conversations : live'[d] => live[d]
        BY <1>26 DEF Rename
    <2> QED
        BY <1>26, <2>1 DEF Rename, Effects, Still, Failing
<1>27. CASE Restart
    BY <1>27 DEF Restart, Effects, Restarted, Failing
<1>28. CASE UNCHANGED vars
    BY <1>28 DEF vars, Effects, Still, Failing
<1> QED
    BY <1>1, <1>2, <1>3, <1>4, <1>5, <1>6, <1>7, <1>8, <1>9, <1>10, <1>11, <1>12, <1>13, <1>14,
       <1>15, <1>16, <1>17, <1>18, <1>19, <1>20, <1>21, <1>22, <1>23, <1>24, <1>25, <1>26, <1>27,
       <1>28 DEF Next, Handler, Model, Task, Others

-----------------------------------------------------------------------------
(* The table is kept by every step                                         *)

\* A reply that stands last is the only one to do so.
LEMMA LastReply ==
    ASSUME TableShapes, Dates, NEW c \in Conversations, EndsInReply(history[c]),
           NEW m \in history[c], IsLast(history[c], m)
    PROVE  m.role = "assistant"
<1>1. PICK a \in history[c] : IsLast(history[c], a) /\ a.role = "assistant"
    BY DEF EndsInReply, IsLast
<1>2. m.at \in Nat /\ a.at \in Nat
    BY Fields DEF TableShapes
<1>3. m.at = a.at
    BY <1>1, <1>2 DEF IsLast
<1> QED
    BY <1>1, <1>3 DEF Dates

\* An edit gives a message other words and nothing else.
LEMMA Rewording ==
    ASSUME NEW r \in Requests, NEW m \in Message
    PROVE  /\ Reworded(r, m).by = m.by /\ Reworded(r, m).role = m.role
           /\ Reworded(r, m).at = m.at
           /\ ~IsPivot(r, m) => Reworded(r, m) = m
BY DEF Message, Reworded

\* So the rows of the table are the same after it as before.
LEMMA EditedRows ==
    ASSUME TableShapes, NEW r \in Requests, Editing(r), NEW c \in Conversations
    PROVE  /\ \A x \in history'[c] : \E y \in history[c] :
                  /\ x.by = y.by /\ x.role = y.role /\ x.at = y.at
                  /\ x = y \/ (x = Reworded(r, y) /\ c = conv[r])
           /\ \A y \in history[c] : \E x \in history'[c] :
                  /\ x.by = y.by /\ x.role = y.role /\ x.at = y.at
                  /\ c = conv[r] => x = Reworded(r, y)
<1>1. history[c] \subseteq Message
    BY DEF TableShapes
<1>2. CASE c = conv[r]
    <2>1. history'[c] = {Reworded(r, m) : m \in history[c]}
        BY <1>2 DEF Editing, TableShapes
    <2> QED
        BY <1>1, <1>2, <2>1, Rewording
<1>3. CASE c # conv[r]
    <2>1. history'[c] = history[c]
        BY <1>3 DEF Editing, TableShapes
    <2> QED
        BY <1>3, <2>1
<1> QED
    BY <1>2, <1>3

\* Every step keeps the dates apart.
LEMMA DatesStep ==
    ASSUME TableShapes, OneReplyAtATime, TableInv, Effects
    PROVE  Dates'
<1> USE DEF TableShapes, TableInv, Onwards
<1>1. \A c \in Conversations : \A m \in history[c] :
          m.by \in Requests /\ m.at \in Nat /\ m.role \in {"user", "assistant"}
    BY Fields
<1>2. CASE Still
    <2>1. \A r \in Requests : pc'[r] = pc[r] \/ (pc[r] \notin Open /\ pc'[r] \notin Open)
        BY <1>2 DEF Still, Open
    <2> QED
        BY <1>2, <2>1 DEF Still, Dates
<1>3. CASE Restarted
    BY <1>1, <1>3 DEF Restarted, Failing, Dates, Open
<1>4. ASSUME NEW r \in Requests, GivenUp(r)
      PROVE  Dates'
    BY <1>1, <1>4 DEF GivenUp, Failing, Dates, Open
<1>5. ASSUME NEW r \in Requests, Admitted(r)
      PROVE  Dates'
    BY <1>1, <1>5 DEF Admitted, BeginTransaction, Dates, Open
<1>6. ASSUME NEW r \in Requests, Reserving(r)
      PROVE  Dates'
    BY <1>1, <1>6 DEF Reserving, Dates, Open
<1>7. ASSUME NEW r \in Requests, Reading(r)
      PROVE  Dates'
    BY <1>1, <1>7 DEF Reading, Dates, Open
<1>8. ASSUME NEW r \in Requests, Sending(r)
      PROVE  Dates'
    BY <1>1, <1>8 DEF Sending, EndTransaction, Asks, Dates, Open
<1>9. ASSUME NEW r \in Requests, Editing(r)
      PROVE  Dates'
    <2>1. ASSUME NEW c \in Conversations, NEW x \in history'[c], NEW y \in history'[c], x.at = y.at
          PROVE  x = y
        <3>1. CASE c = conv[r]
            <4>1. history'[c] = {Reworded(r, m) : m \in history[c]}
                BY <1>9, <3>1 DEF Editing
            <4>2. \A m \in history[c] : Reworded(r, m).at = m.at
                BY Rewording
            <4> QED
                BY <2>1, <4>1, <4>2 DEF Dates
        <3>2. CASE c # conv[r]
            <4>1. history'[c] = history[c]
                BY <1>9, <3>2 DEF Editing
            <4> QED
                BY <2>1, <4>1 DEF Dates
        <3> QED
            BY <3>1, <3>2
    <2>2. \A q \in Requests : began'[q] = 0 \/ began'[q] = began[q]
        BY <1>9 DEF Editing, EndTransaction
    <2>3. \A c \in Conversations : \A m \in history'[c] : \E y \in history[c] : m.at = y.at
        BY <1>9, EditedRows
    <2>4. ASSUME NEW c \in Conversations, NEW m \in history'[c]
          PROVE  0 < m.at /\ m.at <= clock' /\ \A q \in Requests : m.at # began'[q]
        <3>1. PICK y \in history[c] : m.at = y.at
            BY <2>3
        <3>2. 0 < y.at /\ y.at <= clock /\ \A q \in Requests : y.at # began[q]
            BY DEF Dates
        <3>3. clock' = clock
            BY <1>9 DEF Editing, EndTransaction
        <3> QED
            BY <2>2, <3>1, <3>2, <3>3
    <2> QED
        BY <1>9, <2>1, <2>4 DEF Editing, EndTransaction, Dates, Open
<1>10. ASSUME NEW r \in Requests, Truncating(r)
      PROVE  Dates'
    BY <1>1, <1>10 DEF Truncating, Dates, Open
<1>11. ASSUME NEW r \in Requests, Replacing(r)
      PROVE  Dates'
    BY <1>1, <1>11 DEF Replacing, EndTransaction, Dates, Open
<1>12. ASSUME NEW r \in Requests, Retrying(r)
      PROVE  Dates'
    BY <1>1, <1>12 DEF Retrying, Dates, Open
<1>13. ASSUME NEW r \in Requests, Composing(r)
      PROVE  Dates'
    BY <1>1, <1>13 DEF Composing, BeginTransaction, times, Dates, Open
<1>14. ASSUME NEW r \in Requests, Answers(r)
      PROVE  Dates'
    BY <1>1, <1>14 DEF Answers, EndTransaction, Replies, Dates, Open
<1> QED
    BY <1>2, <1>3, <1>4, <1>5, <1>6, <1>7, <1>8, <1>9, <1>10, <1>11, <1>12, <1>13,
       <1>14 DEF Effects

\* No step lets a request speak twice, nor takes the last question away.
LEMMA RowsStep ==
    ASSUME TableShapes, OneReplyAtATime, TableInv, Effects
    PROVE  Rows'
<1> USE DEF TableShapes, TableInv, Onwards
<1>1. \A c \in Conversations : \A m \in history[c] :
          m.by \in Requests /\ m.at \in Nat /\ m.role \in {"user", "assistant"}
    BY Fields
<1>2. CASE Still
    BY <1>1, <1>2 DEF Still, Failing, Rows, Spoken, Answered
<1>3. CASE Restarted
    BY <1>1, <1>3 DEF Restarted, Failing, Rows, Spoken, Answered
<1>4. ASSUME NEW r \in Requests, GivenUp(r)
      PROVE  Rows'
    <2>1. /\ UNCHANGED history
          /\ \A q \in Requests : pc[q] \in Spoken => pc'[q] \in Spoken
          /\ \A q \in Requests : pc[q] \in Answered => pc'[q] \in Answered
        BY <1>4 DEF GivenUp, Spoken, Answered
    <2> QED
        BY <1>1, <2>1 DEF Rows
<1>5. ASSUME NEW r \in Requests, Admitted(r)
      PROVE  Rows'
    <2>1. /\ UNCHANGED history
          /\ \A q \in Requests : pc[q] \in Spoken => pc'[q] \in Spoken
          /\ \A q \in Requests : pc[q] \in Answered => pc'[q] \in Answered
        BY <1>5 DEF Admitted, Spoken, Answered
    <2> QED
        BY <1>1, <2>1 DEF Rows
<1>6. ASSUME NEW r \in Requests, Reserving(r)
      PROVE  Rows'
    <2>1. /\ UNCHANGED history
          /\ \A q \in Requests : pc[q] \in Spoken => pc'[q] \in Spoken
          /\ \A q \in Requests : pc[q] \in Answered => pc'[q] \in Answered
        BY <1>6 DEF Reserving, Spoken, Answered
    <2> QED
        BY <1>1, <2>1 DEF Rows
<1>7. ASSUME NEW r \in Requests, Reading(r)
      PROVE  Rows'
    <2>1. /\ UNCHANGED history
          /\ \A q \in Requests : pc[q] \in Spoken => pc'[q] \in Spoken
          /\ \A q \in Requests : pc[q] \in Answered => pc'[q] \in Answered
        BY <1>7 DEF Reading, Spoken, Answered
    <2> QED
        BY <1>1, <2>1 DEF Rows
<1>8. ASSUME NEW r \in Requests, Sending(r)
      PROVE  Rows'
    <2>1. \A c \in Conversations : \A m \in history'[c] :
              m \in history[c] \/ (c = conv[r] /\ m = Asks(r))
        BY <1>8 DEF Sending
    <2>2. \A c \in Conversations : history[c] \subseteq history'[c]
        BY <1>8 DEF Sending
    <2>3. /\ \A q \in Requests : pc[q] \in Spoken => pc'[q] \in Spoken
          /\ \A q \in Requests : pc[q] \in Answered => pc'[q] \in Answered
          /\ pc'[r] \in Spoken
        BY <1>8 DEF Sending, Spoken, Answered
    <2>4. \A c \in Conversations : \A m \in history'[c] :
              pc'[m.by] \in (IF m.role = "user" THEN Spoken ELSE Answered)
        BY <1>1, <2>1, <2>3 DEF Asks, Rows
    <2>5. \A c \in Conversations : \A m \in history[c] : ~(m.by = r /\ m.role = Asks(r).role)
        BY <1>8 DEF Sending, Asks, Rows, Spoken, Answered
    <2>6. \A c \in Conversations : \A x, y \in history'[c] :
              x.by = y.by /\ x.role = y.role => x = y
        BY <2>1, <2>5 DEF Asks, Rows
    <2>7. \A c \in Conversations : history'[c] # {} => \E m \in history'[c] : m.role = "user"
        BY <2>1, <2>2 DEF Asks, Rows
    <2> QED
        BY <2>4, <2>6, <2>7 DEF Rows
<1>9. ASSUME NEW r \in Requests, Editing(r)
      PROVE  Rows'
    <2>1. \A c \in Conversations : \A x \in history'[c] : \E y \in history[c] :
              /\ x.by = y.by /\ x.role = y.role /\ x.at = y.at
        BY <1>9, EditedRows
    <2>2. /\ \A q \in Requests : pc[q] \in Spoken => pc'[q] \in Spoken
          /\ \A q \in Requests : pc[q] \in Answered => pc'[q] \in Answered
        BY <1>9 DEF Editing, Spoken, Answered
    <2>3. \A c \in Conversations : \A m \in history'[c] :
              pc'[m.by] \in (IF m.role = "user" THEN Spoken ELSE Answered)
        BY <1>1, <2>1, <2>2 DEF Rows
    <2>4. Dates'
        BY DatesStep
    <2>5. \A c \in Conversations : \A x, y \in history'[c] :
              x.by = y.by /\ x.role = y.role => x = y
        BY <2>1, <2>4 DEF Rows, Dates
    <2>6. \A c \in Conversations : \A y \in history[c] : \E x \in history'[c] : x.role = y.role
        BY <1>9, EditedRows
    <2>7. ASSUME NEW c \in Conversations, history'[c] # {}
          PROVE  \E m \in history'[c] : m.role = "user"
        <3>1. history[c] # {}
            BY <2>1, <2>7
        <3>2. PICK u \in history[c] : u.role = "user"
            BY <3>1 DEF Rows
        <3> QED
            BY <2>6, <3>2
    <2> QED
        BY <2>3, <2>5, <2>7 DEF Rows
<1>10. ASSUME NEW r \in Requests, Truncating(r)
      PROVE  Rows'
    <2>1. \A c \in Conversations : history'[c] \subseteq history[c]
        BY <1>10 DEF Truncating
    <2>2. /\ \A q \in Requests : pc[q] \in Spoken => pc'[q] \in Spoken
          /\ \A q \in Requests : pc[q] \in Answered => pc'[q] \in Answered
        BY <1>10 DEF Truncating, Spoken, Answered
    <2>3. /\ \A c \in Conversations : \A m \in history'[c] :
                pc'[m.by] \in (IF m.role = "user" THEN Spoken ELSE Answered)
          /\ \A c \in Conversations : \A x, y \in history'[c] :
                x.by = y.by /\ x.role = y.role => x = y
        BY <1>1, <2>1, <2>2 DEF Rows
    <2>4. \A c \in Conversations : history'[c] # {} => \E m \in history'[c] : m.role = "user"
        <3>1. PICK p \in history[conv[r]] :
                  /\ IsPivot(r, p)
                  /\ history' = [history EXCEPT ![conv[r]] = {m \in history[conv[r]] : m.at <= p.at}]
            BY <1>10 DEF Truncating
        <3>2. p \in history'[conv[r]] /\ p.role = "user"
            BY <1>1, <3>1 DEF IsPivot
        <3> QED
            BY <3>1, <3>2 DEF Rows
    <2> QED
        BY <2>3, <2>4 DEF Rows
<1>11. ASSUME NEW r \in Requests, Replacing(r)
      PROVE  Rows'
    <2>1. \A c \in Conversations : history'[c] \subseteq history[c]
        BY <1>11 DEF Replacing
    <2>2. /\ \A q \in Requests : pc[q] \in Spoken => pc'[q] \in Spoken
          /\ \A q \in Requests : pc[q] \in Answered => pc'[q] \in Answered
        BY <1>11 DEF Replacing, Spoken, Answered
    <2>3. /\ \A c \in Conversations : \A m \in history'[c] :
                pc'[m.by] \in (IF m.role = "user" THEN Spoken ELSE Answered)
          /\ \A c \in Conversations : \A x, y \in history'[c] :
                x.by = y.by /\ x.role = y.role => x = y
        BY <1>1, <2>1, <2>2 DEF Rows
    <2>4. \A c \in Conversations : history'[c] # {} => \E m \in history'[c] : m.role = "user"
        <3>1. PICK u \in seen[r] : u.role = "user"
            BY <1>11 DEF Replacing
        <3>2. seen[r] = history[conv[r]]
            BY <1>11 DEF Replacing, Held
        <3>3. ~IsLast(seen[r], u)
            BY <1>11, <3>1, <3>2, LastReply DEF Replacing
        <3>4. u \in history'[conv[r]]
            BY <1>11, <3>1, <3>2, <3>3 DEF Replacing
        <3> QED
            BY <1>11, <3>1, <3>4 DEF Replacing, Rows
    <2> QED
        BY <2>3, <2>4 DEF Rows
<1>12. ASSUME NEW r \in Requests, Retrying(r)
      PROVE  Rows'
    <2>1. /\ UNCHANGED history
          /\ \A q \in Requests : pc[q] \in Spoken => pc'[q] \in Spoken
          /\ \A q \in Requests : pc[q] \in Answered => pc'[q] \in Answered
        BY <1>12 DEF Retrying, Spoken, Answered
    <2> QED
        BY <1>1, <2>1 DEF Rows
<1>13. ASSUME NEW r \in Requests, Composing(r)
      PROVE  Rows'
    <2>1. /\ UNCHANGED history
          /\ \A q \in Requests : pc[q] \in Spoken => pc'[q] \in Spoken
          /\ \A q \in Requests : pc[q] \in Answered => pc'[q] \in Answered
        BY <1>13 DEF Composing, Spoken, Answered
    <2> QED
        BY <1>1, <2>1 DEF Rows
<1>14. ASSUME NEW r \in Requests, Answers(r)
      PROVE  Rows'
    <2>1. \A c \in Conversations : \A m \in history'[c] :
              m \in history[c] \/ (c = conv[r] /\ m = Replies(r))
        BY <1>14 DEF Answers
    <2>2. \A c \in Conversations : history[c] \subseteq history'[c]
        BY <1>14 DEF Answers
    <2>3. /\ \A q \in Requests : pc[q] \in Spoken => pc'[q] \in Spoken
          /\ \A q \in Requests : pc[q] \in Answered => pc'[q] \in Answered
          /\ pc'[r] \in Answered
        BY <1>14 DEF Answers, Spoken, Answered
    <2>4. \A c \in Conversations : \A m \in history'[c] :
              pc'[m.by] \in (IF m.role = "user" THEN Spoken ELSE Answered)
        BY <1>1, <2>1, <2>3 DEF Replies, Rows
    <2>5. \A c \in Conversations : \A m \in history[c] : ~(m.by = r /\ m.role = Replies(r).role)
        BY <1>14 DEF Answers, Replies, Rows, Spoken, Answered
    <2>6. \A c \in Conversations : \A x, y \in history'[c] :
              x.by = y.by /\ x.role = y.role => x = y
        BY <2>1, <2>5 DEF Replies, Rows
    <2>7. history[conv[r]] # {}
        BY <1>14 DEF Answers, Held
    <2>8. \A c \in Conversations : history'[c] # {} => \E m \in history'[c] : m.role = "user"
        BY <2>1, <2>2, <2>7 DEF Rows
    <2> QED
        BY <2>4, <2>6, <2>8 DEF Rows
<1> QED
    BY <1>2, <1>3, <1>4, <1>5, <1>6, <1>7, <1>8, <1>9, <1>10, <1>11, <1>12, <1>13,
       <1>14 DEF Effects

\* What the request at work has read stays so while it works.
LEMMA HeldStep ==
    ASSUME TableShapes, OneReplyAtATime, TableInv, Effects
    PROVE  Held'
<1> USE DEF TableShapes, TableInv, Onwards
<1>1. \A c \in Conversations : \A m \in history[c] :
          m.by \in Requests /\ m.at \in Nat /\ m.role \in {"user", "assistant"}
    BY Fields
<1>2. CASE Still
    BY <1>1, <1>2 DEF Still, Failing, Held, PromptStands, IsReply, Misplaced
<1>3. CASE Restarted
    BY <1>1, <1>3 DEF Restarted, Failing, Held, PromptStands, IsReply, Misplaced
<1>4. ASSUME NEW r \in Requests, GivenUp(r)
      PROVE  Held'
    BY <1>1, <1>4 DEF GivenUp, Failing, Held, PromptStands, IsReply, Misplaced
<1>5. ASSUME NEW r \in Requests, Admitted(r)
      PROVE  Held'
    BY <1>1, <1>5 DEF Admitted, BeginTransaction, Held, PromptStands, IsReply, Misplaced
<1>6. ASSUME NEW r \in Requests, Reserving(r)
      PROVE  Held'
    BY <1>1, <1>6 DEF Reserving, Held, PromptStands, IsReply, Misplaced
<1>7. ASSUME NEW r \in Requests, Reading(r)
      PROVE  Held'
    BY <1>1, <1>7 DEF Reading, Held, PromptStands, IsReply, Misplaced
<1>8. ASSUME NEW r \in Requests, Sending(r)
      PROVE  Held'
    <2>1. \A q \in Requests \ {r} : pc'[q] = pc[q] /\ seen'[q] = seen[q] /\ conv'[q] = conv[q]
        BY <1>8 DEF Sending
    <2>2. \A q \in Requests \ {r} :
              pc[q] \in Preparing \cup Running => history'[conv[q]] = history[conv[q]]
        BY <1>8, Alone DEF Sending
    <2>3. ASSUME NEW q \in Requests \ {r}
          PROVE  /\ pc'[q] \in {"read", "composed"} => seen'[q] = history'[conv'[q]]
                 /\ pc'[q] \in {"prepared", "composed"} => history'[conv'[q]] # {}
        <3>1. pc'[q] = pc[q] /\ seen'[q] = seen[q] /\ conv'[q] = conv[q]
            BY <2>1
        <3>2. /\ pc[q] \in {"read", "composed"} => seen[q] = history[conv[q]]
              /\ pc[q] \in {"prepared", "composed"} => history[conv[q]] # {}
            BY DEF Held
        <3>3. pc[q] \in {"read", "prepared", "composed"} => history'[conv[q]] = history[conv[q]]
            BY <2>2
        <3> QED
            BY <3>1, <3>2, <3>3
    <2>4. ASSUME NEW q \in Requests \ {r}, pc'[q] \in {"added"} \cup Running
          PROVE  /\ {m \in history'[conv'[q]] : ~IsReply(q, m)} = seen'[q]
                 /\ \E a \in history'[conv'[q]] :
                       /\ IsReply(q, a)
                       /\ ~Misplaced(q)' => \A m \in seen'[q] : m.at < a.at
        <3>1. /\ history'[conv'[q]] = history[conv[q]] /\ seen'[q] = seen[q]
              /\ pc[q] \in {"added"} \cup Running
            BY <2>1, <2>2, <2>4
        <3>2. Misplaced(q)' <=> Misplaced(q)
            BY <1>8 DEF Sending, Misplaced
        <3> QED
            BY <3>1, <3>2 DEF Held, PromptStands
    <2>5. pc'[r] = "prepared" /\ history'[conv'[r]] # {}
        BY <1>8 DEF Sending
    <2> QED
        BY <2>1, <2>3, <2>4, <2>5 DEF Held, PromptStands
<1>9. ASSUME NEW r \in Requests, Editing(r)
      PROVE  Held'
    <2>1. \A q \in Requests \ {r} : pc'[q] = pc[q] /\ seen'[q] = seen[q] /\ conv'[q] = conv[q]
        BY <1>9 DEF Editing
    <2>2. \A q \in Requests \ {r} :
              pc[q] \in Preparing \cup Running => history'[conv[q]] = history[conv[q]]
        BY <1>9, Alone DEF Editing
    <2>3. ASSUME NEW q \in Requests \ {r}
          PROVE  /\ pc'[q] \in {"read", "composed"} => seen'[q] = history'[conv'[q]]
                 /\ pc'[q] \in {"prepared", "composed"} => history'[conv'[q]] # {}
        <3>1. pc'[q] = pc[q] /\ seen'[q] = seen[q] /\ conv'[q] = conv[q]
            BY <2>1
        <3>2. /\ pc[q] \in {"read", "composed"} => seen[q] = history[conv[q]]
              /\ pc[q] \in {"prepared", "composed"} => history[conv[q]] # {}
            BY DEF Held
        <3>3. pc[q] \in {"read", "prepared", "composed"} => history'[conv[q]] = history[conv[q]]
            BY <2>2
        <3> QED
            BY <3>1, <3>2, <3>3
    <2>4. ASSUME NEW q \in Requests \ {r}, pc'[q] \in {"added"} \cup Running
          PROVE  /\ {m \in history'[conv'[q]] : ~IsReply(q, m)} = seen'[q]
                 /\ \E a \in history'[conv'[q]] :
                       /\ IsReply(q, a)
                       /\ ~Misplaced(q)' => \A m \in seen'[q] : m.at < a.at
        <3>1. /\ history'[conv'[q]] = history[conv[q]] /\ seen'[q] = seen[q]
              /\ pc[q] \in {"added"} \cup Running
            BY <2>1, <2>2, <2>4
        <3>2. Misplaced(q)' <=> Misplaced(q)
            BY <1>9 DEF Editing, Misplaced
        <3> QED
            BY <3>1, <3>2 DEF Held, PromptStands
    <2>5. pc'[r] = "edited"
        BY <1>9 DEF Editing
    <2> QED
        BY <2>1, <2>3, <2>4, <2>5 DEF Held, PromptStands
<1>10. ASSUME NEW r \in Requests, Truncating(r)
      PROVE  Held'
    <2>1. \A q \in Requests \ {r} : pc'[q] = pc[q] /\ seen'[q] = seen[q] /\ conv'[q] = conv[q]
        BY <1>10 DEF Truncating
    <2>2. \A q \in Requests \ {r} :
              pc[q] \in Preparing \cup Running => history'[conv[q]] = history[conv[q]]
        BY <1>10, Alone DEF Truncating
    <2>3. ASSUME NEW q \in Requests \ {r}
          PROVE  /\ pc'[q] \in {"read", "composed"} => seen'[q] = history'[conv'[q]]
                 /\ pc'[q] \in {"prepared", "composed"} => history'[conv'[q]] # {}
        <3>1. pc'[q] = pc[q] /\ seen'[q] = seen[q] /\ conv'[q] = conv[q]
            BY <2>1
        <3>2. /\ pc[q] \in {"read", "composed"} => seen[q] = history[conv[q]]
              /\ pc[q] \in {"prepared", "composed"} => history[conv[q]] # {}
            BY DEF Held
        <3>3. pc[q] \in {"read", "prepared", "composed"} => history'[conv[q]] = history[conv[q]]
            BY <2>2
        <3> QED
            BY <3>1, <3>2, <3>3
    <2>4. ASSUME NEW q \in Requests \ {r}, pc'[q] \in {"added"} \cup Running
          PROVE  /\ {m \in history'[conv'[q]] : ~IsReply(q, m)} = seen'[q]
                 /\ \E a \in history'[conv'[q]] :
                       /\ IsReply(q, a)
                       /\ ~Misplaced(q)' => \A m \in seen'[q] : m.at < a.at
        <3>1. /\ history'[conv'[q]] = history[conv[q]] /\ seen'[q] = seen[q]
              /\ pc[q] \in {"added"} \cup Running
            BY <2>1, <2>2, <2>4
        <3>2. Misplaced(q)' <=> Misplaced(q)
            BY <1>10 DEF Truncating, Misplaced
        <3> QED
            BY <3>1, <3>2 DEF Held, PromptStands
    <2>5. pc'[r] = "prepared" /\ history'[conv'[r]] # {}
        <3>1. PICK p \in history[conv[r]] :
                  history' = [history EXCEPT ![conv[r]] = {m \in history[conv[r]] : m.at <= p.at}]
            BY <1>10 DEF Truncating
        <3>2. p \in history'[conv[r]]
            BY <1>1, <3>1
        <3> QED
            BY <1>10, <3>2 DEF Truncating
    <2> QED
        BY <2>1, <2>3, <2>4, <2>5 DEF Held, PromptStands
<1>11. ASSUME NEW r \in Requests, Replacing(r)
      PROVE  Held'
    <2>1. \A q \in Requests \ {r} : pc'[q] = pc[q] /\ seen'[q] = seen[q] /\ conv'[q] = conv[q]
        BY <1>11 DEF Replacing
    <2>2. \A q \in Requests \ {r} :
              pc[q] \in Preparing \cup Running => history'[conv[q]] = history[conv[q]]
        BY <1>11, Alone DEF Replacing
    <2>3. ASSUME NEW q \in Requests \ {r}
          PROVE  /\ pc'[q] \in {"read", "composed"} => seen'[q] = history'[conv'[q]]
                 /\ pc'[q] \in {"prepared", "composed"} => history'[conv'[q]] # {}
        <3>1. pc'[q] = pc[q] /\ seen'[q] = seen[q] /\ conv'[q] = conv[q]
            BY <2>1
        <3>2. /\ pc[q] \in {"read", "composed"} => seen[q] = history[conv[q]]
              /\ pc[q] \in {"prepared", "composed"} => history[conv[q]] # {}
            BY DEF Held
        <3>3. pc[q] \in {"read", "prepared", "composed"} => history'[conv[q]] = history[conv[q]]
            BY <2>2
        <3> QED
            BY <3>1, <3>2, <3>3
    <2>4. ASSUME NEW q \in Requests \ {r}, pc'[q] \in {"added"} \cup Running
          PROVE  /\ {m \in history'[conv'[q]] : ~IsReply(q, m)} = seen'[q]
                 /\ \E a \in history'[conv'[q]] :
                       /\ IsReply(q, a)
                       /\ ~Misplaced(q)' => \A m \in seen'[q] : m.at < a.at
        <3>1. /\ history'[conv'[q]] = history[conv[q]] /\ seen'[q] = seen[q]
              /\ pc[q] \in {"added"} \cup Running
            BY <2>1, <2>2, <2>4
        <3>2. Misplaced(q)' <=> Misplaced(q)
            BY <1>11 DEF Replacing, Misplaced
        <3> QED
            BY <3>1, <3>2 DEF Held, PromptStands
    <2>5. pc'[r] = "prepared" /\ history'[conv'[r]] # {}
        <3>1. PICK u \in seen[r] : u.role = "user"
            BY <1>11 DEF Replacing
        <3>2. seen[r] = history[conv[r]]
            BY <1>11 DEF Replacing, Held
        <3>3. ~IsLast(seen[r], u)
            BY <1>11, <3>1, <3>2, LastReply DEF Replacing
        <3> QED
            BY <1>11, <3>1, <3>2, <3>3 DEF Replacing
    <2> QED
        BY <2>1, <2>3, <2>4, <2>5 DEF Held, PromptStands
<1>12. ASSUME NEW r \in Requests, Retrying(r)
      PROVE  Held'
    BY <1>1, <1>12 DEF Retrying, Held, PromptStands, IsReply, Misplaced
<1>13. ASSUME NEW r \in Requests, Composing(r)
      PROVE  Held'
    BY <1>1, <1>13 DEF Composing, BeginTransaction, times, Held, PromptStands, IsReply, Misplaced
<1>14. ASSUME NEW r \in Requests, Answers(r)
      PROVE  Held'
    <2>1. \A q \in Requests \ {r} : pc'[q] = pc[q] /\ seen'[q] = seen[q] /\ conv'[q] = conv[q]
        BY <1>14 DEF Answers
    <2>2. \A q \in Requests \ {r} :
              pc[q] \in Preparing \cup Running => history'[conv[q]] = history[conv[q]]
        BY <1>14, Alone DEF Answers
    <2>3. ASSUME NEW q \in Requests \ {r}
          PROVE  /\ pc'[q] \in {"read", "composed"} => seen'[q] = history'[conv'[q]]
                 /\ pc'[q] \in {"prepared", "composed"} => history'[conv'[q]] # {}
        <3>1. pc'[q] = pc[q] /\ seen'[q] = seen[q] /\ conv'[q] = conv[q]
            BY <2>1
        <3>2. /\ pc[q] \in {"read", "composed"} => seen[q] = history[conv[q]]
              /\ pc[q] \in {"prepared", "composed"} => history[conv[q]] # {}
            BY DEF Held
        <3>3. pc[q] \in {"read", "prepared", "composed"} => history'[conv[q]] = history[conv[q]]
            BY <2>2
        <3> QED
            BY <3>1, <3>2, <3>3
    <2>4. ASSUME NEW q \in Requests \ {r}, pc'[q] \in {"added"} \cup Running
          PROVE  /\ {m \in history'[conv'[q]] : ~IsReply(q, m)} = seen'[q]
                 /\ \E a \in history'[conv'[q]] :
                       /\ IsReply(q, a)
                       /\ ~Misplaced(q)' => \A m \in seen'[q] : m.at < a.at
        <3>1. /\ history'[conv'[q]] = history[conv[q]] /\ seen'[q] = seen[q]
              /\ pc[q] \in {"added"} \cup Running
            BY <2>1, <2>2, <2>4
        <3>2. Misplaced(q)' <=> Misplaced(q)
            BY <1>14 DEF Answers, Misplaced
        <3> QED
            BY <3>1, <3>2 DEF Held, PromptStands
    <2>5. /\ pc'[r] = "added" /\ seen'[r] = history[conv[r]] /\ conv'[r] = conv[r]
          /\ history'[conv[r]] = history[conv[r]] \cup {Replies(r)}
        BY <1>14 DEF Answers, Held
    <2>6. \A m \in history[conv[r]] : ~IsReply(r, m)
        BY <1>14 DEF Answers, IsReply, Rows, Answered
    <2>7. IsReply(r, Replies(r)) /\ Replies(r).at = began[r]
        BY DEF IsReply, Replies
    <2>8. ~Misplaced(r)' => \A m \in history[conv[r]] : m.at < began[r]
        BY <1>14 DEF Answers, Misplaced, Placed, LatePlaced, Newest, Dates, Open
    <2> QED
        BY <2>1, <2>3, <2>4, <2>5, <2>6, <2>7, <2>8 DEF Held, PromptStands
<1> QED
    BY <1>2, <1>3, <1>4, <1>5, <1>6, <1>7, <1>8, <1>9, <1>10, <1>11, <1>12, <1>13,
       <1>14 DEF Effects

\* A message nobody answered stays older than what may answer it.
LEMMA PlacedStep ==
    ASSUME TableShapes, OneReplyAtATime, TableInv, Effects
    PROVE  Placed'
<1> USE DEF TableShapes, TableInv, Onwards
<1>1. \A c \in Conversations : \A m \in history[c] :
          m.by \in Requests /\ m.at \in Nat /\ m.role \in {"user", "assistant"}
    BY Fields
<1>2. CASE Still
    BY <1>1, <1>2 DEF Still, Failing, Placed, EarlyPlaced, LatePlaced, Newest, Answering
<1>3. CASE Restarted
    BY <1>1, <1>3 DEF Restarted, Failing, Placed, EarlyPlaced, LatePlaced, Newest, Answering
<1>4. ASSUME NEW r \in Requests, GivenUp(r)
      PROVE  Placed'
    BY <1>1, <1>4 DEF GivenUp, Failing, Placed, EarlyPlaced, LatePlaced, Newest, Answering
<1>5. ASSUME NEW r \in Requests, Admitted(r)
      PROVE  Placed'
    <2>1. /\ \A q \in Requests \ {r} : pc'[q] = pc[q] /\ began'[q] = began[q]
          /\ UNCHANGED <<conv, kind, live, faults, history>>
          /\ pc[r] = "idle" /\ pc'[r] = "admitted" /\ began'[r] = clock + 1
        BY <1>5 DEF Admitted, BeginTransaction
    <2>2. ASSUME NEW q \in Requests \ {r}
          PROVE  EarlyPlaced(q)' /\ LatePlaced(q)'
        <3>1. Newest(q, history[conv[q]]) => Newest(q, history[conv[q]])'
            BY <2>1 DEF Newest
        <3>2. Answering(q) => Answering(q)'
            BY <2>1 DEF Answering
        <3> QED
            BY <2>1, <3>1, <3>2 DEF Placed, EarlyPlaced, LatePlaced
    <2>3. Newest(r, history[conv[r]])'
        BY <1>1, <2>1 DEF Newest, Dates
    <2> QED
        BY <2>1, <2>2, <2>3 DEF Placed, EarlyPlaced, LatePlaced
<1>6. ASSUME NEW r \in Requests, Reserving(r)
      PROVE  Placed'
    BY <1>1, <1>6 DEF Reserving, Placed, EarlyPlaced, LatePlaced, Newest, Answering
<1>7. ASSUME NEW r \in Requests, Reading(r)
      PROVE  Placed'
    BY <1>1, <1>7 DEF Reading, Placed, EarlyPlaced, LatePlaced, Newest, Answering
<1>8. ASSUME NEW r \in Requests, Sending(r)
      PROVE  Placed'
    <2>1. /\ \A q \in Requests \ {r} : pc'[q] = pc[q] /\ began'[q] = began[q]
          /\ UNCHANGED <<conv, kind, live, faults>>
          /\ \A c \in Conversations : c # conv[r] => history'[c] = history[c]
          /\ pc[r] \in {"admitted"} \cup Preparing \cup {"idle"}
        BY <1>8 DEF Sending, EndTransaction
    <2>2. ASSUME NEW q \in Requests \ {r}, conv[q] # conv[r]
          PROVE  EarlyPlaced(q)' /\ LatePlaced(q)'
        <3>1. history'[conv[q]] = history[conv[q]] /\ (Newest(q, history[conv[q]]) => Newest(q, history[conv[q]])')
            BY <2>1, <2>2 DEF Newest
        <3>2. Answering(q) => Answering(q)'
            BY <2>1, <2>2 DEF Answering
        <3> QED
            BY <2>1, <3>1, <3>2 DEF Placed, EarlyPlaced, LatePlaced
    <2>3. ASSUME NEW q \in Requests \ {r}, conv[q] = conv[r]
          PROVE  EarlyPlaced(q)' /\ LatePlaced(q)'
        <3>1. pc'[r] = "prepared" /\ pc'[q] \notin Preparing
            BY <1>8, <2>1, <2>3, Alone DEF Sending
        <3>2. Answering(q)'
            BY <2>1, <2>3, <3>1 DEF Answering
        <3> QED
            BY <3>1, <3>2 DEF EarlyPlaced, LatePlaced
    <2>4. EarlyPlaced(r)' /\ LatePlaced(r)'
        BY <1>8, <1>1 DEF Sending, EndTransaction, EarlyPlaced, LatePlaced, Dates, Open
    <2> QED
        BY <2>2, <2>3, <2>4 DEF Placed
<1>9. ASSUME NEW r \in Requests, Editing(r)
      PROVE  Placed'
    <2>1. /\ \A q \in Requests \ {r} : pc'[q] = pc[q] /\ began'[q] = began[q]
          /\ UNCHANGED <<conv, kind, live, faults>>
          /\ \A c \in Conversations : c # conv[r] => history'[c] = history[c]
          /\ pc[r] \in {"admitted"} \cup Preparing \cup {"idle"}
        BY <1>9 DEF Editing, EndTransaction
    <2>2. ASSUME NEW q \in Requests \ {r}, conv[q] # conv[r]
          PROVE  EarlyPlaced(q)' /\ LatePlaced(q)'
        <3>1. history'[conv[q]] = history[conv[q]] /\ (Newest(q, history[conv[q]]) => Newest(q, history[conv[q]])')
            BY <2>1, <2>2 DEF Newest
        <3>2. Answering(q) => Answering(q)'
            BY <2>1, <2>2 DEF Answering
        <3> QED
            BY <2>1, <3>1, <3>2 DEF Placed, EarlyPlaced, LatePlaced
    <2>3. ASSUME NEW q \in Requests \ {r}, conv[q] = conv[r]
          PROVE  EarlyPlaced(q)' /\ LatePlaced(q)'
        <3>1. pc'[r] = "edited" /\ pc'[q] \notin Preparing
            BY <1>9, <2>1, <2>3, Alone DEF Editing
        <3>2. Answering(q)'
            BY <2>1, <2>3, <3>1 DEF Answering
        <3> QED
            BY <3>1, <3>2 DEF EarlyPlaced, LatePlaced
    <2>4. EarlyPlaced(r)' /\ LatePlaced(r)'
        BY <1>9, <1>1 DEF Editing, EndTransaction, EarlyPlaced, LatePlaced, Dates, Open
    <2> QED
        BY <2>2, <2>3, <2>4 DEF Placed
<1>10. ASSUME NEW r \in Requests, Truncating(r)
      PROVE  Placed'
    <2>1. /\ \A q \in Requests \ {r} : pc'[q] = pc[q] /\ began'[q] = began[q]
          /\ UNCHANGED <<conv, kind, live, faults>>
          /\ \A c \in Conversations : c # conv[r] => history'[c] = history[c]
          /\ pc[r] \in {"admitted"} \cup Preparing \cup {"idle"}
        BY <1>10 DEF Truncating
    <2>2. ASSUME NEW q \in Requests \ {r}, conv[q] # conv[r]
          PROVE  EarlyPlaced(q)' /\ LatePlaced(q)'
        <3>1. history'[conv[q]] = history[conv[q]] /\ (Newest(q, history[conv[q]]) => Newest(q, history[conv[q]])')
            BY <2>1, <2>2 DEF Newest
        <3>2. Answering(q) => Answering(q)'
            BY <2>1, <2>2 DEF Answering
        <3> QED
            BY <2>1, <3>1, <3>2 DEF Placed, EarlyPlaced, LatePlaced
    <2>3. ASSUME NEW q \in Requests \ {r}, conv[q] = conv[r]
          PROVE  EarlyPlaced(q)' /\ LatePlaced(q)'
        <3>1. pc'[r] = "prepared" /\ pc'[q] \notin Preparing
            BY <1>10, <2>1, <2>3, Alone DEF Truncating
        <3>2. Answering(q)'
            BY <2>1, <2>3, <3>1 DEF Answering
        <3> QED
            BY <3>1, <3>2 DEF EarlyPlaced, LatePlaced
    <2>4. EarlyPlaced(r)' /\ LatePlaced(r)'
        BY <1>10, <1>1 DEF Truncating, EndTransaction, EarlyPlaced, LatePlaced, Dates, Open
    <2> QED
        BY <2>2, <2>3, <2>4 DEF Placed
<1>11. ASSUME NEW r \in Requests, Replacing(r)
      PROVE  Placed'
    <2>1. /\ \A q \in Requests \ {r} : pc'[q] = pc[q] /\ began'[q] = began[q]
          /\ UNCHANGED <<conv, kind, live, faults>>
          /\ \A c \in Conversations : c # conv[r] => history'[c] = history[c]
          /\ pc[r] \in {"admitted"} \cup Preparing \cup {"idle"}
        BY <1>11 DEF Replacing, EndTransaction
    <2>2. ASSUME NEW q \in Requests \ {r}, conv[q] # conv[r]
          PROVE  EarlyPlaced(q)' /\ LatePlaced(q)'
        <3>1. history'[conv[q]] = history[conv[q]] /\ (Newest(q, history[conv[q]]) => Newest(q, history[conv[q]])')
            BY <2>1, <2>2 DEF Newest
        <3>2. Answering(q) => Answering(q)'
            BY <2>1, <2>2 DEF Answering
        <3> QED
            BY <2>1, <3>1, <3>2 DEF Placed, EarlyPlaced, LatePlaced
    <2>3. ASSUME NEW q \in Requests \ {r}, conv[q] = conv[r]
          PROVE  EarlyPlaced(q)' /\ LatePlaced(q)'
        <3>1. pc'[r] = "prepared" /\ pc'[q] \notin Preparing
            BY <1>11, <2>1, <2>3, Alone DEF Replacing
        <3>2. Answering(q)'
            BY <2>1, <2>3, <3>1 DEF Answering
        <3> QED
            BY <3>1, <3>2 DEF EarlyPlaced, LatePlaced
    <2>4. EarlyPlaced(r)' /\ LatePlaced(r)'
        BY <1>11, <1>1 DEF Replacing, EndTransaction, EarlyPlaced, LatePlaced, Dates, Open
    <2> QED
        BY <2>2, <2>3, <2>4 DEF Placed
<1>12. ASSUME NEW r \in Requests, Retrying(r)
      PROVE  Placed'
    <2>1. /\ \A q \in Requests \ {r} : pc'[q] = pc[q] /\ began'[q] = began[q]
          /\ UNCHANGED <<conv, kind, live, faults>>
          /\ \A c \in Conversations : c # conv[r] => history'[c] = history[c]
          /\ pc[r] \in {"admitted"} \cup Preparing \cup {"idle"}
        BY <1>12 DEF Retrying
    <2>2. ASSUME NEW q \in Requests \ {r}, conv[q] # conv[r]
          PROVE  EarlyPlaced(q)' /\ LatePlaced(q)'
        <3>1. history'[conv[q]] = history[conv[q]] /\ (Newest(q, history[conv[q]]) => Newest(q, history[conv[q]])')
            BY <2>1, <2>2 DEF Newest
        <3>2. Answering(q) => Answering(q)'
            BY <2>1, <2>2 DEF Answering
        <3> QED
            BY <2>1, <3>1, <3>2 DEF Placed, EarlyPlaced, LatePlaced
    <2>3. ASSUME NEW q \in Requests \ {r}, conv[q] = conv[r]
          PROVE  EarlyPlaced(q)' /\ LatePlaced(q)'
        <3>1. pc'[r] = "prepared" /\ pc'[q] \notin Preparing
            BY <1>12, <2>1, <2>3, Alone DEF Retrying
        <3>2. Answering(q)'
            BY <2>1, <2>3, <3>1 DEF Answering
        <3> QED
            BY <3>1, <3>2 DEF EarlyPlaced, LatePlaced
    <2>4. EarlyPlaced(r)' /\ LatePlaced(r)'
        <3>1. seen[r] = history[conv[r]] /\ ~Answering(r)
            BY <1>12, Alone DEF Retrying, Held, Answering
        <3>2. faults > 0 \/ ~live[conv[r]] \/ Newest(r, history[conv[r]])
            BY <1>12, <3>1 DEF Retrying, Placed, EarlyPlaced
        <3>3. Newest(r, history[conv[r]]) => Newest(r, history[conv[r]])'
            BY <1>12 DEF Retrying, Newest
        <3> QED
            BY <1>12, <2>1, <3>2, <3>3 DEF Retrying, EarlyPlaced, LatePlaced
    <2> QED
        BY <2>2, <2>3, <2>4 DEF Placed
<1>13. ASSUME NEW r \in Requests, Composing(r)
      PROVE  Placed'
    <2>1. /\ \A q \in Requests \ {r} : pc'[q] = pc[q] /\ began'[q] = began[q]
          /\ UNCHANGED <<conv, kind, live, faults>>
          /\ \A c \in Conversations : c # conv[r] => history'[c] = history[c]
          /\ pc[r] \in {"admitted"} \cup Preparing \cup {"idle"}
        BY <1>13 DEF Composing, BeginTransaction, times
    <2>2. ASSUME NEW q \in Requests \ {r}, conv[q] # conv[r]
          PROVE  EarlyPlaced(q)' /\ LatePlaced(q)'
        <3>1. history'[conv[q]] = history[conv[q]] /\ (Newest(q, history[conv[q]]) => Newest(q, history[conv[q]])')
            BY <2>1, <2>2 DEF Newest
        <3>2. Answering(q) => Answering(q)'
            BY <2>1, <2>2 DEF Answering
        <3> QED
            BY <2>1, <3>1, <3>2 DEF Placed, EarlyPlaced, LatePlaced
    <2>3. ASSUME NEW q \in Requests \ {r}, conv[q] = conv[r]
          PROVE  EarlyPlaced(q)' /\ LatePlaced(q)'
        <3>1. pc'[r] = "composed" /\ pc'[q] \notin Preparing
            BY <1>13, <2>1, <2>3, Alone DEF Composing
        <3>2. Answering(q)'
            BY <2>1, <2>3, <3>1 DEF Answering
        <3> QED
            BY <3>1, <3>2 DEF EarlyPlaced, LatePlaced
    <2>4. EarlyPlaced(r)' /\ LatePlaced(r)'
        <3>1. pc[r] = "prepared" /\ pc'[r] = "composed" /\ UNCHANGED history
            BY <1>13 DEF Composing
        <3>2. CASE began[r] = 0
            <4>1. began'[r] = clock + 1
                BY <1>13, <3>2 DEF Composing, BeginTransaction
            <4>2. Newest(r, history[conv[r]])'
                BY <1>1, <2>1, <3>1, <4>1 DEF Newest, Dates
            <4> QED
                BY <3>1, <4>2 DEF EarlyPlaced, LatePlaced
        <3>3. CASE began[r] # 0
            <4>1. began'[r] = began[r]
                BY <1>13, <3>3 DEF Composing, times
            <4> QED
                BY <2>1, <3>1, <3>3, <4>1 DEF Placed, EarlyPlaced, LatePlaced, Newest
        <3> QED
            BY <3>2, <3>3
    <2> QED
        BY <2>2, <2>3, <2>4 DEF Placed
<1>14. ASSUME NEW r \in Requests, Answers(r)
      PROVE  Placed'
    <2>1. /\ \A q \in Requests \ {r} : pc'[q] = pc[q] /\ began'[q] = began[q]
          /\ UNCHANGED <<conv, kind, live, faults>>
          /\ \A c \in Conversations : c # conv[r] => history'[c] = history[c]
          /\ pc[r] \in {"admitted"} \cup Preparing \cup {"idle"}
        BY <1>14 DEF Answers, EndTransaction
    <2>2. ASSUME NEW q \in Requests \ {r}, conv[q] # conv[r]
          PROVE  EarlyPlaced(q)' /\ LatePlaced(q)'
        <3>1. history'[conv[q]] = history[conv[q]] /\ (Newest(q, history[conv[q]]) => Newest(q, history[conv[q]])')
            BY <2>1, <2>2 DEF Newest
        <3>2. Answering(q) => Answering(q)'
            BY <2>1, <2>2 DEF Answering
        <3> QED
            BY <2>1, <3>1, <3>2 DEF Placed, EarlyPlaced, LatePlaced
    <2>3. ASSUME NEW q \in Requests \ {r}, conv[q] = conv[r]
          PROVE  EarlyPlaced(q)' /\ LatePlaced(q)'
        <3>1. /\ pc[r] = "composed" /\ live[conv[r]]
              /\ history'[conv[r]] = history[conv[r]] \cup {Replies(r)}
            BY <1>14 DEF Answers
        <3>2. pc'[q] \notin Preparing
            BY <2>1, <2>3, <3>1, Alone
        <3>3. Newest(r, history[conv[r]]) \/ faults > 0
            BY <3>1 DEF Placed, LatePlaced, Dates, Open
        <3>4. Newest(r, history[conv[r]]) => EndsInReply(history'[conv[r]])
            <4>1. began[r] \in Nat /\ Replies(r).at = began[r] /\ Replies(r).role = "assistant"
                BY DEF Replies
            <4>2. ASSUME Newest(r, history[conv[r]])
                  PROVE  IsLast(history'[conv[r]], Replies(r))
                BY <1>1, <3>1, <4>1, <4>2 DEF IsLast, Newest
            <4> QED
                BY <3>1, <4>1, <4>2 DEF EndsInReply, IsLast
        <3> QED
            BY <2>1, <2>3, <3>2, <3>3, <3>4 DEF EarlyPlaced, LatePlaced
    <2>4. EarlyPlaced(r)' /\ LatePlaced(r)'
        BY <1>14 DEF Answers, EarlyPlaced, LatePlaced
    <2> QED
        BY <2>2, <2>3, <2>4 DEF Placed
<1> QED
    BY <1>2, <1>3, <1>4, <1>5, <1>6, <1>7, <1>8, <1>9, <1>10, <1>11, <1>12, <1>13,
       <1>14 DEF Effects

LEMMA TableStep ==
    ASSUME TableShapes, OneReplyAtATime, CancelOnlyInStream, TableInv, [Next]_vars
    PROVE  TableInv'
<1>1. Effects
    BY EffectsStep DEF TableInv
<1> QED
    BY <1>1, DatesStep, RowsStep, HeldStep, PlacedStep DEF TableInv

\* No step takes a message from under the reply that answered it.
LEMMA KeepEffects ==
    ASSUME TableShapes, OneReplyAtATime, TableInv, RepliesKeepTheirPrompt, Effects
    PROVE  RepliesKeepTheirPrompt'
<1> USE DEF TableShapes, TableInv, Onwards
<1>1. \A c \in Conversations : \A m \in history[c] :
          m.by \in Requests /\ m.at \in Nat /\ m.role \in {"user", "assistant"}
    BY Fields
<1>2. CASE Still
    BY <1>1, <1>2 DEF Still, Failing, RepliesKeepTheirPrompt, Above, Misplaced
<1>3. CASE Restarted
    BY <1>1, <1>3 DEF Restarted, Failing, RepliesKeepTheirPrompt, Above, Misplaced
<1>4. ASSUME NEW r \in Requests, GivenUp(r)
      PROVE  RepliesKeepTheirPrompt'
    BY <1>1, <1>4 DEF GivenUp, Failing, RepliesKeepTheirPrompt, Above, Misplaced
<1>5. ASSUME NEW r \in Requests, Admitted(r)
      PROVE  RepliesKeepTheirPrompt'
    BY <1>1, <1>5 DEF Admitted, BeginTransaction, RepliesKeepTheirPrompt, Above, Misplaced
<1>6. ASSUME NEW r \in Requests, Reserving(r)
      PROVE  RepliesKeepTheirPrompt'
    BY <1>1, <1>6 DEF Reserving, RepliesKeepTheirPrompt, Above, Misplaced
<1>7. ASSUME NEW r \in Requests, Reading(r)
      PROVE  RepliesKeepTheirPrompt'
    <2>1. \A c \in Conversations : \A a \in history[c] :
              a.role = "assistant" => a.by # r /\ seen'[a.by] = seen[a.by]
        BY <1>7, <1>1 DEF Reading, Rows, Answered
    <2>2. /\ UNCHANGED history
          /\ \A q \in Requests : Misplaced(q) <=> Misplaced(q)'
        BY <1>7 DEF Reading, Misplaced
    <2> QED
        BY <1>1, <2>1, <2>2 DEF RepliesKeepTheirPrompt, Above
<1>8. ASSUME NEW r \in Requests, Sending(r)
      PROVE  RepliesKeepTheirPrompt'
    BY <1>1, <1>8 DEF Sending, EndTransaction, Asks, RepliesKeepTheirPrompt, Above, Misplaced
<1>9. ASSUME NEW r \in Requests, Editing(r)
      PROVE  RepliesKeepTheirPrompt'
    <2>1. \A c \in Conversations : \A x \in history'[c] : \E y \in history[c] :
              /\ x.by = y.by /\ x.role = y.role /\ x.at = y.at
        BY <1>9, EditedRows
    <2>2. \A c \in Conversations : \A y \in history[c] : \E x \in history'[c] :
              /\ x.by = y.by /\ x.role = y.role /\ x.at = y.at
        BY <1>9, EditedRows
    <2>3. UNCHANGED seen /\ \A q \in Requests : Misplaced(q) <=> Misplaced(q)'
        BY <1>9 DEF Editing, Misplaced
    <2>4. ASSUME NEW c \in Conversations, NEW a \in history'[c], a.role = "assistant",
                 ~Misplaced(a.by)', NEW m \in seen'[a.by]
          PROVE  \E x \in Above(history[c], a)' : x.by = m.by /\ x.role = m.role
        <3>1. PICK b \in history[c] : a.by = b.by /\ a.role = b.role /\ a.at = b.at
            BY <2>1, <2>4
        <3>2. PICK y \in history[c] : y.at < b.at /\ y.by = m.by /\ y.role = m.role
            BY <1>1, <2>3, <2>4, <3>1 DEF RepliesKeepTheirPrompt, Above
        <3>3. PICK x \in history'[c] : x.by = y.by /\ x.role = y.role /\ x.at = y.at
            BY <2>2, <3>2
        <3> QED
            BY <3>1, <3>2, <3>3 DEF Above
    <2> QED
        BY <2>4 DEF RepliesKeepTheirPrompt
<1>10. ASSUME NEW r \in Requests, Truncating(r)
      PROVE  RepliesKeepTheirPrompt'
    BY <1>1, <1>10 DEF Truncating, RepliesKeepTheirPrompt, Above, Misplaced
<1>11. ASSUME NEW r \in Requests, Replacing(r)
      PROVE  RepliesKeepTheirPrompt'
    <2>1. /\ UNCHANGED seen
          /\ \A q \in Requests : Misplaced(q) <=> Misplaced(q)'
          /\ \A c \in Conversations : history'[c] \subseteq history[c]
        BY <1>11 DEF Replacing, Misplaced
    <2>2. ASSUME NEW c \in Conversations, NEW a \in history'[c], NEW x \in history[c], x.at < a.at
          PROVE  x \in history'[c]
        <3>1. CASE c = conv[r]
            <4>1. seen[r] = history[c] /\ a \in history[c]
                BY <1>11, <2>1, <3>1 DEF Replacing, Held
            <4>2. ~IsLast(seen[r], x)
                BY <1>1, <2>2, <4>1 DEF IsLast
            <4> QED
                BY <1>11, <3>1, <4>2 DEF Replacing
        <3>2. CASE c # conv[r]
            BY <1>11, <3>2 DEF Replacing
        <3> QED
            BY <3>1, <3>2
    <2>3. \A c \in Conversations : \A a \in history'[c] :
              Above(history[c], a) \subseteq Above(history[c], a)'
        BY <2>2 DEF Above
    <2> QED
        BY <1>1, <2>1, <2>3 DEF RepliesKeepTheirPrompt
<1>12. ASSUME NEW r \in Requests, Retrying(r)
      PROVE  RepliesKeepTheirPrompt'
    BY <1>1, <1>12 DEF Retrying, RepliesKeepTheirPrompt, Above, Misplaced
<1>13. ASSUME NEW r \in Requests, Composing(r)
      PROVE  RepliesKeepTheirPrompt'
    <2>1. \A c \in Conversations : \A a \in history[c] :
              a.role = "assistant" => a.by # r /\ seen'[a.by] = seen[a.by]
        BY <1>13, <1>1 DEF Composing, Rows, Answered
    <2>2. /\ UNCHANGED history
          /\ \A q \in Requests : Misplaced(q) <=> Misplaced(q)'
        BY <1>13 DEF Composing, Misplaced
    <2> QED
        BY <1>1, <2>1, <2>2 DEF RepliesKeepTheirPrompt, Above
<1>14. ASSUME NEW r \in Requests, Answers(r)
      PROVE  RepliesKeepTheirPrompt'
    <2>1. /\ UNCHANGED seen
          /\ \A q \in Requests : Misplaced(q) <=> Misplaced(q)'
          /\ \A c \in Conversations : history[c] \subseteq history'[c]
          /\ \A c \in Conversations : \A a \in history'[c] :
                a \in history[c] \/ (c = conv[r] /\ a = Replies(r))
        BY <1>14 DEF Answers, Misplaced
    <2>2. Replies(r).by = r /\ Replies(r).at = began[r]
        BY DEF Replies
    <2>3. seen[r] = history[conv[r]] /\ began[r] # 0
        BY <1>14 DEF Answers, Held, Dates, Open
    <2>4. ~Misplaced(r) => Newest(r, history[conv[r]])
        BY <1>14, <2>3 DEF Answers, Placed, LatePlaced, Misplaced
    <2>5. ~Misplaced(r) => \A m \in seen[r] : m \in history'[conv[r]] /\ m.at < Replies(r).at
        BY <2>1, <2>2, <2>3, <2>4 DEF Newest
    <2>6. ASSUME NEW c \in Conversations, NEW a \in history'[c], a.role = "assistant",
                 ~Misplaced(a.by)', NEW m \in seen'[a.by]
          PROVE  \E x \in Above(history[c], a)' : x.by = m.by /\ x.role = m.role
        <3>1. CASE a \in history[c]
            BY <1>1, <2>1, <2>6, <3>1 DEF RepliesKeepTheirPrompt, Above
        <3>2. CASE c = conv[r] /\ a = Replies(r)
            <4>1. ~Misplaced(r) /\ m \in seen[r]
                BY <2>1, <2>2, <2>6, <3>2
            <4>2. m \in Above(history[c], a)'
                BY <2>5, <3>2, <4>1 DEF Above
            <4> QED
                BY <4>2
        <3> QED
            BY <2>1, <2>6, <3>1, <3>2
    <2> QED
        BY <2>6 DEF RepliesKeepTheirPrompt
<1> QED
    BY <1>2, <1>3, <1>4, <1>5, <1>6, <1>7, <1>8, <1>9, <1>10, <1>11, <1>12, <1>13,
       <1>14 DEF Effects

\* Without a failure no step takes a reply from its place.
LEMMA StandEffects ==
    ASSUME TableShapes, OneReplyAtATime, TableInv, StandInv, Effects
    PROVE  StandInv'
<1> USE DEF TableShapes, TableInv, Onwards
<1>1. \A c \in Conversations : \A m \in history[c] :
          m.by \in Requests /\ m.at \in Nat /\ m.role \in {"user", "assistant"}
    BY Fields
<1>2. CASE Still
    BY <1>1, <1>2 DEF Still, Failing, StandInv, StandsIn, Doomed, Above, IsPivot
<1>3. CASE Restarted
    BY <1>1, <1>3 DEF Restarted, Failing, StandInv, StandsIn, Doomed, Above, IsPivot
<1>4. ASSUME NEW r \in Requests, GivenUp(r)
      PROVE  StandInv'
    BY <1>1, <1>4 DEF GivenUp, Failing, StandInv, StandsIn, Doomed, Above, IsPivot
<1>5. ASSUME NEW r \in Requests, Admitted(r)
      PROVE  StandInv'
    BY <1>1, <1>5 DEF Admitted, BeginTransaction, StandInv, StandsIn, Doomed, Above, IsPivot
<1>6. ASSUME NEW r \in Requests, Reserving(r)
      PROVE  StandInv'
    BY <1>1, <1>6 DEF Reserving, StandInv, StandsIn, Doomed, Above, IsPivot
<1>7. ASSUME NEW r \in Requests, Reading(r)
      PROVE  StandInv'
    <2>1. /\ UNCHANGED <<conv, faults, crashes, pivot>>
          /\ \A q \in Requests \ {r} : pc'[q] = pc[q] /\ seen'[q] = seen[q]
          /\ \A c \in Conversations : c # conv[r] => history'[c] = history[c]
          /\ pc[r] \in Preparing \ {"added"}
        BY <1>7 DEF Reading
    <2> SUFFICES ASSUME faults = 0, crashes = 0, NEW c \in Conversations,
                        NEW a \in history'[c], a.role = "assistant"
                 PROVE  StandsIn(c, a)' \/ Doomed(c, a)'
        BY <2>1 DEF StandInv
    <2>8. CASE c # conv[r]
        <3>1. a \in history[c] /\ history'[c] = history[c] /\ a.by # r
            <4>1. a \in history[c] /\ history'[c] = history[c]
                BY <2>1, <2>8
            <4>2. pc[a.by] \in Answered
                BY <4>1 DEF Rows
            <4> QED
                BY <2>1, <4>1, <4>2 DEF Answered
        <3>2. StandsIn(c, a) => StandsIn(c, a)'
            BY <1>1, <2>1, <3>1 DEF StandsIn, Above
        <3>3. Doomed(c, a) => Doomed(c, a)'
            BY <2>1, <2>8, <3>1 DEF Doomed, Above, IsPivot
        <3> QED
            BY <3>1, <3>2, <3>3 DEF StandInv
    <2>9. CASE c = conv[r]
        <3>1. a \in history[c] /\ history'[c] = history[c] /\ a.by # r
            <4>1. a \in history[c] /\ history'[c] = history[c]
                BY <1>7 DEF Reading
            <4>2. pc[a.by] \in Answered
                BY <4>1 DEF Rows
            <4> QED
                BY <2>1, <4>1, <4>2 DEF Answered
        <3>2. StandsIn(c, a) => StandsIn(c, a)'
            BY <1>1, <2>1, <3>1 DEF StandsIn, Above
        <3>3. Doomed(c, a) => Doomed(c, a)'
            <4>1. pc[r] # "edited"
                BY <1>7 DEF Reading
            <4> QED
                BY <2>1, <3>1, <4>1 DEF Doomed, Above, IsPivot
        <3> QED
            BY <3>1, <3>2, <3>3 DEF StandInv
    <2> QED
        BY <2>8, <2>9
<1>8. ASSUME NEW r \in Requests, Sending(r)
      PROVE  StandInv'
    <2>1. /\ UNCHANGED <<conv, faults, crashes, pivot>>
          /\ \A q \in Requests \ {r} : pc'[q] = pc[q] /\ seen'[q] = seen[q]
          /\ \A c \in Conversations : c # conv[r] => history'[c] = history[c]
          /\ pc[r] \in Preparing \ {"added"}
        BY <1>8 DEF Sending
    <2> SUFFICES ASSUME faults = 0, crashes = 0, NEW c \in Conversations,
                        NEW a \in history'[c], a.role = "assistant"
                 PROVE  StandsIn(c, a)' \/ Doomed(c, a)'
        BY <2>1 DEF StandInv
    <2>8. CASE c # conv[r]
        <3>1. a \in history[c] /\ history'[c] = history[c] /\ a.by # r
            <4>1. a \in history[c] /\ history'[c] = history[c]
                BY <2>1, <2>8
            <4>2. pc[a.by] \in Answered
                BY <4>1 DEF Rows
            <4> QED
                BY <2>1, <4>1, <4>2 DEF Answered
        <3>2. StandsIn(c, a) => StandsIn(c, a)'
            BY <1>1, <2>1, <3>1 DEF StandsIn, Above
        <3>3. Doomed(c, a) => Doomed(c, a)'
            BY <2>1, <2>8, <3>1 DEF Doomed, Above, IsPivot
        <3> QED
            BY <3>1, <3>2, <3>3 DEF StandInv
    <2>9. CASE c = conv[r]
        <3>1. /\ history'[c] = history[c] \cup {Asks(r)} /\ Asks(r).role = "user"
              /\ \A x \in history[c] : ~IsReply(r, x)
            BY <1>8, <2>1, <2>9 DEF Sending, Asks, IsReply, Rows, Answered
        <3>2. a \in history[c] /\ a.by # r
            BY <2>1, <3>1 DEF IsReply, Rows, Answered
        <3>3. ASSUME StandsIn(c, a)
              PROVE  StandsIn(c, a)'
            <4>1. seen'[a.by] = seen[a.by]
                BY <1>1, <2>1, <3>2
            <4>2. \A x : x \in Above(history[c], a)' <=>
                          x \in Above(history[c], a) \/ (x = Asks(r) /\ x.at < a.at)
                BY <3>1 DEF Above
            <4>3. \A q : ~IsReply(q, Asks(r))
                BY <3>1 DEF IsReply
            <4>4. Asks(r).by = r
                BY DEF Asks
            <4>5. \A x \in Above(history[c], a) : ~IsReply(r, x)
                BY <3>1 DEF Above
            <4>6. seen'[a.by] \subseteq Above(history[c], a)'
                BY <3>3, <4>1, <4>2 DEF StandsIn
            <4>7. ASSUME NEW q \in Above(history[c], a)', q \notin seen[a.by],
                         NEW x \in Above(history[c], a)'
                  PROVE  q.role = "user" /\ ~IsReply(q.by, x)
                <5>1. CASE q = Asks(r)
                    <6>1. q.by = r /\ q.role = "user"
                        BY <3>1, <4>4, <5>1
                    <6>2. x = Asks(r) \/ x \in Above(history[c], a)
                        BY <4>2, <4>7
                    <6>3. ~IsReply(r, x)
                        BY <4>3, <4>5, <6>2
                    <6> QED
                        BY <6>1, <6>3
                <5>2. CASE q \in Above(history[c], a)
                    BY <3>3, <4>2, <4>3, <4>7, <5>2 DEF StandsIn
                <5> QED
                    BY <4>2, <4>7, <5>1, <5>2
            <4> QED
                BY <4>1, <4>6, <4>7 DEF StandsIn
        <3>4. Doomed(c, a) => Doomed(c, a)'
            <4>1. pc[r] # "edited"
                BY <1>8 DEF Sending
            <4> QED
                BY <2>1, <3>1, <4>1 DEF Doomed, Above, IsPivot
        <3> QED
            BY <3>2, <3>3, <3>4 DEF StandInv
    <2> QED
        BY <2>8, <2>9
<1>9. ASSUME NEW r \in Requests, Editing(r)
      PROVE  StandInv'
    <2>1. /\ UNCHANGED <<conv, faults, crashes, pivot>>
          /\ \A q \in Requests \ {r} : pc'[q] = pc[q] /\ seen'[q] = seen[q]
          /\ \A c \in Conversations : c # conv[r] => history'[c] = history[c]
          /\ pc[r] \in Preparing \ {"added"}
        BY <1>9 DEF Editing
    <2> SUFFICES ASSUME faults = 0, crashes = 0, NEW c \in Conversations,
                        NEW a \in history'[c], a.role = "assistant"
                 PROVE  StandsIn(c, a)' \/ Doomed(c, a)'
        BY <2>1 DEF StandInv
    <2>8. CASE c # conv[r]
        <3>1. a \in history[c] /\ history'[c] = history[c] /\ a.by # r
            <4>1. a \in history[c] /\ history'[c] = history[c]
                BY <2>1, <2>8
            <4>2. pc[a.by] \in Answered
                BY <4>1 DEF Rows
            <4> QED
                BY <2>1, <4>1, <4>2 DEF Answered
        <3>2. StandsIn(c, a) => StandsIn(c, a)'
            BY <1>1, <2>1, <3>1 DEF StandsIn, Above
        <3>3. Doomed(c, a) => Doomed(c, a)'
            BY <2>1, <2>8, <3>1 DEF Doomed, Above, IsPivot
        <3> QED
            BY <3>1, <3>2, <3>3 DEF StandInv
    <2>9. CASE c = conv[r]
        <3>1. /\ pc[r] = "read" /\ pc'[r] = "edited" /\ UNCHANGED seen
              /\ history'[c] = {Reworded(r, m) : m \in history[c]}
            BY <1>9, <2>9 DEF Editing
        <3>2. a \in history[c]
            <4>1. PICK b \in history[c] : a = Reworded(r, b)
                BY <3>1
            <4> QED
                BY <4>1, Rewording DEF IsPivot
        <3>3. CASE \E p \in Above(history[c], a) : IsPivot(r, p)
            <4>1. PICK p \in history[c] : p.at < a.at /\ IsPivot(r, p)
                BY <3>3 DEF Above
            <4>2. /\ Reworded(r, p) \in history'[c] /\ Reworded(r, p).at = p.at
                  /\ Reworded(r, p).by = p.by /\ Reworded(r, p).role = p.role
                BY <3>1, <4>1, Rewording
            <4>3. /\ Reworded(r, p) \in {x \in history'[c] : x.at < a.at}
                  /\ IsPivot(r, Reworded(r, p)) /\ pivot'[r] = pivot[r]
                BY <2>1, <4>1, <4>2 DEF IsPivot
            <4> HIDE DEF Reworded
            <4>4. Doomed(c, a)'
                BY <2>1, <2>9, <3>1, <4>3 DEF Doomed, Above, IsPivot
            <4> QED
                BY <4>4
        <3>4. CASE ~ \E p \in Above(history[c], a) : IsPivot(r, p)
            <4>1. \A x \in history[c] : x.at < a.at => Reworded(r, x) = x
                BY <3>4, Rewording DEF Above
            <4>2. \A x \in history[c] : Reworded(r, x).at = x.at
                BY Rewording
            <4>3. {x \in history'[c] : x.at < a.at} = Above(history[c], a)
                BY <3>1, <4>1, <4>2 DEF Above
            <4>4. ~Doomed(c, a)
                BY <2>9, <3>1, Alone DEF Doomed
            <4>5. StandsIn(c, a)
                BY <3>2, <4>4 DEF StandInv
            <4>6. Above(history[c], a)' = Above(history[c], a) /\ seen'[a.by] = seen[a.by]
                BY <3>1, <4>3 DEF Above
            <4> QED
                BY <4>5, <4>6 DEF StandsIn
        <3> QED
            BY <3>3, <3>4
    <2> QED
        BY <2>8, <2>9
<1>10. ASSUME NEW r \in Requests, Truncating(r)
      PROVE  StandInv'
    <2>1. /\ UNCHANGED <<conv, faults, crashes, pivot>>
          /\ \A q \in Requests \ {r} : pc'[q] = pc[q] /\ seen'[q] = seen[q]
          /\ \A c \in Conversations : c # conv[r] => history'[c] = history[c]
          /\ pc[r] \in Preparing \ {"added"}
        BY <1>10 DEF Truncating
    <2> SUFFICES ASSUME faults = 0, crashes = 0, NEW c \in Conversations,
                        NEW a \in history'[c], a.role = "assistant"
                 PROVE  StandsIn(c, a)' \/ Doomed(c, a)'
        BY <2>1 DEF StandInv
    <2>8. CASE c # conv[r]
        <3>1. a \in history[c] /\ history'[c] = history[c] /\ a.by # r
            <4>1. a \in history[c] /\ history'[c] = history[c]
                BY <2>1, <2>8
            <4>2. pc[a.by] \in Answered
                BY <4>1 DEF Rows
            <4> QED
                BY <2>1, <4>1, <4>2 DEF Answered
        <3>2. StandsIn(c, a) => StandsIn(c, a)'
            BY <1>1, <2>1, <3>1 DEF StandsIn, Above
        <3>3. Doomed(c, a) => Doomed(c, a)'
            BY <2>1, <2>8, <3>1 DEF Doomed, Above, IsPivot
        <3> QED
            BY <3>1, <3>2, <3>3 DEF StandInv
    <2>9. CASE c = conv[r]
        <3>1. PICK p \in history[c] : /\ IsPivot(r, p)
                                     /\ history'[c] = {m \in history[c] : m.at <= p.at}
            BY <1>10, <2>9 DEF Truncating
        <3>2. a \in history[c] /\ a.at < p.at /\ UNCHANGED seen
            <4>1. a \in history[c] /\ a.at <= p.at /\ a # p
                BY <3>1 DEF IsPivot
            <4>2. a.at # p.at
                BY <4>1 DEF Dates
            <4>3. UNCHANGED seen
                BY <1>10 DEF Truncating
            <4> QED
                BY <1>1, <4>1, <4>2, <4>3
        <3>3. \A q \in Requests : conv[q] = c /\ pc[q] = "edited" => q = r
            BY <1>10, <2>9, Alone DEF Truncating
        <3>4. \A x \in history[c] : IsPivot(r, x) => x = p
            BY <3>1 DEF IsPivot, Rows
        <3>5. ~Doomed(c, a)
            BY <1>1, <3>2, <3>3, <3>4 DEF Doomed, Above
        <3>6. {x \in history'[c] : x.at < a.at} = {x \in history[c] : x.at < a.at}
            BY <1>1, <3>1, <3>2
        <3>7. Above(history[c], a)' = Above(history[c], a)
            BY <3>6 DEF Above
        <3> QED
            BY <3>2, <3>5, <3>7 DEF StandInv, StandsIn
    <2> QED
        BY <2>8, <2>9
<1>11. ASSUME NEW r \in Requests, Replacing(r)
      PROVE  StandInv'
    <2>1. /\ UNCHANGED <<conv, faults, crashes, pivot>>
          /\ \A q \in Requests \ {r} : pc'[q] = pc[q] /\ seen'[q] = seen[q]
          /\ \A c \in Conversations : c # conv[r] => history'[c] = history[c]
          /\ pc[r] \in Preparing \ {"added"}
        BY <1>11 DEF Replacing
    <2> SUFFICES ASSUME faults = 0, crashes = 0, NEW c \in Conversations,
                        NEW a \in history'[c], a.role = "assistant"
                 PROVE  StandsIn(c, a)' \/ Doomed(c, a)'
        BY <2>1 DEF StandInv
    <2>8. CASE c # conv[r]
        <3>1. a \in history[c] /\ history'[c] = history[c] /\ a.by # r
            <4>1. a \in history[c] /\ history'[c] = history[c]
                BY <2>1, <2>8
            <4>2. pc[a.by] \in Answered
                BY <4>1 DEF Rows
            <4> QED
                BY <2>1, <4>1, <4>2 DEF Answered
        <3>2. StandsIn(c, a) => StandsIn(c, a)'
            BY <1>1, <2>1, <3>1 DEF StandsIn, Above
        <3>3. Doomed(c, a) => Doomed(c, a)'
            BY <2>1, <2>8, <3>1 DEF Doomed, Above, IsPivot
        <3> QED
            BY <3>1, <3>2, <3>3 DEF StandInv
    <2>9. CASE c = conv[r]
        <3>1. /\ pc[r] = "read" /\ seen[r] = history[c] /\ UNCHANGED seen
              /\ history'[c] = {m \in history[c] : ~IsLast(seen[r], m)}
            BY <1>11, <2>9 DEF Replacing, Held
        <3>2. a \in history[c]
            BY <3>1
        <3>3. \A x \in history[c] : x.at < a.at => ~IsLast(seen[r], x)
            BY <1>1, <3>1, <3>2 DEF IsLast
        <3>4. {x \in history'[c] : x.at < a.at} = {x \in history[c] : x.at < a.at}
            BY <3>1, <3>3
        <3>5. Above(history[c], a)' = Above(history[c], a)
            BY <3>4 DEF Above
        <3>6. ~Doomed(c, a)
            BY <2>9, <3>1, Alone DEF Doomed
        <3> QED
            BY <3>1, <3>2, <3>5, <3>6 DEF StandInv, StandsIn
    <2> QED
        BY <2>8, <2>9
<1>12. ASSUME NEW r \in Requests, Retrying(r)
      PROVE  StandInv'
    BY <1>1, <1>12 DEF Retrying, StandInv, StandsIn, Doomed, Above, IsPivot
<1>13. ASSUME NEW r \in Requests, Composing(r)
      PROVE  StandInv'
    <2>1. /\ UNCHANGED <<conv, faults, crashes, pivot>>
          /\ \A q \in Requests \ {r} : pc'[q] = pc[q] /\ seen'[q] = seen[q]
          /\ \A c \in Conversations : c # conv[r] => history'[c] = history[c]
          /\ pc[r] \in Preparing \ {"added"}
        BY <1>13 DEF Composing
    <2> SUFFICES ASSUME faults = 0, crashes = 0, NEW c \in Conversations,
                        NEW a \in history'[c], a.role = "assistant"
                 PROVE  StandsIn(c, a)' \/ Doomed(c, a)'
        BY <2>1 DEF StandInv
    <2>8. CASE c # conv[r]
        <3>1. a \in history[c] /\ history'[c] = history[c] /\ a.by # r
            <4>1. a \in history[c] /\ history'[c] = history[c]
                BY <2>1, <2>8
            <4>2. pc[a.by] \in Answered
                BY <4>1 DEF Rows
            <4> QED
                BY <2>1, <4>1, <4>2 DEF Answered
        <3>2. StandsIn(c, a) => StandsIn(c, a)'
            BY <1>1, <2>1, <3>1 DEF StandsIn, Above
        <3>3. Doomed(c, a) => Doomed(c, a)'
            BY <2>1, <2>8, <3>1 DEF Doomed, Above, IsPivot
        <3> QED
            BY <3>1, <3>2, <3>3 DEF StandInv
    <2>9. CASE c = conv[r]
        <3>1. a \in history[c] /\ history'[c] = history[c] /\ a.by # r
            <4>1. a \in history[c] /\ history'[c] = history[c]
                BY <1>13 DEF Composing
            <4>2. pc[a.by] \in Answered
                BY <4>1 DEF Rows
            <4> QED
                BY <2>1, <4>1, <4>2 DEF Answered
        <3>2. StandsIn(c, a) => StandsIn(c, a)'
            BY <1>1, <2>1, <3>1 DEF StandsIn, Above
        <3>3. Doomed(c, a) => Doomed(c, a)'
            <4>1. pc[r] # "edited"
                BY <1>13 DEF Composing
            <4> QED
                BY <2>1, <3>1, <4>1 DEF Doomed, Above, IsPivot
        <3> QED
            BY <3>1, <3>2, <3>3 DEF StandInv
    <2> QED
        BY <2>8, <2>9
<1>14. ASSUME NEW r \in Requests, Answers(r)
      PROVE  StandInv'
    <2>1. /\ UNCHANGED <<conv, faults, crashes, pivot>>
          /\ \A q \in Requests \ {r} : pc'[q] = pc[q] /\ seen'[q] = seen[q]
          /\ \A c \in Conversations : c # conv[r] => history'[c] = history[c]
          /\ pc[r] \in Preparing \ {"added"}
        BY <1>14 DEF Answers
    <2> SUFFICES ASSUME faults = 0, crashes = 0, NEW c \in Conversations,
                        NEW a \in history'[c], a.role = "assistant"
                 PROVE  StandsIn(c, a)' \/ Doomed(c, a)'
        BY <2>1 DEF StandInv
    <2>8. CASE c # conv[r]
        <3>1. a \in history[c] /\ history'[c] = history[c] /\ a.by # r
            <4>1. a \in history[c] /\ history'[c] = history[c]
                BY <2>1, <2>8
            <4>2. pc[a.by] \in Answered
                BY <4>1 DEF Rows
            <4> QED
                BY <2>1, <4>1, <4>2 DEF Answered
        <3>2. StandsIn(c, a) => StandsIn(c, a)'
            BY <1>1, <2>1, <3>1 DEF StandsIn, Above
        <3>3. Doomed(c, a) => Doomed(c, a)'
            BY <2>1, <2>8, <3>1 DEF Doomed, Above, IsPivot
        <3> QED
            BY <3>1, <3>2, <3>3 DEF StandInv
    <2>9. CASE c = conv[r]
        <3>1. /\ pc[r] = "composed" /\ seen[r] = history[c] /\ UNCHANGED seen
              /\ history'[c] = history[c] \cup {Replies(r)} /\ began[r] # 0 /\ live[c]
            BY <1>14, <2>9 DEF Answers, Held, Dates, Open
        <3>2. Replies(r).by = r /\ Replies(r).at = began[r]
            BY DEF Replies
        <3>3. \A m \in history[c] : m.at < began[r]
            BY <2>9, <3>1 DEF Placed, LatePlaced, Newest
        <3>4. CASE a = Replies(r)
            <4>1. {x \in history'[c] : x.at < a.at} = seen[r]
                BY <3>1, <3>2, <3>3, <3>4
            <4>2. Above(history[c], a)' = seen'[a.by]
                BY <3>1, <3>2, <3>4, <4>1 DEF Above
            <4> QED
                BY <4>2 DEF StandsIn
        <3>5. CASE a \in history[c]
            <4>1. {x \in history'[c] : x.at < a.at} = {x \in history[c] : x.at < a.at}
                BY <1>1, <3>1, <3>2, <3>3, <3>5
            <4>2. Above(history[c], a)' = Above(history[c], a)
                BY <4>1 DEF Above
            <4>3. ~Doomed(c, a)
                BY <2>9, <3>1, Alone DEF Doomed
            <4> QED
                BY <3>1, <3>5, <4>2, <4>3 DEF StandInv, StandsIn
        <3> QED
            BY <3>1, <3>4, <3>5
    <2> QED
        BY <2>8, <2>9
<1> QED
    BY <1>2, <1>3, <1>4, <1>5, <1>6, <1>7, <1>8, <1>9, <1>10, <1>11, <1>12, <1>13,
       <1>14 DEF Effects

LEMMA KeepStep ==
    ASSUME TableShapes, OneReplyAtATime, CancelOnlyInStream, TableInv, RepliesKeepTheirPrompt, [Next]_vars
    PROVE  RepliesKeepTheirPrompt'
<1>1. Effects
    BY EffectsStep DEF TableInv
<1> QED
    BY <1>1, KeepEffects

LEMMA StandStep ==
    ASSUME TableShapes, OneReplyAtATime, CancelOnlyInStream, TableInv, StandInv, [Next]_vars
    PROVE  StandInv'
<1>1. Effects
    BY EffectsStep DEF TableInv
<1> QED
    BY <1>1, StandEffects

-----------------------------------------------------------------------------
(* Titles and stops                                                        *)

\* One request of a conversation, its first, may ever title it.
TitleInv ==
    /\ \A r \in Requests : titling[r] # "none" => history[conv[r]] # {}
    /\ \A r, q \in Requests : conv[r] = conv[q] /\ titling[r] # "none" /\ titling[q] # "none" => r = q

TitleShapes == TableShapes /\ titling \in [Requests -> {"none", "wanted", "pending", "done"}]

LEMMA TypeTitleShapes == TypeOK => TitleShapes
    BY TypeTableShapes DEF TypeOK, TitleShapes, TaskType

\* No step empties a conversation.
LEMMA NeverEmptied ==
    ASSUME TableShapes, Dates, Rows, Held, Effects, NEW c \in Conversations, history[c] # {}
    PROVE  history'[c] # {}
<1> USE DEF TableShapes, Onwards
<1>1. CASE Still \/ Restarted
    BY <1>1 DEF Still, Restarted
<1>2. ASSUME NEW r \in Requests,
             \/ GivenUp(r) \/ Admitted(r) \/ Reserving(r) \/ Reading(r) \/ Retrying(r)
             \/ Composing(r)
      PROVE  history'[c] # {}
    BY <1>2 DEF GivenUp, Admitted, Reserving, Reading, Retrying, Composing
<1>3. ASSUME NEW r \in Requests, Sending(r) \/ Answers(r)
      PROVE  history'[c] # {}
    BY <1>3 DEF Sending, Answers
<1>4. ASSUME NEW r \in Requests, Editing(r)
      PROVE  history'[c] # {}
    <2>1. PICK m \in history[c] : TRUE
        OBVIOUS
    <2>2. m \in history'[c] \/ Reworded(r, m) \in history'[c]
        BY <1>4 DEF Editing
    <2> QED
        BY <2>2
<1>5. ASSUME NEW r \in Requests, Truncating(r)
      PROVE  history'[c] # {}
    <2>1. PICK p \in history[conv[r]] :
              history' = [history EXCEPT ![conv[r]] = {m \in @ : m.at <= p.at}]
        BY <1>5 DEF Truncating
    <2>2. p.at \in Nat
        BY Fields
    <2> QED
        BY <2>1, <2>2
<1>6. ASSUME NEW r \in Requests, Replacing(r)
      PROVE  history'[c] # {}
    <2>1. PICK u \in seen[r] : u.role = "user"
        BY <1>6 DEF Replacing
    <2>2. u \in history[conv[r]] /\ seen[r] = history[conv[r]]
        BY <1>6, <2>1 DEF Replacing, Held
    <2>3. ~IsLast(seen[r], u)
        BY <1>6, <2>1, <2>2, LastReply DEF Replacing
    <2> QED
        BY <1>6, <2>2, <2>3 DEF Replacing
<1> QED
    BY <1>1, <1>2, <1>3, <1>4, <1>5, <1>6 DEF Effects

\* Only a first message asks for a title, and no history is ever empty again.
LEMMA TitleStep ==
    ASSUME TitleShapes, CancelOnlyInStream, TableInv, TitleInv, [Next]_vars
    PROVE  TitleInv'
<1> USE DEF TitleShapes, TableShapes
<1>1. \A c \in Conversations : history[c] # {} => history'[c] # {}
    BY NeverEmptied, EffectsStep DEF TableInv
<1>2. UNCHANGED conv
    BY EffectsStep DEF TableInv, Effects, Still, Restarted, GivenUp, Admitted, Reserving,
       Reading, Sending, Editing, Truncating, Replacing, Retrying, Composing, Answers, Onwards
<1>3. ASSUME NEW r \in Requests, PrepareSend(r), live[conv[r]], seen[r] = {}
      PROVE  TitleInv'
    <2>1. /\ titling' = [titling EXCEPT ![r] = "wanted"]
          /\ history' = [history EXCEPT ![conv[r]] = @ \cup {Asks(r)}]
          /\ pc[r] = "read"
        BY <1>3 DEF PrepareSend
    <2>2. history[conv[r]] = {}
        BY <1>3, <2>1 DEF TableInv, Held
    <2>3. \A q \in Requests : conv[q] = conv[r] => titling[q] = "none"
        BY <2>2 DEF TitleInv
    <2>4. \A q \in Requests : titling'[q] # "none" => history'[conv[q]] # {}
        BY <1>1, <2>1 DEF TitleInv
    <2>5. \A q, p \in Requests : conv[q] = conv[p] /\ titling'[q] # "none" /\ titling'[p] # "none" => q = p
        BY <2>1, <2>3 DEF TitleInv
    <2> QED
        BY <1>2, <2>4, <2>5 DEF TitleInv
<1>4. ASSUME \A q \in Requests : titling'[q] # "none" => titling[q] # "none"
      PROVE  TitleInv'
    BY <1>1, <1>2, <1>4 DEF TitleInv
<1> USE DEF db, request, task
<1>5. ASSUME NEW r \in Requests, Admit(r)
      PROVE  TitleInv'
    BY <1>4, <1>5 DEF Admit
<1>6. ASSUME NEW r \in Requests, Reserve(r)
      PROVE  TitleInv'
    BY <1>4, <1>6 DEF Reserve
<1>7. ASSUME NEW r \in Requests, ReadHistory(r)
      PROVE  TitleInv'
    BY <1>4, <1>7 DEF ReadHistory
<1>8. ASSUME NEW r \in Requests, PrepareSend(r), ~(live[conv[r]] /\ seen[r] = {})
      PROVE  TitleInv'
    BY <1>4, <1>8 DEF PrepareSend
<1>9. ASSUME NEW r \in Requests, PrepareEdit(r)
      PROVE  TitleInv'
    BY <1>4, <1>9 DEF PrepareEdit
<1>10. ASSUME NEW r \in Requests, Truncate(r)
      PROVE  TitleInv'
    BY <1>4, <1>10 DEF Truncate
<1>11. ASSUME NEW r \in Requests, PrepareRegenerate(r)
      PROVE  TitleInv'
    BY <1>4, <1>11 DEF PrepareRegenerate
<1>12. ASSUME NEW r \in Requests, Compose(r)
      PROVE  TitleInv'
    BY <1>4, <1>12 DEF Compose
<1>13. ASSUME NEW r \in Requests, AddReply(r)
      PROVE  TitleInv'
    BY <1>4, <1>13 DEF AddReply
<1>14. ASSUME NEW r \in Requests, Fail(r)
      PROVE  TitleInv'
    BY <1>4, <1>14 DEF Fail
<1>15. ASSUME NEW r \in Requests, Start(r)
      PROVE  TitleInv'
    BY <1>4, <1>15 DEF Start
<1>16. ASSUME NEW r \in Requests, Begin(r)
      PROVE  TitleInv'
    BY <1>4, <1>16 DEF Begin
<1>17. ASSUME NEW r \in Requests, Delta(r)
      PROVE  TitleInv'
    BY <1>4, <1>17 DEF Delta
<1>18. ASSUME NEW r \in Requests, EndStream(r)
      PROVE  TitleInv'
    BY <1>4, <1>18 DEF EndStream
<1>19. ASSUME NEW r \in Requests, Flush(r)
      PROVE  TitleInv'
    BY <1>4, <1>19 DEF Flush
<1>20. ASSUME NEW r \in Requests, Flushed(r)
      PROVE  TitleInv'
    BY <1>4, <1>20 DEF Flushed
<1>21. ASSUME NEW r \in Requests, Cancelled(r)
      PROVE  TitleInv'
    BY <1>4, <1>21 DEF Cancelled
<1>22. ASSUME NEW r \in Requests, Save(r)
      PROVE  TitleInv'
    BY <1>4, <1>22 DEF Save
<1>23. ASSUME NEW r \in Requests, Finish(r)
      PROVE  TitleInv'
    BY <1>4, <1>23 DEF Finish
<1>24. ASSUME NEW r \in Requests, Title(r)
      PROVE  TitleInv'
    BY <1>4, <1>24 DEF Title
<1>25. ASSUME NEW c \in Conversations, AdmitStop(c)
      PROVE  TitleInv'
    BY <1>4, <1>25 DEF AdmitStop
<1>26. ASSUME NEW c \in Conversations, Stop(c)
      PROVE  TitleInv'
    BY <1>4, <1>26 DEF Stop
<1>27. ASSUME NEW c \in Conversations, AdmitDelete(c)
      PROVE  TitleInv'
    BY <1>4, <1>27 DEF AdmitDelete
<1>28. ASSUME NEW c \in Conversations, DeleteStops(c)
      PROVE  TitleInv'
    BY <1>4, <1>28 DEF DeleteStops
<1>29. ASSUME NEW c \in Conversations, SoftDelete(c)
      PROVE  TitleInv'
    BY <1>4, <1>29 DEF SoftDelete
<1>30. ASSUME NEW c \in Conversations, Rename(c)
      PROVE  TitleInv'
    BY <1>4, <1>30 DEF Rename
<1>31. CASE Restart
    BY <1>4, <1>31 DEF Restart
<1>32. CASE UNCHANGED vars
    BY <1>4, <1>32 DEF vars
<1> QED
    BY <1>3, <1>5, <1>6, <1>7, <1>8, <1>9, <1>10, <1>11, <1>12, <1>13, <1>14, <1>15, <1>16,
       <1>17, <1>18, <1>19, <1>20, <1>21, <1>22, <1>23, <1>24, <1>25, <1>26, <1>27, <1>28, <1>29,
       <1>30, <1>31, <1>32 DEF Next, Handler, Model, Task, Others

StopShapes ==
    /\ pc \in [Requests -> {"idle", "admitted"} \cup Preparing \cup Running \cup Over]
    /\ text \in [Requests -> 0..MaxDeltas]
    /\ outcome \in [Requests -> Statuses \ {"streaming"}]
    /\ stopped \in [Requests -> BOOLEAN]
    /\ cancelled \in [Requests -> BOOLEAN]

LEMMA TypeStopShapes == TypeOK => StopShapes
BY DEF TypeOK, StopShapes, TaskType, ControlType

\* A stop reaches the task wherever it stands.
LEMMA StopStep ==
    ASSUME StopShapes, CancelOnlyInStream, StopInv, [Next]_vars
    PROVE  StopInv'
<1> USE DEF db, request, task, counters, Goto
<1>1. ASSUME NEW r \in Requests, Admit(r)
      PROVE  StopInv'
    BY <1>1 DEF Admit, StopInv, StopShapes
<1>2. ASSUME NEW r \in Requests, Reserve(r)
      PROVE  StopInv'
    BY <1>2 DEF Reserve, StopInv, StopShapes
<1>3. ASSUME NEW r \in Requests, ReadHistory(r)
      PROVE  StopInv'
    BY <1>3 DEF ReadHistory, StopInv, StopShapes
<1>4. ASSUME NEW r \in Requests, PrepareSend(r)
      PROVE  StopInv'
    BY <1>4 DEF PrepareSend, GiveUp, StopInv, StopShapes
<1>5. ASSUME NEW r \in Requests, PrepareEdit(r)
      PROVE  StopInv'
    BY <1>5 DEF PrepareEdit, GiveUp, StopInv, StopShapes
<1>6. ASSUME NEW r \in Requests, Truncate(r)
      PROVE  StopInv'
    BY <1>6 DEF Truncate, StopInv, StopShapes
<1>7. ASSUME NEW r \in Requests, PrepareRegenerate(r)
      PROVE  StopInv'
    BY <1>7 DEF PrepareRegenerate, GiveUp, StopInv, StopShapes
<1>8. ASSUME NEW r \in Requests, Compose(r)
      PROVE  StopInv'
    BY <1>8 DEF Compose, StopInv, StopShapes
<1>9. ASSUME NEW r \in Requests, AddReply(r)
      PROVE  StopInv'
    BY <1>9 DEF AddReply, GiveUp, StopInv, StopShapes
<1>10. ASSUME NEW r \in Requests, Fail(r)
      PROVE  StopInv'
    BY <1>10 DEF Fail, GiveUp, StopInv, StopShapes
<1>11. ASSUME NEW r \in Requests, Start(r)
      PROVE  StopInv'
    BY <1>11 DEF Start, StopInv, StopShapes
<1>12. ASSUME NEW r \in Requests, Begin(r)
      PROVE  StopInv'
    BY <1>12 DEF Begin, StopInv, StopShapes
<1>13. ASSUME NEW r \in Requests, Delta(r)
      PROVE  StopInv'
    BY <1>13 DEF Delta, StopInv, StopShapes
<1>14. ASSUME NEW r \in Requests, EndStream(r)
      PROVE  StopInv'
    BY <1>14 DEF EndStream, StopInv, StopShapes
<1>15. ASSUME NEW r \in Requests, Flush(r)
      PROVE  StopInv'
    BY <1>15 DEF Flush, StopInv, StopShapes
<1>16. ASSUME NEW r \in Requests, Flushed(r)
      PROVE  StopInv'
    BY <1>16 DEF Flushed, StopInv, StopShapes
<1>17. ASSUME NEW r \in Requests, Cancelled(r)
      PROVE  StopInv'
    BY <1>17 DEF Cancelled, CancelOnlyInStream, StopInv, StopShapes
<1>18. ASSUME NEW r \in Requests, Save(r)
      PROVE  StopInv'
    BY <1>18 DEF Save, StopInv, StopShapes
<1>19. ASSUME NEW r \in Requests, Finish(r)
      PROVE  StopInv'
    BY <1>19 DEF Finish, StopInv, StopShapes
<1>20. ASSUME NEW r \in Requests, Title(r)
      PROVE  StopInv'
    BY <1>20 DEF Title, StopInv, StopShapes
<1>21. ASSUME NEW c \in Conversations, AdmitStop(c)
      PROVE  StopInv'
    BY <1>21 DEF AdmitStop, StopInv, StopShapes
<1>22. ASSUME NEW c \in Conversations, Stop(c)
      PROVE  StopInv'
    <2>1. UNCHANGED pc
        BY <1>22 DEF Stop
    <2>2. UNCHANGED <<stopped, cancelled>>
          \/ \E q \in Requests : /\ stopped' = [stopped EXCEPT ![q] = TRUE]
                                /\ cancelled' = [cancelled EXCEPT ![q] = Cancellable(q)]
        BY <1>22 DEF Stop, Halt
    <2> QED
        BY <2>1, <2>2, ZenonT(40) DEF StopInv, StopShapes, Cancellable
<1>23. ASSUME NEW c \in Conversations, AdmitDelete(c)
      PROVE  StopInv'
    BY <1>23 DEF AdmitDelete, StopInv, StopShapes
<1>24. ASSUME NEW c \in Conversations, DeleteStops(c)
      PROVE  StopInv'
    <2>1. UNCHANGED pc
        BY <1>24 DEF DeleteStops
    <2>2. UNCHANGED <<stopped, cancelled>>
          \/ \E q \in Requests : /\ stopped' = [stopped EXCEPT ![q] = TRUE]
                                /\ cancelled' = [cancelled EXCEPT ![q] = Cancellable(q)]
        BY <1>24 DEF DeleteStops, Halt
    <2> QED
        BY <2>1, <2>2, ZenonT(40) DEF StopInv, StopShapes, Cancellable
<1>25. ASSUME NEW c \in Conversations, SoftDelete(c)
      PROVE  StopInv'
    BY <1>25 DEF SoftDelete, StopInv, StopShapes
<1>26. ASSUME NEW c \in Conversations, Rename(c)
      PROVE  StopInv'
    BY <1>26 DEF Rename, StopInv, StopShapes
<1>27. ASSUME Restart
      PROVE  StopInv'
    <2>1. \A q \in Requests : pc'[q] \notin {"streaming", "flushing"}
        BY <1>27 DEF Restart
    <2> QED
        BY <2>1 DEF StopInv
<1>28. CASE UNCHANGED vars
    BY <1>28 DEF vars, StopInv
<1> QED
    BY <1>1, <1>2, <1>3, <1>4, <1>5, <1>6, <1>7, <1>8, <1>9, <1>10, <1>11, <1>12, <1>13, <1>14,
       <1>15, <1>16, <1>17, <1>18, <1>19, <1>20, <1>21, <1>22, <1>23, <1>24, <1>25, <1>26, <1>27,
       <1>28 DEF Next, Handler, Model, Task, Others


StopHolds == \A r \in Requests : stopped[r] =>
                 /\ text'[r] = text[r]
                 /\ outcome'[r] # outcome[r] => outcome'[r] = "stopped"

\* A stopped run takes no text and no other outcome.
LEMMA StopWinsStep ==
    ASSUME StopShapes, CancelOnlyInStream, StopInv, [Next]_vars
    PROVE  StopHolds
<1> USE DEF db, request, task, counters, Goto
<1>1. ASSUME NEW r \in Requests, Admit(r)
      PROVE  StopHolds
    BY <1>1 DEF Admit, StopInv, StopShapes, StopHolds
<1>2. ASSUME NEW r \in Requests, Reserve(r)
      PROVE  StopHolds
    BY <1>2 DEF Reserve, StopInv, StopShapes, StopHolds
<1>3. ASSUME NEW r \in Requests, ReadHistory(r)
      PROVE  StopHolds
    BY <1>3 DEF ReadHistory, StopInv, StopShapes, StopHolds
<1>4. ASSUME NEW r \in Requests, PrepareSend(r)
      PROVE  StopHolds
    BY <1>4 DEF PrepareSend, GiveUp, StopInv, StopShapes, StopHolds
<1>5. ASSUME NEW r \in Requests, PrepareEdit(r)
      PROVE  StopHolds
    BY <1>5 DEF PrepareEdit, GiveUp, StopInv, StopShapes, StopHolds
<1>6. ASSUME NEW r \in Requests, Truncate(r)
      PROVE  StopHolds
    BY <1>6 DEF Truncate, StopInv, StopShapes, StopHolds
<1>7. ASSUME NEW r \in Requests, PrepareRegenerate(r)
      PROVE  StopHolds
    BY <1>7 DEF PrepareRegenerate, GiveUp, StopInv, StopShapes, StopHolds
<1>8. ASSUME NEW r \in Requests, Compose(r)
      PROVE  StopHolds
    BY <1>8 DEF Compose, StopInv, StopShapes, StopHolds
<1>9. ASSUME NEW r \in Requests, AddReply(r)
      PROVE  StopHolds
    BY <1>9 DEF AddReply, GiveUp, StopInv, StopShapes, StopHolds
<1>10. ASSUME NEW r \in Requests, Fail(r)
      PROVE  StopHolds
    BY <1>10 DEF Fail, GiveUp, StopInv, StopShapes, StopHolds
<1>11. ASSUME NEW r \in Requests, Start(r)
      PROVE  StopHolds
    BY <1>11 DEF Start, StopInv, StopShapes, StopHolds
<1>12. ASSUME NEW r \in Requests, Begin(r)
      PROVE  StopHolds
    BY <1>12 DEF Begin, StopInv, StopShapes, StopHolds
<1>13. ASSUME NEW r \in Requests, Delta(r)
      PROVE  StopHolds
    BY <1>13 DEF Delta, StopInv, StopShapes, StopHolds
<1>14. ASSUME NEW r \in Requests, EndStream(r)
      PROVE  StopHolds
    BY <1>14 DEF EndStream, StopInv, StopShapes, StopHolds
<1>15. ASSUME NEW r \in Requests, Flush(r)
      PROVE  StopHolds
    BY <1>15 DEF Flush, StopInv, StopShapes, StopHolds
<1>16. ASSUME NEW r \in Requests, Flushed(r)
      PROVE  StopHolds
    BY <1>16 DEF Flushed, StopInv, StopShapes, StopHolds
<1>17. ASSUME NEW r \in Requests, Cancelled(r)
      PROVE  StopHolds
    BY <1>17 DEF Cancelled, CancelOnlyInStream, StopInv, StopShapes, StopHolds
<1>18. ASSUME NEW r \in Requests, Save(r)
      PROVE  StopHolds
    BY <1>18 DEF Save, StopInv, StopShapes, StopHolds
<1>19. ASSUME NEW r \in Requests, Finish(r)
      PROVE  StopHolds
    BY <1>19 DEF Finish, StopInv, StopShapes, StopHolds
<1>20. ASSUME NEW r \in Requests, Title(r)
      PROVE  StopHolds
    BY <1>20 DEF Title, StopInv, StopShapes, StopHolds
<1>21. ASSUME NEW c \in Conversations, AdmitStop(c)
      PROVE  StopHolds
    BY <1>21 DEF AdmitStop, StopInv, StopShapes, StopHolds
<1>22. ASSUME NEW c \in Conversations, Stop(c)
      PROVE  StopHolds
    BY <1>22 DEF Stop, StopInv, StopShapes, StopHolds
<1>23. ASSUME NEW c \in Conversations, AdmitDelete(c)
      PROVE  StopHolds
    BY <1>23 DEF AdmitDelete, StopInv, StopShapes, StopHolds
<1>24. ASSUME NEW c \in Conversations, DeleteStops(c)
      PROVE  StopHolds
    BY <1>24 DEF DeleteStops, StopInv, StopShapes, StopHolds
<1>25. ASSUME NEW c \in Conversations, SoftDelete(c)
      PROVE  StopHolds
    BY <1>25 DEF SoftDelete, StopInv, StopShapes, StopHolds
<1>26. ASSUME NEW c \in Conversations, Rename(c)
      PROVE  StopHolds
    BY <1>26 DEF Rename, StopInv, StopShapes, StopHolds
<1>27. ASSUME Restart
      PROVE  StopHolds
    BY <1>27 DEF Restart, StopInv, StopShapes, StopHolds
<1>28. CASE UNCHANGED vars
    BY <1>28 DEF vars, StopHolds
<1> QED
    BY <1>1, <1>2, <1>3, <1>4, <1>5, <1>6, <1>7, <1>8, <1>9, <1>10, <1>11, <1>12, <1>13, <1>14,
       <1>15, <1>16, <1>17, <1>18, <1>19, <1>20, <1>21, <1>22, <1>23, <1>24, <1>25, <1>26, <1>27,
       <1>28 DEF Next, Handler, Model, Task, Others

RenameShapes ==
    /\ conv \in [Requests -> Conversations]
    /\ titling \in [Requests -> {"none", "wanted", "pending", "done"}]
    /\ name \in [Conversations -> {"fallback", "model", "user"}]

LEMMA TypeRenameShapes == TypeOK => RenameShapes
BY DEF TypeOK, RenameShapes, StoreType, RequestType, TaskType

RenameHolds == \A c \in Conversations :
    name[c] = "user" /\ (\E r \in Requests : conv[r] = c /\ titling[r] = "done") => name'[c] = "user"

\* The title that could still come belongs to the request whose title is done.
LEMMA RenameStep ==
    ASSUME RenameShapes, TitleInv, [Next]_vars
    PROVE  RenameHolds
<1> USE DEF db, request, task, counters, Goto
<1>1. ASSUME NEW r \in Requests, Admit(r)
      PROVE  RenameHolds
    <2>1. UNCHANGED name
        BY <1>1 DEF Admit
    <2> QED
        BY <2>1 DEF RenameHolds
<1>2. ASSUME NEW r \in Requests, Reserve(r)
      PROVE  RenameHolds
    <2>1. UNCHANGED name
        BY <1>2 DEF Reserve
    <2> QED
        BY <2>1 DEF RenameHolds
<1>3. ASSUME NEW r \in Requests, ReadHistory(r)
      PROVE  RenameHolds
    <2>1. UNCHANGED name
        BY <1>3 DEF ReadHistory
    <2> QED
        BY <2>1 DEF RenameHolds
<1>4. ASSUME NEW r \in Requests, PrepareSend(r)
      PROVE  RenameHolds
    <2>1. UNCHANGED name
        BY <1>4 DEF PrepareSend
    <2> QED
        BY <2>1 DEF RenameHolds
<1>5. ASSUME NEW r \in Requests, PrepareEdit(r)
      PROVE  RenameHolds
    <2>1. UNCHANGED name
        BY <1>5 DEF PrepareEdit
    <2> QED
        BY <2>1 DEF RenameHolds
<1>6. ASSUME NEW r \in Requests, Truncate(r)
      PROVE  RenameHolds
    <2>1. UNCHANGED name
        BY <1>6 DEF Truncate
    <2> QED
        BY <2>1 DEF RenameHolds
<1>7. ASSUME NEW r \in Requests, PrepareRegenerate(r)
      PROVE  RenameHolds
    <2>1. UNCHANGED name
        BY <1>7 DEF PrepareRegenerate
    <2> QED
        BY <2>1 DEF RenameHolds
<1>8. ASSUME NEW r \in Requests, Compose(r)
      PROVE  RenameHolds
    <2>1. UNCHANGED name
        BY <1>8 DEF Compose
    <2> QED
        BY <2>1 DEF RenameHolds
<1>9. ASSUME NEW r \in Requests, AddReply(r)
      PROVE  RenameHolds
    <2>1. UNCHANGED name
        BY <1>9 DEF AddReply
    <2> QED
        BY <2>1 DEF RenameHolds
<1>10. ASSUME NEW r \in Requests, Fail(r)
      PROVE  RenameHolds
    <2>1. UNCHANGED name
        BY <1>10 DEF Fail
    <2> QED
        BY <2>1 DEF RenameHolds
<1>11. ASSUME NEW r \in Requests, Start(r)
      PROVE  RenameHolds
    <2>1. UNCHANGED name
        BY <1>11 DEF Start
    <2> QED
        BY <2>1 DEF RenameHolds
<1>12. ASSUME NEW r \in Requests, Begin(r)
      PROVE  RenameHolds
    <2>1. UNCHANGED name
        BY <1>12 DEF Begin
    <2> QED
        BY <2>1 DEF RenameHolds
<1>13. ASSUME NEW r \in Requests, Delta(r)
      PROVE  RenameHolds
    <2>1. UNCHANGED name
        BY <1>13 DEF Delta
    <2> QED
        BY <2>1 DEF RenameHolds
<1>14. ASSUME NEW r \in Requests, EndStream(r)
      PROVE  RenameHolds
    <2>1. UNCHANGED name
        BY <1>14 DEF EndStream
    <2> QED
        BY <2>1 DEF RenameHolds
<1>15. ASSUME NEW r \in Requests, Flush(r)
      PROVE  RenameHolds
    <2>1. UNCHANGED name
        BY <1>15 DEF Flush
    <2> QED
        BY <2>1 DEF RenameHolds
<1>16. ASSUME NEW r \in Requests, Flushed(r)
      PROVE  RenameHolds
    <2>1. UNCHANGED name
        BY <1>16 DEF Flushed
    <2> QED
        BY <2>1 DEF RenameHolds
<1>17. ASSUME NEW r \in Requests, Cancelled(r)
      PROVE  RenameHolds
    <2>1. UNCHANGED name
        BY <1>17 DEF Cancelled
    <2> QED
        BY <2>1 DEF RenameHolds
<1>18. ASSUME NEW r \in Requests, Save(r)
      PROVE  RenameHolds
    <2>1. UNCHANGED name
        BY <1>18 DEF Save
    <2> QED
        BY <2>1 DEF RenameHolds
<1>19. ASSUME NEW r \in Requests, Finish(r)
      PROVE  RenameHolds
    <2>1. UNCHANGED name
        BY <1>19 DEF Finish
    <2> QED
        BY <2>1 DEF RenameHolds
<1>20. ASSUME NEW r \in Requests, Title(r)
      PROVE  RenameHolds
    <2>1. titling[r] = "pending" /\ (name' = name \/ name' = [name EXCEPT ![conv[r]] = "model"])
        BY <1>20 DEF Title
    <2>2. ASSUME NEW q \in Requests, titling[q] = "done", conv[q] = conv[r]
          PROVE  FALSE
        BY <2>1, <2>2 DEF TitleInv
    <2> QED
        BY <2>1, <2>2 DEF RenameHolds, RenameShapes
<1>21. ASSUME NEW c \in Conversations, AdmitStop(c)
      PROVE  RenameHolds
    <2>1. UNCHANGED name
        BY <1>21 DEF AdmitStop
    <2> QED
        BY <2>1 DEF RenameHolds
<1>22. ASSUME NEW c \in Conversations, Stop(c)
      PROVE  RenameHolds
    <2>1. UNCHANGED name
        BY <1>22 DEF Stop
    <2> QED
        BY <2>1 DEF RenameHolds
<1>23. ASSUME NEW c \in Conversations, AdmitDelete(c)
      PROVE  RenameHolds
    <2>1. UNCHANGED name
        BY <1>23 DEF AdmitDelete
    <2> QED
        BY <2>1 DEF RenameHolds
<1>24. ASSUME NEW c \in Conversations, DeleteStops(c)
      PROVE  RenameHolds
    <2>1. UNCHANGED name
        BY <1>24 DEF DeleteStops
    <2> QED
        BY <2>1 DEF RenameHolds
<1>25. ASSUME NEW c \in Conversations, SoftDelete(c)
      PROVE  RenameHolds
    <2>1. UNCHANGED name
        BY <1>25 DEF SoftDelete
    <2> QED
        BY <2>1 DEF RenameHolds
<1>26. ASSUME NEW c \in Conversations, Rename(c)
      PROVE  RenameHolds
    BY <1>26 DEF Rename, RenameHolds, RenameShapes
<1>27. ASSUME Restart
      PROVE  RenameHolds
    <2>1. UNCHANGED name
        BY <1>27 DEF Restart
    <2> QED
        BY <2>1 DEF RenameHolds
<1>28. CASE UNCHANGED vars
    BY <1>28 DEF vars, RenameHolds
<1> QED
    BY <1>1, <1>2, <1>3, <1>4, <1>5, <1>6, <1>7, <1>8, <1>9, <1>10, <1>11, <1>12, <1>13, <1>14,
       <1>15, <1>16, <1>17, <1>18, <1>19, <1>20, <1>21, <1>22, <1>23, <1>24, <1>25, <1>26, <1>27,
       <1>28 DEF Next, Handler, Model, Task, Others

-----------------------------------------------------------------------------
(* Theorems                                                                *)

LEMMA Initially == Init => TypeOK /\ RegistryInv /\ FlushInv
<1> SUFFICES ASSUME Init
             PROVE  TypeOK /\ RegistryInv /\ FlushInv
    OBVIOUS
<1> USE BoundsAssumption, RegistryAssumption DEF Init
<1>1. StoreType /\ RequestType
    BY DEF StoreType, RequestType
<1>2. TaskType /\ ControlType
    BY DEF TaskType, ControlType
<1>3. RegistryInv
    BY DEF RegistryInv, OneReplyAtATime, RegistryExact, CancelOnlyInStream
<1>4. FlushInv
    BY DEF FlushInv, Settled
<1> QED
    BY <1>1, <1>2, <1>3, <1>4 DEF TypeOK

\* Every variable of the chat keeps its type, whatever the bounds.
THEOREM TypeCorrect == Spec => []TypeOK
<1>1. Init => TypeOK
    BY Initially
<1> QED
    BY <1>1, TypeStep, PTL DEF Spec

LEMMA RegistryAlways == Spec => []RegistryInv
<1>1. Init => RegistryInv
    BY Initially
<1>2. TypeOK /\ RegistryInv /\ [Next]_vars => RegistryInv'
    BY TypeShapes, RegistryStep
<1> QED
    BY <1>1, <1>2, TypeCorrect, PTL DEF Spec

\* At most one request at a time is at work on a conversation.
THEOREM Exclusion == Spec => []OneReplyAtATime
<1>1. RegistryInv => OneReplyAtATime
    BY DEF RegistryInv
<1> QED
    BY <1>1, RegistryAlways, PTL

\* Every key of the registry has a worker that will remove it, and every worker
\* its key: no path leaks a reservation or a run.
THEOREM NoLeak == Spec => []RegistryExact
<1>1. RegistryInv => RegistryExact
    BY DEF RegistryInv
<1> QED
    BY <1>1, RegistryAlways, PTL

\* Neither a task that has not run yet nor a final save is ever cancelled.
THEOREM StreamOnlyCancelled == Spec => []CancelOnlyInStream
<1>1. RegistryInv => CancelOnlyInStream
    BY DEF RegistryInv
<1> QED
    BY <1>1, RegistryAlways, PTL

LEMMA FlushAlways == Spec => []FlushInv
<1>1. Init => FlushInv
    BY Initially
<1>2. TypeOK /\ RegistryInv /\ FlushInv /\ [Next]_vars => FlushInv'
    BY TypeFlushShapes, FlushStep DEF RegistryInv
<1> QED
    BY <1>1, <1>2, TypeCorrect, RegistryAlways, PTL DEF Spec

\* A flush that commits after the final save writes what is already there.
THEOREM LateFlush == Spec => []LateFlushHarmless
<1>1. FlushInv => LateFlushHarmless
    BY DEF FlushInv, LateFlushHarmless
<1> QED
    BY <1>1, FlushAlways, PTL

\* A reply once complete, stopped or in error never changes again.
THEOREM Frozen == Spec => SettledFrozen
<1>1. TypeOK /\ FlushInv /\ [Next]_vars
      => [\A r \in Requests :
             row[r].status \in {"complete", "stopped", "error"} => row'[r] = row[r]]_vars
    BY TypeFlushShapes, FrozenStep DEF Settled
<1> QED
    BY <1>1, TypeCorrect, FlushAlways, PTL DEF Spec, SettledFrozen

LEMMA InitiallyOrdered ==
    Init => TableInv /\ RepliesKeepTheirPrompt /\ StandInv /\ TitleInv /\ StopInv
<1> SUFFICES ASSUME Init
             PROVE  TableInv /\ RepliesKeepTheirPrompt /\ StandInv /\ TitleInv /\ StopInv
    OBVIOUS
<1>1. /\ \A c \in Conversations : history[c] = {}
      /\ \A r \in Requests : /\ pc[r] = "idle" /\ titling[r] = "none" /\ ~stopped[r]
                             /\ began[r] = 0 /\ conv[r] \in Conversations
      /\ clock = 0
    BY DEF Init
<1>2. TableInv
    <2>1. Dates /\ Rows
        BY <1>1 DEF Dates, Rows, Open
    <2>2. Held
        BY <1>1 DEF Held, PromptStands
    <2>3. Placed
        BY <1>1 DEF Placed, EarlyPlaced, LatePlaced
    <2> QED
        BY <2>1, <2>2, <2>3 DEF TableInv
<1>3. RepliesKeepTheirPrompt /\ StandInv
    BY <1>1 DEF RepliesKeepTheirPrompt, StandInv
<1> QED
    BY <1>1, <1>2, <1>3 DEF TitleInv, StopInv

LEMMA TableAlways == Spec => []TableInv
<1>1. TypeOK /\ RegistryInv /\ TableInv /\ [Next]_vars => TableInv'
    BY TypeTableShapes, TableStep DEF RegistryInv
<1> QED
    BY <1>1, InitiallyOrdered, TypeCorrect, RegistryAlways, PTL DEF Spec

\* While a reply is written, the rest of the conversation is the history its
\* prompt was built from, and the reply stands below it (but for a regenerate
\* after a failed statement).
THEOREM Prompt == Spec => []PromptStands
<1>1. TableInv => PromptStands
    BY DEF TableInv, Held
<1> QED
    BY <1>1, TableAlways, PTL

\* Whatever failed, no reply outlives a message it answered.
THEOREM KeepPrompt == Spec => []RepliesKeepTheirPrompt
<1>1. TypeOK /\ RegistryInv /\ TableInv /\ RepliesKeepTheirPrompt /\ [Next]_vars
      => RepliesKeepTheirPrompt'
    BY TypeTableShapes, KeepStep DEF RegistryInv
<1> QED
    BY <1>1, InitiallyOrdered, TypeCorrect, RegistryAlways, TableAlways, PTL DEF Spec

LEMMA TitleAlways == Spec => []TitleInv
<1>1. TypeOK /\ RegistryInv /\ TableInv /\ TitleInv /\ [Next]_vars => TitleInv'
    BY TypeTitleShapes, TitleStep DEF RegistryInv
<1> QED
    BY <1>1, InitiallyOrdered, TypeCorrect, RegistryAlways, TableAlways, PTL DEF Spec

LEMMA StopAlways == Spec => []StopInv
<1>1. TypeOK /\ RegistryInv /\ StopInv /\ [Next]_vars => StopInv'
    BY TypeStopShapes, StopStep DEF RegistryInv
<1> QED
    BY <1>1, InitiallyOrdered, TypeCorrect, RegistryAlways, PTL DEF Spec

\* Without a failure, and but for the instant inside an edit, every reply
\* stands below the messages it answered, in the words they had, and what else
\* stands above it are later questions whose answers are not above it.
THEOREM Stand == Spec => []RepliesStand
<1>1. TypeOK /\ RegistryInv /\ TableInv /\ StandInv /\ [Next]_vars => StandInv'
    BY TypeTableShapes, StandStep DEF RegistryInv
<1>2. StandInv => RepliesStand
    BY DEF StandInv, StandsIn, Doomed, RepliesStand
<1> QED
    BY <1>1, <1>2, InitiallyOrdered, TypeCorrect, RegistryAlways, TableAlways, PTL DEF Spec

\* A stopped run takes no more text, and no outcome but "stopped".
THEOREM Stopped == Spec => StopWins
<1>1. TypeOK /\ RegistryInv /\ StopInv /\ [Next]_vars
      => [\A r \in Requests : stopped[r] =>
             /\ text'[r] = text[r]
             /\ outcome'[r] # outcome[r] => outcome'[r] = "stopped"]_vars
    BY TypeStopShapes, StopWinsStep DEF RegistryInv, StopHolds
<1> QED
    BY <1>1, TypeCorrect, RegistryAlways, StopAlways, PTL DEF Spec, StopWins

\* The title task writes at most once in the life of a conversation, so what
\* the user names it after that is never lost.
THEOREM Renamed == Spec => RenameSurvives
<1>1. TypeOK /\ TitleInv /\ [Next]_vars
      => [\A c \in Conversations :
             name[c] = "user" /\ (\E r \in Requests : conv[r] = c /\ titling[r] = "done")
             => name'[c] = "user"]_vars
    BY TypeRenameShapes, RenameStep DEF RenameHolds
<1> QED
    BY <1>1, TypeCorrect, TitleAlways, PTL DEF Spec, RenameSurvives

=============================================================================
