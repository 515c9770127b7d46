----------------------------- MODULE ReplySlot ------------------------------
(***************************************************************************)
(* What the chat promises about replies, without saying how. A             *)
(* conversation has one slot; a request takes it or is refused; the answer *)
(* it opens only grows, is settled once by the request that holds the slot *)
(* and never changes afterwards. Only a failed statement (broken) lets a   *)
(* request leave its answer open; a crash frees every slot and settles     *)
(* what is open.                                                           *)
(***************************************************************************)
EXTENDS Naturals

CONSTANTS Conversations, Requests

VARIABLES
    about,      \* request -> the conversation it names
    turned,     \* requests that were let in or turned away
    holding,    \* requests that hold the slot of their conversation
    answer,     \* request -> its answer: status and text
    broken      \* a statement has failed

vars == <<about, turned, holding, answer, broken>>

Settled == {"complete", "stopped", "error"}
Open(r) == answer[r].status = "streaming"

Init ==
    /\ about \in [Requests -> Conversations]
    /\ turned = {}
    /\ holding = {}
    /\ answer = [r \in Requests |-> [status |-> "none", text |-> 0]]
    /\ broken = FALSE

Taken(c) == \E q \in holding : about[q] = c

\* The slot is free and r takes it, or it is not and r is refused.
Ask(r) ==
    /\ r \notin turned
    /\ turned' = turned \cup {r}
    /\ holding' = IF Taken(about[r]) THEN holding ELSE holding \cup {r}
    /\ UNCHANGED <<about, answer, broken>>

Begin(r) ==
    /\ r \in holding
    /\ answer[r].status = "none"
    /\ answer' = [answer EXCEPT ![r] = [status |-> "streaming", text |-> 0]]
    /\ UNCHANGED <<about, turned, holding, broken>>

\* The answer of r becomes `status`, its text no shorter than it was.
Written(r, status) ==
    /\ answer' = [answer EXCEPT ![r] = [status |-> status, text |-> answer'[r].text]]
    /\ answer'[r].text >= answer[r].text

\* Text only comes to an open answer. One left open by a failure may still
\* receive a write that was under way.
Extend(r) ==
    /\ Open(r)
    /\ r \in holding \/ broken
    /\ Written(r, "streaming")
    /\ UNCHANGED <<about, turned, holding, broken>>

Settle(r) ==
    /\ r \in holding /\ Open(r)
    /\ \E status \in Settled : Written(r, status)
    /\ UNCHANGED <<about, turned, holding, broken>>

\* The slot is given back, with the answer settled or never begun.
Leave(r) ==
    /\ r \in holding
    /\ ~Open(r) \/ broken
    /\ holding' = holding \ {r}
    /\ UNCHANGED <<about, turned, answer, broken>>

\* A statement fails; the request it failed may give up its slot.
Break ==
    /\ broken' = TRUE
    /\ \/ UNCHANGED holding
       \/ \E r \in holding : holding' = holding \ {r}
    /\ UNCHANGED <<about, turned, answer>>

\* Every slot is freed and every open answer stopped as it is, but for those a
\* failure, now or before, put out of reach.
Crash ==
    /\ turned \subseteq turned'
    /\ turned' \subseteq Requests
    /\ holding' = {}
    /\ broken' \in BOOLEAN
    /\ broken => broken'
    /\ \A r \in Requests :
          \/ answer'[r] = answer[r] /\ (~Open(r) \/ broken')
          \/ Open(r) /\ answer'[r] = [answer[r] EXCEPT !.status = "stopped"]
    /\ DOMAIN answer' = Requests
    /\ UNCHANGED about

Next ==
    \/ \E r \in Requests :
          Ask(r) \/ Begin(r) \/ Extend(r) \/ Settle(r) \/ Leave(r)
    \/ Break
    \/ Crash

Spec == Init /\ [][Next]_vars
=============================================================================
