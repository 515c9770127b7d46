------------------------------ MODULE Membership ------------------------------
(***************************************************************************)
(* What the household routes promise, without saying how: every request    *)
(* takes effect at one moment between its arrival and its answer, and its  *)
(* right, its effect and its answer are all true of that same moment. The  *)
(* owner still owns the household, the member is still in it, the link is  *)
(* still good and lets one person in, and a refusal gives the reason that  *)
(* holds then. Only a failed transaction is answered for no reason shown.  *)
(***************************************************************************)
EXTENDS Naturals

CONSTANTS People, Given, Requests

VARIABLES
    asks,        \* request -> what it asks
    about,       \* request -> household its caller was in
    outcome,     \* request -> "none" (not arrived), "open" or its answer
    home,        \* person -> their household, or 0
    rank,        \* person -> their role there
    links        \* link -> "none", "open", "used", "expired"

vars == <<asks, about, outcome, home, rank, links>>

Owns(p, h) == home[p] = h /\ rank[p] = "owner"
Rightful(r) == Owns(asks[r].by, about[r])
ToOther(r) == asks[r].subject # asks[r].by

Init ==
    /\ outcome = [r \in Requests |-> "none"]
    /\ home = [p \in People |-> 0]
    /\ links = [i \in Requests |-> "none"]

\* r asks, whatever it is, and nobody else changes what they ask.
Asked(r) == asks' = [asks EXCEPT ![r] = asks'[r]]

Arrive(r) ==
    /\ Asked(r)
    /\ asks'[r].kind # "join" => about'[r] = home[asks'[r].by]
    /\ about' = [about EXCEPT ![r] = about'[r]]
    /\ outcome' = [outcome EXCEPT ![r] = "open"]
    /\ UNCHANGED <<home, rank, links>>

\* A household is founded in one step, by somebody who has none.
Create(r) ==
    LET p == asks'[r].by IN
    /\ Asked(r) /\ asks'[r].kind = "create"
    /\ home[p] = 0
    /\ home' = [home EXCEPT ![p] = r]
    /\ rank' = [rank EXCEPT ![p] = "owner"]
    /\ outcome' = [outcome EXCEPT ![r] = "done"]
    /\ UNCHANGED <<about, links>>

\* r, which asks for one of kinds, is answered o.
Answer(r, kinds, o) ==
    /\ asks[r].kind \in kinds
    /\ outcome' = [outcome EXCEPT ![r] = o]
    /\ UNCHANGED <<asks, about>>

SetRole(r) ==
    /\ Answer(r, {"role"}, "done")
    /\ Rightful(r) /\ ToOther(r)
    /\ home[asks[r].subject] = about[r]
    /\ asks[r].role \in Given
    /\ rank' = [rank EXCEPT ![asks[r].subject] = asks[r].role]
    /\ UNCHANGED <<home, links>>

\* A member goes: the owner sends them away, or they leave and are no owner.
Depart(r) ==
    /\ Answer(r, {"remove", "leave"}, "done")
    /\ home[asks[r].subject] = about[r]
    /\ IF asks[r].kind = "remove" THEN Rightful(r) /\ ToOther(r) ELSE ~Rightful(r)
    /\ home' = [home EXCEPT ![asks[r].subject] = 0]
    /\ UNCHANGED <<rank, links>>

\* The household goes with all its members and all its links.
Delete(r) ==
    /\ Answer(r, {"delete"}, "done")
    /\ Rightful(r)
    /\ home' = [p \in People |-> IF home[p] = about[r] THEN 0 ELSE home[p]]
    /\ links' = [i \in Requests |->
                    IF links[i] # "none" /\ about[i] = about[r] THEN "none" ELSE links[i]]
    /\ UNCHANGED rank

\* Who is to go has gone already.
Gone(r) ==
    /\ Answer(r, {"remove", "leave", "delete"}, "done")
    /\ home[asks[r].subject] # about[r]
    /\ UNCHANGED <<home, rank, links>>

Invite(r) ==
    /\ Answer(r, {"invite"}, "done")
    /\ Rightful(r)
    /\ asks[r].role \in Given
    /\ links' = [links EXCEPT ![r] = "open"]
    /\ UNCHANGED <<home, rank>>

\* An open link of a household that has its owner lets in somebody who has none.
Join(r) ==
    LET p == asks[r].by
        i == asks[r].link
    IN
    /\ Answer(r, {"join"}, "done")
    /\ links[i] = "open"
    /\ home[p] = 0
    /\ \E q \in People : Owns(q, about[i])
    /\ home' = [home EXCEPT ![p] = about[i]]
    /\ rank' = [rank EXCEPT ![p] = asks[i].role]
    /\ links' = [links EXCEPT ![i] = "used"]

Expire(i) ==
    /\ links[i] = "open"
    /\ links' = [links EXCEPT ![i] = "expired"]
    /\ UNCHANGED <<asks, about, outcome, home, rank>>

\* No such member, or one whom nobody changes; a link that is not good.
Refuse(r) ==
    /\ \/ /\ Answer(r, {"role", "remove"}, "refused")
          /\ \/ ~ToOther(r)
             \/ home[asks[r].subject] # about[r]
             \/ rank[asks[r].subject] = "owner"
       \/ /\ Answer(r, {"join"}, "refused")
          /\ links[asks[r].link] # "open"
       \/ /\ Answer(r, {"join"}, "conflict")
          /\ home[asks[r].by] # 0
    /\ UNCHANGED <<home, rank, links>>

\* An invitation to a household that is gone, or the victim of a deadlock.
Fail(r) ==
    /\ \/ Answer(r, {"invite"}, "broken") /\ ~Rightful(r)
       \/ Answer(r, {"join", "delete"}, "broken")
    /\ UNCHANGED <<home, rank, links>>

Next ==
    \E r \in Requests :
        \/ Expire(r)
        \/ outcome[r] = "none" /\ outcome'[r] # "none" /\ (Arrive(r) \/ Create(r))
        \/ /\ outcome[r] = "open" /\ outcome'[r] # "open"
           /\ \/ SetRole(r) \/ Depart(r) \/ Delete(r) \/ Gone(r) \/ Invite(r)
              \/ Join(r) \/ Refuse(r) \/ Fail(r)

Spec == Init /\ [][Next]_vars
=============================================================================
