--------------------------- MODULE HouseholdsProofs ---------------------------
(***************************************************************************)
(* Theorems about Households, for every set of people and any number of    *)
(* requests: one owner each, links that let one person in, refusals and    *)
(* writes that mean what they say, and never all of them waiting. Every    *)
(* request acts at one moment, as Membership has it.                       *)
(***************************************************************************)
EXTENDS Households, FiniteSetTheorems, WellFoundedInduction, TLAPS

USE DEF Open, Over, OwnerKinds, Kinds, Kind, By, Subject, Link, Goto

-----------------------------------------------------------------------------
(* The invariant                                                           *)

\* A request beyond the last one that arrived has left no trace.
Numbered ==
    \A r \in Requests :
        /\ r > arrived => pc[r] = "idle" /\ links[r] = "none" /\ r \notin households
        /\ r <= arrived => pc[r] # "idle"

\* What a handler knows where it stands: the household it looked at, that the
\* person it will change or that leaves is not the creator of that household,
\* and that the link of a join was made.
Placed ==
    \A r \in Requests :
        /\ pc[r] \in {"entered", "checked", "dropping"} /\ Kind(r) # "join" =>
               context[r] \in 1 .. arrived
        /\ pc[r] = "entered" => Kind(r) # "create"
        /\ pc[r] = "entered" /\ Kind(r) = "leave" => By(r) # By(context[r])
        /\ pc[r] = "checked" =>
               Kind(r) \in {"role", "remove"} /\ Subject(r) # By(context[r])
        /\ pc[r] = "dropping" => Kind(r) = "delete"
        /\ pc[r] \in {"claimed", "joined"} => Kind(r) = "join"

\* The bodies of the requests that arrived.
Bodied ==
    \A r \in 1 .. arrived :
        /\ Kind(r) \in {"invite", "role"} => asks[r].role \in Given
        /\ Kind(r) = "join" =>
               Link(r) \in 1 .. arrived /\ Kind(Link(r)) = "invite" /\ pc[Link(r)] = "done"

\* A link belongs to a household that exists.
LinksLive ==
    \A i \in Requests : links[i] # "none" =>
        context[i] \in households /\ Kind(i) = "invite" /\ pc[i] = "done"

\* The row of a link is locked by the one redeem that claimed it, while open.
Claims ==
    /\ \A r \in Requests : pc[r] = "claimed" =>
           claim[Link(r)] = r /\ links[Link(r)] = "open"
    /\ \A i \in Requests : claim[i] # 0 => pc[claim[i]] = "claimed" /\ Link(claim[i]) = i

\* The row of a household is locked by the one delete that is dropping it.
Drops ==
    /\ \A r \in Requests : pc[r] = "dropping" =>
           drop[context[r]] = r /\ context[r] \in households
    /\ \A h \in Requests : drop[h] # 0 => pc[drop[h]] = "dropping" /\ context[drop[h]] = h

\* A link that let somebody in is not open.
Spent == \A r \in Requests : pc[r] = "joined" => links[Link(r)] # "open"

\* What AlreadyMemberIsTrue and WritesAreScoped say of one step.
TrueRefusal ==
    \A r \in Requests :
        Kind(r) = "join" /\ pc'[r] = "conflict" /\ pc[r] # "conflict" => home[By(r)] # 0

ScopedWrite ==
    \A p \in People : home[p] # 0 /\ <<home[p], rank[p]>>' # <<home[p], rank[p]>> =>
        \E r \in Requests : pc'[r] = "done" /\ pc[r] # "done" /\ context[r] = home[p]

IInv ==
    /\ TypeOK /\ Numbered /\ Placed /\ Bodied /\ LinksLive /\ Claims /\ Drops
    /\ OneOwner /\ Spent /\ LinkOnce /\ LinkKept

-----------------------------------------------------------------------------
(* The steps, one by one                                                   *)

\* SetRole: a role that is set, or finds no row.
RoleSet(r) ==
    /\ pc[r] = "checked" /\ asks[r].kind = "role"
    /\ home[asks[r].subject] = context[r]
    /\ pc' = [pc EXCEPT ![r] = "done"]
    /\ rank' = [rank EXCEPT ![asks[r].subject] = asks[r].role]
    /\ UNCHANGED <<arrived, asks, context, households, home, links, claim, drop>>

RoleLost(r) ==
    /\ pc[r] = "checked" /\ asks[r].kind = "role"
    /\ home[asks[r].subject] # context[r]
    /\ pc' = [pc EXCEPT ![r] = "refused"]
    /\ UNCHANGED <<arrived, asks, context, households, home, rank, links, claim, drop>>

LEMMA SetRoleCases ==
    ASSUME NEW r \in Requests, SetRole(r)
    PROVE  RoleSet(r) \/ RoleLost(r)
<1>1. CASE home[Subject(r)] = context[r]
    BY <1>1 DEF SetRole, RoleSet, RoleLost, members, locks
<1>2. CASE home[Subject(r)] # context[r]
    BY <1>2 DEF SetRole, RoleSet, RoleLost, members, locks
<1> QED
    BY <1>1, <1>2

\* Invite: a link that is made, or finds no household.
Invited(r) ==
    /\ pc[r] = "entered" /\ asks[r].kind = "invite"
    /\ context[r] \in households
    /\ pc' = [pc EXCEPT ![r] = "done"]
    /\ links' = [links EXCEPT ![r] = "open"]
    /\ UNCHANGED <<arrived, asks, context, households, home, rank, claim, drop>>

InviteLost(r) ==
    /\ pc[r] = "entered" /\ asks[r].kind = "invite"
    /\ context[r] \notin households
    /\ pc' = [pc EXCEPT ![r] = "broken"]
    /\ UNCHANGED <<arrived, asks, context, households, home, rank, links, claim, drop>>

LEMMA InviteCases ==
    ASSUME NEW r \in Requests, Invite(r)
    PROVE  Invited(r) \/ InviteLost(r)
<1>1. CASE context[r] \in households
    BY <1>1 DEF Invite, Invited, InviteLost, members, locks
<1>2. CASE context[r] \notin households
    BY <1>2 DEF Invite, Invited, InviteLost, members, locks
<1> QED
    BY <1>1, <1>2

\* Drop: a household that is locked, or is gone.
DropHeld(r) ==
    /\ pc[r] = "entered" /\ asks[r].kind = "delete"
    /\ drop[context[r]] = 0
    /\ context[r] \in households
    /\ pc' = [pc EXCEPT ![r] = "dropping"]
    /\ drop' = [drop EXCEPT ![context[r]] = r]
    /\ UNCHANGED <<arrived, asks, context, households, home, rank, links, claim>>

DropLost(r) ==
    /\ pc[r] = "entered" /\ asks[r].kind = "delete"
    /\ drop[context[r]] = 0
    /\ context[r] \notin households
    /\ pc' = [pc EXCEPT ![r] = "done"]
    /\ UNCHANGED <<arrived, asks, context, households, home, rank, links, claim, drop>>

LEMMA DropCases ==
    ASSUME NEW r \in Requests, Drop(r)
    PROVE  DropHeld(r) \/ DropLost(r)
<1>1. CASE context[r] \in households
    BY <1>1 DEF Drop, DropHeld, DropLost, members, locks
<1>2. CASE context[r] \notin households
    BY <1>2 DEF Drop, DropHeld, DropLost, members, locks
<1> QED
    BY <1>1, <1>2

\* Claim: an open link that is claimed, or another.
ClaimHeld(r) ==
    /\ pc[r] = "entered" /\ asks[r].kind = "join"
    /\ claim[asks[r].link] = 0
    /\ links[asks[r].link] = "open"
    /\ pc' = [pc EXCEPT ![r] = "claimed"]
    /\ claim' = [claim EXCEPT ![asks[r].link] = r]
    /\ UNCHANGED <<arrived, asks, context, households, home, rank, links, drop>>

ClaimLost(r) ==
    /\ pc[r] = "entered" /\ asks[r].kind = "join"
    /\ claim[asks[r].link] = 0
    /\ links[asks[r].link] # "open"
    /\ pc' = [pc EXCEPT ![r] = "refused"]
    /\ UNCHANGED <<arrived, asks, context, households, home, rank, links, claim, drop>>

LEMMA ClaimCases ==
    ASSUME NEW r \in Requests, Claim(r)
    PROVE  ClaimHeld(r) \/ ClaimLost(r)
<1>1. CASE links[Link(r)] = "open"
    BY <1>1 DEF Claim, ClaimHeld, ClaimLost, members, locks
<1>2. CASE links[Link(r)] # "open"
    BY <1>2 DEF Claim, ClaimHeld, ClaimLost, members, locks
<1> QED
    BY <1>1, <1>2

\* Join: a member that is inserted, or rolled back.
JoinDone(r) ==
    /\ pc[r] = "claimed"
    /\ home[asks[r].by] = 0
    /\ context[asks[r].link] \in households
    /\ pc' = [pc EXCEPT ![r] = "joined"]
    /\ claim' = [claim EXCEPT ![asks[r].link] = 0]
    /\ home' = [home EXCEPT ![asks[r].by] = context[asks[r].link]]
    /\ rank' = [rank EXCEPT ![asks[r].by] = asks[asks[r].link].role]
    /\ links' = [links EXCEPT ![asks[r].link] = "used"]
    /\ UNCHANGED <<arrived, asks, context, households, drop>>

JoinLost(r) ==
    /\ pc[r] = "claimed"
    /\ home[asks[r].by] # 0 \/ context[asks[r].link] \notin households
    /\ pc' = [pc EXCEPT ![r] = "conflict"]
    /\ claim' = [claim EXCEPT ![asks[r].link] = 0]
    /\ UNCHANGED <<arrived, asks, context, households, home, rank, links, drop>>

LEMMA JoinCases ==
    ASSUME NEW r \in Requests, Join(r)
    PROVE  JoinDone(r) \/ JoinLost(r)
<1>1. CASE Accepted(r)
    BY <1>1 DEF Join, JoinDone, JoinLost, Accepted, Joined, members, locks
<1>2. CASE ~Accepted(r)
    BY <1>2 DEF Join, JoinDone, JoinLost, Accepted, Joined, members, locks
<1> QED
    BY <1>1, <1>2

\* Types are kept.
LEMMA Types ==
    ASSUME IInv, Next
    PROVE  TypeOK'
<1> USE DEF Requests
<1>0. TypeOK /\ Numbered /\ Bodied /\ Placed /\ Claims
    BY DEF IInv
<1> USE BoundsAssumption, GivenAssumption
<1>1. ASSUME NEW b \in Bodies, arrived < MaxRequests, arrived' = arrived + 1,
           asks' = [asks EXCEPT ![arrived + 1] = b], Enter(arrived + 1, b)
      PROVE  TypeOK'
    BY <1>0, <1>1 DEF TypeOK, Numbered, Bodied, Placed, Claims, Enter, Allowed, Bodies,
        Body, members, locks
<1>2. ASSUME NEW b \in Bodies, arrived < MaxRequests, arrived' = arrived + 1,
           asks' = [asks EXCEPT ![arrived + 1] = b], Create(arrived + 1, b)
      PROVE  TypeOK'
    BY <1>0, <1>2 DEF TypeOK, Numbered, Bodied, Placed, Claims, Create, Joined, Bodies,
        Body, members, locks
<1>3. ASSUME NEW b \in Bodies, arrived < MaxRequests, arrived' = arrived + 1,
           asks' = [asks EXCEPT ![arrived + 1] = b], EnterJoin(arrived + 1, b)
      PROVE  TypeOK'
    BY <1>0, <1>3 DEF TypeOK, Numbered, Bodied, Placed, Claims, EnterJoin, Bodies, Body,
        members, locks
<1>4. ASSUME NEW r \in Requests, Check(r) PROVE TypeOK'
    BY <1>0, <1>4 DEF TypeOK, Numbered, Bodied, Placed, Claims, Check, Body, members,
        locks
<1>5. ASSUME NEW r \in Requests, RoleSet(r) PROVE TypeOK'
    BY <1>0, <1>5 DEF TypeOK, Numbered, Bodied, Placed, Claims, RoleSet, Body, members,
        locks
<1>6. ASSUME NEW r \in Requests, RoleLost(r) PROVE TypeOK'
    BY <1>0, <1>6 DEF TypeOK, Numbered, Bodied, Placed, Claims, RoleLost, Body, members,
        locks
<1>7. ASSUME NEW r \in Requests, Remove(r) PROVE TypeOK'
    BY <1>0, <1>7 DEF TypeOK, Numbered, Bodied, Placed, Claims, Remove, Removal, Body,
        members, locks
<1>8. ASSUME NEW r \in Requests, Leave(r) PROVE TypeOK'
    BY <1>0, <1>8 DEF TypeOK, Numbered, Bodied, Placed, Claims, Leave, Removal, Body,
        members, locks
<1>9. ASSUME NEW r \in Requests, Invited(r) PROVE TypeOK'
    BY <1>0, <1>9 DEF TypeOK, Numbered, Bodied, Placed, Claims, Invited, Body, members,
        locks
<1>10. ASSUME NEW r \in Requests, InviteLost(r) PROVE TypeOK'
    BY <1>0, <1>10 DEF TypeOK, Numbered, Bodied, Placed, Claims, InviteLost, Body,
        members, locks
<1>11. ASSUME NEW r \in Requests, DropHeld(r) PROVE TypeOK'
    BY <1>0, <1>11 DEF TypeOK, Numbered, Bodied, Placed, Claims, DropHeld, Body,
        members, locks
<1>12. ASSUME NEW r \in Requests, DropLost(r) PROVE TypeOK'
    BY <1>0, <1>12 DEF TypeOK, Numbered, Bodied, Placed, Claims, DropLost, Body,
        members, locks
<1>13. ASSUME NEW r \in Requests, Cascade(r) PROVE TypeOK'
    BY <1>0, <1>13 DEF TypeOK, Numbered, Bodied, Placed, Claims, Cascade, Links, Body,
        members, locks
<1>14. ASSUME NEW r \in Requests, ClaimHeld(r) PROVE TypeOK'
    BY <1>0, <1>14 DEF TypeOK, Numbered, Bodied, Placed, Claims, ClaimHeld, Body,
        members, locks
<1>15. ASSUME NEW r \in Requests, ClaimLost(r) PROVE TypeOK'
    BY <1>0, <1>15 DEF TypeOK, Numbered, Bodied, Placed, Claims, ClaimLost, Body,
        members, locks
<1>16. ASSUME NEW r \in Requests, JoinDone(r) PROVE TypeOK'
    BY <1>0, <1>16 DEF TypeOK, Numbered, Bodied, Placed, Claims, JoinDone, Body,
        members, locks
<1>17. ASSUME NEW r \in Requests, JoinLost(r) PROVE TypeOK'
    BY <1>0, <1>17 DEF TypeOK, Numbered, Bodied, Placed, Claims, JoinLost, Body,
        members, locks
<1>18. ASSUME NEW r \in Requests, Victim(r) PROVE TypeOK'
    BY <1>0, <1>18 DEF TypeOK, Numbered, Bodied, Placed, Claims, Victim, WaitsFor, Body,
        members, locks
<1>19. ASSUME NEW r \in Requests, Expire(r) PROVE TypeOK'
    BY <1>0, <1>19 DEF TypeOK, Numbered, Bodied, Placed, Claims, Expire, Body, members,
        locks
<1> QED
    BY <1>1, <1>2, <1>3, <1>4, <1>5, <1>6, <1>7, <1>8, <1>9, <1>10, <1>11, <1>12, <1>13,
        <1>14, <1>15, <1>16, <1>17, <1>18, <1>19, SetRoleCases, InviteCases, DropCases,
        ClaimCases, JoinCases DEF Next, Arrive, Handler

\* Numbers are given in order.
LEMMA Numbers ==
    ASSUME IInv, Next
    PROVE  Numbered'
<1> USE DEF Requests
<1>0. TypeOK /\ Numbered /\ Placed /\ Bodied /\ LinksLive /\ Claims
    BY DEF IInv
<1> USE BoundsAssumption, GivenAssumption
<1>1. ASSUME NEW b \in Bodies, arrived < MaxRequests, arrived' = arrived + 1,
           asks' = [asks EXCEPT ![arrived + 1] = b], Enter(arrived + 1, b)
      PROVE  Numbered'
    BY <1>0, <1>1 DEF TypeOK, Numbered, Placed, Bodied, LinksLive, Claims, Enter,
        Allowed, Bodies, Body, members, locks
<1>2. ASSUME NEW b \in Bodies, arrived < MaxRequests, arrived' = arrived + 1,
           asks' = [asks EXCEPT ![arrived + 1] = b], Create(arrived + 1, b)
      PROVE  Numbered'
    BY <1>0, <1>2 DEF TypeOK, Numbered, Placed, Bodied, LinksLive, Claims, Create,
        Joined, Bodies, Body, members, locks
<1>3. ASSUME NEW b \in Bodies, arrived < MaxRequests, arrived' = arrived + 1,
           asks' = [asks EXCEPT ![arrived + 1] = b], EnterJoin(arrived + 1, b)
      PROVE  Numbered'
    BY <1>0, <1>3 DEF TypeOK, Numbered, Placed, Bodied, LinksLive, Claims, EnterJoin,
        Bodies, Body, members, locks
<1>4. ASSUME NEW r \in Requests, Check(r) PROVE Numbered'
    BY <1>0, <1>4 DEF TypeOK, Numbered, Placed, Bodied, LinksLive, Claims, Check, Body,
        members, locks
<1>5. ASSUME NEW r \in Requests, RoleSet(r) PROVE Numbered'
    BY <1>0, <1>5 DEF TypeOK, Numbered, Placed, Bodied, LinksLive, Claims, RoleSet,
        Body, members, locks
<1>6. ASSUME NEW r \in Requests, RoleLost(r) PROVE Numbered'
    BY <1>0, <1>6 DEF TypeOK, Numbered, Placed, Bodied, LinksLive, Claims, RoleLost,
        Body, members, locks
<1>7. ASSUME NEW r \in Requests, Remove(r) PROVE Numbered'
    BY <1>0, <1>7 DEF TypeOK, Numbered, Placed, Bodied, LinksLive, Claims, Remove,
        Removal, Body, members, locks
<1>8. ASSUME NEW r \in Requests, Leave(r) PROVE Numbered'
    BY <1>0, <1>8 DEF TypeOK, Numbered, Placed, Bodied, LinksLive, Claims, Leave,
        Removal, Body, members, locks
<1>9. ASSUME NEW r \in Requests, Invited(r) PROVE Numbered'
    BY <1>0, <1>9 DEF TypeOK, Numbered, Placed, Bodied, LinksLive, Claims, Invited,
        Body, members, locks
<1>10. ASSUME NEW r \in Requests, InviteLost(r) PROVE Numbered'
    BY <1>0, <1>10 DEF TypeOK, Numbered, Placed, Bodied, LinksLive, Claims, InviteLost,
        Body, members, locks
<1>11. ASSUME NEW r \in Requests, DropHeld(r) PROVE Numbered'
    BY <1>0, <1>11 DEF TypeOK, Numbered, Placed, Bodied, LinksLive, Claims, DropHeld,
        Body, members, locks
<1>12. ASSUME NEW r \in Requests, DropLost(r) PROVE Numbered'
    BY <1>0, <1>12 DEF TypeOK, Numbered, Placed, Bodied, LinksLive, Claims, DropLost,
        Body, members, locks
<1>13. ASSUME NEW r \in Requests, Cascade(r) PROVE Numbered'
    BY <1>0, <1>13 DEF TypeOK, Numbered, Placed, Bodied, LinksLive, Claims, Cascade,
        Links, Body, members, locks
<1>14. ASSUME NEW r \in Requests, ClaimHeld(r) PROVE Numbered'
    BY <1>0, <1>14 DEF TypeOK, Numbered, Placed, Bodied, LinksLive, Claims, ClaimHeld,
        Body, members, locks
<1>15. ASSUME NEW r \in Requests, ClaimLost(r) PROVE Numbered'
    BY <1>0, <1>15 DEF TypeOK, Numbered, Placed, Bodied, LinksLive, Claims, ClaimLost,
        Body, members, locks
<1>16. ASSUME NEW r \in Requests, JoinDone(r) PROVE Numbered'
    BY <1>0, <1>16 DEF TypeOK, Numbered, Placed, Bodied, LinksLive, Claims, JoinDone,
        Body, members, locks
<1>17. ASSUME NEW r \in Requests, JoinLost(r) PROVE Numbered'
    BY <1>0, <1>17 DEF TypeOK, Numbered, Placed, Bodied, LinksLive, Claims, JoinLost,
        Body, members, locks
<1>18. ASSUME NEW r \in Requests, Victim(r) PROVE Numbered'
    BY <1>0, <1>18 DEF TypeOK, Numbered, Placed, Bodied, LinksLive, Claims, Victim,
        WaitsFor, Body, members, locks
<1>19. ASSUME NEW r \in Requests, Expire(r) PROVE Numbered'
    BY <1>0, <1>19 DEF TypeOK, Numbered, Placed, Bodied, LinksLive, Claims, Expire,
        Body, members, locks
<1> QED
    BY <1>1, <1>2, <1>3, <1>4, <1>5, <1>6, <1>7, <1>8, <1>9, <1>10, <1>11, <1>12, <1>13,
        <1>14, <1>15, <1>16, <1>17, <1>18, <1>19, SetRoleCases, InviteCases, DropCases,
        ClaimCases, JoinCases DEF Next, Arrive, Handler

\* Handlers stay where they may be.
LEMMA Places ==
    ASSUME IInv, Next
    PROVE  Placed'
<1> USE DEF Requests
<1>0. TypeOK /\ Numbered /\ Placed /\ OneOwner
    BY DEF IInv
<1> USE BoundsAssumption, GivenAssumption
<1>1. ASSUME NEW b \in Bodies, arrived < MaxRequests, arrived' = arrived + 1,
           asks' = [asks EXCEPT ![arrived + 1] = b], Enter(arrived + 1, b)
      PROVE  Placed'
    BY <1>0, <1>1 DEF TypeOK, Numbered, Placed, OneOwner, Enter, Allowed, Bodies, Body,
        members, locks
<1>2. ASSUME NEW b \in Bodies, arrived < MaxRequests, arrived' = arrived + 1,
           asks' = [asks EXCEPT ![arrived + 1] = b], Create(arrived + 1, b)
      PROVE  Placed'
    BY <1>0, <1>2 DEF TypeOK, Numbered, Placed, OneOwner, Create, Joined, Bodies, Body,
        members, locks
<1>3. ASSUME NEW b \in Bodies, arrived < MaxRequests, arrived' = arrived + 1,
           asks' = [asks EXCEPT ![arrived + 1] = b], EnterJoin(arrived + 1, b)
      PROVE  Placed'
    BY <1>0, <1>3 DEF TypeOK, Numbered, Placed, OneOwner, EnterJoin, Bodies, Body,
        members, locks
<1>4. ASSUME NEW r \in Requests, Check(r) PROVE Placed'
    BY <1>0, <1>4 DEF TypeOK, Numbered, Placed, OneOwner, Check, Body, members, locks
<1>5. ASSUME NEW r \in Requests, RoleSet(r) PROVE Placed'
    BY <1>0, <1>5 DEF TypeOK, Numbered, Placed, OneOwner, RoleSet, Body, members, locks
<1>6. ASSUME NEW r \in Requests, RoleLost(r) PROVE Placed'
    BY <1>0, <1>6 DEF TypeOK, Numbered, Placed, OneOwner, RoleLost, Body, members, locks
<1>7. ASSUME NEW r \in Requests, Remove(r) PROVE Placed'
    BY <1>0, <1>7 DEF TypeOK, Numbered, Placed, OneOwner, Remove, Removal, Body,
        members, locks
<1>8. ASSUME NEW r \in Requests, Leave(r) PROVE Placed'
    BY <1>0, <1>8 DEF TypeOK, Numbered, Placed, OneOwner, Leave, Removal, Body, members,
        locks
<1>9. ASSUME NEW r \in Requests, Invited(r) PROVE Placed'
    BY <1>0, <1>9 DEF TypeOK, Numbered, Placed, OneOwner, Invited, Body, members, locks
<1>10. ASSUME NEW r \in Requests, InviteLost(r) PROVE Placed'
    BY <1>0, <1>10 DEF TypeOK, Numbered, Placed, OneOwner, InviteLost, Body, members,
        locks
<1>11. ASSUME NEW r \in Requests, DropHeld(r) PROVE Placed'
    BY <1>0, <1>11 DEF TypeOK, Numbered, Placed, OneOwner, DropHeld, Body, members,
        locks
<1>12. ASSUME NEW r \in Requests, DropLost(r) PROVE Placed'
    BY <1>0, <1>12 DEF TypeOK, Numbered, Placed, OneOwner, DropLost, Body, members,
        locks
<1>13. ASSUME NEW r \in Requests, Cascade(r) PROVE Placed'
    BY <1>0, <1>13 DEF TypeOK, Numbered, Placed, OneOwner, Cascade, Links, Body,
        members, locks
<1>14. ASSUME NEW r \in Requests, ClaimHeld(r) PROVE Placed'
    BY <1>0, <1>14 DEF TypeOK, Numbered, Placed, OneOwner, ClaimHeld, Body, members,
        locks
<1>15. ASSUME NEW r \in Requests, ClaimLost(r) PROVE Placed'
    BY <1>0, <1>15 DEF TypeOK, Numbered, Placed, OneOwner, ClaimLost, Body, members,
        locks
<1>16. ASSUME NEW r \in Requests, JoinDone(r) PROVE Placed'
    BY <1>0, <1>16 DEF TypeOK, Numbered, Placed, OneOwner, JoinDone, Body, members,
        locks
<1>17. ASSUME NEW r \in Requests, JoinLost(r) PROVE Placed'
    BY <1>0, <1>17 DEF TypeOK, Numbered, Placed, OneOwner, JoinLost, Body, members,
        locks
<1>18. ASSUME NEW r \in Requests, Victim(r) PROVE Placed'
    BY <1>0, <1>18 DEF TypeOK, Numbered, Placed, OneOwner, Victim, WaitsFor, Body,
        members, locks
<1>19. ASSUME NEW r \in Requests, Expire(r) PROVE Placed'
    BY <1>0, <1>19 DEF TypeOK, Numbered, Placed, OneOwner, Expire, Body, members, locks
<1> QED
    BY <1>1, <1>2, <1>3, <1>4, <1>5, <1>6, <1>7, <1>8, <1>9, <1>10, <1>11, <1>12, <1>13,
        <1>14, <1>15, <1>16, <1>17, <1>18, <1>19, SetRoleCases, InviteCases, DropCases,
        ClaimCases, JoinCases DEF Next, Arrive, Handler

\* Bodies stay as they arrived.
LEMMA Bodying ==
    ASSUME IInv, Next
    PROVE  Bodied'
<1> USE DEF Requests
<1>0. TypeOK /\ Numbered /\ Bodied
    BY DEF IInv
<1> USE BoundsAssumption, GivenAssumption
<1>1. ASSUME NEW b \in Bodies, arrived < MaxRequests, arrived' = arrived + 1,
           asks' = [asks EXCEPT ![arrived + 1] = b], Enter(arrived + 1, b)
      PROVE  Bodied'
    BY <1>0, <1>1 DEF TypeOK, Numbered, Bodied, Enter, Allowed, Bodies, Body, members,
        locks
<1>2. ASSUME NEW b \in Bodies, arrived < MaxRequests, arrived' = arrived + 1,
           asks' = [asks EXCEPT ![arrived + 1] = b], Create(arrived + 1, b)
      PROVE  Bodied'
    BY <1>0, <1>2 DEF TypeOK, Numbered, Bodied, Create, Joined, Bodies, Body, members,
        locks
<1>3. ASSUME NEW b \in Bodies, arrived < MaxRequests, arrived' = arrived + 1,
           asks' = [asks EXCEPT ![arrived + 1] = b], EnterJoin(arrived + 1, b)
      PROVE  Bodied'
    BY <1>0, <1>3 DEF TypeOK, Numbered, Bodied, EnterJoin, Bodies, Body, members, locks
<1>4. ASSUME NEW r \in Requests, Check(r) PROVE Bodied'
    BY <1>0, <1>4 DEF TypeOK, Numbered, Bodied, Check, Body, members, locks
<1>5. ASSUME NEW r \in Requests, RoleSet(r) PROVE Bodied'
    BY <1>0, <1>5 DEF TypeOK, Numbered, Bodied, RoleSet, Body, members, locks
<1>6. ASSUME NEW r \in Requests, RoleLost(r) PROVE Bodied'
    BY <1>0, <1>6 DEF TypeOK, Numbered, Bodied, RoleLost, Body, members, locks
<1>7. ASSUME NEW r \in Requests, Remove(r) PROVE Bodied'
    BY <1>0, <1>7 DEF TypeOK, Numbered, Bodied, Remove, Removal, Body, members, locks
<1>8. ASSUME NEW r \in Requests, Leave(r) PROVE Bodied'
    BY <1>0, <1>8 DEF TypeOK, Numbered, Bodied, Leave, Removal, Body, members, locks
<1>9. ASSUME NEW r \in Requests, Invited(r) PROVE Bodied'
    BY <1>0, <1>9 DEF TypeOK, Numbered, Bodied, Invited, Body, members, locks
<1>10. ASSUME NEW r \in Requests, InviteLost(r) PROVE Bodied'
    BY <1>0, <1>10 DEF TypeOK, Numbered, Bodied, InviteLost, Body, members, locks
<1>11. ASSUME NEW r \in Requests, DropHeld(r) PROVE Bodied'
    BY <1>0, <1>11 DEF TypeOK, Numbered, Bodied, DropHeld, Body, members, locks
<1>12. ASSUME NEW r \in Requests, DropLost(r) PROVE Bodied'
    BY <1>0, <1>12 DEF TypeOK, Numbered, Bodied, DropLost, Body, members, locks
<1>13. ASSUME NEW r \in Requests, Cascade(r) PROVE Bodied'
    BY <1>0, <1>13 DEF TypeOK, Numbered, Bodied, Cascade, Links, Body, members, locks
<1>14. ASSUME NEW r \in Requests, ClaimHeld(r) PROVE Bodied'
    BY <1>0, <1>14 DEF TypeOK, Numbered, Bodied, ClaimHeld, Body, members, locks
<1>15. ASSUME NEW r \in Requests, ClaimLost(r) PROVE Bodied'
    BY <1>0, <1>15 DEF TypeOK, Numbered, Bodied, ClaimLost, Body, members, locks
<1>16. ASSUME NEW r \in Requests, JoinDone(r) PROVE Bodied'
    BY <1>0, <1>16 DEF TypeOK, Numbered, Bodied, JoinDone, Body, members, locks
<1>17. ASSUME NEW r \in Requests, JoinLost(r) PROVE Bodied'
    BY <1>0, <1>17 DEF TypeOK, Numbered, Bodied, JoinLost, Body, members, locks
<1>18. ASSUME NEW r \in Requests, Victim(r) PROVE Bodied'
    BY <1>0, <1>18 DEF TypeOK, Numbered, Bodied, Victim, WaitsFor, Body, members, locks
<1>19. ASSUME NEW r \in Requests, Expire(r) PROVE Bodied'
    BY <1>0, <1>19 DEF TypeOK, Numbered, Bodied, Expire, Body, members, locks
<1> QED
    BY <1>1, <1>2, <1>3, <1>4, <1>5, <1>6, <1>7, <1>8, <1>9, <1>10, <1>11, <1>12, <1>13,
        <1>14, <1>15, <1>16, <1>17, <1>18, <1>19, SetRoleCases, InviteCases, DropCases,
        ClaimCases, JoinCases DEF Next, Arrive, Handler

\* Links go with their household.
LEMMA Linked ==
    ASSUME IInv, Next
    PROVE  LinksLive'
<1> USE DEF Requests
<1>0. TypeOK /\ Numbered /\ LinksLive /\ Placed /\ Bodied /\ Claims
    BY DEF IInv
<1> USE BoundsAssumption, GivenAssumption
<1>1. ASSUME NEW b \in Bodies, arrived < MaxRequests, arrived' = arrived + 1,
           asks' = [asks EXCEPT ![arrived + 1] = b], Enter(arrived + 1, b)
      PROVE  LinksLive'
    BY <1>0, <1>1 DEF TypeOK, Numbered, LinksLive, Placed, Bodied, Claims, Enter,
        Allowed, Bodies, Body, members, locks
<1>2. ASSUME NEW b \in Bodies, arrived < MaxRequests, arrived' = arrived + 1,
           asks' = [asks EXCEPT ![arrived + 1] = b], Create(arrived + 1, b)
      PROVE  LinksLive'
    BY <1>0, <1>2 DEF TypeOK, Numbered, LinksLive, Placed, Bodied, Claims, Create,
        Joined, Bodies, Body, members, locks
<1>3. ASSUME NEW b \in Bodies, arrived < MaxRequests, arrived' = arrived + 1,
           asks' = [asks EXCEPT ![arrived + 1] = b], EnterJoin(arrived + 1, b)
      PROVE  LinksLive'
    BY <1>0, <1>3 DEF TypeOK, Numbered, LinksLive, Placed, Bodied, Claims, EnterJoin,
        Bodies, Body, members, locks
<1>4. ASSUME NEW r \in Requests, Check(r) PROVE LinksLive'
    BY <1>0, <1>4 DEF TypeOK, Numbered, LinksLive, Placed, Bodied, Claims, Check, Body,
        members, locks
<1>5. ASSUME NEW r \in Requests, RoleSet(r) PROVE LinksLive'
    BY <1>0, <1>5 DEF TypeOK, Numbered, LinksLive, Placed, Bodied, Claims, RoleSet,
        Body, members, locks
<1>6. ASSUME NEW r \in Requests, RoleLost(r) PROVE LinksLive'
    BY <1>0, <1>6 DEF TypeOK, Numbered, LinksLive, Placed, Bodied, Claims, RoleLost,
        Body, members, locks
<1>7. ASSUME NEW r \in Requests, Remove(r) PROVE LinksLive'
    BY <1>0, <1>7 DEF TypeOK, Numbered, LinksLive, Placed, Bodied, Claims, Remove,
        Removal, Body, members, locks
<1>8. ASSUME NEW r \in Requests, Leave(r) PROVE LinksLive'
    BY <1>0, <1>8 DEF TypeOK, Numbered, LinksLive, Placed, Bodied, Claims, Leave,
        Removal, Body, members, locks
<1>9. ASSUME NEW r \in Requests, Invited(r) PROVE LinksLive'
    BY <1>0, <1>9 DEF TypeOK, Numbered, LinksLive, Placed, Bodied, Claims, Invited,
        Body, members, locks
<1>10. ASSUME NEW r \in Requests, InviteLost(r) PROVE LinksLive'
    BY <1>0, <1>10 DEF TypeOK, Numbered, LinksLive, Placed, Bodied, Claims, InviteLost,
        Body, members, locks
<1>11. ASSUME NEW r \in Requests, DropHeld(r) PROVE LinksLive'
    BY <1>0, <1>11 DEF TypeOK, Numbered, LinksLive, Placed, Bodied, Claims, DropHeld,
        Body, members, locks
<1>12. ASSUME NEW r \in Requests, DropLost(r) PROVE LinksLive'
    BY <1>0, <1>12 DEF TypeOK, Numbered, LinksLive, Placed, Bodied, Claims, DropLost,
        Body, members, locks
<1>13. ASSUME NEW r \in Requests, Cascade(r) PROVE LinksLive'
    BY <1>0, <1>13 DEF TypeOK, Numbered, LinksLive, Placed, Bodied, Claims, Cascade,
        Links, Body, members, locks
<1>14. ASSUME NEW r \in Requests, ClaimHeld(r) PROVE LinksLive'
    BY <1>0, <1>14 DEF TypeOK, Numbered, LinksLive, Placed, Bodied, Claims, ClaimHeld,
        Body, members, locks
<1>15. ASSUME NEW r \in Requests, ClaimLost(r) PROVE LinksLive'
    BY <1>0, <1>15 DEF TypeOK, Numbered, LinksLive, Placed, Bodied, Claims, ClaimLost,
        Body, members, locks
<1>16. ASSUME NEW r \in Requests, JoinDone(r) PROVE LinksLive'
    BY <1>0, <1>16 DEF TypeOK, Numbered, LinksLive, Placed, Bodied, Claims, JoinDone,
        Body, members, locks
<1>17. ASSUME NEW r \in Requests, JoinLost(r) PROVE LinksLive'
    BY <1>0, <1>17 DEF TypeOK, Numbered, LinksLive, Placed, Bodied, Claims, JoinLost,
        Body, members, locks
<1>18. ASSUME NEW r \in Requests, Victim(r) PROVE LinksLive'
    BY <1>0, <1>18 DEF TypeOK, Numbered, LinksLive, Placed, Bodied, Claims, Victim,
        WaitsFor, Body, members, locks
<1>19. ASSUME NEW r \in Requests, Expire(r) PROVE LinksLive'
    BY <1>0, <1>19 DEF TypeOK, Numbered, LinksLive, Placed, Bodied, Claims, Expire,
        Body, members, locks
<1> QED
    BY <1>1, <1>2, <1>3, <1>4, <1>5, <1>6, <1>7, <1>8, <1>9, <1>10, <1>11, <1>12, <1>13,
        <1>14, <1>15, <1>16, <1>17, <1>18, <1>19, SetRoleCases, InviteCases, DropCases,
        ClaimCases, JoinCases DEF Next, Arrive, Handler

\* Claims have one holder.
LEMMA Claimed ==
    ASSUME IInv, Next
    PROVE  Claims'
<1> USE DEF Requests
<1>0. TypeOK /\ Numbered /\ Placed /\ Bodied /\ LinksLive /\ Claims
    BY DEF IInv
<1> USE BoundsAssumption, GivenAssumption
<1>1. ASSUME NEW b \in Bodies, arrived < MaxRequests, arrived' = arrived + 1,
           asks' = [asks EXCEPT ![arrived + 1] = b], Enter(arrived + 1, b)
      PROVE  Claims'
    BY <1>0, <1>1 DEF TypeOK, Numbered, Placed, Bodied, LinksLive, Claims, Enter,
        Allowed, Bodies, Body, members, locks
<1>2. ASSUME NEW b \in Bodies, arrived < MaxRequests, arrived' = arrived + 1,
           asks' = [asks EXCEPT ![arrived + 1] = b], Create(arrived + 1, b)
      PROVE  Claims'
    BY <1>0, <1>2 DEF TypeOK, Numbered, Placed, Bodied, LinksLive, Claims, Create,
        Joined, Bodies, Body, members, locks
<1>3. ASSUME NEW b \in Bodies, arrived < MaxRequests, arrived' = arrived + 1,
           asks' = [asks EXCEPT ![arrived + 1] = b], EnterJoin(arrived + 1, b)
      PROVE  Claims'
    BY <1>0, <1>3 DEF TypeOK, Numbered, Placed, Bodied, LinksLive, Claims, EnterJoin,
        Bodies, Body, members, locks
<1>4. ASSUME NEW r \in Requests, Check(r) PROVE Claims'
    BY <1>0, <1>4 DEF TypeOK, Numbered, Placed, Bodied, LinksLive, Claims, Check, Body,
        members, locks
<1>5. ASSUME NEW r \in Requests, RoleSet(r) PROVE Claims'
    BY <1>0, <1>5 DEF TypeOK, Numbered, Placed, Bodied, LinksLive, Claims, RoleSet,
        Body, members, locks
<1>6. ASSUME NEW r \in Requests, RoleLost(r) PROVE Claims'
    BY <1>0, <1>6 DEF TypeOK, Numbered, Placed, Bodied, LinksLive, Claims, RoleLost,
        Body, members, locks
<1>7. ASSUME NEW r \in Requests, Remove(r) PROVE Claims'
    BY <1>0, <1>7 DEF TypeOK, Numbered, Placed, Bodied, LinksLive, Claims, Remove,
        Removal, Body, members, locks
<1>8. ASSUME NEW r \in Requests, Leave(r) PROVE Claims'
    BY <1>0, <1>8 DEF TypeOK, Numbered, Placed, Bodied, LinksLive, Claims, Leave,
        Removal, Body, members, locks
<1>9. ASSUME NEW r \in Requests, Invited(r) PROVE Claims'
    BY <1>0, <1>9 DEF TypeOK, Numbered, Placed, Bodied, LinksLive, Claims, Invited,
        Body, members, locks
<1>10. ASSUME NEW r \in Requests, InviteLost(r) PROVE Claims'
    BY <1>0, <1>10 DEF TypeOK, Numbered, Placed, Bodied, LinksLive, Claims, InviteLost,
        Body, members, locks
<1>11. ASSUME NEW r \in Requests, DropHeld(r) PROVE Claims'
    BY <1>0, <1>11 DEF TypeOK, Numbered, Placed, Bodied, LinksLive, Claims, DropHeld,
        Body, members, locks
<1>12. ASSUME NEW r \in Requests, DropLost(r) PROVE Claims'
    BY <1>0, <1>12 DEF TypeOK, Numbered, Placed, Bodied, LinksLive, Claims, DropLost,
        Body, members, locks
<1>13. ASSUME NEW r \in Requests, Cascade(r) PROVE Claims'
    BY <1>0, <1>13 DEF TypeOK, Numbered, Placed, Bodied, LinksLive, Claims, Cascade,
        Links, Body, members, locks
<1>14. ASSUME NEW r \in Requests, ClaimHeld(r) PROVE Claims'
    BY <1>0, <1>14 DEF TypeOK, Numbered, Placed, Bodied, LinksLive, Claims, ClaimHeld,
        Body, members, locks
<1>15. ASSUME NEW r \in Requests, ClaimLost(r) PROVE Claims'
    BY <1>0, <1>15 DEF TypeOK, Numbered, Placed, Bodied, LinksLive, Claims, ClaimLost,
        Body, members, locks
<1>16. ASSUME NEW r \in Requests, JoinDone(r) PROVE Claims'
    BY <1>0, <1>16 DEF TypeOK, Numbered, Placed, Bodied, LinksLive, Claims, JoinDone,
        Body, members, locks
<1>17. ASSUME NEW r \in Requests, JoinLost(r) PROVE Claims'
    BY <1>0, <1>17 DEF TypeOK, Numbered, Placed, Bodied, LinksLive, Claims, JoinLost,
        Body, members, locks
<1>18. ASSUME NEW r \in Requests, Victim(r) PROVE Claims'
    BY <1>0, <1>18 DEF TypeOK, Numbered, Placed, Bodied, LinksLive, Claims, Victim,
        WaitsFor, Body, members, locks
<1>19. ASSUME NEW r \in Requests, Expire(r) PROVE Claims'
    BY <1>0, <1>19 DEF TypeOK, Numbered, Placed, Bodied, LinksLive, Claims, Expire,
        Body, members, locks
<1> QED
    BY <1>1, <1>2, <1>3, <1>4, <1>5, <1>6, <1>7, <1>8, <1>9, <1>10, <1>11, <1>12, <1>13,
        <1>14, <1>15, <1>16, <1>17, <1>18, <1>19, SetRoleCases, InviteCases, DropCases,
        ClaimCases, JoinCases DEF Next, Arrive, Handler

\* Deletes have one holder.
LEMMA Dropped ==
    ASSUME IInv, Next
    PROVE  Drops'
<1> USE DEF Requests
<1>0. TypeOK /\ Numbered /\ Placed /\ LinksLive /\ Drops
    BY DEF IInv
<1> USE BoundsAssumption, GivenAssumption
<1>1. ASSUME NEW b \in Bodies, arrived < MaxRequests, arrived' = arrived + 1,
           asks' = [asks EXCEPT ![arrived + 1] = b], Enter(arrived + 1, b)
      PROVE  Drops'
    BY <1>0, <1>1 DEF TypeOK, Numbered, Placed, LinksLive, Drops, Enter, Allowed,
        Bodies, Body, members, locks
<1>2. ASSUME NEW b \in Bodies, arrived < MaxRequests, arrived' = arrived + 1,
           asks' = [asks EXCEPT ![arrived + 1] = b], Create(arrived + 1, b)
      PROVE  Drops'
    BY <1>0, <1>2 DEF TypeOK, Numbered, Placed, LinksLive, Drops, Create, Joined,
        Bodies, Body, members, locks
<1>3. ASSUME NEW b \in Bodies, arrived < MaxRequests, arrived' = arrived + 1,
           asks' = [asks EXCEPT ![arrived + 1] = b], EnterJoin(arrived + 1, b)
      PROVE  Drops'
    BY <1>0, <1>3 DEF TypeOK, Numbered, Placed, LinksLive, Drops, EnterJoin, Bodies,
        Body, members, locks
<1>4. ASSUME NEW r \in Requests, Check(r) PROVE Drops'
    BY <1>0, <1>4 DEF TypeOK, Numbered, Placed, LinksLive, Drops, Check, Body, members,
        locks
<1>5. ASSUME NEW r \in Requests, RoleSet(r) PROVE Drops'
    BY <1>0, <1>5 DEF TypeOK, Numbered, Placed, LinksLive, Drops, RoleSet, Body,
        members, locks
<1>6. ASSUME NEW r \in Requests, RoleLost(r) PROVE Drops'
    BY <1>0, <1>6 DEF TypeOK, Numbered, Placed, LinksLive, Drops, RoleLost, Body,
        members, locks
<1>7. ASSUME NEW r \in Requests, Remove(r) PROVE Drops'
    BY <1>0, <1>7 DEF TypeOK, Numbered, Placed, LinksLive, Drops, Remove, Removal, Body,
        members, locks
<1>8. ASSUME NEW r \in Requests, Leave(r) PROVE Drops'
    BY <1>0, <1>8 DEF TypeOK, Numbered, Placed, LinksLive, Drops, Leave, Removal, Body,
        members, locks
<1>9. ASSUME NEW r \in Requests, Invited(r) PROVE Drops'
    BY <1>0, <1>9 DEF TypeOK, Numbered, Placed, LinksLive, Drops, Invited, Body,
        members, locks
<1>10. ASSUME NEW r \in Requests, InviteLost(r) PROVE Drops'
    BY <1>0, <1>10 DEF TypeOK, Numbered, Placed, LinksLive, Drops, InviteLost, Body,
        members, locks
<1>11. ASSUME NEW r \in Requests, DropHeld(r) PROVE Drops'
    BY <1>0, <1>11 DEF TypeOK, Numbered, Placed, LinksLive, Drops, DropHeld, Body,
        members, locks
<1>12. ASSUME NEW r \in Requests, DropLost(r) PROVE Drops'
    BY <1>0, <1>12 DEF TypeOK, Numbered, Placed, LinksLive, Drops, DropLost, Body,
        members, locks
<1>13. ASSUME NEW r \in Requests, Cascade(r) PROVE Drops'
    BY <1>0, <1>13 DEF TypeOK, Numbered, Placed, LinksLive, Drops, Cascade, Links, Body,
        members, locks
<1>14. ASSUME NEW r \in Requests, ClaimHeld(r) PROVE Drops'
    BY <1>0, <1>14 DEF TypeOK, Numbered, Placed, LinksLive, Drops, ClaimHeld, Body,
        members, locks
<1>15. ASSUME NEW r \in Requests, ClaimLost(r) PROVE Drops'
    BY <1>0, <1>15 DEF TypeOK, Numbered, Placed, LinksLive, Drops, ClaimLost, Body,
        members, locks
<1>16. ASSUME NEW r \in Requests, JoinDone(r) PROVE Drops'
    BY <1>0, <1>16 DEF TypeOK, Numbered, Placed, LinksLive, Drops, JoinDone, Body,
        members, locks
<1>17. ASSUME NEW r \in Requests, JoinLost(r) PROVE Drops'
    BY <1>0, <1>17 DEF TypeOK, Numbered, Placed, LinksLive, Drops, JoinLost, Body,
        members, locks
<1>18. ASSUME NEW r \in Requests, Victim(r) PROVE Drops'
    BY <1>0, <1>18 DEF TypeOK, Numbered, Placed, LinksLive, Drops, Victim, WaitsFor,
        Body, members, locks
<1>19. ASSUME NEW r \in Requests, Expire(r) PROVE Drops'
    BY <1>0, <1>19 DEF TypeOK, Numbered, Placed, LinksLive, Drops, Expire, Body,
        members, locks
<1> QED
    BY <1>1, <1>2, <1>3, <1>4, <1>5, <1>6, <1>7, <1>8, <1>9, <1>10, <1>11, <1>12, <1>13,
        <1>14, <1>15, <1>16, <1>17, <1>18, <1>19, SetRoleCases, InviteCases, DropCases,
        ClaimCases, JoinCases DEF Next, Arrive, Handler

\* The creator stays the one owner.
LEMMA Owned ==
    ASSUME IInv, Next
    PROVE  OneOwner'
<1> USE DEF Requests
<1>0. TypeOK /\ Numbered /\ Placed /\ Bodied /\ LinksLive /\ Claims /\ Drops /\ OneOwner
    BY DEF IInv
<1> USE BoundsAssumption, GivenAssumption
<1>1. ASSUME NEW b \in Bodies, arrived < MaxRequests, arrived' = arrived + 1,
           asks' = [asks EXCEPT ![arrived + 1] = b], Enter(arrived + 1, b)
      PROVE  OneOwner'
    BY <1>0, <1>1 DEF TypeOK, Numbered, Placed, Bodied, LinksLive, Claims, Drops,
        OneOwner, Enter, Allowed, Bodies, Body, members, locks
<1>2. ASSUME NEW b \in Bodies, arrived < MaxRequests, arrived' = arrived + 1,
           asks' = [asks EXCEPT ![arrived + 1] = b], Create(arrived + 1, b)
      PROVE  OneOwner'
    BY <1>0, <1>2 DEF TypeOK, Numbered, Placed, Bodied, LinksLive, Claims, Drops,
        OneOwner, Create, Joined, Bodies, Body, members, locks
<1>3. ASSUME NEW b \in Bodies, arrived < MaxRequests, arrived' = arrived + 1,
           asks' = [asks EXCEPT ![arrived + 1] = b], EnterJoin(arrived + 1, b)
      PROVE  OneOwner'
    BY <1>0, <1>3 DEF TypeOK, Numbered, Placed, Bodied, LinksLive, Claims, Drops,
        OneOwner, EnterJoin, Bodies, Body, members, locks
<1>4. ASSUME NEW r \in Requests, Check(r) PROVE OneOwner'
    BY <1>0, <1>4 DEF TypeOK, Numbered, Placed, Bodied, LinksLive, Claims, Drops,
        OneOwner, Check, Body, members, locks
<1>5. ASSUME NEW r \in Requests, RoleSet(r) PROVE OneOwner'
    BY <1>0, <1>5 DEF TypeOK, Numbered, Placed, Bodied, LinksLive, Claims, Drops,
        OneOwner, RoleSet, Body, members, locks
<1>6. ASSUME NEW r \in Requests, RoleLost(r) PROVE OneOwner'
    BY <1>0, <1>6 DEF TypeOK, Numbered, Placed, Bodied, LinksLive, Claims, Drops,
        OneOwner, RoleLost, Body, members, locks
<1>7. ASSUME NEW r \in Requests, Remove(r) PROVE OneOwner'
    BY <1>0, <1>7 DEF TypeOK, Numbered, Placed, Bodied, LinksLive, Claims, Drops,
        OneOwner, Remove, Removal, Body, members, locks
<1>8. ASSUME NEW r \in Requests, Leave(r) PROVE OneOwner'
    BY <1>0, <1>8 DEF TypeOK, Numbered, Placed, Bodied, LinksLive, Claims, Drops,
        OneOwner, Leave, Removal, Body, members, locks
<1>9. ASSUME NEW r \in Requests, Invited(r) PROVE OneOwner'
    BY <1>0, <1>9 DEF TypeOK, Numbered, Placed, Bodied, LinksLive, Claims, Drops,
        OneOwner, Invited, Body, members, locks
<1>10. ASSUME NEW r \in Requests, InviteLost(r) PROVE OneOwner'
    BY <1>0, <1>10 DEF TypeOK, Numbered, Placed, Bodied, LinksLive, Claims, Drops,
        OneOwner, InviteLost, Body, members, locks
<1>11. ASSUME NEW r \in Requests, DropHeld(r) PROVE OneOwner'
    BY <1>0, <1>11 DEF TypeOK, Numbered, Placed, Bodied, LinksLive, Claims, Drops,
        OneOwner, DropHeld, Body, members, locks
<1>12. ASSUME NEW r \in Requests, DropLost(r) PROVE OneOwner'
    BY <1>0, <1>12 DEF TypeOK, Numbered, Placed, Bodied, LinksLive, Claims, Drops,
        OneOwner, DropLost, Body, members, locks
<1>13. ASSUME NEW r \in Requests, Cascade(r) PROVE OneOwner'
    BY <1>0, <1>13 DEF TypeOK, Numbered, Placed, Bodied, LinksLive, Claims, Drops,
        OneOwner, Cascade, Links, Body, members, locks
<1>14. ASSUME NEW r \in Requests, ClaimHeld(r) PROVE OneOwner'
    BY <1>0, <1>14 DEF TypeOK, Numbered, Placed, Bodied, LinksLive, Claims, Drops,
        OneOwner, ClaimHeld, Body, members, locks
<1>15. ASSUME NEW r \in Requests, ClaimLost(r) PROVE OneOwner'
    BY <1>0, <1>15 DEF TypeOK, Numbered, Placed, Bodied, LinksLive, Claims, Drops,
        OneOwner, ClaimLost, Body, members, locks
<1>16. ASSUME NEW r \in Requests, JoinDone(r) PROVE OneOwner'
    BY <1>0, <1>16 DEF TypeOK, Numbered, Placed, Bodied, LinksLive, Claims, Drops,
        OneOwner, JoinDone, Body, members, locks
<1>17. ASSUME NEW r \in Requests, JoinLost(r) PROVE OneOwner'
    BY <1>0, <1>17 DEF TypeOK, Numbered, Placed, Bodied, LinksLive, Claims, Drops,
        OneOwner, JoinLost, Body, members, locks
<1>18. ASSUME NEW r \in Requests, Victim(r) PROVE OneOwner'
    BY <1>0, <1>18 DEF TypeOK, Numbered, Placed, Bodied, LinksLive, Claims, Drops,
        OneOwner, Victim, WaitsFor, Body, members, locks
<1>19. ASSUME NEW r \in Requests, Expire(r) PROVE OneOwner'
    BY <1>0, <1>19 DEF TypeOK, Numbered, Placed, Bodied, LinksLive, Claims, Drops,
        OneOwner, Expire, Body, members, locks
<1> QED
    BY <1>1, <1>2, <1>3, <1>4, <1>5, <1>6, <1>7, <1>8, <1>9, <1>10, <1>11, <1>12, <1>13,
        <1>14, <1>15, <1>16, <1>17, <1>18, <1>19, SetRoleCases, InviteCases, DropCases,
        ClaimCases, JoinCases DEF Next, Arrive, Handler

\* A spent link is not opened again.
LEMMA Spending ==
    ASSUME IInv, Next
    PROVE  Spent'
<1> USE DEF Requests
<1>0. TypeOK /\ Numbered /\ Placed /\ Bodied /\ LinksLive /\ Claims /\ Spent
    BY DEF IInv
<1> USE BoundsAssumption, GivenAssumption
<1>1. ASSUME NEW b \in Bodies, arrived < MaxRequests, arrived' = arrived + 1,
           asks' = [asks EXCEPT ![arrived + 1] = b], Enter(arrived + 1, b)
      PROVE  Spent'
    BY <1>0, <1>1 DEF TypeOK, Numbered, Placed, Bodied, LinksLive, Claims, Spent, Enter,
        Allowed, Bodies, Body, members, locks
<1>2. ASSUME NEW b \in Bodies, arrived < MaxRequests, arrived' = arrived + 1,
           asks' = [asks EXCEPT ![arrived + 1] = b], Create(arrived + 1, b)
      PROVE  Spent'
    BY <1>0, <1>2 DEF TypeOK, Numbered, Placed, Bodied, LinksLive, Claims, Spent,
        Create, Joined, Bodies, Body, members, locks
<1>3. ASSUME NEW b \in Bodies, arrived < MaxRequests, arrived' = arrived + 1,
           asks' = [asks EXCEPT ![arrived + 1] = b], EnterJoin(arrived + 1, b)
      PROVE  Spent'
    BY <1>0, <1>3 DEF TypeOK, Numbered, Placed, Bodied, LinksLive, Claims, Spent,
        EnterJoin, Bodies, Body, members, locks
<1>4. ASSUME NEW r \in Requests, Check(r) PROVE Spent'
    BY <1>0, <1>4 DEF TypeOK, Numbered, Placed, Bodied, LinksLive, Claims, Spent, Check,
        Body, members, locks
<1>5. ASSUME NEW r \in Requests, RoleSet(r) PROVE Spent'
    BY <1>0, <1>5 DEF TypeOK, Numbered, Placed, Bodied, LinksLive, Claims, Spent,
        RoleSet, Body, members, locks
<1>6. ASSUME NEW r \in Requests, RoleLost(r) PROVE Spent'
    BY <1>0, <1>6 DEF TypeOK, Numbered, Placed, Bodied, LinksLive, Claims, Spent,
        RoleLost, Body, members, locks
<1>7. ASSUME NEW r \in Requests, Remove(r) PROVE Spent'
    BY <1>0, <1>7 DEF TypeOK, Numbered, Placed, Bodied, LinksLive, Claims, Spent,
        Remove, Removal, Body, members, locks
<1>8. ASSUME NEW r \in Requests, Leave(r) PROVE Spent'
    BY <1>0, <1>8 DEF TypeOK, Numbered, Placed, Bodied, LinksLive, Claims, Spent, Leave,
        Removal, Body, members, locks
<1>9. ASSUME NEW r \in Requests, Invited(r) PROVE Spent'
    BY <1>0, <1>9 DEF TypeOK, Numbered, Placed, Bodied, LinksLive, Claims, Spent,
        Invited, Body, members, locks
<1>10. ASSUME NEW r \in Requests, InviteLost(r) PROVE Spent'
    BY <1>0, <1>10 DEF TypeOK, Numbered, Placed, Bodied, LinksLive, Claims, Spent,
        InviteLost, Body, members, locks
<1>11. ASSUME NEW r \in Requests, DropHeld(r) PROVE Spent'
    BY <1>0, <1>11 DEF TypeOK, Numbered, Placed, Bodied, LinksLive, Claims, Spent,
        DropHeld, Body, members, locks
<1>12. ASSUME NEW r \in Requests, DropLost(r) PROVE Spent'
    BY <1>0, <1>12 DEF TypeOK, Numbered, Placed, Bodied, LinksLive, Claims, Spent,
        DropLost, Body, members, locks
<1>13. ASSUME NEW r \in Requests, Cascade(r) PROVE Spent'
    BY <1>0, <1>13 DEF TypeOK, Numbered, Placed, Bodied, LinksLive, Claims, Spent,
        Cascade, Links, Body, members, locks
<1>14. ASSUME NEW r \in Requests, ClaimHeld(r) PROVE Spent'
    BY <1>0, <1>14 DEF TypeOK, Numbered, Placed, Bodied, LinksLive, Claims, Spent,
        ClaimHeld, Body, members, locks
<1>15. ASSUME NEW r \in Requests, ClaimLost(r) PROVE Spent'
    BY <1>0, <1>15 DEF TypeOK, Numbered, Placed, Bodied, LinksLive, Claims, Spent,
        ClaimLost, Body, members, locks
<1>16. ASSUME NEW r \in Requests, JoinDone(r) PROVE Spent'
    BY <1>0, <1>16 DEF TypeOK, Numbered, Placed, Bodied, LinksLive, Claims, Spent,
        JoinDone, Body, members, locks
<1>17. ASSUME NEW r \in Requests, JoinLost(r) PROVE Spent'
    BY <1>0, <1>17 DEF TypeOK, Numbered, Placed, Bodied, LinksLive, Claims, Spent,
        JoinLost, Body, members, locks
<1>18. ASSUME NEW r \in Requests, Victim(r) PROVE Spent'
    BY <1>0, <1>18 DEF TypeOK, Numbered, Placed, Bodied, LinksLive, Claims, Spent,
        Victim, WaitsFor, Body, members, locks
<1>19. ASSUME NEW r \in Requests, Expire(r) PROVE Spent'
    BY <1>0, <1>19 DEF TypeOK, Numbered, Placed, Bodied, LinksLive, Claims, Spent,
        Expire, Body, members, locks
<1> QED
    BY <1>1, <1>2, <1>3, <1>4, <1>5, <1>6, <1>7, <1>8, <1>9, <1>10, <1>11, <1>12, <1>13,
        <1>14, <1>15, <1>16, <1>17, <1>18, <1>19, SetRoleCases, InviteCases, DropCases,
        ClaimCases, JoinCases DEF Next, Arrive, Handler

\* Nobody joins with a link that is spent.
LEMMA Once ==
    ASSUME IInv, Next
    PROVE  LinkOnce'
<1> USE DEF Requests
<1>0. TypeOK /\ Numbered /\ Placed /\ Bodied /\ Claims /\ Spent /\ LinkOnce
    BY DEF IInv
<1> USE BoundsAssumption, GivenAssumption
<1>1. ASSUME NEW b \in Bodies, arrived < MaxRequests, arrived' = arrived + 1,
           asks' = [asks EXCEPT ![arrived + 1] = b], Enter(arrived + 1, b)
      PROVE  LinkOnce'
    BY <1>0, <1>1 DEF TypeOK, Numbered, Placed, Bodied, Claims, Spent, LinkOnce, Enter,
        Allowed, Bodies, Body, members, locks
<1>2. ASSUME NEW b \in Bodies, arrived < MaxRequests, arrived' = arrived + 1,
           asks' = [asks EXCEPT ![arrived + 1] = b], Create(arrived + 1, b)
      PROVE  LinkOnce'
    BY <1>0, <1>2 DEF TypeOK, Numbered, Placed, Bodied, Claims, Spent, LinkOnce, Create,
        Joined, Bodies, Body, members, locks
<1>3. ASSUME NEW b \in Bodies, arrived < MaxRequests, arrived' = arrived + 1,
           asks' = [asks EXCEPT ![arrived + 1] = b], EnterJoin(arrived + 1, b)
      PROVE  LinkOnce'
    BY <1>0, <1>3 DEF TypeOK, Numbered, Placed, Bodied, Claims, Spent, LinkOnce,
        EnterJoin, Bodies, Body, members, locks
<1>4. ASSUME NEW r \in Requests, Check(r) PROVE LinkOnce'
    BY <1>0, <1>4 DEF TypeOK, Numbered, Placed, Bodied, Claims, Spent, LinkOnce, Check,
        Body, members, locks
<1>5. ASSUME NEW r \in Requests, RoleSet(r) PROVE LinkOnce'
    BY <1>0, <1>5 DEF TypeOK, Numbered, Placed, Bodied, Claims, Spent, LinkOnce,
        RoleSet, Body, members, locks
<1>6. ASSUME NEW r \in Requests, RoleLost(r) PROVE LinkOnce'
    BY <1>0, <1>6 DEF TypeOK, Numbered, Placed, Bodied, Claims, Spent, LinkOnce,
        RoleLost, Body, members, locks
<1>7. ASSUME NEW r \in Requests, Remove(r) PROVE LinkOnce'
    BY <1>0, <1>7 DEF TypeOK, Numbered, Placed, Bodied, Claims, Spent, LinkOnce, Remove,
        Removal, Body, members, locks
<1>8. ASSUME NEW r \in Requests, Leave(r) PROVE LinkOnce'
    BY <1>0, <1>8 DEF TypeOK, Numbered, Placed, Bodied, Claims, Spent, LinkOnce, Leave,
        Removal, Body, members, locks
<1>9. ASSUME NEW r \in Requests, Invited(r) PROVE LinkOnce'
    BY <1>0, <1>9 DEF TypeOK, Numbered, Placed, Bodied, Claims, Spent, LinkOnce,
        Invited, Body, members, locks
<1>10. ASSUME NEW r \in Requests, InviteLost(r) PROVE LinkOnce'
    BY <1>0, <1>10 DEF TypeOK, Numbered, Placed, Bodied, Claims, Spent, LinkOnce,
        InviteLost, Body, members, locks
<1>11. ASSUME NEW r \in Requests, DropHeld(r) PROVE LinkOnce'
    BY <1>0, <1>11 DEF TypeOK, Numbered, Placed, Bodied, Claims, Spent, LinkOnce,
        DropHeld, Body, members, locks
<1>12. ASSUME NEW r \in Requests, DropLost(r) PROVE LinkOnce'
    BY <1>0, <1>12 DEF TypeOK, Numbered, Placed, Bodied, Claims, Spent, LinkOnce,
        DropLost, Body, members, locks
<1>13. ASSUME NEW r \in Requests, Cascade(r) PROVE LinkOnce'
    BY <1>0, <1>13 DEF TypeOK, Numbered, Placed, Bodied, Claims, Spent, LinkOnce,
        Cascade, Links, Body, members, locks
<1>14. ASSUME NEW r \in Requests, ClaimHeld(r) PROVE LinkOnce'
    BY <1>0, <1>14 DEF TypeOK, Numbered, Placed, Bodied, Claims, Spent, LinkOnce,
        ClaimHeld, Body, members, locks
<1>15. ASSUME NEW r \in Requests, ClaimLost(r) PROVE LinkOnce'
    BY <1>0, <1>15 DEF TypeOK, Numbered, Placed, Bodied, Claims, Spent, LinkOnce,
        ClaimLost, Body, members, locks
<1>16. ASSUME NEW r \in Requests, JoinDone(r) PROVE LinkOnce'
    BY <1>0, <1>16 DEF TypeOK, Numbered, Placed, Bodied, Claims, Spent, LinkOnce,
        JoinDone, Body, members, locks
<1>17. ASSUME NEW r \in Requests, JoinLost(r) PROVE LinkOnce'
    BY <1>0, <1>17 DEF TypeOK, Numbered, Placed, Bodied, Claims, Spent, LinkOnce,
        JoinLost, Body, members, locks
<1>18. ASSUME NEW r \in Requests, Victim(r) PROVE LinkOnce'
    BY <1>0, <1>18 DEF TypeOK, Numbered, Placed, Bodied, Claims, Spent, LinkOnce,
        Victim, WaitsFor, Body, members, locks
<1>19. ASSUME NEW r \in Requests, Expire(r) PROVE LinkOnce'
    BY <1>0, <1>19 DEF TypeOK, Numbered, Placed, Bodied, Claims, Spent, LinkOnce,
        Expire, Body, members, locks
<1> QED
    BY <1>1, <1>2, <1>3, <1>4, <1>5, <1>6, <1>7, <1>8, <1>9, <1>10, <1>11, <1>12, <1>13,
        <1>14, <1>15, <1>16, <1>17, <1>18, <1>19, SetRoleCases, InviteCases, DropCases,
        ClaimCases, JoinCases DEF Next, Arrive, Handler

\* Only a join uses a link up.
LEMMA Keeping ==
    ASSUME IInv, Next
    PROVE  LinkKept'
<1> USE DEF Requests
<1>0. TypeOK /\ Numbered /\ Placed /\ Bodied /\ LinksLive /\ LinkKept
    BY DEF IInv
<1> USE BoundsAssumption, GivenAssumption
<1>1. ASSUME NEW b \in Bodies, arrived < MaxRequests, arrived' = arrived + 1,
           asks' = [asks EXCEPT ![arrived + 1] = b], Enter(arrived + 1, b)
      PROVE  LinkKept'
    BY <1>0, <1>1 DEF TypeOK, Numbered, Placed, Bodied, LinksLive, LinkKept, Enter,
        Allowed, Bodies, Body, members, locks
<1>2. ASSUME NEW b \in Bodies, arrived < MaxRequests, arrived' = arrived + 1,
           asks' = [asks EXCEPT ![arrived + 1] = b], Create(arrived + 1, b)
      PROVE  LinkKept'
    BY <1>0, <1>2 DEF TypeOK, Numbered, Placed, Bodied, LinksLive, LinkKept, Create,
        Joined, Bodies, Body, members, locks
<1>3. ASSUME NEW b \in Bodies, arrived < MaxRequests, arrived' = arrived + 1,
           asks' = [asks EXCEPT ![arrived + 1] = b], EnterJoin(arrived + 1, b)
      PROVE  LinkKept'
    BY <1>0, <1>3 DEF TypeOK, Numbered, Placed, Bodied, LinksLive, LinkKept, EnterJoin,
        Bodies, Body, members, locks
<1>4. ASSUME NEW r \in Requests, Check(r) PROVE LinkKept'
    BY <1>0, <1>4 DEF TypeOK, Numbered, Placed, Bodied, LinksLive, LinkKept, Check,
        Body, members, locks
<1>5. ASSUME NEW r \in Requests, RoleSet(r) PROVE LinkKept'
    BY <1>0, <1>5 DEF TypeOK, Numbered, Placed, Bodied, LinksLive, LinkKept, RoleSet,
        Body, members, locks
<1>6. ASSUME NEW r \in Requests, RoleLost(r) PROVE LinkKept'
    BY <1>0, <1>6 DEF TypeOK, Numbered, Placed, Bodied, LinksLive, LinkKept, RoleLost,
        Body, members, locks
<1>7. ASSUME NEW r \in Requests, Remove(r) PROVE LinkKept'
    BY <1>0, <1>7 DEF TypeOK, Numbered, Placed, Bodied, LinksLive, LinkKept, Remove,
        Removal, Body, members, locks
<1>8. ASSUME NEW r \in Requests, Leave(r) PROVE LinkKept'
    BY <1>0, <1>8 DEF TypeOK, Numbered, Placed, Bodied, LinksLive, LinkKept, Leave,
        Removal, Body, members, locks
<1>9. ASSUME NEW r \in Requests, Invited(r) PROVE LinkKept'
    BY <1>0, <1>9 DEF TypeOK, Numbered, Placed, Bodied, LinksLive, LinkKept, Invited,
        Body, members, locks
<1>10. ASSUME NEW r \in Requests, InviteLost(r) PROVE LinkKept'
    BY <1>0, <1>10 DEF TypeOK, Numbered, Placed, Bodied, LinksLive, LinkKept,
        InviteLost, Body, members, locks
<1>11. ASSUME NEW r \in Requests, DropHeld(r) PROVE LinkKept'
    BY <1>0, <1>11 DEF TypeOK, Numbered, Placed, Bodied, LinksLive, LinkKept, DropHeld,
        Body, members, locks
<1>12. ASSUME NEW r \in Requests, DropLost(r) PROVE LinkKept'
    BY <1>0, <1>12 DEF TypeOK, Numbered, Placed, Bodied, LinksLive, LinkKept, DropLost,
        Body, members, locks
<1>13. ASSUME NEW r \in Requests, Cascade(r) PROVE LinkKept'
    BY <1>0, <1>13 DEF TypeOK, Numbered, Placed, Bodied, LinksLive, LinkKept, Cascade,
        Links, Body, members, locks
<1>14. ASSUME NEW r \in Requests, ClaimHeld(r) PROVE LinkKept'
    BY <1>0, <1>14 DEF TypeOK, Numbered, Placed, Bodied, LinksLive, LinkKept, ClaimHeld,
        Body, members, locks
<1>15. ASSUME NEW r \in Requests, ClaimLost(r) PROVE LinkKept'
    BY <1>0, <1>15 DEF TypeOK, Numbered, Placed, Bodied, LinksLive, LinkKept, ClaimLost,
        Body, members, locks
<1>16. ASSUME NEW r \in Requests, JoinDone(r) PROVE LinkKept'
    BY <1>0, <1>16 DEF TypeOK, Numbered, Placed, Bodied, LinksLive, LinkKept, JoinDone,
        Body, members, locks
<1>17. ASSUME NEW r \in Requests, JoinLost(r) PROVE LinkKept'
    BY <1>0, <1>17 DEF TypeOK, Numbered, Placed, Bodied, LinksLive, LinkKept, JoinLost,
        Body, members, locks
<1>18. ASSUME NEW r \in Requests, Victim(r) PROVE LinkKept'
    BY <1>0, <1>18 DEF TypeOK, Numbered, Placed, Bodied, LinksLive, LinkKept, Victim,
        WaitsFor, Body, members, locks
<1>19. ASSUME NEW r \in Requests, Expire(r) PROVE LinkKept'
    BY <1>0, <1>19 DEF TypeOK, Numbered, Placed, Bodied, LinksLive, LinkKept, Expire,
        Body, members, locks
<1> QED
    BY <1>1, <1>2, <1>3, <1>4, <1>5, <1>6, <1>7, <1>8, <1>9, <1>10, <1>11, <1>12, <1>13,
        <1>14, <1>15, <1>16, <1>17, <1>18, <1>19, SetRoleCases, InviteCases, DropCases,
        ClaimCases, JoinCases DEF Next, Arrive, Handler

\* A refused join is refused to a member.
LEMMA Refusing ==
    ASSUME IInv, Next
    PROVE  TrueRefusal
<1> USE DEF Requests
<1>0. TypeOK /\ Numbered /\ Placed /\ Bodied /\ LinksLive /\ Claims
    BY DEF IInv
<1> USE BoundsAssumption, GivenAssumption
<1>1. ASSUME NEW b \in Bodies, arrived < MaxRequests, arrived' = arrived + 1,
           asks' = [asks EXCEPT ![arrived + 1] = b], Enter(arrived + 1, b)
      PROVE  TrueRefusal
    BY <1>0, <1>1 DEF TypeOK, Numbered, Placed, Bodied, LinksLive, Claims, TrueRefusal,
        Enter, Allowed, Bodies, Body, members, locks
<1>2. ASSUME NEW b \in Bodies, arrived < MaxRequests, arrived' = arrived + 1,
           asks' = [asks EXCEPT ![arrived + 1] = b], Create(arrived + 1, b)
      PROVE  TrueRefusal
    BY <1>0, <1>2 DEF TypeOK, Numbered, Placed, Bodied, LinksLive, Claims, TrueRefusal,
        Create, Joined, Bodies, Body, members, locks
<1>3. ASSUME NEW b \in Bodies, arrived < MaxRequests, arrived' = arrived + 1,
           asks' = [asks EXCEPT ![arrived + 1] = b], EnterJoin(arrived + 1, b)
      PROVE  TrueRefusal
    BY <1>0, <1>3 DEF TypeOK, Numbered, Placed, Bodied, LinksLive, Claims, TrueRefusal,
        EnterJoin, Bodies, Body, members, locks
<1>4. ASSUME NEW r \in Requests, Check(r) PROVE TrueRefusal
    BY <1>0, <1>4 DEF TypeOK, Numbered, Placed, Bodied, LinksLive, Claims, TrueRefusal,
        Check, Body, members, locks
<1>5. ASSUME NEW r \in Requests, RoleSet(r) PROVE TrueRefusal
    BY <1>0, <1>5 DEF TypeOK, Numbered, Placed, Bodied, LinksLive, Claims, TrueRefusal,
        RoleSet, Body, members, locks
<1>6. ASSUME NEW r \in Requests, RoleLost(r) PROVE TrueRefusal
    BY <1>0, <1>6 DEF TypeOK, Numbered, Placed, Bodied, LinksLive, Claims, TrueRefusal,
        RoleLost, Body, members, locks
<1>7. ASSUME NEW r \in Requests, Remove(r) PROVE TrueRefusal
    BY <1>0, <1>7 DEF TypeOK, Numbered, Placed, Bodied, LinksLive, Claims, TrueRefusal,
        Remove, Removal, Body, members, locks
<1>8. ASSUME NEW r \in Requests, Leave(r) PROVE TrueRefusal
    BY <1>0, <1>8 DEF TypeOK, Numbered, Placed, Bodied, LinksLive, Claims, TrueRefusal,
        Leave, Removal, Body, members, locks
<1>9. ASSUME NEW r \in Requests, Invited(r) PROVE TrueRefusal
    BY <1>0, <1>9 DEF TypeOK, Numbered, Placed, Bodied, LinksLive, Claims, TrueRefusal,
        Invited, Body, members, locks
<1>10. ASSUME NEW r \in Requests, InviteLost(r) PROVE TrueRefusal
    BY <1>0, <1>10 DEF TypeOK, Numbered, Placed, Bodied, LinksLive, Claims, TrueRefusal,
        InviteLost, Body, members, locks
<1>11. ASSUME NEW r \in Requests, DropHeld(r) PROVE TrueRefusal
    BY <1>0, <1>11 DEF TypeOK, Numbered, Placed, Bodied, LinksLive, Claims, TrueRefusal,
        DropHeld, Body, members, locks
<1>12. ASSUME NEW r \in Requests, DropLost(r) PROVE TrueRefusal
    BY <1>0, <1>12 DEF TypeOK, Numbered, Placed, Bodied, LinksLive, Claims, TrueRefusal,
        DropLost, Body, members, locks
<1>13. ASSUME NEW r \in Requests, Cascade(r) PROVE TrueRefusal
    BY <1>0, <1>13 DEF TypeOK, Numbered, Placed, Bodied, LinksLive, Claims, TrueRefusal,
        Cascade, Links, Body, members, locks
<1>14. ASSUME NEW r \in Requests, ClaimHeld(r) PROVE TrueRefusal
    BY <1>0, <1>14 DEF TypeOK, Numbered, Placed, Bodied, LinksLive, Claims, TrueRefusal,
        ClaimHeld, Body, members, locks
<1>15. ASSUME NEW r \in Requests, ClaimLost(r) PROVE TrueRefusal
    BY <1>0, <1>15 DEF TypeOK, Numbered, Placed, Bodied, LinksLive, Claims, TrueRefusal,
        ClaimLost, Body, members, locks
<1>16. ASSUME NEW r \in Requests, JoinDone(r) PROVE TrueRefusal
    BY <1>0, <1>16 DEF TypeOK, Numbered, Placed, Bodied, LinksLive, Claims, TrueRefusal,
        JoinDone, Body, members, locks
<1>17. ASSUME NEW r \in Requests, JoinLost(r) PROVE TrueRefusal
    BY <1>0, <1>17 DEF TypeOK, Numbered, Placed, Bodied, LinksLive, Claims, TrueRefusal,
        JoinLost, Body, members, locks
<1>18. ASSUME NEW r \in Requests, Victim(r) PROVE TrueRefusal
    BY <1>0, <1>18 DEF TypeOK, Numbered, Placed, Bodied, LinksLive, Claims, TrueRefusal,
        Victim, WaitsFor, Body, members, locks
<1>19. ASSUME NEW r \in Requests, Expire(r) PROVE TrueRefusal
    BY <1>0, <1>19 DEF TypeOK, Numbered, Placed, Bodied, LinksLive, Claims, TrueRefusal,
        Expire, Body, members, locks
<1> QED
    BY <1>1, <1>2, <1>3, <1>4, <1>5, <1>6, <1>7, <1>8, <1>9, <1>10, <1>11, <1>12, <1>13,
        <1>14, <1>15, <1>16, <1>17, <1>18, <1>19, SetRoleCases, InviteCases, DropCases,
        ClaimCases, JoinCases DEF Next, Arrive, Handler

\* A membership is changed by who looked at its household.
LEMMA Scoping ==
    ASSUME IInv, Next
    PROVE  ScopedWrite
<1> USE DEF Requests
<1>0. TypeOK /\ Numbered /\ Placed /\ Bodied
    BY DEF IInv
<1> USE BoundsAssumption, GivenAssumption
<1>1. ASSUME NEW b \in Bodies, arrived < MaxRequests, arrived' = arrived + 1,
           asks' = [asks EXCEPT ![arrived + 1] = b], Enter(arrived + 1, b)
      PROVE  ScopedWrite
    BY <1>0, <1>1 DEF TypeOK, Numbered, Placed, Bodied, ScopedWrite, Enter, Allowed,
        Bodies, Body, members, locks
<1>2. ASSUME NEW b \in Bodies, arrived < MaxRequests, arrived' = arrived + 1,
           asks' = [asks EXCEPT ![arrived + 1] = b], Create(arrived + 1, b)
      PROVE  ScopedWrite
    BY <1>0, <1>2 DEF TypeOK, Numbered, Placed, Bodied, ScopedWrite, Create, Joined,
        Bodies, Body, members, locks
<1>3. ASSUME NEW b \in Bodies, arrived < MaxRequests, arrived' = arrived + 1,
           asks' = [asks EXCEPT ![arrived + 1] = b], EnterJoin(arrived + 1, b)
      PROVE  ScopedWrite
    BY <1>0, <1>3 DEF TypeOK, Numbered, Placed, Bodied, ScopedWrite, EnterJoin, Bodies,
        Body, members, locks
<1>4. ASSUME NEW r \in Requests, Check(r) PROVE ScopedWrite
    BY <1>0, <1>4 DEF TypeOK, Numbered, Placed, Bodied, ScopedWrite, Check, Body,
        members, locks
<1>5. ASSUME NEW r \in Requests, RoleSet(r) PROVE ScopedWrite
    BY <1>0, <1>5 DEF TypeOK, Numbered, Placed, Bodied, ScopedWrite, RoleSet, Body,
        members, locks
<1>6. ASSUME NEW r \in Requests, RoleLost(r) PROVE ScopedWrite
    BY <1>0, <1>6 DEF TypeOK, Numbered, Placed, Bodied, ScopedWrite, RoleLost, Body,
        members, locks
<1>7. ASSUME NEW r \in Requests, Remove(r) PROVE ScopedWrite
    BY <1>0, <1>7 DEF TypeOK, Numbered, Placed, Bodied, ScopedWrite, Remove, Removal,
        Body, members, locks
<1>8. ASSUME NEW r \in Requests, Leave(r) PROVE ScopedWrite
    BY <1>0, <1>8 DEF TypeOK, Numbered, Placed, Bodied, ScopedWrite, Leave, Removal,
        Body, members, locks
<1>9. ASSUME NEW r \in Requests, Invited(r) PROVE ScopedWrite
    BY <1>0, <1>9 DEF TypeOK, Numbered, Placed, Bodied, ScopedWrite, Invited, Body,
        members, locks
<1>10. ASSUME NEW r \in Requests, InviteLost(r) PROVE ScopedWrite
    BY <1>0, <1>10 DEF TypeOK, Numbered, Placed, Bodied, ScopedWrite, InviteLost, Body,
        members, locks
<1>11. ASSUME NEW r \in Requests, DropHeld(r) PROVE ScopedWrite
    BY <1>0, <1>11 DEF TypeOK, Numbered, Placed, Bodied, ScopedWrite, DropHeld, Body,
        members, locks
<1>12. ASSUME NEW r \in Requests, DropLost(r) PROVE ScopedWrite
    BY <1>0, <1>12 DEF TypeOK, Numbered, Placed, Bodied, ScopedWrite, DropLost, Body,
        members, locks
<1>13. ASSUME NEW r \in Requests, Cascade(r) PROVE ScopedWrite
    BY <1>0, <1>13 DEF TypeOK, Numbered, Placed, Bodied, ScopedWrite, Cascade, Links,
        Body, members, locks
<1>14. ASSUME NEW r \in Requests, ClaimHeld(r) PROVE ScopedWrite
    BY <1>0, <1>14 DEF TypeOK, Numbered, Placed, Bodied, ScopedWrite, ClaimHeld, Body,
        members, locks
<1>15. ASSUME NEW r \in Requests, ClaimLost(r) PROVE ScopedWrite
    BY <1>0, <1>15 DEF TypeOK, Numbered, Placed, Bodied, ScopedWrite, ClaimLost, Body,
        members, locks
<1>16. ASSUME NEW r \in Requests, JoinDone(r) PROVE ScopedWrite
    BY <1>0, <1>16 DEF TypeOK, Numbered, Placed, Bodied, ScopedWrite, JoinDone, Body,
        members, locks
<1>17. ASSUME NEW r \in Requests, JoinLost(r) PROVE ScopedWrite
    BY <1>0, <1>17 DEF TypeOK, Numbered, Placed, Bodied, ScopedWrite, JoinLost, Body,
        members, locks
<1>18. ASSUME NEW r \in Requests, Victim(r) PROVE ScopedWrite
    BY <1>0, <1>18 DEF TypeOK, Numbered, Placed, Bodied, ScopedWrite, Victim, WaitsFor,
        Body, members, locks
<1>19. ASSUME NEW r \in Requests, Expire(r) PROVE ScopedWrite
    BY <1>0, <1>19 DEF TypeOK, Numbered, Placed, Bodied, ScopedWrite, Expire, Body,
        members, locks
<1> QED
    BY <1>1, <1>2, <1>3, <1>4, <1>5, <1>6, <1>7, <1>8, <1>9, <1>10, <1>11, <1>12, <1>13,
        <1>14, <1>15, <1>16, <1>17, <1>18, <1>19, SetRoleCases, InviteCases, DropCases,
        ClaimCases, JoinCases DEF Next, Arrive, Handler

-----------------------------------------------------------------------------
(* The theorems                                                            *)

LEMMA Start == Init => IInv
<1> SUFFICES ASSUME Init PROVE IInv
    OBVIOUS
<1> USE BoundsAssumption, PeopleAssumption DEF Requests
<1>1. PICK p \in People : asks = [r \in Requests |->
          [kind |-> "create", by |-> p, subject |-> p, link |-> 0, role |-> "none"]]
    BY DEF Init
<1>2. TypeOK
    BY <1>1 DEF Init, TypeOK, Body
<1>3. Numbered /\ Placed /\ Bodied /\ LinksLive /\ Claims /\ Drops
    BY DEF Init, Numbered, Placed, Bodied, LinksLive, Claims, Drops
<1>4. OneOwner /\ Spent /\ LinkOnce /\ LinkKept
    BY DEF Init, OneOwner, Spent, LinkOnce, LinkKept
<1> QED
    BY <1>2, <1>3, <1>4 DEF IInv

LEMMA Stutter == IInv /\ UNCHANGED vars => IInv'
<1> SUFFICES ASSUME IInv, UNCHANGED vars PROVE IInv'
    OBVIOUS
<1> USE DEF vars, members, locks
<1>1. TypeOK' /\ Numbered' /\ Placed' /\ Bodied'
    BY DEF IInv, TypeOK, Numbered, Placed, Bodied
<1>2. LinksLive' /\ Claims' /\ Drops'
    BY DEF IInv, LinksLive, Claims, Drops
<1>3. OneOwner' /\ Spent' /\ LinkOnce' /\ LinkKept'
    BY DEF IInv, OneOwner, Spent, LinkOnce, LinkKept
<1> QED
    BY <1>1, <1>2, <1>3 DEF IInv

\* The invariant holds in every reachable state.
THEOREM Invariant == Spec => []IInv
<1>1. IInv /\ [Next]_vars => IInv'
    BY Stutter, Types, Numbers, Places, Bodying, Linked, Claimed, Dropped, Owned, Spending, Once,
       Keeping DEF IInv
<1> QED
    BY <1>1, Start, PTL DEF Spec

\* Every variable keeps its type.
THEOREM TypeCorrect == Spec => []TypeOK
<1>1. IInv => TypeOK
    BY DEF IInv
<1> QED
    BY <1>1, Invariant, PTL

\* The creator of a household is its one owner as long as it exists, whatever
\* role changes, removals, departures and joins do on stale reads.
THEOREM Ownership == Spec => []OneOwner
<1>1. IInv => OneOwner
    BY DEF IInv
<1> QED
    BY <1>1, Invariant, PTL

\* A link lets one person in, for any number of concurrent redeems, and is used
\* up by nothing else.
THEOREM LinksForOne == Spec => []LinkForOne
<1>1. IInv => LinkForOne
    BY DEF IInv, LinkForOne
<1> QED
    BY <1>1, Invariant, PTL

\* A join answered "already in a household" comes from a member of one.
THEOREM Refusals == Spec => AlreadyMemberIsTrue
<1>1. IInv /\ [Next]_vars => [TrueRefusal]_vars
    BY Refusing
<1> QED
    BY <1>1, Invariant, PTL DEF Spec, AlreadyMemberIsTrue, TrueRefusal

\* A membership changes only through a request that looked at its household.
THEOREM Scoped == Spec => WritesAreScoped
<1>1. IInv /\ [Next]_vars => [ScopedWrite]_vars
    BY Scoping
<1> QED
    BY <1>1, Invariant, PTL DEF Spec, WritesAreScoped, ScopedWrite

-----------------------------------------------------------------------------
(* Who waits, and who can go on                                            *)

SomebodyCan == (\E r \in Requests : pc[r] \in Open) => \E r \in Requests : Able(r)

\* Where requests wait for one another, some of them wait in a cycle.
LEMMA CycleInKnot ==
    ASSUME NEW W \in SUBSET Requests, W # {}, Knot(W)
    PROVE  \E S \in SUBSET W : Cycle(S)
<1> DEFINE Knots == {S \in SUBSET W : S # {} /\ Knot(S)}
           Sizes == {Cardinality(S) : S \in Knots}
<1>1. \A S \in Knots : S \subseteq Requests /\ IsFiniteSet(S) /\ Cardinality(S) \in Nat
  <2>1. IsFiniteSet(Requests)
      BY BoundsAssumption, FS_Interval DEF Requests
  <2> QED
      BY <2>1, FS_Subset, FS_CardinalityType
<1>2. Sizes \subseteq Nat /\ Sizes # {}
  <2>1. W \in Knots
      OBVIOUS
  <2> QED
      BY <1>1, <2>1
<1>3. PICK n \in Sizes : \A m \in Sizes : ~ (m < n)
  <2> HIDE DEF Sizes
  <2>1. PICK n \in Sizes : \A m \in Sizes : ~ (<<m, n>> \in OpToRel(<, Nat))
      BY <1>2, NatLessThanWellFounded, WFMin
  <2>2. \A m \in Sizes : ~ (m < n)
      BY <1>2, <2>1 DEF OpToRel
  <2> QED
      BY <2>2
<1>4. PICK S \in Knots : n = Cardinality(S)
    BY <1>3
<1>5. ASSUME NEW T \in SUBSET S, Knot(T), T # {} PROVE T = S
  <2>1. T \in Knots
      BY <1>4, <1>5
  <2>2. Cardinality(T) \in Sizes
      BY <2>1
  <2>3. ~ (Cardinality(T) < Cardinality(S))
      BY <1>3, <1>4, <2>2
  <2> HIDE DEF Knots
  <2>4. IsFiniteSet(S) /\ Cardinality(S) \in Nat /\ Cardinality(T) \in Nat
      BY <1>1, <1>4, <2>1
  <2>5. S # T => Cardinality(T) < Cardinality(S)
      BY <1>5, <2>4, FS_Subset
  <2> QED
      BY <2>3, <2>5
<1>6. Cycle(S)
  <2>1. S # {} /\ Knot(S)
      BY <1>4
  <2> QED
      BY <1>5, <2>1 DEF Cycle
<1> QED
    BY <1>4, <1>6

\* An open request has arrived.
LEMMA Arrived ==
    ASSUME IInv, NEW r \in Requests, pc[r] # "idle"
    PROVE  r \in 1 .. arrived /\ 1 .. arrived \subseteq Requests
<1>1. ~ (r > arrived) /\ arrived \in 0 .. MaxRequests
    BY DEF IInv, TypeOK, Numbered
<1> QED
    BY <1>1, BoundsAssumption DEF Requests

\* Who waits at a claimed link waits for a delete, and a delete for a claimed link.
LEMMA WaitersWait ==
    ASSUME IInv, NEW r \in Requests, pc[r] \in {"claimed", "dropping"}
    PROVE  WaitsFor(r) \subseteq {q \in Requests : pc[q] \in {"claimed", "dropping"}}
<1>1. \A i \in Requests : claim[i] \in Requests \cup {0} /\ drop[i] \in Requests \cup {0}
    BY DEF IInv, TypeOK
<1>2. /\ \A i \in Requests : claim[i] # 0 => pc[claim[i]] = "claimed"
      /\ \A h \in Requests : drop[h] # 0 => pc[drop[h]] = "dropping"
    BY DEF IInv, Claims, Drops
<1>3. CASE pc[r] = "claimed"
  <2>1. By(r) \in People /\ home[By(r)] \in Requests \cup {0}
    <3>1. asks[r] \in Body /\ home \in [People -> Requests \cup {0}]
        BY DEF IInv, TypeOK
    <3>2. By(r) \in People
        BY <3>1 DEF Body
    <3> QED
        BY <3>1, <3>2
  <2>2. r \in 1 .. arrived /\ 1 .. arrived \subseteq Requests
      BY <1>3, Arrived
  <2>3. Link(r) \in Requests /\ context[Link(r)] \in Requests
    <3>1. Kind(r) = "join"
        BY <1>3 DEF IInv, Placed
    <3>2. Link(r) \in 1 .. arrived
        BY <2>2, <3>1 DEF IInv, Bodied
    <3>3. links[Link(r)] = "open"
        BY <1>3 DEF IInv, Claims
    <3>4. context[Link(r)] \in households
        BY <2>2, <3>2, <3>3 DEF IInv, LinksLive
    <3> QED
        BY <2>2, <3>2, <3>4 DEF IInv, TypeOK
  <2>4. Blocker(r) = 0 \/ (Blocker(r) \in Requests /\ pc[Blocker(r)] = "dropping")
      BY <1>1, <1>2, <2>1, <2>3 DEF Blocker
  <2> QED
      BY <1>3, <2>4 DEF WaitsFor
<1>4. CASE pc[r] = "dropping"
  <2>1. WaitsFor(r) = {claim[i] : i \in Links(context[r])} \ {0}
      BY <1>4 DEF WaitsFor
  <2> QED
      BY <1>1, <1>2, <2>1 DEF Links
<1> QED
    BY <1>3, <1>4

\* Households' redeems and deletes wait in circles at worst, and a circle has its victim.
LEMMA IInvCan == IInv => SomebodyCan
<1> SUFFICES ASSUME IInv, NEW r \in Requests, pc[r] \in Open
             PROVE  \E q \in Requests : Able(q)
    BY DEF SomebodyCan
<1> DEFINE W == {q \in Requests : pc[q] \in {"claimed", "dropping"}}
<1>1. CASE \E q \in W : WaitsFor(q) = {}
  <2>1. PICK q \in W : WaitsFor(q) = {}
      BY <1>1
  <2>2. CASE pc[q] = "claimed"
    <3>1. Blocker(q) = 0
        BY <2>1, <2>2 DEF WaitsFor
    <3> QED
        BY <2>2, <3>1 DEF Able
  <2>3. CASE pc[q] = "dropping"
    <3>1. \A i \in Links(context[q]) : claim[i] = 0
        BY <2>1, <2>3 DEF WaitsFor
    <3> QED
        BY <2>3, <3>1 DEF Able
  <2> QED
      BY <2>1, <2>2, <2>3
<1>2. CASE W # {} /\ \A q \in W : WaitsFor(q) # {}
  <2>1. W \in SUBSET Requests
      OBVIOUS
  <2>2. Knot(W)
    <3>1. \A q \in W : WaitsFor(q) \subseteq W
        BY WaitersWait
    <3> HIDE DEF W
    <3> QED
        BY <1>2, <3>1 DEF Knot
  <2> HIDE DEF W
  <2>3. PICK S \in SUBSET W : Cycle(S)
      BY <1>2, <2>1, <2>2, CycleInKnot
  <2>4. PICK q \in S : TRUE
      BY <2>3 DEF Cycle
  <2>5. S \in SUBSET {p \in Requests : WaitsFor(p) # {}}
      BY <1>2, <2>1, <2>3
  <2>6. q \in Requests /\ WaitsFor(q) # {}
      BY <2>4, <2>5
  <2> QED
      BY <2>3, <2>4, <2>5, <2>6 DEF Able
<1>3. CASE W = {}
  <2>1. pc[r] \in {"entered", "checked"}
    <3>1. r \notin W
        BY <1>3
    <3> QED
        BY <3>1
  <2>2. r \in 1 .. arrived /\ 1 .. arrived \subseteq Requests
      BY <2>1, Arrived
  <2>3. \A i \in Requests : claim[i] = 0 /\ drop[i] = 0
    <3>1. \A i \in Requests : claim[i] \in Requests \cup {0} /\ drop[i] \in Requests \cup {0}
        BY DEF IInv, TypeOK
    <3>2. /\ \A i \in Requests : claim[i] # 0 => pc[claim[i]] = "claimed"
          /\ \A h \in Requests : drop[h] # 0 => pc[drop[h]] = "dropping"
        BY DEF IInv, Claims, Drops
    <3> QED
        BY <1>3, <3>1, <3>2
  <2>4. Kind(r) \in Kinds
    <3>1. asks[r] \in Body
        BY DEF IInv, TypeOK
    <3> QED
        BY <3>1 DEF Body
  <2>5. Kind(r) # "join" => context[r] \in 1 .. arrived
      BY <2>1 DEF IInv, Placed
  <2>6. pc[r] = "checked" => Kind(r) \in {"role", "remove"}
      BY DEF IInv, Placed
  <2>7. pc[r] = "entered" => Kind(r) # "create"
      BY DEF IInv, Placed
  <2>8. Kind(r) = "join" => Link(r) \in 1 .. arrived
      BY <2>2 DEF IInv, Bodied
  <2>9. CASE Kind(r) = "join"
    <3>1. claim[Link(r)] = 0 /\ pc[r] = "entered"
        BY <2>1, <2>2, <2>3, <2>6, <2>8, <2>9
    <3> QED
        BY <2>9, <3>1 DEF Able
  <2>10. CASE Kind(r) # "join"
    <3>1. drop[context[r]] = 0
        BY <2>2, <2>3, <2>5, <2>10
    <3>2. \/ pc[r] = "checked" /\ Kind(r) \in {"role", "remove"}
          \/ pc[r] = "entered" /\ Kind(r) \in {"role", "remove", "leave", "invite", "delete"}
        BY <2>1, <2>4, <2>6, <2>7, <2>10
    <3> QED
        BY <3>1, <3>2 DEF Able
  <2> QED
      BY <2>9, <2>10
<1> QED
    BY <1>1, <1>2, <1>3

\* Requests that hold rows of links and households and wait for one another's never
\* all stand: as long as one is open the guard of some handler holds, that of
\* PostgreSQL's choice of a victim where they wait in a circle.
THEOREM Unstuck == Spec => []SomebodyCan
BY Invariant, IInvCan, PTL

-----------------------------------------------------------------------------
(* Requests act at one moment                                              *)

\* Where a handler stands that looked at the household of its caller.
Acting == {"entered", "checked", "dropping"}

\* Whoever acts as an owner made the household they act for, and who leaves or
\* deletes it does so as themselves.
Owning ==
    \A r \in Requests : pc[r] \in Acting =>
        /\ Kind(r) \in OwnerKinds => By(r) = By(context[r])
        /\ Kind(r) \in {"leave", "delete"} => Subject(r) = By(r)

\* A step of a handler or the end of a link changes neither what is asked nor
\* the household it is about, and no handler goes back.
LEMMA Onwards ==
    ASSUME IInv, NEW r \in Requests, Handler(r) \/ Expire(r)
    PROVE  /\ UNCHANGED <<asks, context>>
           /\ \A q \in Requests : pc'[q] \in Acting => pc[q] \in Acting
<1>1. pc \in [Requests -> {"idle"} \cup Open \cup Over]
    BY DEF IInv, TypeOK
<1>2. UNCHANGED <<asks, context>>
    BY DEF Handler, Check, SetRole, Remove, Leave, Invite, Drop, Cascade, Claim, Join, Victim,
        Expire
<1>3. \/ pc[r] \in Acting /\ \E l \in Open \cup Over : pc' = [pc EXCEPT ![r] = l]
      \/ \E l \in Over : pc' = [pc EXCEPT ![r] = l]
      \/ pc' = pc
    BY DEF Handler, Check, SetRole, Remove, Leave, Invite, Drop, Cascade, Claim, Join, Victim,
        Expire, Acting
<1> QED
    BY <1>1, <1>2, <1>3 DEF Acting

\* A handler that acts and is not the one that arrives has its body and its
\* household, and both stay.
LEMMA OthersStay ==
    ASSUME IInv, Owning, NEW b, asks' = [asks EXCEPT ![arrived + 1] = b],
           NEW r \in Requests, pc[r] \in Acting
    PROVE  Kind(r) # "join" => asks'[context[r]] = asks[context[r]]
<1>1. arrived \in Nat /\ 1 .. arrived \subseteq Requests /\ arrived + 1 \notin 1 .. arrived
    BY BoundsAssumption DEF IInv, TypeOK, Requests
<1>2. Kind(r) # "join" => context[r] \in 1 .. arrived
    BY DEF IInv, Placed, Acting
<1> QED
    BY <1>1, <1>2 DEF IInv, TypeOK

LEMMA OwningStep ==
    ASSUME IInv, Owning, [Next]_vars
    PROVE  Owning'
<1>0. TypeOK /\ Numbered /\ OneOwner
    BY DEF IInv
<1>1. ASSUME NEW b \in Bodies, arrived < MaxRequests, arrived' = arrived + 1,
           asks' = [asks EXCEPT ![arrived + 1] = b],
           \/ Enter(arrived + 1, b)
           \/ Create(arrived + 1, b)
           \/ EnterJoin(arrived + 1, b)
      PROVE  Owning'
  <2>1. /\ arrived + 1 \in Requests /\ arrived \in Nat
        /\ b \in Body /\ (b.kind \notin {"role", "remove"} => b.subject = b.by)
      BY <1>0, <1>1, BoundsAssumption DEF TypeOK, Requests, Bodies
  <2>2. PICK n \in Requests : n = arrived + 1
      BY <2>1
  <2>3. asks'[n] = b /\ \A r \in Requests : r # n => asks'[r] = asks[r]
      BY <1>0, <1>1, <2>2 DEF TypeOK
  <2>4. ASSUME NEW r \in Requests, r # n, pc'[r] \in Acting
        PROVE  /\ asks'[r].kind \in OwnerKinds => asks'[r].by = asks'[context'[r]].by
               /\ asks'[r].kind \in {"leave", "delete"} => asks'[r].subject = asks'[r].by
    <3>1. pc[r] = pc'[r] /\ context'[r] = context[r]
        BY <1>0, <1>1, <2>2, <2>4 DEF Enter, Create, EnterJoin, TypeOK
    <3>2. asks'[r] = asks[r] /\ (Kind(r) # "join" => asks'[context[r]] = asks[context[r]])
        BY <1>1, <2>3, <2>4, <3>1, OthersStay
    <3> QED
        BY <2>4, <3>1, <3>2 DEF Owning
  <2>5. ASSUME b.kind \in OwnerKinds, pc'[n] \in Acting
        PROVE  b.by = asks'[context'[n]].by
    <3>1. /\ home[b.by] # 0 /\ rank[b.by] = "owner" /\ b.by \in People
          /\ context'[n] = home[b.by]
      <4>1. Enter(n, b)
          BY <1>0, <1>1, <2>2, <2>5 DEF Create, EnterJoin
      <4> QED
          BY <1>0, <2>1, <2>5, <4>1 DEF Enter, Allowed, Body, TypeOK
    <3>2. home[b.by] \in households /\ b.by = By(home[b.by])
        BY <1>0, <3>1 DEF OneOwner
    <3>3. n \notin households
        BY <1>0, <2>1, <2>2 DEF Numbered
    <3>4. asks'[home[b.by]] = asks[home[b.by]]
        BY <1>0, <2>3, <3>2, <3>3 DEF TypeOK
    <3> QED
        BY <3>1, <3>2, <3>4
  <2>6. b.kind \in {"leave", "delete"} => b.subject = b.by
      BY <2>1
  <2> QED
      BY <2>3, <2>4, <2>5, <2>6 DEF Owning
<1>2. ASSUME NEW r \in Requests, Handler(r) \/ Expire(r)
      PROVE  Owning'
    BY <1>2, Onwards DEF Owning
<1>3. CASE UNCHANGED vars
    BY <1>3 DEF Owning, vars
<1> QED
    BY <1>1, <1>2, <1>3 DEF Next, Arrive

LEMMA OwningAlways == Spec => [](IInv /\ Owning)
<1>1. Init => Owning
    BY DEF Init, Owning, Acting
<1>2. IInv /\ Owning /\ [Next]_vars => Owning'
    BY OwningStep
<1> QED
    BY <1>1, <1>2, Invariant, PTL DEF Spec

\* Who acts as an owner for a household that exists is its owner now.
LEMMA StillOwner ==
    ASSUME IInv, Owning, NEW r \in Requests, pc[r] \in Acting,
           Kind(r) \in OwnerKinds, context[r] \in households
    PROVE  Memberships!Rightful(r)
<1>1. By(r) \in People /\ By(r) = By(context[r])
    BY DEF IInv, TypeOK, Body, Owning
<1>2. home[By(r)] = context[r] /\ rank[By(r)] = "owner"
    BY <1>1 DEF IInv, OneOwner
<1> QED
    BY <1>2 DEF Memberships!Rightful, Memberships!Owns

\* An answer ends a request that was open; any other step of a handler leaves it so.
LEMMA Answering ==
    ASSUME TypeOK, NEW r \in Requests, pc[r] \in Open, NEW label \in Over,
           pc' = [pc EXCEPT ![r] = label]
    PROVE  /\ Outcome[r] = "open"
           /\ Outcome' = [Outcome EXCEPT ![r] = IF label = "joined" THEN "done" ELSE label]
           /\ Outcome'[r] = IF label = "joined" THEN "done" ELSE label
<1>1. Outcome \in [Requests -> {"none", "open"} \cup Over]
    BY DEF TypeOK, Outcome
<1> QED
    BY <1>1 DEF TypeOK, Outcome

LEMMA Pending ==
    ASSUME TypeOK, NEW r \in Requests, pc[r] \in Open, NEW label \in Open,
           pc' = [pc EXCEPT ![r] = label]
    PROVE  Outcome' = Outcome
BY DEF TypeOK, Outcome

LEMMA MembershipInit == Init => Memberships!Init
BY DEF Init, Memberships!Init, Outcome

\* A request that arrives.
LEMMA ArrivalSeen ==
    ASSUME IInv, Arrive
    PROVE  Memberships!Next
<1>0. TypeOK /\ Numbered
    BY DEF IInv
<1>1. PICK b \in Bodies :
          /\ asks' = [asks EXCEPT ![arrived + 1] = b]
          /\ Enter(arrived + 1, b) \/ Create(arrived + 1, b) \/ EnterJoin(arrived + 1, b)
    BY DEF Arrive
<1>2. arrived + 1 \in Requests /\ pc[arrived + 1] = "idle"
  <2>1. arrived + 1 \in Requests /\ arrived + 1 > arrived
      BY <1>0, BoundsAssumption DEF Arrive, TypeOK, Requests
  <2> QED
      BY <1>0, <2>1, BoundsAssumption DEF Numbered, TypeOK, Requests
<1>3. PICK r \in Requests : r = arrived + 1
    BY <1>2
<1>4. /\ asks'[r] = b /\ asks' = [asks EXCEPT ![r] = asks'[r]]
      /\ b.kind \in Kinds /\ b.by \in People
    BY <1>0, <1>1, <1>3 DEF TypeOK, Bodies, Body
<1>5. Outcome[r] = "none"
    BY <1>2, <1>3 DEF Outcome
<1>6. CASE Enter(arrived + 1, b)
  <2>1. context' = [context EXCEPT ![r] = home[b.by]] /\ pc' = [pc EXCEPT ![r] = "entered"]
        /\ UNCHANGED <<home, rank, links>>
      BY <1>3, <1>6 DEF Enter, members
  <2>2. context'[r] = home[b.by]
      BY <1>0, <2>1 DEF TypeOK
  <2>3. Outcome' = [Outcome EXCEPT ![r] = "open"] /\ Outcome'[r] = "open"
      BY <1>0, <2>1 DEF Outcome, TypeOK
  <2>4. Memberships!Arrive(r)
      BY <1>4, <2>1, <2>2, <2>3 DEF Memberships!Arrive, Memberships!Asked
  <2> QED
      BY <1>5, <2>3, <2>4 DEF Memberships!Next
<1>7. CASE Create(arrived + 1, b)
  <2>1. /\ b.kind = "create" /\ home[b.by] = 0
        /\ home' = [home EXCEPT ![b.by] = r] /\ rank' = [rank EXCEPT ![b.by] = "owner"]
        /\ pc' = [pc EXCEPT ![r] = "done"]
        /\ UNCHANGED <<context, links>>
      BY <1>3, <1>7 DEF Create, Joined
  <2>2. Outcome' = [Outcome EXCEPT ![r] = "done"] /\ Outcome'[r] = "done"
      BY <1>0, <2>1 DEF Outcome, TypeOK
  <2>3. Memberships!Create(r)
      BY <1>4, <2>1, <2>2 DEF Memberships!Create, Memberships!Asked
  <2> QED
      BY <1>5, <2>2, <2>3 DEF Memberships!Next
<1>8. CASE EnterJoin(arrived + 1, b)
  <2>1. /\ b.kind = "join" /\ pc' = [pc EXCEPT ![r] = "entered"]
        /\ UNCHANGED <<context, home, rank, links>>
      BY <1>3, <1>8 DEF EnterJoin, members
  <2>2. context' = [context EXCEPT ![r] = context'[r]]
      BY <1>0, <2>1 DEF TypeOK
  <2>3. Outcome' = [Outcome EXCEPT ![r] = "open"] /\ Outcome'[r] = "open"
      BY <1>0, <2>1 DEF Outcome, TypeOK
  <2>4. Memberships!Arrive(r)
      BY <1>4, <2>1, <2>2, <2>3 DEF Memberships!Arrive, Memberships!Asked
  <2> QED
      BY <1>5, <2>3, <2>4 DEF Memberships!Next
<1> QED
    BY <1>1, <1>6, <1>7, <1>8

\* A request that is open answers, and leaves the rest to its effect.
LEMMA Answers ==
    ASSUME IInv, NEW r \in Requests, pc[r] \in Open, NEW label \in Over,
           pc' = [pc EXCEPT ![r] = label], UNCHANGED <<asks, context>>,
           NEW kinds, Kind(r) \in kinds
    PROVE  /\ Outcome[r] = "open" /\ Outcome'[r] # "open"
           /\ Memberships!Answer(r, kinds, IF label = "joined" THEN "done" ELSE label)
BY Answering DEF IInv, Memberships!Answer

LEMMA CheckSeen ==
    ASSUME IInv, NEW r \in Requests, Check(r)
    PROVE  [Memberships!Next]_Memberships!vars
<1>1. /\ pc[r] = "entered" /\ Kind(r) \in {"role", "remove"}
      /\ UNCHANGED <<asks, context, home, rank, links>>
    BY DEF Check, members
<1>2. CASE pc' = [pc EXCEPT ![r] = "checked"]
    BY <1>1, <1>2, Pending DEF IInv, Memberships!vars
<1>3. CASE /\ pc' = [pc EXCEPT ![r] = "refused"]
           /\ ~ (/\ Subject(r) # By(r)
                 /\ home[Subject(r)] = context[r]
                 /\ rank[Subject(r)] # "owner")
  <2>1. /\ Outcome[r] = "open" /\ Outcome'[r] # "open"
        /\ Memberships!Answer(r, {"role", "remove"}, "refused")
      BY <1>1, <1>3, Answers
  <2>2. Memberships!Refuse(r)
      BY <1>1, <1>3, <2>1 DEF Memberships!Refuse, Memberships!ToOther
  <2> QED
      BY <2>1, <2>2 DEF Memberships!Next
<1> QED
    BY <1>1, <1>2, <1>3 DEF Check

\* Whoever changes somebody is not the one they change.
LEMMA ChangesAnother ==
    ASSUME IInv, Owning, NEW r \in Requests, pc[r] = "checked"
    PROVE  Subject(r) # By(r)
BY DEF IInv, Placed, Owning, Acting

\* A member's household exists, and it is no more than what context says.
LEMMA LivesIn ==
    ASSUME IInv, NEW r \in Requests, pc[r] \in Acting, Kind(r) # "join",
           home[Subject(r)] = context[r]
    PROVE  context[r] \in households
<1>1. Subject(r) \in People
    BY DEF IInv, TypeOK, Body
<1>2. context[r] # 0
    BY DEF IInv, Placed, Acting
<1> QED
    BY <1>1, <1>2 DEF IInv, OneOwner

LEMMA RoleSeen ==
    ASSUME IInv, Owning, NEW r \in Requests, RoleSet(r) \/ RoleLost(r)
    PROVE  Memberships!Next
<1>1. CASE RoleSet(r)
  <2>1. Outcome[r] = "open" /\ Outcome'[r] # "open" /\ Memberships!Answer(r, {"role"}, "done")
      BY <1>1, Answers DEF RoleSet
  <2>2. Memberships!Rightful(r)
      BY <1>1, LivesIn, StillOwner DEF RoleSet, Acting
  <2>3. Memberships!ToOther(r)
      BY <1>1, ChangesAnother DEF RoleSet, Memberships!ToOther
  <2>4. asks[r].role \in Given
    <3>1. r \in 1 .. arrived
        BY <1>1, Arrived DEF RoleSet
    <3> QED
        BY <1>1, <3>1 DEF RoleSet, IInv, Bodied
  <2>5. Memberships!SetRole(r)
      BY <1>1, <2>1, <2>2, <2>3, <2>4 DEF RoleSet, Memberships!SetRole
  <2> QED
      BY <2>1, <2>5 DEF Memberships!Next
<1>2. CASE RoleLost(r)
  <2>1. /\ Outcome[r] = "open" /\ Outcome'[r] # "open"
        /\ Memberships!Answer(r, {"role", "remove"}, "refused")
      BY <1>2, Answers DEF RoleLost
  <2>2. Memberships!Refuse(r)
      BY <1>2, <2>1 DEF RoleLost, Memberships!Refuse
  <2> QED
      BY <2>1, <2>2 DEF Memberships!Next
<1> QED
    BY <1>1, <1>2

LEMMA DepartureSeen ==
    ASSUME IInv, Owning, NEW r \in Requests, Remove(r) \/ Leave(r)
    PROVE  Memberships!Next
<1>1. /\ pc[r] \in Acting /\ Kind(r) \in {"remove", "leave"}
      /\ pc' = [pc EXCEPT ![r] = "done"]
      /\ UNCHANGED <<asks, context, rank, links>>
    BY DEF Remove, Leave, Acting
<1>2. home' = Removal(Subject(r), context[r])
    BY <1>1 DEF Remove, Leave, Owning
<1>3. /\ Outcome[r] = "open" /\ Outcome'[r] # "open"
      /\ Memberships!Answer(r, {"remove", "leave"}, "done")
      /\ Memberships!Answer(r, {"remove", "leave", "delete"}, "done")
    BY <1>1, Answers DEF Acting
<1>4. CASE home[Subject(r)] # context[r]
  <2>1. Memberships!Gone(r)
      BY <1>1, <1>2, <1>3, <1>4 DEF Removal, Memberships!Gone
  <2> QED
      BY <1>3, <2>1 DEF Memberships!Next
<1>5. CASE home[Subject(r)] = context[r]
  <2>1. context[r] \in households
      BY <1>1, <1>5, LivesIn
  <2>2. CASE Kind(r) = "remove"
    <3>1. pc[r] = "checked"
        BY <2>2 DEF Remove, Leave
    <3>2. Memberships!Rightful(r) /\ Memberships!ToOther(r)
        BY <1>1, <2>1, <2>2, <3>1, StillOwner, ChangesAnother DEF Memberships!ToOther
    <3> QED
        BY <1>1, <1>2, <1>3, <1>5, <2>2, <3>2 DEF Removal, Memberships!Depart, Memberships!Next
  <2>3. CASE Kind(r) = "leave"
    <3>1. By(r) # By(context[r])
        BY <2>3 DEF Remove, Leave, IInv, Placed
    <3>2. By(r) \in People
        BY DEF IInv, TypeOK, Body
    <3>3. ~ Memberships!Rightful(r)
        BY <2>1, <3>1, <3>2 DEF IInv, OneOwner, Memberships!Rightful, Memberships!Owns
    <3> QED
        BY <1>1, <1>2, <1>3, <1>5, <2>3, <3>3 DEF Removal, Memberships!Depart, Memberships!Next
  <2> QED
      BY <1>1, <2>2, <2>3
<1> QED
    BY <1>4, <1>5

LEMMA InvitationSeen ==
    ASSUME IInv, Owning, NEW r \in Requests, Invited(r) \/ InviteLost(r)
    PROVE  Memberships!Next
<1>1. CASE Invited(r)
  <2>1. Outcome[r] = "open" /\ Outcome'[r] # "open" /\ Memberships!Answer(r, {"invite"}, "done")
      BY <1>1, Answers DEF Invited
  <2>2. Memberships!Rightful(r)
      BY <1>1, StillOwner DEF Invited, Acting
  <2>3. asks[r].role \in Given
    <3>1. r \in 1 .. arrived
        BY <1>1, Arrived DEF Invited
    <3> QED
        BY <1>1, <3>1 DEF Invited, IInv, Bodied
  <2>4. Memberships!Invite(r)
      BY <1>1, <2>1, <2>2, <2>3 DEF Invited, Memberships!Invite
  <2> QED
      BY <2>1, <2>4 DEF Memberships!Next
<1>2. CASE InviteLost(r)
  <2>1. Outcome[r] = "open" /\ Outcome'[r] # "open" /\ Memberships!Answer(r, {"invite"}, "broken")
      BY <1>2, Answers DEF InviteLost
  <2>2. ~ Memberships!Rightful(r)
    <3>1. By(r) \in People /\ context[r] # 0
        BY <1>2 DEF InviteLost, IInv, TypeOK, Body, Placed
    <3> QED
        BY <1>2, <3>1 DEF InviteLost, IInv, OneOwner, Memberships!Rightful, Memberships!Owns
  <2>3. Memberships!Fail(r)
      BY <1>2, <2>1, <2>2 DEF InviteLost, Memberships!Fail
  <2> QED
      BY <2>1, <2>3 DEF Memberships!Next
<1> QED
    BY <1>1, <1>2

LEMMA DeletionSeen ==
    ASSUME IInv, Owning, NEW r \in Requests, DropHeld(r) \/ DropLost(r) \/ Cascade(r)
    PROVE  [Memberships!Next]_Memberships!vars
<1>1. CASE DropHeld(r)
    BY <1>1, Pending DEF DropHeld, IInv, Memberships!vars
<1>2. CASE DropLost(r)
  <2>1. /\ Outcome[r] = "open" /\ Outcome'[r] # "open"
        /\ Memberships!Answer(r, {"remove", "leave", "delete"}, "done")
      BY <1>2, Answers DEF DropLost
  <2>2. home[Subject(r)] # context[r]
      BY <1>2, LivesIn DEF DropLost, Acting
  <2>3. Memberships!Gone(r)
      BY <1>2, <2>1, <2>2 DEF DropLost, Memberships!Gone
  <2> QED
      BY <2>1, <2>3 DEF Memberships!Next
<1>3. CASE Cascade(r)
  <2>1. pc[r] = "dropping" /\ Kind(r) = "delete" /\ context[r] \in households
      BY <1>3 DEF Cascade, IInv, Placed, Drops
  <2>2. Outcome[r] = "open" /\ Outcome'[r] # "open" /\ Memberships!Answer(r, {"delete"}, "done")
      BY <1>3, <2>1, Answers DEF Cascade
  <2>3. Memberships!Rightful(r)
      BY <2>1, StillOwner DEF Acting
  <2>4. Memberships!Delete(r)
      BY <1>3, <2>2, <2>3 DEF Cascade, Links, Memberships!Delete
  <2> QED
      BY <2>2, <2>4 DEF Memberships!Next
<1> QED
    BY <1>1, <1>2, <1>3

LEMMA RedeemSeen ==
    ASSUME IInv, NEW r \in Requests,
           ClaimHeld(r) \/ ClaimLost(r) \/ JoinDone(r) \/ JoinLost(r)
    PROVE  [Memberships!Next]_Memberships!vars
<1>0. pc[r] = "claimed" => /\ Kind(r) = "join" /\ links[Link(r)] = "open"
                           /\ context[Link(r)] \in households
  <2>1. pc[r] = "claimed" => Kind(r) = "join" /\ links[Link(r)] = "open"
      BY DEF IInv, Placed, Claims
  <2>2. pc[r] = "claimed" => Link(r) \in Requests
      BY <2>1, Arrived DEF IInv, Bodied
  <2> QED
      BY <2>1, <2>2 DEF IInv, LinksLive
<1>1. CASE ClaimHeld(r)
    BY <1>1, Pending DEF ClaimHeld, IInv, Memberships!vars
<1>2. CASE ClaimLost(r)
  <2>1. Outcome[r] = "open" /\ Outcome'[r] # "open" /\ Memberships!Answer(r, {"join"}, "refused")
      BY <1>2, Answers DEF ClaimLost
  <2>2. Memberships!Refuse(r)
      BY <1>2, <2>1 DEF ClaimLost, Memberships!Refuse
  <2> QED
      BY <2>1, <2>2 DEF Memberships!Next
<1>3. CASE JoinDone(r)
  <2>1. Outcome[r] = "open" /\ Outcome'[r] # "open" /\ Memberships!Answer(r, {"join"}, "done")
      BY <1>0, <1>3, Answers DEF JoinDone
  <2>2. By(context[Link(r)]) \in People /\ Memberships!Owns(By(context[Link(r)]), context[Link(r)])
    <3>1. By(context[Link(r)]) \in People
        BY <1>3 DEF JoinDone, IInv, TypeOK, Body
    <3> QED
        BY <1>3, <3>1 DEF JoinDone, IInv, OneOwner, Memberships!Owns
  <2>3. Memberships!Join(r)
      BY <1>0, <1>3, <2>1, <2>2 DEF JoinDone, Memberships!Join
  <2> QED
      BY <2>1, <2>3 DEF Memberships!Next
<1>4. CASE JoinLost(r)
  <2>1. Outcome[r] = "open" /\ Outcome'[r] # "open" /\ Memberships!Answer(r, {"join"}, "conflict")
      BY <1>0, <1>4, Answers DEF JoinLost
  <2>2. home[By(r)] # 0
      BY <1>0, <1>4 DEF JoinLost
  <2>3. Memberships!Refuse(r)
      BY <1>4, <2>1, <2>2 DEF JoinLost, Memberships!Refuse
  <2> QED
      BY <2>1, <2>3 DEF Memberships!Next
<1> QED
    BY <1>1, <1>2, <1>3, <1>4

LEMMA VictimSeen ==
    ASSUME IInv, NEW r \in Requests, Victim(r)
    PROVE  Memberships!Next
<1>1. pc[r] \in {"claimed", "dropping"} /\ Kind(r) \in {"join", "delete"}
    BY DEF Victim, WaitsFor, IInv, Placed
<1>2. /\ Outcome[r] = "open" /\ Outcome'[r] # "open"
      /\ Memberships!Answer(r, {"join", "delete"}, "broken")
    BY <1>1, Answers DEF Victim
<1>3. Memberships!Fail(r)
    BY <1>2 DEF Victim, members, Memberships!Fail
<1> QED
    BY <1>2, <1>3 DEF Memberships!Next

LEMMA ExpirySeen ==
    ASSUME NEW r \in Requests, Expire(r)
    PROVE  Memberships!Next
<1>1. Outcome' = Outcome
    BY DEF Expire, Outcome
<1>2. Memberships!Expire(r)
    BY <1>1 DEF Expire, members, Memberships!Expire
<1> QED
    BY <1>2 DEF Memberships!Next

\* Each request of the household routes acts at one moment, and its right, its
\* effect and its answer are those of that moment, as Membership says it.
THEOREM Implements == Spec => ImplementsMembership
<1>1. IInv /\ Owning /\ [Next]_vars => [Memberships!Next]_Memberships!vars
  <2> SUFFICES ASSUME IInv, Owning, [Next]_vars
               PROVE  [Memberships!Next]_Memberships!vars
      OBVIOUS
  <2>1. CASE Arrive
      BY <2>1, ArrivalSeen
  <2>2. ASSUME NEW r \in Requests, Handler(r) \/ Expire(r)
        PROVE  [Memberships!Next]_Memberships!vars
      BY <2>2, CheckSeen, SetRoleCases, RoleSeen, DepartureSeen, InviteCases, InvitationSeen,
         DropCases, DeletionSeen, ClaimCases, JoinCases, RedeemSeen, VictimSeen, ExpirySeen
         DEF Handler
  <2>3. CASE UNCHANGED vars
      BY <2>3 DEF vars, members, Memberships!vars, Outcome
  <2> QED
      BY <2>1, <2>2, <2>3 DEF Next
<1> QED
    BY <1>1, MembershipInit, OwningAlways, PTL DEF Spec, ImplementsMembership, Memberships!Spec
=============================================================================
