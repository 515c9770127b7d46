------------------------------ MODULE Households ------------------------------
(***************************************************************************)
(* Households, their members and the single-use links that invite to them. *)
(*                                                                         *)
(* Every route but two reads the caller's membership first and acts on     *)
(* what it read: between the two the caller may leave, be removed, open a  *)
(* household of their own, or see the household deleted. The handlers are  *)
(* plain functions run by a thread pool, and PostgreSQL is at READ         *)
(* COMMITTED: each statement is atomic, and a transaction of one statement *)
(* is one step. Two hold row locks from one statement to the next: redeem, *)
(* which claims a link and then inserts a member, and the delete of a      *)
(* household, whose cascade waits for the links that are claimed.          *)
(*                                                                         *)
(* Requests are numbered as they arrive; a household and a link go by the  *)
(* number of the request that made them, and 0 is no request.              *)
(***************************************************************************)
EXTENDS Integers, FiniteSets

CONSTANTS
    People,       \* subjects of access tokens
    Given,        \* roles that owners give
    MaxRequests,  \* bound: requests that arrive
    MaxOpen       \* bound: requests handled at once

ASSUME PeopleAssumption == People # {}
ASSUME GivenAssumption == Given \subseteq {"member", "viewer"}
ASSUME BoundsAssumption == MaxRequests \in Nat /\ MaxOpen \in Nat

Requests == 1 .. MaxRequests
OwnerKinds == {"delete", "invite", "role", "remove"}
Kinds == OwnerKinds \cup {"create", "join", "leave"}
Body == [kind : Kinds, by : People, subject : People, link : Requests \cup {0},
         role : Given \cup {"none"}]
\* What a request carries besides its route and its caller: nothing, or a role,
\* somebody else, a token.
Bodies == {b \in Body : /\ b.kind \notin {"role", "remove"} => b.subject = b.by
                        /\ b.kind = "join" <=> b.link # 0
                        /\ b.kind \in {"invite", "role"} <=> b.role # "none"}
Open == {"entered", "checked", "claimed", "dropping"}
Over == {"done", "joined", "refused", "conflict", "broken"}

VARIABLES
    arrived,     \* number of requests that have arrived
    asks,        \* request -> route, caller, {sub} of the path, token, role
    context,     \* request -> household of the caller when it looked
    pc,          \* request -> where its handler stands
    households,  \* rows of households
    home,        \* person -> household_id of their row of household_members
    rank,        \* person -> role of that row
    links,       \* link -> "none" (no row), "open", "used", "expired"
    claim,       \* link -> redeem that holds its row
    drop         \* household -> delete that holds its row

members == <<home, rank>>
locks == <<claim, drop>>
vars == <<arrived, asks, context, pc, households, members, links, locks>>

Goto(r, label) == pc' = [pc EXCEPT ![r] = label]
Kind(r) == asks[r].kind
By(r) == asks[r].by
Subject(r) == asks[r].subject
Link(r) == asks[r].link

\* An invitation holds the household of the owner who made it.
Links(h) == {i \in Requests : links[i] # "none" /\ context[i] = h}

Joined(p, h, role) ==
    /\ home' = [home EXCEPT ![p] = h]
    /\ rank' = [rank EXCEPT ![p] = role]

Init ==
    /\ arrived = 0
    /\ \E p \in People : asks = [r \in Requests |->
           [kind |-> "create", by |-> p, subject |-> p, link |-> 0, role |-> "none"]]
    /\ context = [r \in Requests |-> 0]
    /\ pc = [r \in Requests |-> "idle"]
    /\ households = {}
    /\ home = [p \in People |-> 0]
    /\ rank = [p \in People |-> "viewer"]
    /\ links = [i \in Requests |-> "none"]
    /\ claim = [i \in Requests |-> 0]
    /\ drop = [h \in Requests |-> 0]

-----------------------------------------------------------------------------
(* Arrival                                                                 *)

\* A request refused here changes nothing, and is given no number:
\* household_context, _owner, and leave's own check, 409 or 403.
Allowed(b) ==
    /\ home[b.by] # 0
    /\ b.kind \in OwnerKinds => rank[b.by] = "owner"
    /\ b.kind = "leave" => rank[b.by] # "owner"

\* A route that acts for the caller's household reads their row.
Enter(r, b) ==
    /\ b.kind \notin {"create", "join"}
    /\ Allowed(b)
    /\ context' = [context EXCEPT ![r] = home[b.by]]
    /\ Goto(r, "entered")
    /\ UNCHANGED <<households, members, links, locks>>

\* create inserts the household and its owner in one transaction; the primary
\* key of household_members refuses a second household.
Create(r, b) ==
    /\ b.kind = "create"
    /\ home[b.by] = 0
    /\ households' = households \cup {r}
    /\ Joined(b.by, r, "owner")
    /\ Goto(r, "done")
    /\ UNCHANGED <<context, links, locks>>

\* A link is joined with a token that some owner was given.
EnterJoin(r, b) ==
    /\ b.kind = "join"
    /\ b.link \in 1 .. arrived
    /\ Kind(b.link) = "invite" /\ pc[b.link] = "done"
    /\ Goto(r, "entered")
    /\ UNCHANGED <<context, households, members, links, locks>>

Arrive ==
    /\ arrived < MaxRequests
    /\ Cardinality({r \in Requests : pc[r] \in Open}) < MaxOpen
    /\ arrived' = arrived + 1
    /\ \E b \in Bodies :
           /\ asks' = [asks EXCEPT ![arrived + 1] = b]
           /\ Enter(arrived + 1, b) \/ Create(arrived + 1, b) \/ EnterJoin(arrived + 1, b)

-----------------------------------------------------------------------------
(* The owner's routes                                                      *)

\* set_member_role and remove_member look at the row they were asked to change;
\* the caller's own row, read before, is an owner's.
Check(r) ==
    /\ pc[r] = "entered" /\ Kind(r) \in {"role", "remove"}
    /\ Goto(r, IF /\ Subject(r) # By(r)
                  /\ home[Subject(r)] = context[r]
                  /\ rank[Subject(r)] # "owner"
               THEN "checked" ELSE "refused")
    /\ UNCHANGED <<arrived, asks, context, households, members, links, locks>>

\* Mutant: a write by primary key.
SetRoleBySub(r) ==
    /\ pc[r] = "checked" /\ Kind(r) = "role"
    /\ drop[context[r]] = 0
    /\ IF home[Subject(r)] # 0
       THEN rank' = [rank EXCEPT ![Subject(r)] = asks[r].role] /\ Goto(r, "done")
       ELSE Goto(r, "refused") /\ UNCHANGED rank
    /\ UNCHANGED <<arrived, asks, context, households, home, links, locks>>

\* One statement, bound to the household that was checked.
SetRole(r) ==
    /\ pc[r] = "checked" /\ Kind(r) = "role"
    /\ drop[context[r]] = 0
    /\ IF home[Subject(r)] = context[r]
       THEN rank' = [rank EXCEPT ![Subject(r)] = asks[r].role] /\ Goto(r, "done")
       ELSE Goto(r, "refused") /\ UNCHANGED rank
    /\ UNCHANGED <<arrived, asks, context, households, home, links, locks>>

\* Mutant: a delete by primary key.
RemovalBySub(p, h) == [home EXCEPT ![p] = 0]
\* remove matches the household that was checked, or no row.
Removal(p, h) == IF home[p] = h THEN [home EXCEPT ![p] = 0] ELSE home

Remove(r) ==
    /\ pc[r] = "checked" /\ Kind(r) = "remove"
    /\ drop[context[r]] = 0
    /\ home' = Removal(Subject(r), context[r])
    /\ Goto(r, "done")
    /\ UNCHANGED <<arrived, asks, context, households, rank, links, locks>>

Leave(r) ==
    /\ pc[r] = "entered" /\ Kind(r) = "leave"
    /\ drop[context[r]] = 0
    /\ home' = Removal(By(r), context[r])
    /\ Goto(r, "done")
    /\ UNCHANGED <<arrived, asks, context, households, rank, links, locks>>

\* The insert waits for a delete of the household, and then has no key to refer
\* to: nothing catches that.
Invite(r) ==
    /\ pc[r] = "entered" /\ Kind(r) = "invite"
    /\ drop[context[r]] = 0
    /\ IF context[r] \in households
       THEN links' = [links EXCEPT ![r] = "open"] /\ Goto(r, "done")
       ELSE Goto(r, "broken") /\ UNCHANGED links
    /\ UNCHANGED <<arrived, asks, context, households, members, locks>>

-----------------------------------------------------------------------------
(* The delete of a household                                               *)

\* DELETE locks the household and its members; the cascade goes on to the links.
Drop(r) ==
    /\ pc[r] = "entered" /\ Kind(r) = "delete"
    /\ drop[context[r]] = 0
    /\ IF context[r] \in households
       THEN drop' = [drop EXCEPT ![context[r]] = r] /\ Goto(r, "dropping")
       ELSE Goto(r, "done") /\ UNCHANGED drop
    /\ UNCHANGED <<arrived, asks, context, households, members, links, claim>>

\* Mutant: the cascade does not wait for the links.
CascadeAtOnce(r) ==
    LET h == context[r] IN
    /\ pc[r] = "dropping"
    /\ households' = households \ {h}
    /\ home' = [p \in People |-> IF home[p] = h THEN 0 ELSE home[p]]
    /\ links' = [i \in Requests |-> IF i \in Links(h) THEN "none" ELSE links[i]]
    /\ drop' = [drop EXCEPT ![h] = 0]
    /\ Goto(r, "done")
    /\ UNCHANGED <<arrived, asks, context, rank, claim>>

\* ON DELETE CASCADE, once no redeem holds one of the links, and the commit.
Cascade(r) ==
    LET h == context[r] IN
    /\ pc[r] = "dropping"
    /\ \A i \in Links(h) : claim[i] = 0
    /\ households' = households \ {h}
    /\ home' = [p \in People |-> IF home[p] = h THEN 0 ELSE home[p]]
    /\ links' = [i \in Requests |-> IF i \in Links(h) THEN "none" ELSE links[i]]
    /\ drop' = [drop EXCEPT ![h] = 0]
    /\ Goto(r, "done")
    /\ UNCHANGED <<arrived, asks, context, rank, claim>>

-----------------------------------------------------------------------------
(* redeem                                                                  *)

\* Mutant: the link is looked up, and not locked.
ClaimUnlocked(r) ==
    /\ pc[r] = "entered" /\ Kind(r) = "join"
    /\ IF links[Link(r)] = "open"
       THEN claim' = [claim EXCEPT ![Link(r)] = r] /\ Goto(r, "claimed")
       ELSE Goto(r, "refused") /\ UNCHANGED claim
    /\ UNCHANGED <<arrived, asks, context, households, members, links, drop>>

\* UPDATE ... WHERE used_at IS NULL AND expires_at > now(): a second redeem
\* waits for the first, and looks again.
Claim(r) ==
    /\ pc[r] = "entered" /\ Kind(r) = "join"
    /\ claim[Link(r)] = 0
    /\ IF links[Link(r)] = "open"
       THEN claim' = [claim EXCEPT ![Link(r)] = r] /\ Goto(r, "claimed")
       ELSE Goto(r, "refused") /\ UNCHANGED claim
    /\ UNCHANGED <<arrived, asks, context, households, members, links, drop>>

\* The insert meets the primary key first, then the reference to the household;
\* it waits for the delete of the row it meets.
Blocker(r) == IF home[By(r)] # 0 THEN drop[home[By(r)]] ELSE drop[context[Link(r)]]
Accepted(r) == home[By(r)] = 0 /\ context[Link(r)] \in households

\* Mutant: a refusal that keeps the claim.
JoinKeeping(r) ==
    /\ pc[r] = "claimed" /\ Blocker(r) = 0
    /\ claim' = [claim EXCEPT ![Link(r)] = IF Accepted(r) THEN 0 ELSE @]
    /\ IF Accepted(r)
       THEN /\ Joined(By(r), context[Link(r)], asks[Link(r)].role)
            /\ links' = [links EXCEPT ![Link(r)] = "used"]
            /\ Goto(r, "joined")
       ELSE Goto(r, "conflict") /\ UNCHANGED <<members, links>>
    /\ UNCHANGED <<arrived, asks, context, households, drop>>

\* Any IntegrityError rolls the claim back and is answered as AlreadyMember.
Join(r) ==
    /\ pc[r] = "claimed" /\ Blocker(r) = 0
    /\ claim' = [claim EXCEPT ![Link(r)] = 0]
    /\ IF Accepted(r)
       THEN /\ Joined(By(r), context[Link(r)], asks[Link(r)].role)
            /\ links' = [links EXCEPT ![Link(r)] = "used"]
            /\ Goto(r, "joined")
       ELSE Goto(r, "conflict") /\ UNCHANGED <<members, links>>
    /\ UNCHANGED <<arrived, asks, context, households, drop>>

\* Seven days pass.
Expire(i) ==
    /\ links[i] = "open" /\ claim[i] = 0
    /\ links' = [links EXCEPT ![i] = "expired"]
    /\ UNCHANGED <<arrived, asks, context, pc, households, members, locks>>

-----------------------------------------------------------------------------
(* PostgreSQL's deadlock detector                                          *)

WaitsFor(r) ==
    IF pc[r] = "claimed" THEN {Blocker(r)} \ {0}
    ELSE IF pc[r] = "dropping" THEN {claim[i] : i \in Links(context[r])} \ {0}
    ELSE {}

Knot(S) == \A q \in S : WaitsFor(q) \cap S # {}

\* A cycle is a knot that holds no smaller one.
Cycle(S) == S # {} /\ Knot(S) /\ \A T \in SUBSET S : Knot(T) => T \in {{}, S}

\* One of the transactions that wait for one another is rolled back; its error
\* is no IntegrityError, so nothing catches it.
Victim(r) ==
    /\ WaitsFor(r) # {}
    /\ \E S \in SUBSET {q \in Requests : WaitsFor(q) # {}} : r \in S /\ Cycle(S)
    /\ claim' = [i \in Requests |-> IF claim[i] = r THEN 0 ELSE claim[i]]
    /\ drop' = [h \in Requests |-> IF drop[h] = r THEN 0 ELSE drop[h]]
    /\ Goto(r, "broken")
    /\ UNCHANGED <<arrived, asks, context, households, members, links>>

Handler(r) ==
    \/ Check(r) \/ SetRole(r) \/ Remove(r) \/ Leave(r) \/ Invite(r)
    \/ Drop(r) \/ Cascade(r) \/ Claim(r) \/ Join(r) \/ Victim(r)

Next == Arrive \/ \E r \in Requests : Handler(r) \/ Expire(r)

Spec == Init /\ [][Next]_vars

-----------------------------------------------------------------------------
\* Every variable keeps its type: a membership refers to a request that made a
\* household, a lock to the request that holds it.
TypeOK ==
    /\ arrived \in 0 .. MaxRequests
    /\ asks \in [Requests -> Body]
    /\ context \in [Requests -> Requests \cup {0}]
    /\ pc \in [Requests -> {"idle"} \cup Open \cup Over]
    /\ households \subseteq Requests
    /\ home \in [People -> Requests \cup {0}]
    /\ rank \in [People -> {"owner", "viewer"} \cup Given]
    /\ links \in [Requests -> {"none", "open", "used", "expired"}]
    /\ claim \in [Requests -> Requests \cup {0}]
    /\ drop \in [Requests -> Requests \cup {0}]

\* A household has one owner, its creator, from its first to its last moment,
\* and members only while it exists: no role change, removal, departure or join
\* that acts on what it read earlier makes a second owner or takes the first.
OneOwner ==
    \A p \in People :
        /\ home[p] # 0 => home[p] \in households
        /\ \A h \in households : home[p] = h /\ rank[p] = "owner" <=> p = By(h)

\* A link lets one person in, however many send its token at once.
LinkOnce ==
    \A q, r \in Requests :
        pc[q] = "joined" /\ pc[r] = "joined" /\ Link(q) = Link(r) => q = r

\* A link is used up by somebody who joined with it and by nothing else: who is
\* already in a household leaves it usable.
LinkKept ==
    \A i \in Requests : links[i] = "used" =>
        \E r \in Requests : pc[r] = "joined" /\ Link(r) = i

\* One join for each link that is used up, and none for one that is not.
LinkForOne == LinkOnce /\ LinkKept

\* redeem answers every IntegrityError with AlreadyMember, and it always is:
\* a deleted household never makes the insert fail, because its cascade waits
\* for the claimed link.
AlreadyMemberIsTrue ==
    [][\A r \in Requests :
           Kind(r) = "join" /\ pc'[r] = "conflict" /\ pc[r] # "conflict"
           => home[By(r)] # 0]_vars

\* A membership changes only through a request that looked at the household it
\* belongs to: who moved to another household meanwhile is left alone there.
WritesAreScoped ==
    [][\A p \in People : home[p] # 0 /\ <<home[p], rank[p]>>' # <<home[p], rank[p]>> =>
           \E r \in Requests : pc'[r] = "done" /\ pc[r] # "done" /\ context[r] = home[p]]_vars

\* A request as its caller sees it: it is open until it is answered.
Outcome ==
    [r \in Requests |->
        IF pc[r] = "idle" THEN "none"
        ELSE IF pc[r] \in Open THEN "open"
        ELSE IF pc[r] = "joined" THEN "done"
        ELSE pc[r]]

Memberships == INSTANCE Membership WITH about <- context, outcome <- Outcome

\* However the statements of the routes interleave, each request acts as if in
\* one step at the moment of its answer: a caller who reads that they own a
\* household owns it still when it changes, and a redeem or a delete, done
\* statement by statement, is seen whole or not at all.
ImplementsMembership == Memberships!Spec

\* The guards of a handler's actions, one after the other.
Able(r) ==
    \/ pc[r] = "entered" /\ Kind(r) \in {"role", "remove"}
    \/ pc[r] = "checked" /\ Kind(r) \in {"role", "remove"} /\ drop[context[r]] = 0
    \/ pc[r] = "entered" /\ Kind(r) \in {"leave", "invite", "delete"} /\ drop[context[r]] = 0
    \/ pc[r] = "dropping" /\ \A i \in Links(context[r]) : claim[i] = 0
    \/ pc[r] = "entered" /\ Kind(r) = "join" /\ claim[Link(r)] = 0
    \/ pc[r] = "claimed" /\ Blocker(r) = 0
    \/ /\ WaitsFor(r) # {}
       /\ \E S \in SUBSET {q \in Requests : WaitsFor(q) # {}} : r \in S /\ Cycle(S)

\* Requests that wait for one another's rows are never all stuck: some handler
\* can go on as long as one is open, and each has a few steps to take. Able tells
\* which: it is when a handler is ENABLED.
NobodyStuck ==
    /\ (\E r \in Requests : pc[r] \in Open) => \E r \in Requests : Able(r)
    /\ \A r \in Requests : Able(r) <=> ENABLED Handler(r)
=============================================================================
