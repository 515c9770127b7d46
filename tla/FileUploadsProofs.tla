-------------------------- MODULE FileUploadsProofs --------------------------
(***************************************************************************)
(* Theorems about FileUploads, for every set of uploads, names, sizes and  *)
(* listings and every bound: a ready file has its bytes, its versions are  *)
(* numbered without a gap, and new files fit the quota. If no upload       *)
(* outlives its hour, a ready file also keeps its row, and bytes without a *)
(* row are accounted for. What the owner sees is a behaviour of Drive.     *)
(***************************************************************************)
EXTENDS FileUploads, SequenceTheorems, FiniteSetTheorems, TLAPS

USE DEF Writing, After, Over

-----------------------------------------------------------------------------
(* Helpers                                                                 *)

Early == {"idle", "claiming", "claimed"}
Beyond == {"auditing", "answered", "summarizing", "over", "lost"}

\* x was written to the key of f.
Holds(f, x) == \E i \in DOMAIN puts[f] : puts[f][i] = x

\* What the steps below need of the types.
Shapes ==
    /\ status \in [Uploads -> {"absent", "pending", "ready"}]
    /\ versions \in [Uploads -> SUBSET Version]
    /\ current \in [Uploads -> Uploads \cup {Nobody}]
    /\ puts \in [Uploads -> Seq(Uploads \cup {Removed})]
    /\ pc \in [Uploads -> {"idle"} \cup Writing \cup After \cup Over]
    /\ target \in [Uploads -> Uploads]
    /\ number \in [Uploads -> Nat]
    /\ found \in [Listings -> SUBSET Uploads]
    /\ sweeping \in [Listings -> {"no", "found", "dropped"}]
    /\ missed \subseteq Uploads

\* An appended write is the latest, and the earlier ones are still there.
LEMMA Appended ==
    ASSUME NEW T, NEW s \in Seq(T), NEW x \in T
    PROVE  /\ Append(s, x) \in Seq(T)
           /\ Append(s, x) # <<>>
           /\ Append(s, x)[Len(Append(s, x))] = x
           /\ \A y : (\E i \in DOMAIN s : s[i] = y) =>
                     \E i \in DOMAIN Append(s, x) : Append(s, x)[i] = y
           /\ \E i \in DOMAIN Append(s, x) : Append(s, x)[i] = x
<1>1. /\ Append(s, x) \in Seq(T)
      /\ Len(Append(s, x)) = Len(s) + 1
      /\ \A i \in 1 .. Len(s) : Append(s, x)[i] = s[i]
      /\ Append(s, x)[Len(s) + 1] = x
    BY AppendProperties
<1>2. Len(s) \in Nat /\ DOMAIN s = 1 .. Len(s) /\ DOMAIN Append(s, x) = 1 .. Len(s) + 1
    BY <1>1
<1>3. Append(s, x) # <<>>
    <2>1. Len(Append(s, x)) > 0
        BY <1>1, <1>2
    <2> QED
        BY <2>1, EmptySeq
<1>4. ASSUME NEW y, NEW i \in DOMAIN s, s[i] = y
      PROVE  \E j \in DOMAIN Append(s, x) : Append(s, x)[j] = y
    BY <1>1, <1>2, <1>4
<1>5. \E i \in DOMAIN Append(s, x) : Append(s, x)[i] = x
    BY <1>1, <1>2
<1> QED
    BY <1>1, <1>3, <1>4, <1>5

\* A write to one key: that key's latest, the other keys as they were.
LEMMA WriteOne ==
    ASSUME Shapes, NEW f \in Uploads, NEW x \in Uploads \cup {Removed}, Written(f, x)
    PROVE  /\ puts' \in [Uploads -> Seq(Uploads \cup {Removed})]
           /\ \A g \in Uploads \ {f} : puts'[g] = puts[g]
           /\ puts'[f] # <<>>
           /\ Latest(f)' = x
           /\ \A g \in Uploads \ {f} : Latest(g)' = Latest(g)
           /\ Holds(f, x)'
           /\ \A g \in Uploads : \A y : Holds(g, y) => Holds(g, y)'
<1> DEFINE t == Append(puts[f], x)
<1>1. puts[f] \in Seq(Uploads \cup {Removed})
    BY DEF Shapes
<1>2. puts' = [puts EXCEPT ![f] = t]
    BY DEF Written
<1>3. puts'[f] = t /\ \A g \in Uploads \ {f} : puts'[g] = puts[g]
    BY <1>2 DEF Shapes
<1>4. /\ t \in Seq(Uploads \cup {Removed})
      /\ t # <<>>
      /\ t[Len(t)] = x
      /\ \A y : (\E i \in DOMAIN puts[f] : puts[f][i] = y) => \E i \in DOMAIN t : t[i] = y
      /\ \E i \in DOMAIN t : t[i] = x
    BY <1>1, Appended
<1> HIDE DEF t
<1>5. puts' \in [Uploads -> Seq(Uploads \cup {Removed})]
    BY <1>2, <1>4 DEF Shapes
<1>6. Latest(f)' = x
    BY <1>3, <1>4 DEF Latest
<1>7. \A g \in Uploads \ {f} : Latest(g)' = Latest(g)
    BY <1>3 DEF Latest
<1>8. Holds(f, x)'
    BY <1>3, <1>4 DEF Holds
<1>9. ASSUME NEW g \in Uploads, NEW y, Holds(g, y) PROVE Holds(g, y)'
    BY <1>3, <1>4, <1>9 DEF Holds
<1> QED
    BY <1>3, <1>4, <1>5, <1>6, <1>7, <1>8, <1>9

\* The highest number of a file numbered without a gap.
LEMMA HighestIs ==
    ASSUME NEW f \in Uploads, NEW n \in Nat, Numbers(f) = 1 .. n
    PROVE  Highest(f) = n
<1>1. n \in {0} \cup Numbers(f) /\ \A y \in {0} \cup Numbers(f) : n >= y
    OBVIOUS
<1>2. \A m \in {0} \cup Numbers(f) : (\A y \in {0} \cup Numbers(f) : m >= y) => m = n
    BY <1>1
<1> QED
    BY <1>1, <1>2 DEF Highest, Max

-----------------------------------------------------------------------------
(* The invariant                                                           *)

\* Where a file's row comes from and who may still touch it: a key is unused
\* until its upload reserves it; a version upload writes to a file that was
\* shown; a row that is gone stays gone.
RowInv ==
    \A u \in Uploads :
        /\ pc[u] \in Early => target[u] = u /\ status[u] = "absent" /\ puts[u] = <<>>
        /\ pc[u] = "discarding" => target[u] = u /\ status[u] = "absent"
        /\ pc[u] \in {"weighing", "numbered"} => target[u] # u
        /\ target[u] # u => /\ status[u] = "absent"
                           /\ puts[u] = <<>>
                           /\ target[target[u]] = target[u]
                           /\ pc[target[u]] \in Beyond
                           /\ status[target[u]] # "pending"
        /\ status[u] = "ready" => pc[u] \in Beyond
        /\ status[u] = "pending" => pc[u] \in {"putting", "stored", "broken", "lost"}

\* What a sweep found was reserved, and once dropped it has no row.
SweepInv ==
    \A l \in Listings : \A f \in found[l] :
        /\ target[f] = f /\ pc[f] \notin Early
        /\ sweeping[l] = "dropped" => status[f] = "absent"

\* A row's bytes are in the bucket, and are not removed before the row.
BytesInv ==
    \A u \in Uploads :
        /\ status[u] # "absent" /\ puts[u] # <<>> => Latest(u) # Removed
        /\ pc[u] \in {"stored", "numbered"} => Holds(target[u], u)
        /\ status[u] = "ready" => Holds(u, current[u])

\* Versions are numbered without a gap; a file that is not ready has none.
VersionInv ==
    \A f \in Uploads :
        /\ \E n \in Nat : Numbers(f) = 1 .. n
        /\ \A v, w \in versions[f] : v.no = w.no => v = w
        /\ status[f] # "ready" => versions[f] = {}
        /\ status[f] = "ready" => [no |-> Highest(f), by |-> current[f]] \in versions[f]

\* A number read and not yet used is at most the next one.
NextInv ==
    \A u \in Uploads : pc[u] = "numbered" /\ status[target[u]] = "ready" =>
        number[u] \in 1 .. Highest(target[u]) + 1

NumberInv == VersionInv /\ NextInv

LEMMA TypeShapes == TypeOK => Shapes
BY DEF TypeOK, RowTypes, HandlerTypes, SweepTypes, ObjectTypes, Shapes

-----------------------------------------------------------------------------
(* Types                                                                   *)

LEMMA TypeStep == TypeOK /\ RowInv /\ NumberInv /\ [Next]_vars => TypeOK'
<1> SUFFICES ASSUME TypeOK, RowInv, NumberInv, [Next]_vars
             PROVE  TypeOK'
    OBVIOUS
<1> USE SizesAssumption, NobodyAssumption, LimitsAssumption DEF columns, handler, sweep,
counters, Goto
<1>1. ASSUME NEW u \in Uploads, Find(u)
       PROVE  TypeOK'
    <2>1. RowTypes'
        <3>1. CASE Matches(u) = {}
            BY <1>1, <3>1 DEF Find, Matches, Shown, TypeOK, RowTypes
        <3>2. CASE ~(Matches(u) = {})
            BY <1>1, <3>2 DEF Find, Matches, Shown, TypeOK, RowTypes
        <3> QED
            BY <3>1, <3>2
    <2>2. HandlerTypes'
        <3>1. CASE Matches(u) = {}
            BY <1>1, <3>1 DEF Find, TypeOK, HandlerTypes
        <3>2. CASE Matches(u) # {}
            <4>1. PICK f \in Matches(u) : /\ target' = [target EXCEPT ![u] = f]
                                           /\ loaded' = [loaded EXCEPT ![u] = size[f]]
                                           /\ Goto(u, "weighing")
                BY <1>1, <3>2 DEF Find
            <4>2. f \in Uploads /\ size[f] \in Sizes \cup {0}
                BY DEF Matches, TypeOK, RowTypes
            <4> QED
                BY <1>1, <4>1, <4>2 DEF Find, TypeOK, HandlerTypes
        <3> QED
            BY <3>1, <3>2
    <2>3. SweepTypes'
        <3>1. CASE Matches(u) = {}
            BY <1>1, <3>1 DEF Find, Matches, Shown, TypeOK, SweepTypes
        <3>2. CASE ~(Matches(u) = {})
            BY <1>1, <3>2 DEF Find, Matches, Shown, TypeOK, SweepTypes
        <3> QED
            BY <3>1, <3>2
    <2>4. ObjectTypes'
        <3>1. CASE Matches(u) = {}
            BY <1>1, <3>1 DEF Find, Matches, Shown, TypeOK, ObjectTypes
        <3>2. CASE ~(Matches(u) = {})
            BY <1>1, <3>2 DEF Find, Matches, Shown, TypeOK, ObjectTypes
        <3> QED
            BY <3>1, <3>2
    <2> QED
        BY <2>1, <2>2, <2>3, <2>4 DEF TypeOK
<1>2. ASSUME NEW u \in Uploads, Weigh(u)
       PROVE  TypeOK'
    <2>1. RowTypes'
        BY <1>2 DEF Weigh, TypeOK, RowTypes
    <2>2. HandlerTypes'
        BY <1>2 DEF Weigh, TypeOK, HandlerTypes
    <2>3. SweepTypes'
        BY <1>2 DEF Weigh, TypeOK, SweepTypes
    <2>4. ObjectTypes'
        BY <1>2 DEF Weigh, TypeOK, ObjectTypes
    <2> QED
        BY <2>1, <2>2, <2>3, <2>4 DEF TypeOK
<1>3. ASSUME NEW u \in Uploads, Claim(u)
       PROVE  TypeOK'
    <2>1. RowTypes'
        <3>1. CASE Used + bytes[u] > Quota
            BY <1>3, <3>1 DEF Claim, TypeOK, RowTypes
        <3>2. CASE ~(Used + bytes[u] > Quota)
            BY <1>3, <3>2 DEF Claim, TypeOK, RowTypes
        <3> QED
            BY <3>1, <3>2
    <2>2. HandlerTypes'
        <3>1. CASE Used + bytes[u] > Quota
            BY <1>3, <3>1 DEF Claim, TypeOK, HandlerTypes
        <3>2. CASE ~(Used + bytes[u] > Quota)
            BY <1>3, <3>2 DEF Claim, TypeOK, HandlerTypes
        <3> QED
            BY <3>1, <3>2
    <2>3. SweepTypes'
        <3>1. CASE Used + bytes[u] > Quota
            BY <1>3, <3>1 DEF Claim, TypeOK, SweepTypes
        <3>2. CASE ~(Used + bytes[u] > Quota)
            BY <1>3, <3>2 DEF Claim, TypeOK, SweepTypes
        <3> QED
            BY <3>1, <3>2
    <2>4. ObjectTypes'
        <3>1. CASE Used + bytes[u] > Quota
            BY <1>3, <3>1 DEF Claim, TypeOK, ObjectTypes
        <3>2. CASE ~(Used + bytes[u] > Quota)
            BY <1>3, <3>2 DEF Claim, TypeOK, ObjectTypes
        <3> QED
            BY <3>1, <3>2
    <2> QED
        BY <2>1, <2>2, <2>3, <2>4 DEF TypeOK
<1>4. ASSUME NEW u \in Uploads, Reserve(u)
       PROVE  TypeOK'
    <2>1. RowTypes'
        BY <1>4 DEF Reserve, TypeOK, RowTypes, HandlerTypes
    <2>2. HandlerTypes'
        BY <1>4 DEF Reserve, TypeOK, HandlerTypes
    <2>3. SweepTypes'
        BY <1>4 DEF Reserve, TypeOK, SweepTypes
    <2>4. ObjectTypes'
        BY <1>4 DEF Reserve, TypeOK, ObjectTypes
    <2> QED
        BY <2>1, <2>2, <2>3, <2>4 DEF TypeOK
<1>5. ASSUME NEW u \in Uploads, Put(u)
       PROVE  TypeOK'
    <2>1. RowTypes'
        BY <1>5 DEF Put, TypeOK, RowTypes
    <2>2. HandlerTypes'
        BY <1>5 DEF Put, TypeOK, HandlerTypes
    <2>3. SweepTypes'
        BY <1>5 DEF Put, TypeOK, SweepTypes
    <2>4. ObjectTypes'
        <3>1. CASE Written(target[u], u)
            <4>1. target[u] \in Uploads /\ u \in Uploads \cup {Removed} /\ Shapes
                BY TypeShapes DEF TypeOK, HandlerTypes
            <4> QED
                BY <3>1, <4>1, WriteOne DEF ObjectTypes
        <3> QED
            BY <1>5, <3>1 DEF Put
    <2> QED
        BY <2>1, <2>2, <2>3, <2>4 DEF TypeOK
<1>6. ASSUME NEW u \in Uploads, PutRefused(u)
       PROVE  TypeOK'
    <2>1. RowTypes'
        BY <1>6 DEF PutRefused, Abandoned, Failing, TypeOK, RowTypes
    <2>2. HandlerTypes'
        BY <1>6 DEF PutRefused, Abandoned, Failing, TypeOK, HandlerTypes
    <2>3. SweepTypes'
        BY <1>6 DEF PutRefused, Abandoned, Failing, TypeOK, SweepTypes
    <2>4. ObjectTypes'
        BY <1>6 DEF PutRefused, Abandoned, Failing, TypeOK, ObjectTypes
    <2> QED
        BY <2>1, <2>2, <2>3, <2>4 DEF TypeOK
<1>7. ASSUME NEW u \in Uploads, PutUnreachable(u)
       PROVE  TypeOK'
    <2>1. RowTypes'
        BY <1>7 DEF PutUnreachable, Failing, TypeOK, RowTypes
    <2>2. HandlerTypes'
        BY <1>7 DEF PutUnreachable, Failing, TypeOK, HandlerTypes
    <2>3. SweepTypes'
        BY <1>7 DEF PutUnreachable, Failing, TypeOK, SweepTypes
    <2>4. ObjectTypes'
        <3>1. CASE Written(target[u], u)
            <4>1. target[u] \in Uploads /\ u \in Uploads \cup {Removed} /\ Shapes
                BY TypeShapes DEF TypeOK, HandlerTypes
            <4> QED
                BY <3>1, <4>1, WriteOne DEF ObjectTypes
        <3>2. CASE UNCHANGED puts
            BY <3>2 DEF TypeOK, ObjectTypes
        <3> QED
            BY <1>7, <3>1, <3>2 DEF PutUnreachable
    <2> QED
        BY <2>1, <2>2, <2>3, <2>4 DEF TypeOK
<1>8. ASSUME NEW u \in Uploads, PutUnversioned(u)
       PROVE  TypeOK'
    <2>1. RowTypes'
        BY <1>8 DEF PutUnversioned, Abandoned, Failing, TypeOK, RowTypes
    <2>2. HandlerTypes'
        BY <1>8 DEF PutUnversioned, Abandoned, Failing, TypeOK, HandlerTypes
    <2>3. SweepTypes'
        BY <1>8 DEF PutUnversioned, Abandoned, Failing, TypeOK, SweepTypes
    <2>4. ObjectTypes'
        <3>1. CASE Written(target[u], u)
            <4>1. target[u] \in Uploads /\ u \in Uploads \cup {Removed} /\ Shapes
                BY TypeShapes DEF TypeOK, HandlerTypes
            <4> QED
                BY <3>1, <4>1, WriteOne DEF ObjectTypes
        <3> QED
            BY <1>8, <3>1 DEF PutUnversioned
    <2> QED
        BY <2>1, <2>2, <2>3, <2>4 DEF TypeOK
<1>9. ASSUME NEW u \in Uploads, Discard(u)
       PROVE  TypeOK'
    <2>1. RowTypes'
        BY <1>9 DEF Discard, Failing, TypeOK, RowTypes
    <2>2. HandlerTypes'
        BY <1>9 DEF Discard, Failing, TypeOK, HandlerTypes
    <2>3. SweepTypes'
        BY <1>9 DEF Discard, Failing, TypeOK, SweepTypes
    <2>4. ObjectTypes'
        <3>1. CASE Written(u, Removed)
            <4>1. u \in Uploads /\ Removed \in Uploads \cup {Removed} /\ Shapes
                BY TypeShapes DEF TypeOK, HandlerTypes
            <4> QED
                BY <3>1, <4>1, WriteOne DEF ObjectTypes
        <3>2. CASE UNCHANGED puts
            BY <3>2 DEF TypeOK, ObjectTypes
        <3> QED
            BY <1>9, <3>1, <3>2 DEF Discard
    <2> QED
        BY <2>1, <2>2, <2>3, <2>4 DEF TypeOK
<1>10. ASSUME NEW u \in Uploads, Finalize(u)
       PROVE  TypeOK'
    <2>1. RowTypes'
        <3>1. {[no |-> 1, by |-> u]} \in SUBSET Version
            BY DEF Version
        <3>2. CASE status[u] = "pending" /\ ~Taken(u, name[u])
            BY <1>10, <3>1, <3>2 DEF Finalize, TypeOK, RowTypes
        <3>3. CASE ~(status[u] = "pending" /\ ~Taken(u, name[u]))
            BY <1>10, <3>3 DEF Finalize, TypeOK, RowTypes
        <3> QED
            BY <3>2, <3>3
    <2>2. HandlerTypes'
        <3>1. CASE status[u] = "pending" /\ ~Taken(u, name[u])
            BY <1>10, <3>1 DEF Finalize, TypeOK, HandlerTypes
        <3>2. CASE ~(status[u] = "pending" /\ ~Taken(u, name[u]))
            BY <1>10, <3>2 DEF Finalize, TypeOK, HandlerTypes
        <3> QED
            BY <3>1, <3>2
    <2>3. SweepTypes'
        <3>1. CASE status[u] = "pending" /\ ~Taken(u, name[u])
            BY <1>10, <3>1 DEF Finalize, TypeOK, SweepTypes
        <3>2. CASE ~(status[u] = "pending" /\ ~Taken(u, name[u]))
            BY <1>10, <3>2 DEF Finalize, TypeOK, SweepTypes
        <3> QED
            BY <3>1, <3>2
    <2>4. ObjectTypes'
        <3>1. CASE status[u] = "pending" /\ ~Taken(u, name[u])
            BY <1>10, <3>1 DEF Finalize, TypeOK, ObjectTypes
        <3>2. CASE ~(status[u] = "pending" /\ ~Taken(u, name[u]))
            BY <1>10, <3>2 DEF Finalize, TypeOK, ObjectTypes
        <3> QED
            BY <3>1, <3>2
    <2> QED
        BY <2>1, <2>2, <2>3, <2>4 DEF TypeOK
<1>11. ASSUME NEW u \in Uploads, Number(u)
       PROVE  TypeOK'
    <2>1. RowTypes'
        BY <1>11 DEF Number, TypeOK, RowTypes
    <2>2. HandlerTypes'
        <3>1. PICK n \in Nat : Numbers(target[u]) = 1 .. n
            BY DEF NumberInv, VersionInv, TypeOK, HandlerTypes
        <3>2. Highest(target[u]) \in Nat
            BY <3>1, HighestIs DEF TypeOK, HandlerTypes
        <3>3. 1 + Highest(target[u]) \in Nat
            BY <3>2
        <3> QED
            BY <1>11, <3>3 DEF Number, TypeOK, HandlerTypes
    <2>3. SweepTypes'
        BY <1>11 DEF Number, TypeOK, SweepTypes
    <2>4. ObjectTypes'
        BY <1>11 DEF Number, TypeOK, ObjectTypes
    <2> QED
        BY <2>1, <2>2, <2>3, <2>4 DEF TypeOK
<1>12. ASSUME NEW u \in Uploads, AddVersion(u)
       PROVE  TypeOK'
    <2>1. RowTypes'
        <3> DEFINE ok == status[target[u]] # "absent" /\ number[u] \notin Numbers(target[u])
        <3>1. CASE ok
            <4> DEFINE f == target[u]
            <4>1. f \in Uploads /\ f # u /\ pc[f] \in Beyond /\ status[f] \notin {"pending", "absent"}
                BY <1>12, <3>1 DEF AddVersion, RowInv, TypeOK, HandlerTypes
            <4>2. status[f] = "ready"
                BY <4>1 DEF TypeOK, RowTypes
            <4>3. PICK n \in Nat : Numbers(f) = 1 .. n
                BY <4>1 DEF NumberInv, VersionInv
            <4>4. Highest(f) \in Nat
                BY <4>1, <4>3, HighestIs
            <4>5. number[u] \in 1 .. Highest(f) + 1
                BY <1>12, <4>2 DEF AddVersion, NumberInv, NextInv
            <4>6. [no |-> number[u], by |-> u] \in Version
                BY <4>4, <4>5 DEF Version
            <4>7. versions[f] \cup {[no |-> number[u], by |-> u]} \in SUBSET Version
                BY <4>1, <4>6 DEF TypeOK, RowTypes
            <4>8. bytes[u] \in Sizes
                BY DEF TypeOK, HandlerTypes
            <4> HIDE DEF f
            <4>9. /\ versions' = [versions EXCEPT ![f] = versions[f] \cup {[no |-> number[u], by |-> u]}]
                  /\ current' = [current EXCEPT ![f] = u]
                  /\ size' = size \/ size' = [size EXCEPT ![f] = bytes[u]]
                BY <1>12, <3>1 DEF AddVersion, Resized, f
            <4> QED
                BY <1>12, <4>1, <4>7, <4>8, <4>9 DEF AddVersion, TypeOK, RowTypes
        <3>2. CASE ~ok
            BY <1>12, <3>2 DEF AddVersion, TypeOK, RowTypes
        <3> QED
            BY <3>1, <3>2
    <2>2. HandlerTypes'
        <3>1. CASE status[target[u]] # "absent" /\ number[u] \notin Numbers(target[u])
            BY <1>12, <3>1 DEF AddVersion, Resized, TypeOK, HandlerTypes
        <3>2. CASE ~(status[target[u]] # "absent" /\ number[u] \notin Numbers(target[u]))
            BY <1>12, <3>2 DEF AddVersion, Resized, TypeOK, HandlerTypes
        <3> QED
            BY <3>1, <3>2
    <2>3. SweepTypes'
        <3>1. CASE status[target[u]] # "absent" /\ number[u] \notin Numbers(target[u])
            BY <1>12, <3>1 DEF AddVersion, Resized, TypeOK, SweepTypes
        <3>2. CASE ~(status[target[u]] # "absent" /\ number[u] \notin Numbers(target[u]))
            BY <1>12, <3>2 DEF AddVersion, Resized, TypeOK, SweepTypes
        <3> QED
            BY <3>1, <3>2
    <2>4. ObjectTypes'
        <3>1. CASE status[target[u]] # "absent" /\ number[u] \notin Numbers(target[u])
            BY <1>12, <3>1 DEF AddVersion, Resized, TypeOK, ObjectTypes
        <3>2. CASE ~(status[target[u]] # "absent" /\ number[u] \notin Numbers(target[u]))
            BY <1>12, <3>2 DEF AddVersion, Resized, TypeOK, ObjectTypes
        <3> QED
            BY <3>1, <3>2
    <2> QED
        BY <2>1, <2>2, <2>3, <2>4 DEF TypeOK
<1>13. ASSUME NEW u \in Uploads, Audit(u)
       PROVE  TypeOK'
    <2>1. RowTypes'
        BY <1>13 DEF Audit, TypeOK, RowTypes
    <2>2. HandlerTypes'
        BY <1>13 DEF Audit, TypeOK, HandlerTypes
    <2>3. SweepTypes'
        BY <1>13 DEF Audit, TypeOK, SweepTypes
    <2>4. ObjectTypes'
        BY <1>13 DEF Audit, TypeOK, ObjectTypes
    <2> QED
        BY <2>1, <2>2, <2>3, <2>4 DEF TypeOK
<1>14. ASSUME NEW u \in Uploads, ReadBytes(u)
       PROVE  TypeOK'
    <2>1. RowTypes'
        BY <1>14 DEF ReadBytes, TypeOK, RowTypes
    <2>2. HandlerTypes'
        <3>1. PICK d \in {Nobody, Latest(target[u])} \ {Removed} : digest' = [digest EXCEPT ![u] = d]
            BY <1>14 DEF ReadBytes
        <3>2. puts[target[u]] \in Seq(Uploads \cup {Removed})
            BY DEF TypeOK, HandlerTypes, ObjectTypes
        <3>3. Latest(target[u]) \in Uploads \cup {Removed}
            BY <3>2 DEF Latest
        <3>4. d \in Uploads \cup {Nobody}
            BY <3>3
        <3> QED
            BY <1>14, <3>1, <3>4 DEF ReadBytes, TypeOK, HandlerTypes
    <2>3. SweepTypes'
        BY <1>14 DEF ReadBytes, TypeOK, SweepTypes
    <2>4. ObjectTypes'
        BY <1>14 DEF ReadBytes, TypeOK, ObjectTypes
    <2> QED
        BY <2>1, <2>2, <2>3, <2>4 DEF TypeOK
<1>15. ASSUME NEW u \in Uploads, SetSummary(u)
       PROVE  TypeOK'
    <2>1. RowTypes'
        BY <1>15 DEF SetSummary, TypeOK, RowTypes, HandlerTypes
    <2>2. HandlerTypes'
        BY <1>15 DEF SetSummary, TypeOK, HandlerTypes
    <2>3. SweepTypes'
        BY <1>15 DEF SetSummary, TypeOK, SweepTypes
    <2>4. ObjectTypes'
        BY <1>15 DEF SetSummary, TypeOK, ObjectTypes
    <2> QED
        BY <2>1, <2>2, <2>3, <2>4 DEF TypeOK
<1>16. ASSUME NEW u \in Uploads, Age(u)
       PROVE  TypeOK'
    <2>1. RowTypes'
        BY <1>16 DEF Age, TypeOK, RowTypes
    <2>2. HandlerTypes'
        BY <1>16 DEF Age, TypeOK, HandlerTypes
    <2>3. SweepTypes'
        BY <1>16 DEF Age, TypeOK, SweepTypes
    <2>4. ObjectTypes'
        BY <1>16 DEF Age, TypeOK, ObjectTypes
    <2> QED
        BY <2>1, <2>2, <2>3, <2>4 DEF TypeOK
<1>17. ASSUME NEW u \in Uploads, Trash(u)
       PROVE  TypeOK'
    <2>1. RowTypes'
        BY <1>17 DEF Trash, Shown, TypeOK, RowTypes
    <2>2. HandlerTypes'
        BY <1>17 DEF Trash, Shown, TypeOK, HandlerTypes
    <2>3. SweepTypes'
        BY <1>17 DEF Trash, Shown, TypeOK, SweepTypes
    <2>4. ObjectTypes'
        BY <1>17 DEF Trash, Shown, TypeOK, ObjectTypes
    <2> QED
        BY <2>1, <2>2, <2>3, <2>4 DEF TypeOK
<1>18. ASSUME NEW u \in Uploads, NEW n \in Names, Rename(u, n)
       PROVE  TypeOK'
    <2>1. RowTypes'
        BY <1>18 DEF Rename, Shown, TypeOK, RowTypes
    <2>2. HandlerTypes'
        BY <1>18 DEF Rename, Shown, TypeOK, HandlerTypes
    <2>3. SweepTypes'
        BY <1>18 DEF Rename, Shown, TypeOK, SweepTypes
    <2>4. ObjectTypes'
        BY <1>18 DEF Rename, Shown, TypeOK, ObjectTypes
    <2> QED
        BY <2>1, <2>2, <2>3, <2>4 DEF TypeOK
<1>19. ASSUME NEW l \in Listings, Select(l)
       PROVE  TypeOK'
    <2>1. RowTypes'
        BY <1>19 DEF Select, Stale, TypeOK, RowTypes
    <2>2. HandlerTypes'
        BY <1>19 DEF Select, Stale, TypeOK, HandlerTypes
    <2>3. SweepTypes'
        BY <1>19 DEF Select, Stale, TypeOK, SweepTypes
    <2>4. ObjectTypes'
        BY <1>19 DEF Select, Stale, TypeOK, ObjectTypes
    <2> QED
        BY <2>1, <2>2, <2>3, <2>4 DEF TypeOK
<1>20. ASSUME NEW l \in Listings, Drop(l)
       PROVE  TypeOK'
    <2>1. RowTypes'
        BY <1>20 DEF Drop, TypeOK, RowTypes
    <2>2. HandlerTypes'
        BY <1>20 DEF Drop, TypeOK, HandlerTypes
    <2>3. SweepTypes'
        BY <1>20 DEF Drop, TypeOK, SweepTypes
    <2>4. ObjectTypes'
        BY <1>20 DEF Drop, TypeOK, ObjectTypes
    <2> QED
        BY <2>1, <2>2, <2>3, <2>4 DEF TypeOK
<1>21. ASSUME NEW l \in Listings, Remove(l)
       PROVE  TypeOK'
    <2>1. RowTypes'
        BY <1>21 DEF Remove, Failing, TypeOK, RowTypes
    <2>2. HandlerTypes'
        BY <1>21 DEF Remove, Failing, TypeOK, HandlerTypes
    <2>3. SweepTypes'
        BY <1>21 DEF Remove, Failing, TypeOK, SweepTypes
    <2>4. ObjectTypes'
        <3>1. PICK f \in found[l] : Written(f, Removed) \/ UNCHANGED puts
            BY <1>21 DEF Remove
        <3>2. f \in Uploads /\ Shapes
            BY TypeShapes DEF TypeOK, SweepTypes
        <3> QED
            BY <3>1, <3>2, WriteOne DEF TypeOK, ObjectTypes
    <2> QED
        BY <2>1, <2>2, <2>3, <2>4 DEF TypeOK
<1>22. ASSUME Crash
       PROVE  TypeOK'
    <2>1. RowTypes'
        BY <1>22 DEF Crash, TypeOK, RowTypes
    <2>2. HandlerTypes'
        BY <1>22 DEF Crash, TypeOK, HandlerTypes
    <2>3. SweepTypes'
        BY <1>22 DEF Crash, TypeOK, SweepTypes
    <2>4. ObjectTypes'
        BY <1>22 DEF Crash, TypeOK, ObjectTypes
    <2> QED
        BY <2>1, <2>2, <2>3, <2>4 DEF TypeOK
<1>23. CASE UNCHANGED vars
    BY <1>23 DEF vars, TypeOK, RowTypes, HandlerTypes, SweepTypes, ObjectTypes
<1>24. ASSUME NEW u \in Uploads, LoadName(u)
       PROVE  TypeOK'
    <2>1. RowTypes'
        BY <1>24 DEF LoadName, Shown, TypeOK, RowTypes
    <2>2. HandlerTypes'
        BY <1>24 DEF LoadName, Shown, TypeOK, HandlerTypes
    <2>3. SweepTypes'
        BY <1>24 DEF LoadName, Shown, TypeOK, SweepTypes
    <2>4. ObjectTypes'
        BY <1>24 DEF LoadName, Shown, TypeOK, ObjectTypes
    <2> QED
        BY <2>1, <2>2, <2>3, <2>4 DEF TypeOK
<1> QED
    BY <1>1, <1>2, <1>3, <1>4, <1>5, <1>6, <1>7, <1>8, <1>9, <1>10, <1>11, <1>12, <1>13, <1>14,
       <1>15, <1>16, <1>17, <1>18, <1>19, <1>20, <1>21, <1>22, <1>23, <1>24 DEF Next, Handler, Store,
       Summarize, Sweep
-----------------------------------------------------------------------------
(* Rows and sweeps                                                         *)

LEMMA RowStep == Shapes /\ RowInv /\ SweepInv /\ [Next]_vars => RowInv' /\ SweepInv'
<1> SUFFICES ASSUME Shapes, RowInv, SweepInv, [Next]_vars
             PROVE  RowInv' /\ SweepInv'
    OBVIOUS
<1> USE NobodyAssumption DEF Shapes, columns, handler, sweep, counters, Goto, Early, Beyond, Fresh
<1>1. ASSUME NEW u \in Uploads, Find(u)
       PROVE  RowInv' /\ SweepInv'
    <2>1. RowInv'
        <3>1. CASE Matches(u) = {}
            <4>1. pc' = [pc EXCEPT ![u] = "claiming"] /\ UNCHANGED target
                BY <1>1, <3>1 DEF Find
            <4>2. pc[u] = "idle" /\ UNCHANGED <<status, puts, found, sweeping>>
                BY <1>1 DEF Find
            <4> QED
                BY <4>1, <4>2 DEF RowInv
        <3>2. CASE Matches(u) # {}
            <4>1. PICK f \in Matches(u) : /\ target' = [target EXCEPT ![u] = f]
                                           /\ pc' = [pc EXCEPT ![u] = "weighing"]
                BY <1>1, <3>2 DEF Find
            <4>2. f \in Uploads /\ status[f] = "ready"
                BY DEF Matches, Shown
            <4>3. pc[u] = "idle" /\ UNCHANGED <<status, puts, found, sweeping>>
                BY <1>1 DEF Find
            <4>4. target[f] = f /\ pc[f] \in Beyond
                BY <4>2 DEF RowInv
            <4> QED
                BY <4>1, <4>2, <4>3, <4>4 DEF RowInv
        <3> QED
            BY <3>1, <3>2
    <2>2. SweepInv'
        <3>1. CASE Matches(u) = {}
            <4>1. pc' = [pc EXCEPT ![u] = "claiming"] /\ UNCHANGED target
                BY <1>1, <3>1 DEF Find
            <4>2. pc[u] = "idle" /\ UNCHANGED <<status, puts, found, sweeping>>
                BY <1>1 DEF Find
            <4> QED
                BY <4>1, <4>2 DEF RowInv, SweepInv
        <3>2. CASE Matches(u) # {}
            <4>1. PICK f \in Matches(u) : /\ target' = [target EXCEPT ![u] = f]
                                           /\ pc' = [pc EXCEPT ![u] = "weighing"]
                BY <1>1, <3>2 DEF Find
            <4>2. f \in Uploads /\ status[f] = "ready"
                BY DEF Matches, Shown
            <4>3. pc[u] = "idle" /\ UNCHANGED <<status, puts, found, sweeping>>
                BY <1>1 DEF Find
            <4>4. target[f] = f /\ pc[f] \in Beyond
                BY <4>2 DEF RowInv
            <4> QED
                BY <4>1, <4>2, <4>3, <4>4 DEF RowInv, SweepInv
        <3> QED
            BY <3>1, <3>2
    <2> QED
        BY <2>1, <2>2
<1>2. ASSUME NEW u \in Uploads, Weigh(u)
       PROVE  RowInv' /\ SweepInv'
    <2>1. RowInv'
        BY <1>2 DEF Weigh, RowInv, SweepInv
    <2>2. SweepInv'
        BY <1>2 DEF Weigh, RowInv, SweepInv
    <2> QED
        BY <2>1, <2>2
<1>3. ASSUME NEW u \in Uploads, Claim(u)
       PROVE  RowInv' /\ SweepInv'
    <2>1. RowInv'
        <3>1. pc[u] = "claiming" /\ UNCHANGED <<puts, target, found, sweeping>>
            BY <1>3 DEF Claim
        <3>2. \/ pc' = [pc EXCEPT ![u] = "refused"] /\ UNCHANGED status
              \/ pc' = [pc EXCEPT ![u] = "claimed"] /\ UNCHANGED status
            BY <1>3 DEF Claim
        <3>3. CASE pc' = [pc EXCEPT ![u] = "refused"] /\ UNCHANGED status
            BY <3>1, <3>3 DEF RowInv
        <3>4. CASE pc' = [pc EXCEPT ![u] = "claimed"] /\ UNCHANGED status
            BY <3>1, <3>4 DEF RowInv
        <3> QED
            BY <3>2, <3>3, <3>4
    <2>2. SweepInv'
        <3>1. pc[u] = "claiming" /\ UNCHANGED <<puts, target, found, sweeping>>
            BY <1>3 DEF Claim
        <3>2. \/ pc' = [pc EXCEPT ![u] = "refused"] /\ UNCHANGED status
              \/ pc' = [pc EXCEPT ![u] = "claimed"] /\ UNCHANGED status
            BY <1>3 DEF Claim
        <3>3. CASE pc' = [pc EXCEPT ![u] = "refused"] /\ UNCHANGED status
            BY <3>1, <3>3 DEF SweepInv, RowInv
        <3>4. CASE pc' = [pc EXCEPT ![u] = "claimed"] /\ UNCHANGED status
            BY <3>1, <3>4 DEF SweepInv, RowInv
        <3> QED
            BY <3>2, <3>3, <3>4
    <2> QED
        BY <2>1, <2>2
<1>4. ASSUME NEW u \in Uploads, Reserve(u)
       PROVE  RowInv' /\ SweepInv'
    <2>1. RowInv'
        BY <1>4 DEF Reserve, RowInv, SweepInv
    <2>2. SweepInv'
        BY <1>4 DEF Reserve, RowInv, SweepInv
    <2> QED
        BY <2>1, <2>2
<1>5. ASSUME NEW u \in Uploads, Put(u)
       PROVE  RowInv' /\ SweepInv'
    <2>1. RowInv'
        <3>1. CASE Written(target[u], u)
            <4>1. target[u] \in Uploads /\ u \in Uploads \cup {Removed}
                OBVIOUS
            <4>2. /\ \A g \in Uploads \ {target[u]} : puts'[g] = puts[g]
                  /\ puts'[target[u]] # <<>>
                BY <3>1, <4>1, WriteOne
            <4> QED
                BY <1>5, <4>1, <4>2 DEF Put, RowInv
        <3>2. CASE UNCHANGED puts
            BY <1>5, <3>2 DEF Put, RowInv
        <3> QED
            BY <1>5, <3>1, <3>2 DEF Put
    <2>2. SweepInv'
        BY <1>5 DEF Put, RowInv, SweepInv
    <2> QED
        BY <2>1, <2>2
<1>6. ASSUME NEW u \in Uploads, PutRefused(u)
       PROVE  RowInv' /\ SweepInv'
    <2>1. RowInv'
        BY <1>6 DEF PutRefused, Abandoned, Failing, RowInv, SweepInv
    <2>2. SweepInv'
        BY <1>6 DEF PutRefused, Abandoned, Failing, RowInv, SweepInv
    <2> QED
        BY <2>1, <2>2
<1>7. ASSUME NEW u \in Uploads, PutUnreachable(u)
       PROVE  RowInv' /\ SweepInv'
    <2>1. RowInv'
        <3>1. CASE Written(target[u], u)
            <4>1. target[u] \in Uploads /\ u \in Uploads \cup {Removed}
                OBVIOUS
            <4>2. /\ \A g \in Uploads \ {target[u]} : puts'[g] = puts[g]
                  /\ puts'[target[u]] # <<>>
                BY <3>1, <4>1, WriteOne
            <4> QED
                BY <1>7, <4>1, <4>2 DEF PutUnreachable, Failing, RowInv
        <3>2. CASE UNCHANGED puts
            BY <1>7, <3>2 DEF PutUnreachable, Failing, RowInv
        <3> QED
            BY <1>7, <3>1, <3>2 DEF PutUnreachable, Failing
    <2>2. SweepInv'
        BY <1>7 DEF PutUnreachable, Failing, RowInv, SweepInv
    <2> QED
        BY <2>1, <2>2
<1>8. ASSUME NEW u \in Uploads, PutUnversioned(u)
       PROVE  RowInv' /\ SweepInv'
    <2>1. RowInv'
        <3>1. CASE Written(target[u], u)
            <4>1. target[u] \in Uploads /\ u \in Uploads \cup {Removed}
                OBVIOUS
            <4>2. /\ \A g \in Uploads \ {target[u]} : puts'[g] = puts[g]
                  /\ puts'[target[u]] # <<>>
                BY <3>1, <4>1, WriteOne
            <4> QED
                BY <1>8, <4>1, <4>2 DEF PutUnversioned, Abandoned, Failing, RowInv
        <3>2. CASE UNCHANGED puts
            BY <1>8, <3>2 DEF PutUnversioned, Abandoned, Failing, RowInv
        <3> QED
            BY <1>8, <3>1, <3>2 DEF PutUnversioned, Abandoned, Failing
    <2>2. SweepInv'
        BY <1>8 DEF PutUnversioned, Abandoned, Failing, RowInv, SweepInv
    <2> QED
        BY <2>1, <2>2
<1>9. ASSUME NEW u \in Uploads, Discard(u)
       PROVE  RowInv' /\ SweepInv'
    <2>1. RowInv'
        <3>1. CASE Written(u, Removed)
            <4>1. u \in Uploads /\ Removed \in Uploads \cup {Removed}
                OBVIOUS
            <4>2. /\ \A g \in Uploads \ {u} : puts'[g] = puts[g]
                  /\ puts'[u] # <<>>
                BY <3>1, <4>1, WriteOne
            <4> QED
                BY <1>9, <4>1, <4>2 DEF Discard, Failing, RowInv
        <3>2. CASE UNCHANGED puts
            BY <1>9, <3>2 DEF Discard, Failing, RowInv
        <3> QED
            BY <1>9, <3>1, <3>2 DEF Discard, Failing
    <2>2. SweepInv'
        BY <1>9 DEF Discard, Failing, RowInv, SweepInv
    <2> QED
        BY <2>1, <2>2
<1>10. ASSUME NEW u \in Uploads, Finalize(u)
       PROVE  RowInv' /\ SweepInv'
    <2>1. RowInv'
        <3>1. pc[u] = "stored" /\ UNCHANGED <<puts, target, found, sweeping>>
            BY <1>10 DEF Finalize
        <3>2. \/ pc' = [pc EXCEPT ![u] = "broken"] /\ UNCHANGED status
              \/ /\ pc' = [pc EXCEPT ![u] = "auditing"] /\ status[u] = "pending"
                 /\ status' = [status EXCEPT ![u] = "ready"]
            BY <1>10 DEF Finalize
        <3>3. CASE pc' = [pc EXCEPT ![u] = "broken"] /\ UNCHANGED status
            BY <3>1, <3>3 DEF RowInv
        <3>4. CASE /\ pc' = [pc EXCEPT ![u] = "auditing"] /\ status[u] = "pending"
                   /\ status' = [status EXCEPT ![u] = "ready"]
            BY <3>1, <3>4 DEF RowInv
        <3> QED
            BY <3>2, <3>3, <3>4
    <2>2. SweepInv'
        <3>1. pc[u] = "stored" /\ UNCHANGED <<puts, target, found, sweeping>>
            BY <1>10 DEF Finalize
        <3>2. \/ pc' = [pc EXCEPT ![u] = "broken"] /\ UNCHANGED status
              \/ /\ pc' = [pc EXCEPT ![u] = "auditing"] /\ status[u] = "pending"
                 /\ status' = [status EXCEPT ![u] = "ready"]
            BY <1>10 DEF Finalize
        <3>3. CASE pc' = [pc EXCEPT ![u] = "broken"] /\ UNCHANGED status
            BY <3>1, <3>3 DEF SweepInv, RowInv
        <3>4. CASE /\ pc' = [pc EXCEPT ![u] = "auditing"] /\ status[u] = "pending"
                   /\ status' = [status EXCEPT ![u] = "ready"]
            BY <3>1, <3>4 DEF SweepInv, RowInv
        <3> QED
            BY <3>2, <3>3, <3>4
    <2> QED
        BY <2>1, <2>2
<1>11. ASSUME NEW u \in Uploads, Number(u)
       PROVE  RowInv' /\ SweepInv'
    <2>1. RowInv'
        BY <1>11 DEF Number, RowInv, SweepInv
    <2>2. SweepInv'
        BY <1>11 DEF Number, RowInv, SweepInv
    <2> QED
        BY <2>1, <2>2
<1>12. ASSUME NEW u \in Uploads, AddVersion(u)
       PROVE  RowInv' /\ SweepInv'
    <2>1. RowInv'
        <3>1. pc[u] = "numbered" /\ UNCHANGED <<puts, target, found, sweeping>>
            BY <1>12 DEF AddVersion
        <3>2. \/ pc' = [pc EXCEPT ![u] = "broken"] /\ UNCHANGED status
              \/ pc' = [pc EXCEPT ![u] = "auditing"] /\ UNCHANGED status
            BY <1>12 DEF AddVersion, Resized
        <3>3. CASE pc' = [pc EXCEPT ![u] = "broken"] /\ UNCHANGED status
            BY <3>1, <3>3 DEF RowInv
        <3>4. CASE pc' = [pc EXCEPT ![u] = "auditing"] /\ UNCHANGED status
            BY <3>1, <3>4 DEF RowInv
        <3> QED
            BY <3>2, <3>3, <3>4
    <2>2. SweepInv'
        <3>1. pc[u] = "numbered" /\ UNCHANGED <<puts, target, found, sweeping>>
            BY <1>12 DEF AddVersion
        <3>2. \/ pc' = [pc EXCEPT ![u] = "broken"] /\ UNCHANGED status
              \/ pc' = [pc EXCEPT ![u] = "auditing"] /\ UNCHANGED status
            BY <1>12 DEF AddVersion, Resized
        <3>3. CASE pc' = [pc EXCEPT ![u] = "broken"] /\ UNCHANGED status
            BY <3>1, <3>3 DEF SweepInv, RowInv
        <3>4. CASE pc' = [pc EXCEPT ![u] = "auditing"] /\ UNCHANGED status
            BY <3>1, <3>4 DEF SweepInv, RowInv
        <3> QED
            BY <3>2, <3>3, <3>4
    <2> QED
        BY <2>1, <2>2
<1>13. ASSUME NEW u \in Uploads, Audit(u)
       PROVE  RowInv' /\ SweepInv'
    <2>1. RowInv'
        BY <1>13 DEF Audit, RowInv, SweepInv
    <2>2. SweepInv'
        BY <1>13 DEF Audit, RowInv, SweepInv
    <2> QED
        BY <2>1, <2>2
<1>14. ASSUME NEW u \in Uploads, ReadBytes(u)
       PROVE  RowInv' /\ SweepInv'
    <2>1. RowInv'
        BY <1>14 DEF ReadBytes, RowInv, SweepInv
    <2>2. SweepInv'
        BY <1>14 DEF ReadBytes, RowInv, SweepInv
    <2> QED
        BY <2>1, <2>2
<1>15. ASSUME NEW u \in Uploads, SetSummary(u)
       PROVE  RowInv' /\ SweepInv'
    <2>1. RowInv'
        BY <1>15 DEF SetSummary, RowInv, SweepInv
    <2>2. SweepInv'
        BY <1>15 DEF SetSummary, RowInv, SweepInv
    <2> QED
        BY <2>1, <2>2
<1>16. ASSUME NEW u \in Uploads, Age(u)
       PROVE  RowInv' /\ SweepInv'
    <2>1. RowInv'
        BY <1>16 DEF Age, RowInv, SweepInv
    <2>2. SweepInv'
        BY <1>16 DEF Age, RowInv, SweepInv
    <2> QED
        BY <2>1, <2>2
<1>17. ASSUME NEW u \in Uploads, Trash(u)
       PROVE  RowInv' /\ SweepInv'
    <2>1. RowInv'
        BY <1>17 DEF Trash, Shown, RowInv, SweepInv
    <2>2. SweepInv'
        BY <1>17 DEF Trash, Shown, RowInv, SweepInv
    <2> QED
        BY <2>1, <2>2
<1>18. ASSUME NEW u \in Uploads, NEW n \in Names, Rename(u, n)
       PROVE  RowInv' /\ SweepInv'
    <2>1. RowInv'
        BY <1>18 DEF Rename, Shown, RowInv, SweepInv
    <2>2. SweepInv'
        BY <1>18 DEF Rename, Shown, RowInv, SweepInv
    <2> QED
        BY <2>1, <2>2
<1>19. ASSUME NEW l \in Listings, Select(l)
       PROVE  RowInv' /\ SweepInv'
    <2>1. RowInv'
        BY <1>19 DEF Select, Stale, RowInv, SweepInv
    <2>2. SweepInv'
        BY <1>19 DEF Select, Stale, RowInv, SweepInv
    <2> QED
        BY <2>1, <2>2
<1>20. ASSUME NEW l \in Listings, Drop(l)
       PROVE  RowInv' /\ SweepInv'
    <2>1. RowInv'
        BY <1>20 DEF Drop, RowInv, SweepInv
    <2>2. SweepInv'
        BY <1>20 DEF Drop, RowInv, SweepInv
    <2> QED
        BY <2>1, <2>2
<1>21. ASSUME NEW l \in Listings, Remove(l)
       PROVE  RowInv' /\ SweepInv'
    <2>1. RowInv'
        <3>1. PICK f \in found[l] :
                   \/ Written(f, Removed)
                   \/ UNCHANGED puts
            BY <1>21 DEF Remove
        <3>2. f \in Uploads /\ pc[f] \notin Early /\ status[f] = "absent" /\ target[f] = f
            BY <1>21 DEF Remove, SweepInv
        <3>3. \A g \in Uploads \ {f} : puts'[g] = puts[g]
            BY <3>1, <3>2, WriteOne
        <3> QED
            BY <1>21, <3>2, <3>3 DEF Remove, RowInv
    <2>2. SweepInv'
        BY <1>21 DEF Remove, Failing, RowInv, SweepInv
    <2> QED
        BY <2>1, <2>2
<1>22. ASSUME Crash
       PROVE  RowInv' /\ SweepInv'
    <2>1. RowInv'
        BY <1>22 DEF Crash, RowInv, SweepInv
    <2>2. SweepInv'
        BY <1>22 DEF Crash, RowInv, SweepInv
    <2> QED
        BY <2>1, <2>2
<1>23. CASE UNCHANGED vars
    BY <1>23 DEF vars, RowInv, SweepInv
<1>24. ASSUME NEW u \in Uploads, LoadName(u)
       PROVE  RowInv' /\ SweepInv'
    <2>1. RowInv'
        BY <1>24 DEF LoadName, Shown, RowInv, SweepInv
    <2>2. SweepInv'
        BY <1>24 DEF LoadName, Shown, RowInv, SweepInv
    <2> QED
        BY <2>1, <2>2
<1> QED
    BY <1>1, <1>2, <1>3, <1>4, <1>5, <1>6, <1>7, <1>8, <1>9, <1>10, <1>11, <1>12, <1>13, <1>14,
       <1>15, <1>16, <1>17, <1>18, <1>19, <1>20, <1>21, <1>22, <1>23, <1>24 DEF Next, Handler, Store,
       Summarize, Sweep
-----------------------------------------------------------------------------
(* Bytes                                                                   *)

LEMMA BytesStep == Shapes /\ RowInv /\ SweepInv /\ BytesInv /\ [Next]_vars => BytesInv'
<1> SUFFICES ASSUME Shapes, RowInv, SweepInv, BytesInv, [Next]_vars
             PROVE  BytesInv'
    OBVIOUS
<1> USE NobodyAssumption DEF Shapes, columns, handler, sweep, counters, Goto, Early, Beyond, Fresh
<1>1. ASSUME NEW u \in Uploads, Find(u)
       PROVE  BytesInv'
    <2>1. BytesInv'
        <3>1. \A g : Latest(g)' = Latest(g) /\ \A y : Holds(g, y)' = Holds(g, y)
            BY <1>1 DEF Find, Latest, Holds
        <3> QED
            BY <1>1, <3>1 DEF Find, Matches, Shown, BytesInv, RowInv
    <2> QED
        BY <2>1
<1>2. ASSUME NEW u \in Uploads, Weigh(u)
       PROVE  BytesInv'
    <2>1. BytesInv'
        <3>1. \A g : Latest(g)' = Latest(g) /\ \A y : Holds(g, y)' = Holds(g, y)
            BY <1>2 DEF Weigh, Latest, Holds
        <3> QED
            BY <1>2, <3>1 DEF Weigh, BytesInv, RowInv
    <2> QED
        BY <2>1
<1>3. ASSUME NEW u \in Uploads, Claim(u)
       PROVE  BytesInv'
    <2>1. BytesInv'
        <3>1. \A g : Latest(g)' = Latest(g) /\ \A y : Holds(g, y)' = Holds(g, y)
            BY <1>3 DEF Claim, Latest, Holds
        <3> QED
            BY <1>3, <3>1 DEF Claim, BytesInv, RowInv
    <2> QED
        BY <2>1
<1>4. ASSUME NEW u \in Uploads, Reserve(u)
       PROVE  BytesInv'
    <2>1. BytesInv'
        <3>1. \A g : Latest(g)' = Latest(g) /\ \A y : Holds(g, y)' = Holds(g, y)
            BY <1>4 DEF Reserve, Latest, Holds
        <3> QED
            BY <1>4, <3>1 DEF Reserve, BytesInv, RowInv
    <2> QED
        BY <2>1
<1>5. ASSUME NEW u \in Uploads, Put(u)
       PROVE  BytesInv'
    <2>1. BytesInv'
        <3>1. PICK f \in Uploads : f = target[u]
            OBVIOUS
        <3>2. CASE Written(f, u)
            <4>1. u \in Uploads \cup {Removed} /\ Removed \notin Uploads
                OBVIOUS
            <4>2. /\ \A g \in Uploads \ {f} : puts'[g] = puts[g] /\ Latest(g)' = Latest(g)
                  /\ puts'[f] # <<>> /\ Latest(f)' = u /\ Holds(f, u)'
                  /\ \A g \in Uploads : \A y : Holds(g, y) => Holds(g, y)'
                BY <3>2, <4>1, WriteOne
            <4> QED
                BY <1>5, <3>1, <4>1, <4>2 DEF Put, BytesInv, RowInv
        <3> QED
            BY <1>5, <3>1, <3>2 DEF Put
    <2> QED
        BY <2>1
<1>6. ASSUME NEW u \in Uploads, PutRefused(u)
       PROVE  BytesInv'
    <2>1. BytesInv'
        <3>1. \A g : Latest(g)' = Latest(g) /\ \A y : Holds(g, y)' = Holds(g, y)
            BY <1>6 DEF PutRefused, Latest, Holds
        <3> QED
            BY <1>6, <3>1 DEF PutRefused, Abandoned, Failing, BytesInv, RowInv
    <2> QED
        BY <2>1
<1>7. ASSUME NEW u \in Uploads, PutUnreachable(u)
       PROVE  BytesInv'
    <2>1. BytesInv'
        <3>1. PICK f \in Uploads : f = target[u]
            OBVIOUS
        <3>2. CASE Written(f, u)
            <4>1. u \in Uploads \cup {Removed} /\ Removed \notin Uploads
                OBVIOUS
            <4>2. /\ \A g \in Uploads \ {f} : puts'[g] = puts[g] /\ Latest(g)' = Latest(g)
                  /\ puts'[f] # <<>> /\ Latest(f)' = u /\ Holds(f, u)'
                  /\ \A g \in Uploads : \A y : Holds(g, y) => Holds(g, y)'
                BY <3>2, <4>1, WriteOne
            <4> QED
                BY <1>7, <3>1, <4>1, <4>2 DEF PutUnreachable, Failing, BytesInv, RowInv
        <3>3. CASE UNCHANGED puts
            <4>1. \A g : Latest(g)' = Latest(g) /\ \A y : Holds(g, y)' = Holds(g, y)
                BY <3>3 DEF Latest, Holds
            <4> QED
                BY <1>7, <3>3, <4>1 DEF PutUnreachable, Failing, BytesInv, RowInv
        <3> QED
            BY <1>7, <3>1, <3>2, <3>3 DEF PutUnreachable, Failing
    <2> QED
        BY <2>1
<1>8. ASSUME NEW u \in Uploads, PutUnversioned(u)
       PROVE  BytesInv'
    <2>1. BytesInv'
        <3>1. PICK f \in Uploads : f = target[u]
            OBVIOUS
        <3>2. CASE Written(f, u)
            <4>1. u \in Uploads \cup {Removed} /\ Removed \notin Uploads
                OBVIOUS
            <4>2. /\ \A g \in Uploads \ {f} : puts'[g] = puts[g] /\ Latest(g)' = Latest(g)
                  /\ puts'[f] # <<>> /\ Latest(f)' = u /\ Holds(f, u)'
                  /\ \A g \in Uploads : \A y : Holds(g, y) => Holds(g, y)'
                BY <3>2, <4>1, WriteOne
            <4> QED
                BY <1>8, <3>1, <4>1, <4>2 DEF PutUnversioned, Abandoned, Failing, BytesInv, RowInv
        <3> QED
            BY <1>8, <3>1, <3>2 DEF PutUnversioned, Abandoned, Failing
    <2> QED
        BY <2>1
<1>9. ASSUME NEW u \in Uploads, Discard(u)
       PROVE  BytesInv'
    <2>1. BytesInv'
        <3>1. PICK f \in Uploads : f = u
            OBVIOUS
        <3>2. CASE Written(f, Removed)
            <4>1. Removed \in Uploads \cup {Removed} /\ Removed \notin Uploads
                OBVIOUS
            <4>2. /\ \A g \in Uploads \ {f} : puts'[g] = puts[g] /\ Latest(g)' = Latest(g)
                  /\ puts'[f] # <<>> /\ Latest(f)' = Removed /\ Holds(f, Removed)'
                  /\ \A g \in Uploads : \A y : Holds(g, y) => Holds(g, y)'
                BY <3>2, <4>1, WriteOne
            <4> QED
                BY <1>9, <3>1, <4>1, <4>2 DEF Discard, Failing, BytesInv, RowInv
        <3>3. CASE UNCHANGED puts
            <4>1. \A g : Latest(g)' = Latest(g) /\ \A y : Holds(g, y)' = Holds(g, y)
                BY <3>3 DEF Latest, Holds
            <4> QED
                BY <1>9, <3>3, <4>1 DEF Discard, Failing, BytesInv, RowInv
        <3> QED
            BY <1>9, <3>1, <3>2, <3>3 DEF Discard, Failing
    <2> QED
        BY <2>1
<1>10. ASSUME NEW u \in Uploads, Finalize(u)
       PROVE  BytesInv'
    <2>1. BytesInv'
        <3>1. \A g : Latest(g)' = Latest(g) /\ \A y : Holds(g, y)' = Holds(g, y)
            BY <1>10 DEF Finalize, Latest, Holds
        <3>2. CASE status[u] = "pending" /\ ~Taken(u, name[u])
            <4>1. PICK f \in Uploads : f = target[u] /\ Holds(f, u)
                BY <1>10 DEF Finalize, BytesInv
            <4>2. current' = [current EXCEPT ![f] = u] /\ UNCHANGED <<puts, target>>
                BY <1>10, <3>2, <4>1 DEF Finalize, RowInv
            <4>3. \A w \in Uploads : status'[w] = "ready" => Holds(w, current'[w])
                BY <1>10, <3>2, <4>1, <4>2 DEF Finalize, BytesInv
            <4>4. \A w \in Uploads : status'[w] # "absent" => status[w] # "absent"
                BY <1>10 DEF Finalize
            <4>5. \A w \in Uploads : pc'[w] \in {"stored", "numbered"} => pc[w] \in {"stored", "numbered"}
                BY <1>10 DEF Finalize
            <4> QED
                BY <3>1, <4>2, <4>3, <4>4, <4>5 DEF BytesInv
        <3>3. CASE ~(status[u] = "pending" /\ ~Taken(u, name[u]))
            BY <1>10, <3>1, <3>3 DEF Finalize, BytesInv
        <3> QED
            BY <3>2, <3>3
    <2> QED
        BY <2>1
<1>11. ASSUME NEW u \in Uploads, Number(u)
       PROVE  BytesInv'
    <2>1. BytesInv'
        <3>1. \A g : Latest(g)' = Latest(g) /\ \A y : Holds(g, y)' = Holds(g, y)
            BY <1>11 DEF Number, Latest, Holds
        <3> QED
            BY <1>11, <3>1 DEF Number, BytesInv, RowInv
    <2> QED
        BY <2>1
<1>12. ASSUME NEW u \in Uploads, AddVersion(u)
       PROVE  BytesInv'
    <2>1. BytesInv'
        <3>1. \A g : Latest(g)' = Latest(g) /\ \A y : Holds(g, y)' = Holds(g, y)
            BY <1>12 DEF AddVersion, Latest, Holds
        <3>2. CASE status[target[u]] # "absent" /\ number[u] \notin Numbers(target[u])
            <4>1. PICK f \in Uploads : f = target[u] /\ Holds(f, u)
                BY <1>12 DEF AddVersion, BytesInv
            <4>2. current' = [current EXCEPT ![f] = u] /\ UNCHANGED <<puts, target>>
                BY <1>12, <3>2, <4>1 DEF AddVersion, RowInv
            <4>3. \A w \in Uploads : status'[w] = "ready" => Holds(w, current'[w])
                BY <1>12, <3>2, <4>1, <4>2 DEF AddVersion, BytesInv
            <4>4. \A w \in Uploads : status'[w] # "absent" => status[w] # "absent"
                BY <1>12 DEF AddVersion
            <4>5. \A w \in Uploads : pc'[w] \in {"stored", "numbered"} => pc[w] \in {"stored", "numbered"}
                BY <1>12 DEF AddVersion
            <4> QED
                BY <3>1, <4>2, <4>3, <4>4, <4>5 DEF BytesInv
        <3>3. CASE ~(status[target[u]] # "absent" /\ number[u] \notin Numbers(target[u]))
            BY <1>12, <3>1, <3>3 DEF AddVersion, BytesInv
        <3> QED
            BY <3>2, <3>3
    <2> QED
        BY <2>1
<1>13. ASSUME NEW u \in Uploads, Audit(u)
       PROVE  BytesInv'
    <2>1. BytesInv'
        <3>1. \A g : Latest(g)' = Latest(g) /\ \A y : Holds(g, y)' = Holds(g, y)
            BY <1>13 DEF Audit, Latest, Holds
        <3> QED
            BY <1>13, <3>1 DEF Audit, BytesInv, RowInv
    <2> QED
        BY <2>1
<1>14. ASSUME NEW u \in Uploads, ReadBytes(u)
       PROVE  BytesInv'
    <2>1. BytesInv'
        <3>1. \A g : Latest(g)' = Latest(g) /\ \A y : Holds(g, y)' = Holds(g, y)
            BY <1>14 DEF ReadBytes, Latest, Holds
        <3> QED
            BY <1>14, <3>1 DEF ReadBytes, BytesInv, RowInv
    <2> QED
        BY <2>1
<1>15. ASSUME NEW u \in Uploads, SetSummary(u)
       PROVE  BytesInv'
    <2>1. BytesInv'
        <3>1. \A g : Latest(g)' = Latest(g) /\ \A y : Holds(g, y)' = Holds(g, y)
            BY <1>15 DEF SetSummary, Latest, Holds
        <3> QED
            BY <1>15, <3>1 DEF SetSummary, BytesInv, RowInv
    <2> QED
        BY <2>1
<1>16. ASSUME NEW u \in Uploads, Age(u)
       PROVE  BytesInv'
    <2>1. BytesInv'
        <3>1. \A g : Latest(g)' = Latest(g) /\ \A y : Holds(g, y)' = Holds(g, y)
            BY <1>16 DEF Age, Latest, Holds
        <3> QED
            BY <1>16, <3>1 DEF Age, BytesInv, RowInv
    <2> QED
        BY <2>1
<1>17. ASSUME NEW u \in Uploads, Trash(u)
       PROVE  BytesInv'
    <2>1. BytesInv'
        <3>1. \A g : Latest(g)' = Latest(g) /\ \A y : Holds(g, y)' = Holds(g, y)
            BY <1>17 DEF Trash, Latest, Holds
        <3> QED
            BY <1>17, <3>1 DEF Trash, Shown, BytesInv, RowInv
    <2> QED
        BY <2>1
<1>18. ASSUME NEW u \in Uploads, NEW n \in Names, Rename(u, n)
       PROVE  BytesInv'
    <2>1. BytesInv'
        <3>1. \A g : Latest(g)' = Latest(g) /\ \A y : Holds(g, y)' = Holds(g, y)
            BY <1>18 DEF Rename, Latest, Holds
        <3> QED
            BY <1>18, <3>1 DEF Rename, Shown, BytesInv, RowInv
    <2> QED
        BY <2>1
<1>19. ASSUME NEW l \in Listings, Select(l)
       PROVE  BytesInv'
    <2>1. BytesInv'
        <3>1. \A g : Latest(g)' = Latest(g) /\ \A y : Holds(g, y)' = Holds(g, y)
            BY <1>19 DEF Select, Latest, Holds
        <3> QED
            BY <1>19, <3>1 DEF Select, Stale, BytesInv, RowInv
    <2> QED
        BY <2>1
<1>20. ASSUME NEW l \in Listings, Drop(l)
       PROVE  BytesInv'
    <2>1. BytesInv'
        <3>1. \A g : Latest(g)' = Latest(g) /\ \A y : Holds(g, y)' = Holds(g, y)
            BY <1>20 DEF Drop, Latest, Holds
        <3> QED
            BY <1>20, <3>1 DEF Drop, BytesInv, RowInv, SweepInv
    <2> QED
        BY <2>1
<1>21. ASSUME NEW l \in Listings, Remove(l)
       PROVE  BytesInv'
    <2>1. BytesInv'
        <3>1. PICK f \in found[l] : Written(f, Removed) \/ UNCHANGED puts
            BY <1>21 DEF Remove
        <3>2. f \in Uploads /\ status[f] = "absent" /\ UNCHANGED <<status, current, pc, target>>
            BY <1>21 DEF Remove, SweepInv
        <3>3. CASE Written(f, Removed)
            <4>1. /\ \A g \in Uploads \ {f} : puts'[g] = puts[g] /\ Latest(g)' = Latest(g)
                  /\ \A g \in Uploads : \A y : Holds(g, y) => Holds(g, y)'
                BY <3>2, <3>3, WriteOne
            <4> QED
                BY <3>2, <4>1 DEF BytesInv
        <3>4. CASE UNCHANGED puts
            <4>1. \A g : Latest(g)' = Latest(g) /\ \A y : Holds(g, y)' = Holds(g, y)
                BY <3>4 DEF Latest, Holds
            <4> QED
                BY <3>2, <3>4, <4>1 DEF BytesInv
        <3> QED
            BY <3>1, <3>3, <3>4
    <2> QED
        BY <2>1
<1>22. ASSUME Crash
       PROVE  BytesInv'
    <2>1. BytesInv'
        <3>1. \A g : Latest(g)' = Latest(g) /\ \A y : Holds(g, y)' = Holds(g, y)
            BY <1>22 DEF Crash, Latest, Holds
        <3> QED
            BY <1>22, <3>1 DEF Crash, BytesInv, RowInv
    <2> QED
        BY <2>1
<1>23. CASE UNCHANGED vars
    BY <1>23 DEF vars, Latest, Holds, BytesInv
<1>24. ASSUME NEW u \in Uploads, LoadName(u)
       PROVE  BytesInv'
    <2>1. BytesInv'
        <3>1. \A g : Latest(g)' = Latest(g) /\ \A y : Holds(g, y)' = Holds(g, y)
            BY <1>24 DEF LoadName, Latest, Holds
        <3> QED
            BY <1>24, <3>1 DEF LoadName, Shown, BytesInv, RowInv
    <2> QED
        BY <2>1
<1> QED
    BY <1>1, <1>2, <1>3, <1>4, <1>5, <1>6, <1>7, <1>8, <1>9, <1>10, <1>11, <1>12, <1>13, <1>14,
       <1>15, <1>16, <1>17, <1>18, <1>19, <1>20, <1>21, <1>22, <1>23, <1>24 DEF Next, Handler, Store,
       Summarize, Sweep
-----------------------------------------------------------------------------
(* Version numbers                                                         *)

\* Steps that touch no version.
LEMMA VersionsUndisturbed ==
    ASSUME VersionInv, UNCHANGED <<versions, current>>,
           \A f \in Uploads : status'[f] = "ready" <=> status[f] = "ready"
    PROVE  VersionInv'
<1>1. \A f : Numbers(f)' = Numbers(f) /\ Highest(f)' = Highest(f)
    BY DEF Numbers, Highest
<1>2. ASSUME NEW f \in Uploads
      PROVE  /\ \E n \in Nat : Numbers(f)' = 1 .. n
             /\ \A v, w \in versions'[f] : v.no = w.no => v = w
             /\ status'[f] # "ready" => versions'[f] = {}
             /\ status'[f] = "ready" => [no |-> Highest(f)', by |-> current'[f]] \in versions'[f]
    <2>1. PICK n \in Nat : Numbers(f) = 1 .. n
        BY DEF VersionInv
    <2>2. \E m \in Nat : Numbers(f)' = 1 .. m
        BY <1>1, <2>1
    <2>3. \A v, w \in versions[f] : v.no = w.no => v = w
        BY DEF VersionInv
    <2>4. CASE status[f] = "ready"
        BY <1>1, <2>2, <2>3, <2>4 DEF VersionInv
    <2>5. CASE status[f] # "ready"
        <3>1. versions[f] = {}
            BY <2>5 DEF VersionInv
        <3>2. status'[f] # "ready"
            BY <2>5
        <3>3. versions'[f] = {}
            BY <3>1
        <3> QED
            BY <2>2, <3>2, <3>3
    <2> QED
        BY <2>4, <2>5
<1> QED
    BY <1>2 DEF VersionInv

\* A number stays good while its file's versions stay and nobody else reads one.
LEMMA NumbersUndisturbed ==
    ASSUME NextInv, UNCHANGED <<versions, target, number>>,
           \A u \in Uploads : pc'[u] = "numbered" =>
               /\ pc[u] = "numbered"
               /\ status'[target[u]] = "ready" => status[target[u]] = "ready"
    PROVE  NextInv'
BY DEF NextInv, Numbers, Highest

\* One more number on top.
LEMMA OneMore ==
    ASSUME NEW f \in Uploads, NEW n \in Nat, NEW u \in Uploads, VersionInv,
           versions[f] \in SUBSET Version,
           Numbers(f) = 1 .. n, versions'[f] = versions[f] \cup {[no |-> n + 1, by |-> u]}
    PROVE  /\ Numbers(f)' = 1 .. n + 1
           /\ Highest(f)' = n + 1
           /\ \A v, w \in versions'[f] : v.no = w.no => v = w
<1>1. Numbers(f)' = Numbers(f) \cup {n + 1}
    <2> DEFINE top == [no |-> n + 1, by |-> u]
    <2>1. \A x : x \in Numbers(f)' <=> \E v \in versions[f] \cup {top} : x = v.no
        BY DEF Numbers
    <2>2. \A x : x \in Numbers(f) <=> \E v \in versions[f] : x = v.no
        BY DEF Numbers
    <2>3. top.no = n + 1
        OBVIOUS
    <2> HIDE DEF top
    <2> QED
        BY <2>1, <2>2, <2>3
<1>2. Numbers(f)' = 1 .. n + 1
    BY <1>1
<1>3. Highest(f)' = n + 1
    <2>1. n + 1 \in {0} \cup Numbers(f)' /\ \A y \in {0} \cup Numbers(f)' : n + 1 >= y
        BY <1>2
    <2>2. \A m \in {0} \cup Numbers(f)' : (\A y \in {0} \cup Numbers(f)' : m >= y) => m = n + 1
        BY <2>1, <1>2
    <2> QED
        BY <2>1, <2>2 DEF Highest, Max
<1>4. \A v \in versions[f] : v.no # n + 1
    <2>1. \A v \in versions[f] : v.no \in 1 .. n
        BY DEF Numbers
    <2> QED
        BY <2>1
<1>5. \A v, w \in versions[f] : v.no = w.no => v = w
    BY DEF VersionInv
<1>6. \A v, w \in versions'[f] : v.no = w.no => v = w
    <2> DEFINE top == [no |-> n + 1, by |-> u]
    <2>1. top.no = n + 1 /\ versions'[f] = versions[f] \cup {top}
        OBVIOUS
    <2> HIDE DEF top
    <2> QED
        BY <1>4, <1>5, <2>1
<1> QED
    BY <1>2, <1>3, <1>6

\* The first number that is not taken, when it is at most the next one.
LEMMA NextOne ==
    ASSUME NEW n \in Nat, NEW m \in 1 .. n + 1, m \notin 1 .. n
    PROVE  m = n + 1
OBVIOUS

LEMMA NumberStep == Shapes /\ RowInv /\ SweepInv /\ NumberInv /\ [Next]_vars => NumberInv'
<1> SUFFICES ASSUME Shapes, RowInv, SweepInv, VersionInv, NextInv, [Next]_vars
             PROVE  VersionInv' /\ NextInv'
    BY DEF NumberInv
<1> USE NobodyAssumption DEF Shapes, columns, handler, sweep, counters, Goto, Early, Beyond, Fresh
<1>1. ASSUME NEW u \in Uploads, Find(u)
       PROVE  VersionInv' /\ NextInv'
    <2>1. VersionInv'
        <3>1. UNCHANGED <<versions, current>>
            BY <1>1 DEF Find
        <3>2. \A f \in Uploads : status'[f] = "ready" <=> status[f] = "ready"
            BY <1>1 DEF Find, Matches, Shown, RowInv
        <3> QED
            BY <3>1, <3>2, VersionsUndisturbed
    <2>2. NextInv'
        <3>1. /\ pc[u] = "idle" /\ UNCHANGED <<versions, number, status>>
              /\ \A w \in Uploads \ {u} : target'[w] = target[w] /\ pc'[w] = pc[w]
              /\ pc'[u] # "numbered"
            BY <1>1 DEF Find
        <3>2. \A f : Highest(f)' = Highest(f)
            BY <3>1 DEF Highest, Numbers
        <3> QED
            BY <3>1, <3>2 DEF NextInv
    <2> QED
        BY <2>1, <2>2
<1>2. ASSUME NEW u \in Uploads, Weigh(u)
       PROVE  VersionInv' /\ NextInv'
    <2>1. VersionInv'
        <3>1. UNCHANGED <<versions, current>>
            BY <1>2 DEF Weigh
        <3>2. \A f \in Uploads : status'[f] = "ready" <=> status[f] = "ready"
            BY <1>2 DEF Weigh, RowInv
        <3> QED
            BY <3>1, <3>2, VersionsUndisturbed
    <2>2. NextInv'
        <3>1. UNCHANGED <<versions, target, number>>
            BY <1>2 DEF Weigh
        <3>2. \A w \in Uploads : pc'[w] = "numbered" =>
                   /\ pc[w] = "numbered"
                   /\ status'[target[w]] = "ready" => status[target[w]] = "ready"
            BY <1>2 DEF Weigh, RowInv
        <3> QED
            BY <3>1, <3>2, NumbersUndisturbed
    <2> QED
        BY <2>1, <2>2
<1>3. ASSUME NEW u \in Uploads, Claim(u)
       PROVE  VersionInv' /\ NextInv'
    <2>1. VersionInv'
        <3>1. UNCHANGED <<versions, current>>
            BY <1>3 DEF Claim
        <3>2. \A f \in Uploads : status'[f] = "ready" <=> status[f] = "ready"
            BY <1>3 DEF Claim, RowInv
        <3> QED
            BY <3>1, <3>2, VersionsUndisturbed
    <2>2. NextInv'
        <3>1. UNCHANGED <<versions, target, number>>
            BY <1>3 DEF Claim
        <3>2. \A w \in Uploads : pc'[w] = "numbered" =>
                   /\ pc[w] = "numbered"
                   /\ status'[target[w]] = "ready" => status[target[w]] = "ready"
            BY <1>3 DEF Claim, RowInv
        <3> QED
            BY <3>1, <3>2, NumbersUndisturbed
    <2> QED
        BY <2>1, <2>2
<1>4. ASSUME NEW u \in Uploads, Reserve(u)
       PROVE  VersionInv' /\ NextInv'
    <2>1. VersionInv'
        <3>1. UNCHANGED <<versions, current>>
            BY <1>4 DEF Reserve
        <3>2. \A f \in Uploads : status'[f] = "ready" <=> status[f] = "ready"
            BY <1>4 DEF Reserve, RowInv
        <3> QED
            BY <3>1, <3>2, VersionsUndisturbed
    <2>2. NextInv'
        <3>1. UNCHANGED <<versions, target, number>>
            BY <1>4 DEF Reserve
        <3>2. \A w \in Uploads : pc'[w] = "numbered" =>
                   /\ pc[w] = "numbered"
                   /\ status'[target[w]] = "ready" => status[target[w]] = "ready"
            BY <1>4 DEF Reserve, RowInv
        <3> QED
            BY <3>1, <3>2, NumbersUndisturbed
    <2> QED
        BY <2>1, <2>2
<1>5. ASSUME NEW u \in Uploads, Put(u)
       PROVE  VersionInv' /\ NextInv'
    <2>1. VersionInv'
        <3>1. UNCHANGED <<versions, current>>
            BY <1>5 DEF Put
        <3>2. \A f \in Uploads : status'[f] = "ready" <=> status[f] = "ready"
            BY <1>5 DEF Put, RowInv
        <3> QED
            BY <3>1, <3>2, VersionsUndisturbed
    <2>2. NextInv'
        <3>1. UNCHANGED <<versions, target, number>>
            BY <1>5 DEF Put
        <3>2. \A w \in Uploads : pc'[w] = "numbered" =>
                   /\ pc[w] = "numbered"
                   /\ status'[target[w]] = "ready" => status[target[w]] = "ready"
            BY <1>5 DEF Put, RowInv
        <3> QED
            BY <3>1, <3>2, NumbersUndisturbed
    <2> QED
        BY <2>1, <2>2
<1>6. ASSUME NEW u \in Uploads, PutRefused(u)
       PROVE  VersionInv' /\ NextInv'
    <2>1. VersionInv'
        <3>1. UNCHANGED <<versions, current>>
            BY <1>6 DEF PutRefused
        <3>2. \A f \in Uploads : status'[f] = "ready" <=> status[f] = "ready"
            BY <1>6, ZenonT(40) DEF PutRefused, Abandoned, Failing, RowInv
        <3> QED
            BY <3>1, <3>2, VersionsUndisturbed
    <2>2. NextInv'
        <3>1. UNCHANGED <<versions, target, number>>
            BY <1>6 DEF PutRefused
        <3>2. \A w \in Uploads : pc'[w] = "numbered" =>
                   /\ pc[w] = "numbered"
                   /\ status'[target[w]] = "ready" => status[target[w]] = "ready"
            BY <1>6 DEF PutRefused, Abandoned, Failing, RowInv
        <3> QED
            BY <3>1, <3>2, NumbersUndisturbed
    <2> QED
        BY <2>1, <2>2
<1>7. ASSUME NEW u \in Uploads, PutUnreachable(u)
       PROVE  VersionInv' /\ NextInv'
    <2>1. VersionInv'
        <3>1. UNCHANGED <<versions, current>>
            BY <1>7 DEF PutUnreachable
        <3>2. \A f \in Uploads : status'[f] = "ready" <=> status[f] = "ready"
            BY <1>7 DEF PutUnreachable, Failing, RowInv
        <3> QED
            BY <3>1, <3>2, VersionsUndisturbed
    <2>2. NextInv'
        <3>1. UNCHANGED <<versions, target, number>>
            BY <1>7 DEF PutUnreachable
        <3>2. \A w \in Uploads : pc'[w] = "numbered" =>
                   /\ pc[w] = "numbered"
                   /\ status'[target[w]] = "ready" => status[target[w]] = "ready"
            BY <1>7 DEF PutUnreachable, Failing, RowInv
        <3> QED
            BY <3>1, <3>2, NumbersUndisturbed
    <2> QED
        BY <2>1, <2>2
<1>8. ASSUME NEW u \in Uploads, PutUnversioned(u)
       PROVE  VersionInv' /\ NextInv'
    <2>1. VersionInv'
        <3>1. UNCHANGED <<versions, current>>
            BY <1>8 DEF PutUnversioned
        <3>2. \A f \in Uploads : status'[f] = "ready" <=> status[f] = "ready"
            BY <1>8, ZenonT(40) DEF PutUnversioned, Abandoned, Failing, RowInv
        <3> QED
            BY <3>1, <3>2, VersionsUndisturbed
    <2>2. NextInv'
        <3>1. UNCHANGED <<versions, target, number>>
            BY <1>8 DEF PutUnversioned
        <3>2. \A w \in Uploads : pc'[w] = "numbered" =>
                   /\ pc[w] = "numbered"
                   /\ status'[target[w]] = "ready" => status[target[w]] = "ready"
            BY <1>8 DEF PutUnversioned, Abandoned, Failing, RowInv
        <3> QED
            BY <3>1, <3>2, NumbersUndisturbed
    <2> QED
        BY <2>1, <2>2
<1>9. ASSUME NEW u \in Uploads, Discard(u)
       PROVE  VersionInv' /\ NextInv'
    <2>1. VersionInv'
        <3>1. UNCHANGED <<versions, current>>
            BY <1>9 DEF Discard
        <3>2. \A f \in Uploads : status'[f] = "ready" <=> status[f] = "ready"
            BY <1>9 DEF Discard, Failing, RowInv
        <3> QED
            BY <3>1, <3>2, VersionsUndisturbed
    <2>2. NextInv'
        <3>1. UNCHANGED <<versions, target, number>>
            BY <1>9 DEF Discard
        <3>2. \A w \in Uploads : pc'[w] = "numbered" =>
                   /\ pc[w] = "numbered"
                   /\ status'[target[w]] = "ready" => status[target[w]] = "ready"
            BY <1>9 DEF Discard, Failing, RowInv
        <3> QED
            BY <3>1, <3>2, NumbersUndisturbed
    <2> QED
        BY <2>1, <2>2
<1>10. ASSUME NEW u \in Uploads, Finalize(u)
       PROVE  VersionInv' /\ NextInv'
    <2>1. VersionInv'
        <3>1. CASE status[u] = "pending" /\ ~Taken(u, name[u])
            <4>1. /\ versions' = [versions EXCEPT ![u] = {[no |-> 1, by |-> u]}]
                  /\ current' = [current EXCEPT ![u] = u]
                  /\ status' = [status EXCEPT ![u] = "ready"]
                BY <1>10, <3>1 DEF Finalize
            <4>2. versions[u] = {}
                BY <3>1 DEF VersionInv
            <4>3. Numbers(u) = 1 .. 0
                BY <4>2 DEF Numbers
            <4>4. versions'[u] = versions[u] \cup {[no |-> 0 + 1, by |-> u]}
                BY <4>1, <4>2
            <4>5. /\ Numbers(u)' = 1 .. 0 + 1 /\ Highest(u)' = 0 + 1
                  /\ \A v, w \in versions'[u] : v.no = w.no => v = w
                BY <4>3, <4>4, OneMore
            <4>6. \A g \in Uploads \ {u} : /\ versions'[g] = versions[g] /\ current'[g] = current[g]
                                        /\ status'[g] = status[g]
                                        /\ Numbers(g)' = Numbers(g) /\ Highest(g)' = Highest(g)
                BY <4>1 DEF Numbers, Highest
            <4>7. ASSUME NEW g \in Uploads
                  PROVE  /\ \E m \in Nat : Numbers(g)' = 1 .. m
                         /\ \A v, w \in versions'[g] : v.no = w.no => v = w
                         /\ status'[g] # "ready" => versions'[g] = {}
                         /\ status'[g] = "ready" => [no |-> Highest(g)', by |-> current'[g]] \in versions'[g]
                <5>1. CASE g = u
                    <6>1. [no |-> 0 + 1, by |-> u] \in versions'[u] /\ current'[u] = u
                        BY <4>1, <4>4
                    <6>2. 0 + 1 \in Nat
                        OBVIOUS
                    <6> QED
                        BY <4>1, <4>5, <5>1, <6>1, <6>2
                <5>2. CASE g # u
                    <6>1. \E m \in Nat : Numbers(g) = 1 .. m
                        BY DEF VersionInv
                    <6>2. \E m \in Nat : Numbers(g)' = 1 .. m
                        BY <4>6, <5>2, <6>1
                    <6> QED
                        BY <4>6, <5>2, <6>2 DEF VersionInv
                <5> QED
                    BY <5>1, <5>2
            <4> QED
                BY <4>7 DEF VersionInv
        <3>2. CASE ~(status[u] = "pending" /\ ~Taken(u, name[u]))
            BY <1>10, <3>2, VersionsUndisturbed DEF Finalize
        <3> QED
            BY <3>1, <3>2
    <2>2. NextInv'
        <3>1. /\ pc[u] = "stored" /\ UNCHANGED <<target, number>>
              /\ \A g \in Uploads \ {u} : versions'[g] = versions[g] /\ status'[g] = status[g]
              /\ \A w \in Uploads : pc'[w] = "numbered" => pc[w] = "numbered"
            BY <1>10 DEF Finalize
        <3>2. \A g \in Uploads \ {u} : Highest(g)' = Highest(g)
            BY <3>1 DEF Highest, Numbers
        <3>3. ASSUME NEW w \in Uploads, pc'[w] = "numbered", status'[target'[w]] = "ready"
              PROVE  number'[w] \in 1 .. Highest(target[w])' + 1
            <4>1. PICK g \in Uploads : g = target[w] /\ g = target'[w] /\ g # u
                <5>1. pc[w] = "numbered" /\ target[w] # w
                    BY <3>1, <3>3 DEF RowInv
                <5>2. pc[target[w]] \in Beyond
                    BY <5>1 DEF RowInv
                <5> QED
                    BY <3>1, <5>2
            <4>2. number[w] \in 1 .. Highest(g) + 1
                BY <3>1, <3>3, <4>1 DEF NextInv
            <4> QED
                BY <3>1, <3>2, <4>1, <4>2
        <3> QED
            BY <3>3 DEF NextInv
    <2> QED
        BY <2>1, <2>2
<1>11. ASSUME NEW u \in Uploads, Number(u)
       PROVE  VersionInv' /\ NextInv'
    <2>1. VersionInv'
        <3>1. UNCHANGED <<versions, current>>
            BY <1>11 DEF Number
        <3>2. \A f \in Uploads : status'[f] = "ready" <=> status[f] = "ready"
            BY <1>11 DEF Number
        <3> QED
            BY <3>1, <3>2, VersionsUndisturbed
    <2>2. NextInv'
        <3>1. PICK f \in Uploads : f = target[u]
            OBVIOUS
        <3>2. PICK n \in Nat : Numbers(f) = 1 .. n
            BY DEF VersionInv
        <3>3. Highest(f) = n
            BY <3>2, HighestIs
        <3>4. \A g : Highest(g)' = Highest(g)
            BY <1>11 DEF Number, Highest, Numbers
        <3>5. /\ number' = [number EXCEPT ![u] = 1 + n]
              /\ pc' = [pc EXCEPT ![u] = "numbered"]
              /\ UNCHANGED <<status, target>>
            BY <1>11, <3>1, <3>3 DEF Number
        <3>6. ASSUME NEW w \in Uploads, pc'[w] = "numbered", status'[target'[w]] = "ready"
              PROVE  number'[w] \in 1 .. Highest(target[w])' + 1
            <4>1. CASE w = u
                <5>1. Highest(f)' = n
                    BY <3>3, <3>4
                <5>2. number'[w] = n + 1
                    BY <3>5, <4>1
                <5>3. target'[w] = f
                    BY <3>1, <3>5, <4>1
                <5> QED
                    BY <5>1, <5>2, <5>3
            <4>2. CASE w # u
                <5>1. number[w] \in 1 .. Highest(target[w]) + 1 /\ number'[w] = number[w]
                    BY <3>5, <3>6, <4>2 DEF NextInv
                <5>2. PICK g \in Uploads : g = target[w] /\ g = target'[w]
                    BY <3>5
                <5> QED
                    BY <3>4, <5>1, <5>2
            <4> QED
                BY <4>1, <4>2
        <3> QED
            BY <3>6 DEF NextInv
    <2> QED
        BY <2>1, <2>2
<1>12. ASSUME NEW u \in Uploads, AddVersion(u)
       PROVE  VersionInv' /\ NextInv'
    <2>1. VersionInv'
        <3>1. CASE status[target[u]] # "absent" /\ number[u] \notin Numbers(target[u])
            <4>1. PICK f \in Uploads : f = target[u] /\ f # u /\ status[f] = "ready"
                BY <1>12, <3>1 DEF AddVersion, RowInv
            <4>2. PICK n \in Nat : Numbers(f) = 1 .. n
                BY DEF VersionInv
            <4>3. Highest(f) = n
                BY <4>2, HighestIs
            <4>4. number[u] = n + 1
                <5>1. number[u] \in 1 .. n + 1 /\ number[u] \notin 1 .. n
                    BY <1>12, <3>1, <4>1, <4>2, <4>3 DEF AddVersion, NextInv
                <5> QED
                    BY <5>1, NextOne
            <4>5. /\ versions' = [versions EXCEPT ![f] = versions[f] \cup {[no |-> n + 1, by |-> u]}]
                  /\ current' = [current EXCEPT ![f] = u] /\ UNCHANGED status
                BY <1>12, <3>1, <4>1, <4>4 DEF AddVersion
            <4>6. /\ Numbers(f)' = 1 .. n + 1 /\ Highest(f)' = n + 1
                  /\ \A v, w \in versions'[f] : v.no = w.no => v = w
                <5>1. versions'[f] = versions[f] \cup {[no |-> n + 1, by |-> u]}
                    BY <4>5
                <5> QED
                    BY <4>2, <5>1, OneMore
            <4>7. \A g \in Uploads \ {f} : /\ versions'[g] = versions[g] /\ current'[g] = current[g]
                                        /\ Numbers(g)' = Numbers(g) /\ Highest(g)' = Highest(g)
                BY <4>5 DEF Numbers, Highest
            <4>8. ASSUME NEW g \in Uploads
                  PROVE  /\ \E m \in Nat : Numbers(g)' = 1 .. m
                         /\ \A v, w \in versions'[g] : v.no = w.no => v = w
                         /\ status'[g] # "ready" => versions'[g] = {}
                         /\ status'[g] = "ready" => [no |-> Highest(g)', by |-> current'[g]] \in versions'[g]
                <5>1. CASE g = f
                    BY <4>1, <4>5, <4>6, <5>1
                <5>2. CASE g # f
                    <6>1. \E m \in Nat : Numbers(g) = 1 .. m
                        BY DEF VersionInv
                    <6>2. \E m \in Nat : Numbers(g)' = 1 .. m
                        BY <4>7, <5>2, <6>1
                    <6> QED
                        BY <4>5, <4>7, <5>2, <6>2 DEF VersionInv
                <5> QED
                    BY <5>1, <5>2
            <4> QED
                BY <4>8 DEF VersionInv
        <3>2. CASE ~(status[target[u]] # "absent" /\ number[u] \notin Numbers(target[u]))
            BY <1>12, <3>2, VersionsUndisturbed DEF AddVersion
        <3> QED
            BY <3>1, <3>2
    <2>2. NextInv'
        <3>1. CASE status[target[u]] # "absent" /\ number[u] \notin Numbers(target[u])
            <4>1. PICK f \in Uploads : f = target[u] /\ f # u /\ status[f] = "ready"
                BY <1>12, <3>1 DEF AddVersion, RowInv
            <4>2. PICK n \in Nat : Numbers(f) = 1 .. n
                BY DEF VersionInv
            <4>3. Highest(f) = n
                BY <4>2, HighestIs
            <4>4. number[u] = n + 1
                <5>1. number[u] \in 1 .. n + 1 /\ number[u] \notin 1 .. n
                    BY <1>12, <3>1, <4>1, <4>2, <4>3 DEF AddVersion, NextInv
                <5> QED
                    BY <5>1, NextOne
            <4>5. versions' = [versions EXCEPT ![f] = versions[f] \cup {[no |-> n + 1, by |-> u]}]
                BY <1>12, <3>1, <4>1, <4>4 DEF AddVersion
            <4>6. Highest(f)' = n + 1
                <5>1. versions'[f] = versions[f] \cup {[no |-> n + 1, by |-> u]}
                    BY <4>5
                <5> QED
                    BY <4>2, <5>1, OneMore
            <4>7. \A g \in Uploads \ {f} : Highest(g)' = Highest(g)
                BY <4>5 DEF Numbers, Highest
            <4>8. /\ UNCHANGED <<status, target, number>>
                  /\ \A w \in Uploads : pc'[w] = "numbered" => pc[w] = "numbered"
                BY <1>12, <3>1 DEF AddVersion
            <4>9. ASSUME NEW w \in Uploads, pc'[w] = "numbered", status'[target'[w]] = "ready"
                  PROVE  number'[w] \in 1 .. Highest(target[w])' + 1
                <5>1. PICK g \in Uploads : g = target[w] /\ g = target'[w]
                    BY <4>8
                <5>2. number[w] \in 1 .. Highest(g) + 1
                    BY <4>8, <4>9, <5>1 DEF NextInv
                <5>3. CASE g = f
                    BY <4>3, <4>6, <4>8, <5>1, <5>2, <5>3
                <5>4. CASE g # f
                    BY <4>7, <4>8, <5>1, <5>2, <5>4
                <5> QED
                    BY <5>3, <5>4
            <4> QED
                BY <4>9 DEF NextInv
        <3>2. CASE ~(status[target[u]] # "absent" /\ number[u] \notin Numbers(target[u]))
            BY <1>12, <3>2, NumbersUndisturbed DEF AddVersion
        <3> QED
            BY <3>1, <3>2
    <2> QED
        BY <2>1, <2>2
<1>13. ASSUME NEW u \in Uploads, Audit(u)
       PROVE  VersionInv' /\ NextInv'
    <2>1. VersionInv'
        <3>1. UNCHANGED <<versions, current>>
            BY <1>13 DEF Audit
        <3>2. \A f \in Uploads : status'[f] = "ready" <=> status[f] = "ready"
            BY <1>13 DEF Audit, RowInv
        <3> QED
            BY <3>1, <3>2, VersionsUndisturbed
    <2>2. NextInv'
        <3>1. UNCHANGED <<versions, target, number>>
            BY <1>13 DEF Audit
        <3>2. \A w \in Uploads : pc'[w] = "numbered" =>
                   /\ pc[w] = "numbered"
                   /\ status'[target[w]] = "ready" => status[target[w]] = "ready"
            BY <1>13 DEF Audit, RowInv
        <3> QED
            BY <3>1, <3>2, NumbersUndisturbed
    <2> QED
        BY <2>1, <2>2
<1>14. ASSUME NEW u \in Uploads, ReadBytes(u)
       PROVE  VersionInv' /\ NextInv'
    <2>1. VersionInv'
        <3>1. UNCHANGED <<versions, current>>
            BY <1>14 DEF ReadBytes
        <3>2. \A f \in Uploads : status'[f] = "ready" <=> status[f] = "ready"
            BY <1>14 DEF ReadBytes, RowInv
        <3> QED
            BY <3>1, <3>2, VersionsUndisturbed
    <2>2. NextInv'
        <3>1. UNCHANGED <<versions, target, number>>
            BY <1>14 DEF ReadBytes
        <3>2. \A w \in Uploads : pc'[w] = "numbered" =>
                   /\ pc[w] = "numbered"
                   /\ status'[target[w]] = "ready" => status[target[w]] = "ready"
            BY <1>14 DEF ReadBytes, RowInv
        <3> QED
            BY <3>1, <3>2, NumbersUndisturbed
    <2> QED
        BY <2>1, <2>2
<1>15. ASSUME NEW u \in Uploads, SetSummary(u)
       PROVE  VersionInv' /\ NextInv'
    <2>1. VersionInv'
        <3>1. UNCHANGED <<versions, current>>
            BY <1>15 DEF SetSummary
        <3>2. \A f \in Uploads : status'[f] = "ready" <=> status[f] = "ready"
            BY <1>15 DEF SetSummary, RowInv
        <3> QED
            BY <3>1, <3>2, VersionsUndisturbed
    <2>2. NextInv'
        <3>1. UNCHANGED <<versions, target, number>>
            BY <1>15 DEF SetSummary
        <3>2. \A w \in Uploads : pc'[w] = "numbered" =>
                   /\ pc[w] = "numbered"
                   /\ status'[target[w]] = "ready" => status[target[w]] = "ready"
            BY <1>15 DEF SetSummary, RowInv
        <3> QED
            BY <3>1, <3>2, NumbersUndisturbed
    <2> QED
        BY <2>1, <2>2
<1>16. ASSUME NEW u \in Uploads, Age(u)
       PROVE  VersionInv' /\ NextInv'
    <2>1. VersionInv'
        <3>1. UNCHANGED <<versions, current>>
            BY <1>16 DEF Age
        <3>2. \A f \in Uploads : status'[f] = "ready" <=> status[f] = "ready"
            BY <1>16 DEF Age, RowInv
        <3> QED
            BY <3>1, <3>2, VersionsUndisturbed
    <2>2. NextInv'
        <3>1. UNCHANGED <<versions, target, number>>
            BY <1>16 DEF Age
        <3>2. \A w \in Uploads : pc'[w] = "numbered" =>
                   /\ pc[w] = "numbered"
                   /\ status'[target[w]] = "ready" => status[target[w]] = "ready"
            BY <1>16 DEF Age, RowInv
        <3> QED
            BY <3>1, <3>2, NumbersUndisturbed
    <2> QED
        BY <2>1, <2>2
<1>17. ASSUME NEW u \in Uploads, Trash(u)
       PROVE  VersionInv' /\ NextInv'
    <2>1. VersionInv'
        <3>1. UNCHANGED <<versions, current>>
            BY <1>17 DEF Trash
        <3>2. \A f \in Uploads : status'[f] = "ready" <=> status[f] = "ready"
            BY <1>17 DEF Trash, Shown, RowInv
        <3> QED
            BY <3>1, <3>2, VersionsUndisturbed
    <2>2. NextInv'
        <3>1. UNCHANGED <<versions, target, number>>
            BY <1>17 DEF Trash
        <3>2. \A w \in Uploads : pc'[w] = "numbered" =>
                   /\ pc[w] = "numbered"
                   /\ status'[target[w]] = "ready" => status[target[w]] = "ready"
            BY <1>17 DEF Trash, Shown, RowInv
        <3> QED
            BY <3>1, <3>2, NumbersUndisturbed
    <2> QED
        BY <2>1, <2>2
<1>18. ASSUME NEW u \in Uploads, NEW n \in Names, Rename(u, n)
       PROVE  VersionInv' /\ NextInv'
    <2>1. VersionInv'
        <3>1. UNCHANGED <<versions, current>>
            BY <1>18 DEF Rename
        <3>2. \A f \in Uploads : status'[f] = "ready" <=> status[f] = "ready"
            BY <1>18 DEF Rename, Shown, RowInv
        <3> QED
            BY <3>1, <3>2, VersionsUndisturbed
    <2>2. NextInv'
        <3>1. UNCHANGED <<versions, target, number>>
            BY <1>18 DEF Rename
        <3>2. \A w \in Uploads : pc'[w] = "numbered" =>
                   /\ pc[w] = "numbered"
                   /\ status'[target[w]] = "ready" => status[target[w]] = "ready"
            BY <1>18 DEF Rename, Shown, RowInv
        <3> QED
            BY <3>1, <3>2, NumbersUndisturbed
    <2> QED
        BY <2>1, <2>2
<1>19. ASSUME NEW l \in Listings, Select(l)
       PROVE  VersionInv' /\ NextInv'
    <2>1. VersionInv'
        <3>1. UNCHANGED <<versions, current>>
            BY <1>19 DEF Select
        <3>2. \A f \in Uploads : status'[f] = "ready" <=> status[f] = "ready"
            BY <1>19 DEF Select, Stale, RowInv
        <3> QED
            BY <3>1, <3>2, VersionsUndisturbed
    <2>2. NextInv'
        <3>1. UNCHANGED <<versions, target, number>>
            BY <1>19 DEF Select
        <3>2. \A w \in Uploads : pc'[w] = "numbered" =>
                   /\ pc[w] = "numbered"
                   /\ status'[target[w]] = "ready" => status[target[w]] = "ready"
            BY <1>19 DEF Select, Stale, RowInv
        <3> QED
            BY <3>1, <3>2, NumbersUndisturbed
    <2> QED
        BY <2>1, <2>2
<1>20. ASSUME NEW l \in Listings, Drop(l)
       PROVE  VersionInv' /\ NextInv'
    <2>1. VersionInv'
        <3>1. ASSUME NEW f \in Uploads, f \in found[l]
              PROVE  versions'[f] = {} /\ status'[f] = "absent" /\ Numbers(f)' = 1 .. 0
            BY <1>20, <3>1 DEF Drop, Numbers
        <3>2. ASSUME NEW f \in Uploads, f \notin found[l]
              PROVE  /\ versions'[f] = versions[f] /\ status'[f] = status[f]
                     /\ Numbers(f)' = Numbers(f) /\ Highest(f)' = Highest(f)
            BY <1>20, <3>2 DEF Drop, Numbers, Highest
        <3>3. UNCHANGED current
            BY <1>20 DEF Drop
        <3>4. ASSUME NEW f \in Uploads
              PROVE  /\ \E n \in Nat : Numbers(f)' = 1 .. n
                     /\ \A v, w \in versions'[f] : v.no = w.no => v = w
                     /\ status'[f] # "ready" => versions'[f] = {}
                     /\ status'[f] = "ready" => [no |-> Highest(f)', by |-> current'[f]] \in versions'[f]
            <4>1. CASE f \in found[l]
                BY <3>1, <4>1
            <4>2. CASE f \notin found[l]
                <5>1. \E n \in Nat : Numbers(f) = 1 .. n
                    BY DEF VersionInv
                <5>2. \E n \in Nat : Numbers(f)' = 1 .. n
                    BY <3>2, <4>2, <5>1
                <5> QED
                    BY <3>2, <3>3, <4>2, <5>2 DEF VersionInv
            <4> QED
                BY <4>1, <4>2
        <3> QED
            BY <3>4 DEF VersionInv
    <2>2. NextInv'
        <3>1. UNCHANGED <<pc, target, number>>
            BY <1>20 DEF Drop
        <3>2. ASSUME NEW f \in Uploads, status'[f] = "ready"
              PROVE  status[f] = "ready" /\ Highest(f)' = Highest(f)
            BY <1>20, <3>2 DEF Drop, Highest, Numbers
        <3>3. ASSUME NEW w \in Uploads, pc'[w] = "numbered", status'[target'[w]] = "ready"
              PROVE  number'[w] \in 1 .. Highest(target[w])' + 1
            <4>1. PICK g \in Uploads : g = target[w] /\ g = target'[w]
                BY <3>1
            <4>2. status[g] = "ready" /\ Highest(g)' = Highest(g)
                BY <3>2, <3>3, <4>1
            <4>3. number[w] \in 1 .. Highest(g) + 1
                BY <3>1, <3>3, <4>1, <4>2 DEF NextInv
            <4> QED
                BY <3>1, <4>1, <4>2, <4>3
        <3> QED
            BY <3>3 DEF NextInv
    <2> QED
        BY <2>1, <2>2
<1>21. ASSUME NEW l \in Listings, Remove(l)
       PROVE  VersionInv' /\ NextInv'
    <2>1. VersionInv'
        <3>1. UNCHANGED <<versions, current>>
            BY <1>21 DEF Remove
        <3>2. \A f \in Uploads : status'[f] = "ready" <=> status[f] = "ready"
            BY <1>21 DEF Remove, Failing, RowInv
        <3> QED
            BY <3>1, <3>2, VersionsUndisturbed
    <2>2. NextInv'
        <3>1. UNCHANGED <<versions, target, number>>
            BY <1>21 DEF Remove
        <3>2. \A w \in Uploads : pc'[w] = "numbered" =>
                   /\ pc[w] = "numbered"
                   /\ status'[target[w]] = "ready" => status[target[w]] = "ready"
            BY <1>21 DEF Remove, Failing, RowInv
        <3> QED
            BY <3>1, <3>2, NumbersUndisturbed
    <2> QED
        BY <2>1, <2>2
<1>22. ASSUME Crash
       PROVE  VersionInv' /\ NextInv'
    <2>1. VersionInv'
        <3>1. UNCHANGED <<versions, current>>
            BY <1>22 DEF Crash
        <3>2. \A f \in Uploads : status'[f] = "ready" <=> status[f] = "ready"
            BY <1>22 DEF Crash, RowInv
        <3> QED
            BY <3>1, <3>2, VersionsUndisturbed
    <2>2. NextInv'
        <3>1. UNCHANGED <<versions, target, number>>
            BY <1>22 DEF Crash
        <3>2. \A w \in Uploads : pc'[w] = "numbered" =>
                   /\ pc[w] = "numbered"
                   /\ status'[target[w]] = "ready" => status[target[w]] = "ready"
            BY <1>22 DEF Crash, RowInv
        <3> QED
            BY <3>1, <3>2, NumbersUndisturbed
    <2> QED
        BY <2>1, <2>2
<1>23. CASE UNCHANGED vars
    BY <1>23 DEF vars, Numbers, Highest, VersionInv, NextInv
<1>24. ASSUME NEW u \in Uploads, LoadName(u)
       PROVE  VersionInv' /\ NextInv'
    <2>1. VersionInv'
        <3>1. UNCHANGED <<versions, current>>
            BY <1>24 DEF LoadName
        <3>2. \A f \in Uploads : status'[f] = "ready" <=> status[f] = "ready"
            BY <1>24 DEF LoadName, Shown, RowInv
        <3> QED
            BY <3>1, <3>2, VersionsUndisturbed
    <2>2. NextInv'
        <3>1. UNCHANGED <<versions, target, number>>
            BY <1>24 DEF LoadName
        <3>2. \A w \in Uploads : pc'[w] = "numbered" =>
                   /\ pc[w] = "numbered"
                   /\ status'[target[w]] = "ready" => status[target[w]] = "ready"
            BY <1>24 DEF LoadName, Shown, RowInv
        <3> QED
            BY <3>1, <3>2, NumbersUndisturbed
    <2> QED
        BY <2>1, <2>2
<1> QED
    BY <1>1, <1>2, <1>3, <1>4, <1>5, <1>6, <1>7, <1>8, <1>9, <1>10, <1>11, <1>12, <1>13, <1>14,
       <1>15, <1>16, <1>17, <1>18, <1>19, <1>20, <1>21, <1>22, <1>23, <1>24 DEF Next, Handler, Store,
       Summarize, Sweep
-----------------------------------------------------------------------------
(* Theorems                                                                *)

Inv == TypeOK /\ RowInv /\ SweepInv /\ BytesInv /\ NumberInv

LEMMA InitInv == Init => Inv
<1> SUFFICES ASSUME Init
             PROVE  Inv
    OBVIOUS
<1> USE DEF Init
<1>1. TypeOK
    <2>1. ObjectTypes
        BY EmptySeq DEF ObjectTypes
    <2>2. RowTypes
        BY DEF RowTypes
    <2>3. HandlerTypes
        BY SizesAssumption DEF HandlerTypes
    <2>4. SweepTypes
        BY LimitsAssumption DEF SweepTypes
    <2> QED
        BY <2>1, <2>2, <2>3, <2>4 DEF TypeOK
<1>2. RowInv
    BY DEF RowInv, Early, Beyond
<1>3. SweepInv
    BY DEF SweepInv
<1>4. BytesInv
    BY DEF BytesInv
<1>5. NumberInv
    <2>1. \A f \in Uploads : Numbers(f) = 1 .. 0 /\ versions[f] = {}
        BY DEF Numbers
    <2>2. VersionInv
        BY <2>1 DEF VersionInv
    <2>3. NextInv
        BY DEF NextInv
    <2> QED
        BY <2>2, <2>3 DEF NumberInv
<1> QED
    BY <1>1, <1>2, <1>3, <1>4, <1>5 DEF Inv

LEMMA StepInv == Inv /\ [Next]_vars => Inv'
BY TypeShapes, TypeStep, RowStep, BytesStep, NumberStep DEF Inv

LEMMA InvAlways == Spec => []Inv
BY InitInv, StepInv, PTL DEF Spec

\* Every variable keeps its type, the writes of a key and the versions of a
\* file included (repositories/files.py, api/routes/files.py).
THEOREM TypeCorrect == Spec => []TypeOK
<1>1. Inv => TypeOK
    BY DEF Inv
<1> QED
    BY <1>1, InvAlways, PTL

\* A file that is shown has its bytes in the bucket: no upload, sweep or crash
\* in any order takes them away under it (docs/files-feature.md 4.4).
THEOREM Bytes == Spec => []ShownHasBytes
<1>1. Inv => ShownHasBytes
    <2> SUFFICES ASSUME Inv, NEW f \in Uploads, status[f] = "ready"
                 PROVE  Latest(f) # Removed /\ \E i \in DOMAIN puts[f] : puts[f][i] = current[f]
        BY DEF ShownHasBytes
    <2>1. Holds(f, current[f])
        BY DEF Inv, BytesInv
    <2>2. puts[f] # <<>>
        BY <2>1 DEF Holds
    <2> QED
        BY <2>1, <2>2 DEF Inv, BytesInv, Holds
<1> QED
    BY <1>1, InvAlways, PTL

\* However uploads of one name race, the versions of a file are numbered from 1
\* without a gap or a repeat, and the current one is the highest (add_version).
THEOREM Numbered == Spec => []VersionsNumbered
<1>1. Inv => VersionsNumbered
    <2> SUFFICES ASSUME Inv, NEW f \in Uploads, status[f] = "ready"
                 PROVE  /\ Numbers(f) = 1 .. Highest(f)
                        /\ \A v, w \in versions[f] : v.no = w.no => v = w
                        /\ [no |-> Highest(f), by |-> current[f]] \in versions[f]
        BY DEF VersionsNumbered
    <2>1. PICK n \in Nat : Numbers(f) = 1 .. n
        BY DEF Inv, NumberInv, VersionInv
    <2>2. Highest(f) = n
        BY <2>1, HighestIs
    <2> QED
        BY <2>1, <2>2 DEF Inv, NumberInv, VersionInv
<1> QED
    BY <1>1, InvAlways, PTL

-----------------------------------------------------------------------------
(* The quota                                                               *)

\* Rows that never got a second version.
Single == {f \in Rows : 2 \notin Numbers(f)}

\* The bytes of the files with one version, and those the holder of the lock is
\* about to reserve, fit the quota; rows are finitely many.
QuotaInv ==
    /\ IsFiniteSet(Rows)
    /\ \A u \in Uploads : pc[u] = "claimed" <=> lock = u
    /\ Cardinality(BytesOf(Single)) + (IF lock = Nobody THEN 0 ELSE bytes[lock]) <= Quota

\* What the quota needs of the types.
Measures ==
    /\ size \in [Uploads -> Nat] /\ bytes \in [Uploads -> Nat]
    /\ lock \in Uploads \cup {Nobody}

LEMMA TypeMeasures == TypeOK => Measures
<1> SUFFICES ASSUME TypeOK
             PROVE  Measures
    OBVIOUS
<1>1. size \in [Uploads -> Sizes \cup {0}] /\ bytes \in [Uploads -> Sizes]
    BY DEF TypeOK, RowTypes, HandlerTypes
<1>2. Sizes \cup {0} \subseteq Nat /\ Sizes \subseteq Nat
    BY SizesAssumption
<1>3. size \in [Uploads -> Nat] /\ bytes \in [Uploads -> Nat]
    BY <1>1, <1>2
<1>4. lock \in Uploads \cup {Nobody}
    BY DEF TypeOK, HandlerTypes
<1> QED
    BY <1>3, <1>4 DEF Measures

\* The bytes of one file.
LEMMA FileBytes ==
    ASSUME NEW f, NEW n \in Nat
    PROVE  IsFiniteSet({f} \X (1 .. n)) /\ Cardinality({f} \X (1 .. n)) = n
<1> DEFINE F == {f}
           I == 1 .. n
<1>1. IsFiniteSet(F) /\ Cardinality(F) = 1
    BY FS_Singleton
<1>2. IsFiniteSet(I) /\ Cardinality(I) = n
    BY FS_Interval
<1> HIDE DEF F, I
<1>3. IsFiniteSet(F \X I) /\ Cardinality(F \X I) = 1 * n
    BY <1>1, <1>2, FS_Product
<1> QED
    BY <1>3 DEF F, I

\* Finitely many files have finitely many bytes.
LEMMA FiniteBytes ==
    ASSUME NEW S, IsFiniteSet(S), \A f \in S : size[f] \in Nat
    PROVE  IsFiniteSet(BytesOf(S)) /\ Cardinality(BytesOf(S)) \in Nat
<1> DEFINE T == {{f} \X (1 .. size[f]) : f \in S}
           B == [f \in S |-> {f} \X (1 .. size[f])]
<1>1. B \in Surjection(S, T)
    BY DEF Surjection
<1>2. IsFiniteSet(T)
    BY <1>1, FS_Surjection
<1>3. \A X \in T : IsFiniteSet(X)
    <2> SUFFICES ASSUME NEW f \in S
                 PROVE  IsFiniteSet({f} \X (1 .. size[f]))
        OBVIOUS
    <2> QED
        BY FileBytes
<1>4. IsFiniteSet(UNION T)
    BY <1>2, <1>3, FS_UNION
<1> QED
    BY <1>4, FS_CardinalityType DEF BytesOf

\* Fewer files have no more bytes.
LEMMA FewerBytes ==
    ASSUME NEW S, IsFiniteSet(S), \A f \in S : size[f] \in Nat, NEW T \in SUBSET S
    PROVE  /\ Cardinality(BytesOf(T)) \in Nat
           /\ Cardinality(BytesOf(T)) <= Cardinality(BytesOf(S))
<1>1. BytesOf(T) \subseteq BytesOf(S)
    BY DEF BytesOf
<1>2. IsFiniteSet(BytesOf(S)) /\ Cardinality(BytesOf(S)) \in Nat
    BY FiniteBytes
<1> QED
    BY <1>1, <1>2, FS_Subset, FS_CardinalityType

\* A file adds at most its size.
LEMMA OneFile ==
    ASSUME NEW S, IsFiniteSet(S), \A f \in S : size[f] \in Nat, NEW f, NEW n \in Nat
    PROVE  /\ IsFiniteSet(BytesOf(S) \cup ({f} \X (1 .. n)))
           /\ Cardinality(BytesOf(S) \cup ({f} \X (1 .. n))) <= Cardinality(BytesOf(S)) + n
<1> DEFINE B == BytesOf(S)
           C == {f} \X (1 .. n)
<1>1. IsFiniteSet(B) /\ Cardinality(B) \in Nat
    BY FiniteBytes
<1>2. IsFiniteSet(C) /\ Cardinality(C) = n
    BY FileBytes
<1> HIDE DEF B, C
<1>3. /\ IsFiniteSet(B \cup C)
      /\ Cardinality(B \cup C) = Cardinality(B) + Cardinality(C) - Cardinality(B \cap C)
    BY <1>1, <1>2, FS_Union
<1>4. Cardinality(B \cap C) \in Nat
    BY <1>1, FS_Intersection, FS_CardinalityType
<1> QED
    BY <1>1, <1>2, <1>3, <1>4 DEF B, C

\* A step that adds no row and no first version, and leaves the lock.
LEMMA QuotaUndisturbed ==
    ASSUME Measures, QuotaInv,
           \A f \in Uploads : status'[f] # "absent" => status[f] # "absent",
           \A f \in Single' : f \in Single /\ size'[f] = size[f],
           UNCHANGED <<lock, bytes>>,
           \A u \in Uploads : pc'[u] = "claimed" <=> pc[u] = "claimed"
    PROVE  QuotaInv'
<1>1. Rows' \subseteq Rows
    BY DEF Rows
<1>2. IsFiniteSet(Rows')
    BY <1>1, FS_Subset DEF QuotaInv
<1>3. Single \subseteq Rows /\ IsFiniteSet(Single)
    BY FS_Subset DEF QuotaInv, Single
<1>4. \A f \in Single : size[f] \in Nat
    BY <1>3 DEF Rows, Measures
<1>5. BytesOf(Single)' \subseteq BytesOf(Single)
    BY DEF BytesOf
<1>6. IsFiniteSet(BytesOf(Single)) /\ Cardinality(BytesOf(Single)) \in Nat
    BY <1>3, <1>4, FiniteBytes
<1>7. /\ Cardinality(BytesOf(Single)') <= Cardinality(BytesOf(Single))
      /\ Cardinality(BytesOf(Single)') \in Nat
    BY <1>5, <1>6, FS_Subset, FS_CardinalityType
<1>8. Quota \in Nat /\ (lock # Nobody => bytes[lock] \in Nat)
    BY SizesAssumption DEF Measures
<1> QED
    BY <1>2, <1>6, <1>7, <1>8 DEF QuotaInv

LEMMA QuotaStep == Shapes /\ Measures /\ RowInv /\ NumberInv /\ QuotaInv /\ [Next]_vars => QuotaInv'
<1> SUFFICES ASSUME Shapes, Measures, RowInv, NumberInv, QuotaInv, [Next]_vars
             PROVE  QuotaInv'
    OBVIOUS
<1> USE DEF Shapes, columns, handler, sweep, counters, Goto, Early, Beyond, Fresh
<1>1. ASSUME NEW u \in Uploads, Find(u)
      PROVE  QuotaInv'
    <2>1. UNCHANGED <<lock, bytes, size, versions, status>>
        BY <1>1 DEF Find
    <2>2. \A w \in Uploads : pc'[w] = "claimed" <=> pc[w] = "claimed"
        <3>1. CASE Matches(u) = {}
            BY <1>1, <3>1 DEF Find
        <3>2. CASE Matches(u) # {}
            BY <1>1, <3>2 DEF Find
        <3> QED
            BY <3>1, <3>2
    <2>3. \A f \in Single' : f \in Single /\ size'[f] = size[f]
        BY <2>1 DEF Single, Rows, Numbers
    <2> QED
        BY <2>1, <2>2, <2>3, QuotaUndisturbed
<1>2. ASSUME NEW u \in Uploads, Weigh(u)
      PROVE  QuotaInv'
    <2>1. UNCHANGED <<lock, bytes>> /\ \A w \in Uploads : pc'[w] = "claimed" <=> pc[w] = "claimed"
        BY <1>2 DEF Weigh
    <2>2. \A f \in Uploads : status'[f] # "absent" => status[f] # "absent"
        BY <1>2 DEF Weigh
    <2>3. UNCHANGED <<size, versions>>
        BY <1>2 DEF Weigh
    <2>4. \A f \in Single' : f \in Single /\ size'[f] = size[f]
        BY <2>2, <2>3 DEF Single, Rows, Numbers
    <2> QED
        BY <2>1, <2>2, <2>4, QuotaUndisturbed
<1>3. ASSUME NEW u \in Uploads, Claim(u)
      PROVE  QuotaInv'
    <2>1. CASE Used + bytes[u] > Quota
        <3>1. UNCHANGED <<lock, bytes, size, versions, status>>
            BY <1>3, <2>1 DEF Claim
        <3>2. \A w \in Uploads : pc'[w] = "claimed" <=> pc[w] = "claimed"
            BY <1>3, <2>1 DEF Claim
        <3>3. \A f \in Single' : f \in Single /\ size'[f] = size[f]
            BY <3>1 DEF Single, Rows, Numbers
        <3> QED
            BY <3>1, <3>2, <3>3, QuotaUndisturbed
    <2>2. CASE ~(Used + bytes[u] > Quota)
        <3>1. /\ lock = Nobody /\ lock' = u /\ UNCHANGED <<bytes, size, versions, status>>
              /\ pc' = [pc EXCEPT ![u] = "claimed"]
            BY <1>3, <2>2 DEF Claim
        <3>2. \A w \in Uploads : pc'[w] = "claimed" <=> lock' = w
            BY <3>1, NobodyAssumption DEF QuotaInv
        <3>3. Rows' = Rows /\ BytesOf(Single)' = BytesOf(Single)
            BY <3>1 DEF Rows, Single, Numbers, BytesOf
        <3>4. \A f \in Rows : size[f] \in Nat
            BY DEF Rows, Measures
        <3>5. /\ Cardinality(BytesOf(Single)) \in Nat /\ Cardinality(BytesOf(Rows)) \in Nat
              /\ Cardinality(BytesOf(Single)) <= Cardinality(BytesOf(Rows))
            BY <3>4, FewerBytes, FiniteBytes DEF QuotaInv, Single
        <3>6. Cardinality(BytesOf(Single)) + bytes[u] <= Quota
            BY <2>2, <3>5, SizesAssumption DEF Used, Measures
        <3> QED
            BY <3>1, <3>2, <3>3, <3>6 DEF QuotaInv
    <2> QED
        BY <2>1, <2>2
<1>4. ASSUME NEW u \in Uploads, Reserve(u)
      PROVE  QuotaInv'
    <2>1. pc[u] = "claimed" /\ lock = u /\ lock' = Nobody /\ pc' = [pc EXCEPT ![u] = "putting"]
        BY <1>4 DEF Reserve, QuotaInv
    <2>2. /\ status' = [status EXCEPT ![u] = "pending"]
          /\ size' = [size EXCEPT ![u] = bytes[u]]
          /\ UNCHANGED <<bytes, versions>>
        BY <1>4 DEF Reserve
    <2>3. bytes[u] \in Nat /\ \A f \in Rows : size[f] \in Nat
        BY DEF Measures, Rows
    <2>4. Rows' = Rows \cup {u}
        BY <2>2 DEF Rows
    <2>5. IsFiniteSet(Rows')
        BY <2>4, FS_AddElement DEF QuotaInv
    <2>6. IsFiniteSet(Single) /\ \A f \in Single : size[f] \in Nat
        BY <2>3, FS_Subset DEF QuotaInv, Single
    <2>7. BytesOf(Single)' \subseteq BytesOf(Single) \cup ({u} \X (1 .. bytes[u]))
        <3>1. ASSUME NEW f \in Single', f # u
              PROVE  f \in Single
            <4>1. f \in Rows /\ 2 \notin Numbers(f)'
                BY <2>4, <3>1 DEF Single
            <4>2. Numbers(f)' = Numbers(f)
                BY <2>2 DEF Numbers
            <4> QED
                BY <4>1, <4>2 DEF Single
        <3>2. \A f \in Single' : f = u \/ (f \in Single /\ f # u)
            BY <3>1
        <3>3. size'[u] = bytes[u] /\ \A f \in Single : f # u => size'[f] = size[f]
            BY <2>2 DEF Single, Rows, Measures
        <3> QED
            BY <3>2, <3>3 DEF BytesOf
    <2>8. /\ IsFiniteSet(BytesOf(Single) \cup ({u} \X (1 .. bytes[u])))
          /\ Cardinality(BytesOf(Single) \cup ({u} \X (1 .. bytes[u])))
                 <= Cardinality(BytesOf(Single)) + bytes[u]
        BY <2>3, <2>6, OneFile
    <2>9. /\ Cardinality(BytesOf(Single)') <= Cardinality(BytesOf(Single) \cup ({u} \X (1 .. bytes[u])))
          /\ Cardinality(BytesOf(Single)') \in Nat
          /\ Cardinality(BytesOf(Single) \cup ({u} \X (1 .. bytes[u]))) \in Nat
          /\ Cardinality(BytesOf(Single)) \in Nat
        BY <2>6, <2>7, <2>8, FS_Subset, FS_CardinalityType, FiniteBytes
    <2>10. Cardinality(BytesOf(Single)) + bytes[u] <= Quota
        BY <2>1, NobodyAssumption DEF QuotaInv
    <2>11. Cardinality(BytesOf(Single)') <= Quota
        BY <2>3, <2>8, <2>9, <2>10, SizesAssumption
    <2>12. \A w \in Uploads : pc'[w] = "claimed" <=> lock' = w
        BY <2>1, NobodyAssumption DEF QuotaInv
    <2> QED
        BY <2>1, <2>5, <2>9, <2>11, <2>12 DEF QuotaInv
<1>5. ASSUME NEW u \in Uploads, Put(u)
      PROVE  QuotaInv'
    <2>1. UNCHANGED <<lock, bytes>> /\ \A w \in Uploads : pc'[w] = "claimed" <=> pc[w] = "claimed"
        BY <1>5 DEF Put
    <2>2. \A f \in Uploads : status'[f] # "absent" => status[f] # "absent"
        BY <1>5 DEF Put
    <2>3. UNCHANGED <<size, versions>>
        BY <1>5 DEF Put
    <2>4. \A f \in Single' : f \in Single /\ size'[f] = size[f]
        BY <2>2, <2>3 DEF Single, Rows, Numbers
    <2> QED
        BY <2>1, <2>2, <2>4, QuotaUndisturbed
<1>6. ASSUME NEW u \in Uploads, PutRefused(u)
      PROVE  QuotaInv'
    <2>1. UNCHANGED <<lock, bytes>> /\ \A w \in Uploads : pc'[w] = "claimed" <=> pc[w] = "claimed"
        BY <1>6 DEF PutRefused, Failing
    <2>2. \A f \in Uploads : status'[f] # "absent" => status[f] # "absent"
        BY <1>6 DEF PutRefused, Abandoned, Failing
    <2>3. UNCHANGED <<size, versions>>
        BY <1>6 DEF PutRefused
    <2>4. \A f \in Single' : f \in Single /\ size'[f] = size[f]
        BY <2>2, <2>3 DEF Single, Rows, Numbers
    <2> QED
        BY <2>1, <2>2, <2>4, QuotaUndisturbed
<1>7. ASSUME NEW u \in Uploads, PutUnreachable(u)
      PROVE  QuotaInv'
    <2>1. UNCHANGED <<lock, bytes>> /\ \A w \in Uploads : pc'[w] = "claimed" <=> pc[w] = "claimed"
        BY <1>7 DEF PutUnreachable, Failing
    <2>2. \A f \in Uploads : status'[f] # "absent" => status[f] # "absent"
        BY <1>7 DEF PutUnreachable, Failing
    <2>3. UNCHANGED <<size, versions>>
        BY <1>7 DEF PutUnreachable
    <2>4. \A f \in Single' : f \in Single /\ size'[f] = size[f]
        BY <2>2, <2>3 DEF Single, Rows, Numbers
    <2> QED
        BY <2>1, <2>2, <2>4, QuotaUndisturbed
<1>8. ASSUME NEW u \in Uploads, PutUnversioned(u)
      PROVE  QuotaInv'
    <2>1. UNCHANGED <<lock, bytes>> /\ \A w \in Uploads : pc'[w] = "claimed" <=> pc[w] = "claimed"
        BY <1>8 DEF PutUnversioned, Failing
    <2>2. \A f \in Uploads : status'[f] # "absent" => status[f] # "absent"
        BY <1>8 DEF PutUnversioned, Abandoned, Failing
    <2>3. UNCHANGED <<size, versions>>
        BY <1>8 DEF PutUnversioned
    <2>4. \A f \in Single' : f \in Single /\ size'[f] = size[f]
        BY <2>2, <2>3 DEF Single, Rows, Numbers
    <2> QED
        BY <2>1, <2>2, <2>4, QuotaUndisturbed
<1>9. ASSUME NEW u \in Uploads, Discard(u)
      PROVE  QuotaInv'
    <2>1. UNCHANGED <<lock, bytes>> /\ \A w \in Uploads : pc'[w] = "claimed" <=> pc[w] = "claimed"
        BY <1>9 DEF Discard, Failing
    <2>2. \A f \in Uploads : status'[f] # "absent" => status[f] # "absent"
        BY <1>9 DEF Discard, Failing
    <2>3. UNCHANGED <<size, versions>>
        BY <1>9 DEF Discard
    <2>4. \A f \in Single' : f \in Single /\ size'[f] = size[f]
        BY <2>2, <2>3 DEF Single, Rows, Numbers
    <2> QED
        BY <2>1, <2>2, <2>4, QuotaUndisturbed
<1>10. ASSUME NEW u \in Uploads, Finalize(u)
      PROVE  QuotaInv'
    <2>1. UNCHANGED <<lock, bytes, size>> /\ \A w \in Uploads : pc'[w] = "claimed" <=> pc[w] = "claimed"
        <3>1. CASE status[u] = "pending" /\ ~Taken(u, name[u])
            BY <1>10, <3>1 DEF Finalize
        <3>2. CASE ~(status[u] = "pending" /\ ~Taken(u, name[u]))
            BY <1>10, <3>2 DEF Finalize
        <3> QED
            BY <3>1, <3>2
    <2>2. \A f \in Uploads : status'[f] # "absent" => status[f] # "absent"
        BY <1>10 DEF Finalize
    <2>3. \A f \in Uploads : versions'[f] # versions[f] => status[f] = "pending"
        BY <1>10 DEF Finalize
    <2>4. \A f \in Uploads : status[f] = "pending" => 2 \notin Numbers(f)
        BY DEF NumberInv, VersionInv, Numbers
    <2>5. \A f \in Single' : f \in Single /\ size'[f] = size[f]
        BY <2>1, <2>2, <2>3, <2>4 DEF Single, Rows, Numbers
    <2> QED
        BY <2>1, <2>2, <2>5, QuotaUndisturbed
<1>11. ASSUME NEW u \in Uploads, Number(u)
      PROVE  QuotaInv'
    <2>1. UNCHANGED <<lock, bytes>> /\ \A w \in Uploads : pc'[w] = "claimed" <=> pc[w] = "claimed"
        BY <1>11 DEF Number
    <2>2. \A f \in Uploads : status'[f] # "absent" => status[f] # "absent"
        BY <1>11 DEF Number
    <2>3. UNCHANGED <<size, versions>>
        BY <1>11 DEF Number
    <2>4. \A f \in Single' : f \in Single /\ size'[f] = size[f]
        BY <2>2, <2>3 DEF Single, Rows, Numbers
    <2> QED
        BY <2>1, <2>2, <2>4, QuotaUndisturbed
<1>12. ASSUME NEW u \in Uploads, AddVersion(u)
      PROVE  QuotaInv'
    <2>1. UNCHANGED <<lock, bytes, status>> /\ \A w \in Uploads : pc'[w] = "claimed" <=> pc[w] = "claimed"
        <3>1. CASE status[target[u]] # "absent" /\ number[u] \notin Numbers(target[u])
            BY <1>12, <3>1 DEF AddVersion
        <3>2. CASE ~(status[target[u]] # "absent" /\ number[u] \notin Numbers(target[u]))
            BY <1>12, <3>2 DEF AddVersion
        <3> QED
            BY <3>1, <3>2
    <2>2. PICK f \in Uploads : f = target[u]
        OBVIOUS
    <2>3. \A g \in Uploads \ {f} : versions'[g] = versions[g] /\ size'[g] = size[g]
        BY <1>12, <2>2 DEF AddVersion, Resized, Measures
    <2>4. f \in Single' => f \in Single /\ size'[f] = size[f]
        <3>1. CASE status[f] # "absent" /\ number[u] \notin Numbers(f)
            <4>1. status[f] = "ready" /\ pc[u] = "numbered"
                BY <1>12, <2>2, <3>1 DEF AddVersion, RowInv
            <4>2. PICK n \in Nat : Numbers(f) = 1 .. n
                BY DEF NumberInv, VersionInv
            <4>3. Highest(f) = n
                BY <4>2, HighestIs
            <4>4. n \in Numbers(f)
                <5>1. [no |-> Highest(f), by |-> current[f]] \in versions[f]
                    BY <4>1 DEF NumberInv, VersionInv
                <5> QED
                    BY <4>3, <5>1 DEF Numbers
            <4>5. n >= 1
                BY <4>2, <4>4
            <4>6. number[u] \in 1 .. n + 1
                BY <2>2, <4>1, <4>3 DEF NumberInv, NextInv
            <4>7. number[u] = n + 1
                BY <3>1, <4>2, <4>6, NextOne
            <4>8. versions'[f] = versions[f] \cup {[no |-> n + 1, by |-> u]}
                BY <1>12, <2>2, <3>1, <4>7 DEF AddVersion
            <4>9. Numbers(f)' = 1 .. n + 1
                BY <4>2, <4>8, OneMore DEF NumberInv
            <4>10. 2 \in Numbers(f)'
                BY <4>5, <4>9
            <4> QED
                BY <4>10 DEF Single
        <3>2. CASE ~(status[f] # "absent" /\ number[u] \notin Numbers(f))
            BY <1>12, <2>1, <2>2, <3>2 DEF AddVersion, Single, Rows, Numbers
        <3> QED
            BY <3>1, <3>2
    <2>5. \A g \in Single' : g \in Single /\ size'[g] = size[g]
        BY <2>1, <2>3, <2>4 DEF Single, Rows, Numbers
    <2> QED
        BY <2>1, <2>5, QuotaUndisturbed
<1>13. ASSUME NEW u \in Uploads, Audit(u)
      PROVE  QuotaInv'
    <2>1. UNCHANGED <<lock, bytes>> /\ \A w \in Uploads : pc'[w] = "claimed" <=> pc[w] = "claimed"
        BY <1>13 DEF Audit
    <2>2. \A f \in Uploads : status'[f] # "absent" => status[f] # "absent"
        BY <1>13 DEF Audit
    <2>3. UNCHANGED <<size, versions>>
        BY <1>13 DEF Audit
    <2>4. \A f \in Single' : f \in Single /\ size'[f] = size[f]
        BY <2>2, <2>3 DEF Single, Rows, Numbers
    <2> QED
        BY <2>1, <2>2, <2>4, QuotaUndisturbed
<1>14. ASSUME NEW u \in Uploads, ReadBytes(u)
      PROVE  QuotaInv'
    <2>1. UNCHANGED <<lock, bytes>> /\ \A w \in Uploads : pc'[w] = "claimed" <=> pc[w] = "claimed"
        BY <1>14 DEF ReadBytes
    <2>2. \A f \in Uploads : status'[f] # "absent" => status[f] # "absent"
        BY <1>14 DEF ReadBytes
    <2>3. UNCHANGED <<size, versions>>
        BY <1>14 DEF ReadBytes
    <2>4. \A f \in Single' : f \in Single /\ size'[f] = size[f]
        BY <2>2, <2>3 DEF Single, Rows, Numbers
    <2> QED
        BY <2>1, <2>2, <2>4, QuotaUndisturbed
<1>15. ASSUME NEW u \in Uploads, SetSummary(u)
      PROVE  QuotaInv'
    <2>1. UNCHANGED <<lock, bytes>> /\ \A w \in Uploads : pc'[w] = "claimed" <=> pc[w] = "claimed"
        BY <1>15 DEF SetSummary
    <2>2. \A f \in Uploads : status'[f] # "absent" => status[f] # "absent"
        BY <1>15 DEF SetSummary
    <2>3. UNCHANGED <<size, versions>>
        BY <1>15 DEF SetSummary
    <2>4. \A f \in Single' : f \in Single /\ size'[f] = size[f]
        BY <2>2, <2>3 DEF Single, Rows, Numbers
    <2> QED
        BY <2>1, <2>2, <2>4, QuotaUndisturbed
<1>16. ASSUME NEW u \in Uploads, Age(u)
      PROVE  QuotaInv'
    <2>1. UNCHANGED <<lock, bytes>> /\ \A w \in Uploads : pc'[w] = "claimed" <=> pc[w] = "claimed"
        BY <1>16 DEF Age
    <2>2. \A f \in Uploads : status'[f] # "absent" => status[f] # "absent"
        BY <1>16 DEF Age
    <2>3. UNCHANGED <<size, versions>>
        BY <1>16 DEF Age
    <2>4. \A f \in Single' : f \in Single /\ size'[f] = size[f]
        BY <2>2, <2>3 DEF Single, Rows, Numbers
    <2> QED
        BY <2>1, <2>2, <2>4, QuotaUndisturbed
<1>17. ASSUME NEW u \in Uploads, Trash(u)
      PROVE  QuotaInv'
    <2>1. UNCHANGED <<lock, bytes>> /\ \A w \in Uploads : pc'[w] = "claimed" <=> pc[w] = "claimed"
        BY <1>17 DEF Trash
    <2>2. \A f \in Uploads : status'[f] # "absent" => status[f] # "absent"
        BY <1>17 DEF Trash
    <2>3. UNCHANGED <<size, versions>>
        BY <1>17 DEF Trash
    <2>4. \A f \in Single' : f \in Single /\ size'[f] = size[f]
        BY <2>2, <2>3 DEF Single, Rows, Numbers
    <2> QED
        BY <2>1, <2>2, <2>4, QuotaUndisturbed
<1>18. ASSUME NEW u \in Uploads, NEW n \in Names, Rename(u, n)
      PROVE  QuotaInv'
    <2>1. UNCHANGED <<lock, bytes>> /\ \A w \in Uploads : pc'[w] = "claimed" <=> pc[w] = "claimed"
        BY <1>18 DEF Rename
    <2>2. \A f \in Uploads : status'[f] # "absent" => status[f] # "absent"
        BY <1>18 DEF Rename
    <2>3. UNCHANGED <<size, versions>>
        BY <1>18 DEF Rename
    <2>4. \A f \in Single' : f \in Single /\ size'[f] = size[f]
        BY <2>2, <2>3 DEF Single, Rows, Numbers
    <2> QED
        BY <2>1, <2>2, <2>4, QuotaUndisturbed
<1>19. ASSUME NEW l \in Listings, Select(l)
      PROVE  QuotaInv'
    <2>1. UNCHANGED <<lock, bytes>> /\ \A w \in Uploads : pc'[w] = "claimed" <=> pc[w] = "claimed"
        BY <1>19 DEF Select
    <2>2. \A f \in Uploads : status'[f] # "absent" => status[f] # "absent"
        BY <1>19 DEF Select, Stale
    <2>3. UNCHANGED <<size, versions>>
        BY <1>19 DEF Select
    <2>4. \A f \in Single' : f \in Single /\ size'[f] = size[f]
        BY <2>2, <2>3 DEF Single, Rows, Numbers
    <2> QED
        BY <2>1, <2>2, <2>4, QuotaUndisturbed
<1>20. ASSUME NEW l \in Listings, Drop(l)
      PROVE  QuotaInv'
    <2>1. UNCHANGED <<lock, bytes, pc, size>>
        BY <1>20 DEF Drop
    <2>2. \A f \in Uploads : status'[f] # "absent" => status[f] # "absent" /\ versions'[f] = versions[f]
        BY <1>20 DEF Drop
    <2>3. \A f \in Single' : f \in Single /\ size'[f] = size[f]
        BY <2>1, <2>2 DEF Single, Rows, Numbers
    <2> QED
        BY <2>1, <2>2, <2>3, QuotaUndisturbed
<1>21. ASSUME NEW l \in Listings, Remove(l)
      PROVE  QuotaInv'
    <2>1. UNCHANGED <<lock, bytes>> /\ \A w \in Uploads : pc'[w] = "claimed" <=> pc[w] = "claimed"
        BY <1>21 DEF Remove, Failing
    <2>2. \A f \in Uploads : status'[f] # "absent" => status[f] # "absent"
        BY <1>21 DEF Remove, Failing
    <2>3. UNCHANGED <<size, versions>>
        BY <1>21 DEF Remove
    <2>4. \A f \in Single' : f \in Single /\ size'[f] = size[f]
        BY <2>2, <2>3 DEF Single, Rows, Numbers
    <2> QED
        BY <2>1, <2>2, <2>4, QuotaUndisturbed
<1>22. ASSUME Crash
      PROVE  QuotaInv'
    <2>1. lock' = Nobody /\ UNCHANGED <<bytes, size, versions, status>>
        BY <1>22 DEF Crash
    <2>2. \A w \in Uploads : pc'[w] # "claimed"
        BY <1>22 DEF Crash
    <2>3. Rows' = Rows /\ BytesOf(Single)' = BytesOf(Single)
        BY <2>1 DEF Rows, Single, Numbers, BytesOf
    <2>4. IsFiniteSet(Single) /\ \A f \in Single : size[f] \in Nat
        BY FS_Subset DEF QuotaInv, Single, Rows, Measures
    <2>5. Cardinality(BytesOf(Single)) \in Nat
        BY <2>4, FiniteBytes
    <2>6. Cardinality(BytesOf(Single)) <= Quota
        BY <2>5, SizesAssumption DEF QuotaInv, Measures
    <2> QED
        BY <2>1, <2>2, <2>3, <2>5, <2>6, NobodyAssumption DEF QuotaInv
<1>23. CASE UNCHANGED vars
    <2>1. UNCHANGED <<lock, bytes, size, versions, status, pc>>
        BY <1>23 DEF vars
    <2>2. Rows' = Rows /\ BytesOf(Single)' = BytesOf(Single)
        BY <2>1 DEF Rows, Single, Numbers, BytesOf
    <2> QED
        BY <2>1, <2>2 DEF QuotaInv
<1>24. ASSUME NEW u \in Uploads, LoadName(u)
      PROVE  QuotaInv'
    <2>1. UNCHANGED <<lock, bytes>> /\ \A w \in Uploads : pc'[w] = "claimed" <=> pc[w] = "claimed"
        BY <1>24 DEF LoadName
    <2>2. \A f \in Uploads : status'[f] # "absent" => status[f] # "absent"
        BY <1>24 DEF LoadName
    <2>3. UNCHANGED <<size, versions>>
        BY <1>24 DEF LoadName
    <2>4. \A f \in Single' : f \in Single /\ size'[f] = size[f]
        BY <2>2, <2>3 DEF Single, Rows, Numbers
    <2> QED
        BY <2>1, <2>2, <2>4, QuotaUndisturbed
<1> QED
    BY <1>1, <1>2, <1>3, <1>4, <1>5, <1>6, <1>7, <1>8, <1>9, <1>10, <1>11, <1>12, <1>13, <1>14,
       <1>15, <1>16, <1>17, <1>18, <1>19, <1>20, <1>21, <1>22, <1>23, <1>24 DEF Next, Handler, Store,
       Summarize, Sweep

LEMMA QuotaAlways == Spec => [](Inv /\ QuotaInv)
<1>1. Init => QuotaInv
    <2> SUFFICES ASSUME Init
                 PROVE  QuotaInv
        OBVIOUS
    <2>1. Rows = {} /\ Single = {}
        BY DEF Init, Rows, Single
    <2>2. BytesOf(Single) = {}
        BY <2>1 DEF BytesOf
    <2>3. IsFiniteSet(Rows) /\ Cardinality(BytesOf(Single)) = 0
        BY <2>1, <2>2, FS_EmptySet
    <2> QED
        BY <2>3, NobodyAssumption, SizesAssumption DEF Init, QuotaInv
<1>2. Inv /\ QuotaInv /\ [Next]_vars => QuotaInv'
    BY TypeShapes, TypeMeasures, QuotaStep DEF Inv
<1> QED
    BY <1>1, <1>2, InitInv, StepInv, PTL DEF Spec

\* New files stay within the quota, whatever uploads, sweeps and restarts do:
\* only a file that got a second version can take the owner over it (reserve's
\* lock, repositories/files.py:143).
THEOREM QuotaHolds == Spec => []NewFilesFitQuota
<1>1. Inv /\ QuotaInv => NewFilesFitQuota
    <2> SUFFICES ASSUME Inv, QuotaInv, \A f \in Uploads : Cardinality(versions[f]) <= 1
                 PROVE  Used <= Quota
        BY DEF NewFilesFitQuota
    <2>1. ASSUME NEW f \in Uploads
          PROVE  2 \notin Numbers(f)
        <3>1. PICK n \in Nat : Numbers(f) = 1 .. n
            BY DEF Inv, NumberInv, VersionInv
        <3>2. \A v, w \in versions[f] : v.no = w.no => v = w
            BY DEF Inv, NumberInv, VersionInv
        <3>3. [v \in versions[f] |-> v.no] \in Injection(versions[f], 1 .. n)
            BY <3>1, <3>2 DEF Numbers, Injection, IsInjective
        <3>4. IsFiniteSet(versions[f])
            BY <3>3, FS_Injection, FS_Interval
        <3>5. SUFFICES ASSUME 2 \in Numbers(f)
                       PROVE  FALSE
            OBVIOUS
        <3>6. PICK v, w \in versions[f] : v.no = 1 /\ w.no = 2
            BY <3>1, <3>5 DEF Numbers
        <3>7. v # w
            BY <3>6
        <3>8. IsFiniteSet({v, w}) /\ Cardinality({v, w}) = 2
            <4>1. IsFiniteSet({v}) /\ Cardinality({v}) = 1
                BY FS_Singleton
            <4>2. {v, w} = {v} \cup {w} /\ w \notin {v}
                BY <3>7
            <4> QED
                BY <4>1, <4>2, FS_AddElement, SMTT(20)
        <3>9. Cardinality({v, w}) <= Cardinality(versions[f])
            BY <3>4, <3>6, FS_Subset
        <3>10. Cardinality(versions[f]) \in Nat
            BY <3>4, FS_CardinalityType
        <3> QED
            BY <3>8, <3>9, <3>10
    <2>2. Single = Rows
        BY <2>1 DEF Single, Rows
    <2>3. Measures
        BY TypeMeasures DEF Inv
    <2>4. \A f \in Rows : size[f] \in Nat
        BY <2>3 DEF Rows, Measures
    <2>5. Cardinality(BytesOf(Rows)) \in Nat
        BY <2>4, FiniteBytes DEF QuotaInv
    <2> QED
        BY <2>2, <2>3, <2>5, SizesAssumption DEF Used, QuotaInv, Measures
<1> QED
    BY <1>1, QuotaAlways, PTL

\* The owner's lock is held by one upload, between its count and its insert
\* (reserve, repositories/files.py:143), and so comes free with its next step:
\* no refusal, failed call, slow bucket or restart leaves it behind, and an
\* upload that waits for it waits for one that can go on.
THEOREM LockPasses ==
    Spec => [](/\ \A u \in Uploads : lock = u => pc[u] = "claimed"
               /\ \A u \in Uploads : pc[u] = "claiming" => lock = Nobody \/ lock \in Uploads \ {u})
<1>1. Inv /\ QuotaInv =>
          /\ \A u \in Uploads : lock = u => pc[u] = "claimed"
          /\ \A u \in Uploads : pc[u] = "claiming" => lock = Nobody \/ lock \in Uploads \ {u}
    <2> SUFFICES ASSUME Inv, QuotaInv, NEW u \in Uploads
                 PROVE  /\ lock = u => pc[u] = "claimed"
                        /\ pc[u] = "claiming" => lock = Nobody \/ lock \in Uploads \ {u}
        OBVIOUS
    <2>1. lock = u => pc[u] = "claimed"
        BY DEF QuotaInv
    <2>2. lock \in Uploads \cup {Nobody}
        BY TypeMeasures DEF Inv, Measures
    <2> QED
        BY <2>1, <2>2
<1> QED
    BY <1>1, QuotaAlways, PTL

-----------------------------------------------------------------------------
(* An hour is enough                                                       *)

\* While no upload outlives its hour, the sweep meets only rows whose upload is
\* over, and a row being written is there. Every orphan is in OrphansKnown.
HourInv ==
    /\ \A f \in Uploads : f \in old => pc[f] \in Over
    /\ \A f \in Uploads, l \in Listings : f \in found[l] => pc[f] \in Over /\ status[f] # "ready"
    /\ \A u \in Uploads : target[u] = u =>
           /\ pc[u] \in {"putting", "stored"} => status[u] = "pending"
           /\ pc[u] = "putting" => puts[u] = <<>>
    /\ \A u \in Uploads : target[u] # u => status[target[u]] = "ready"

LEMMA HourStep ==
    ASSUME ~SlowUploads, Shapes, RowInv, SweepInv, HourInv, OrphansKnown, [Next]_vars
    PROVE  HourInv' /\ OrphansKnown'
<1> USE NobodyAssumption DEF Shapes, columns, handler, sweep, counters, Goto, Early, Beyond, Fresh
<1>1. ASSUME NEW u \in Uploads, Find(u)
      PROVE  HourInv' /\ OrphansKnown'
    <2>1. UNCHANGED <<status, old, puts, found, sweeping, missed>> /\ pc[u] = "idle"
        BY <1>1 DEF Find
    <2>2. \A w \in Uploads \ {u} : pc'[w] = pc[w] /\ target'[w] = target[w]
        BY <1>1 DEF Find
    <2>3. pc'[u] \in {"claiming", "weighing"} /\ (target'[u] # u => status[target'[u]] = "ready")
        <3>1. CASE Matches(u) = {}
            BY <1>1, <3>1 DEF Find, RowInv
        <3>2. CASE Matches(u) # {}
            BY <1>1, <3>2 DEF Find, Matches, Shown
        <3> QED
            BY <3>1, <3>2
    <2>4. HourInv'
        <3>1. \A w \in Uploads : pc[w] \in Over => pc'[w] = pc[w]
            BY <2>1, <2>2
        <3>2. /\ \A f \in Uploads : f \in old' => pc'[f] \in Over
              /\ \A f \in Uploads, m \in Listings :
                     f \in found'[m] => pc'[f] \in Over /\ status'[f] # "ready"
            BY <2>1, <3>1 DEF HourInv
        <3>3. \A w \in Uploads : target'[w] = w =>
                  /\ pc'[w] \in {"putting", "stored"} => status'[w] = "pending"
                  /\ pc'[w] = "putting" => puts'[w] = <<>>
            BY <2>1, <2>2, <2>3, ZenonT(40) DEF HourInv
        <3>4. \A w \in Uploads : target'[w] # w => status'[target'[w]] = "ready"
            <4>1. ASSUME NEW w \in Uploads, w # u, target'[w] # w
                  PROVE  status'[target'[w]] = "ready"
                <5>1. target'[w] = target[w] /\ target[w] # w
                    BY <2>2, <4>1
                <5> QED
                    BY <2>1, <5>1 DEF HourInv
            <4> QED
                BY <2>1, <2>3, <4>1
        <3> QED
            BY <3>2, <3>3, <3>4 DEF HourInv
    <2>5. OrphansKnown'
        BY <2>1, <2>2, <2>3 DEF Latest, OrphansKnown
    <2> QED
        BY <2>4, <2>5
<1>2. ASSUME NEW u \in Uploads, Weigh(u)
      PROVE  HourInv' /\ OrphansKnown'
    <2>1. HourInv'
        BY <1>2 DEF Weigh, RowInv, HourInv
    <2>2. OrphansKnown'
        BY <1>2 DEF Weigh, Latest, RowInv, HourInv, OrphansKnown
    <2> QED
        BY <2>1, <2>2
<1>3. ASSUME NEW u \in Uploads, Claim(u)
      PROVE  HourInv' /\ OrphansKnown'
    <2>1. /\ UNCHANGED <<status, old, puts, target, found, sweeping, missed>>
          /\ pc[u] = "claiming"
          /\ \A w \in Uploads \ {u} : pc'[w] = pc[w]
        BY <1>3 DEF Claim
    <2>2. pc'[u] \in {"refused", "claimed"}
        BY <1>3 DEF Claim
    <2>3. HourInv'
        BY <2>1, <2>2 DEF HourInv
    <2>4. OrphansKnown'
        BY <2>1, <2>2 DEF OrphansKnown, Latest
    <2> QED
        BY <2>3, <2>4
<1>4. ASSUME NEW u \in Uploads, Reserve(u)
      PROVE  HourInv' /\ OrphansKnown'
    <2>1. HourInv'
        BY <1>4 DEF Reserve, RowInv, HourInv
    <2>2. OrphansKnown'
        BY <1>4 DEF Reserve, Latest, RowInv, HourInv, OrphansKnown
    <2> QED
        BY <2>1, <2>2
<1>5. ASSUME NEW u \in Uploads, Put(u)
      PROVE  HourInv' /\ OrphansKnown'
    <2>1. PICK f \in Uploads : f = target[u]
        OBVIOUS
    <2>2. /\ UNCHANGED <<status, old, target, found, sweeping, missed>>
          /\ pc[u] = "putting" /\ pc' = [pc EXCEPT ![u] = "stored"]
        BY <1>5 DEF Put
    <2>3. status[f] # "absent" /\ (f # u => pc[f] \in Beyond)
        BY <2>1, <2>2 DEF RowInv, HourInv
    <2>4. \A g \in Uploads \ {f} : puts'[g] = puts[g] /\ Latest(g)' = Latest(g)
        BY <1>5, <2>1, WriteOne DEF Put
    <2>5. HourInv'
        BY <2>1, <2>2, <2>3, <2>4 DEF HourInv
    <2>6. OrphansKnown'
        BY <2>1, <2>2, <2>3, <2>4 DEF OrphansKnown
    <2> QED
        BY <2>5, <2>6
<1>6. ASSUME NEW u \in Uploads, PutRefused(u)
      PROVE  HourInv' /\ OrphansKnown'
    <2>1. /\ UNCHANGED <<puts, old, target, found, sweeping, missed>>
          /\ pc[u] = "putting" /\ pc' = [pc EXCEPT ![u] = "refused"]
          /\ status' = IF target[u] = u THEN [status EXCEPT ![u] = "absent"] ELSE status
        BY <1>6 DEF PutRefused, Abandoned
    <2>2. \A w \in Uploads : target[w] # w => target[w] # u \/ target[u] # u
        BY <2>1 DEF RowInv
    <2>3. HourInv'
        BY <2>1, <2>2 DEF HourInv
    <2>4. target[u] = u => Latest(u) = Removed
        BY <2>1 DEF HourInv, Latest
    <2>5. OrphansKnown'
        BY <2>1, <2>4 DEF OrphansKnown, Latest
    <2> QED
        BY <2>3, <2>5
<1>7. ASSUME NEW u \in Uploads, PutUnreachable(u)
      PROVE  HourInv' /\ OrphansKnown'
    <2>1. PICK f \in Uploads : f = target[u]
        OBVIOUS
    <2>2. /\ UNCHANGED <<status, old, target, found, sweeping, missed>>
          /\ pc[u] = "putting" /\ pc' = [pc EXCEPT ![u] = "broken"]
        BY <1>7 DEF PutUnreachable
    <2>3. status[f] # "absent" /\ (f # u => pc[f] \in Beyond)
        BY <2>1, <2>2 DEF RowInv, HourInv
    <2>4. \A g \in Uploads \ {f} : puts'[g] = puts[g] /\ Latest(g)' = Latest(g)
        <3>1. CASE Written(f, u)
            BY <3>1, WriteOne
        <3>2. CASE UNCHANGED puts
            BY <3>2 DEF Latest
        <3> QED
            BY <1>7, <2>1, <3>1, <3>2 DEF PutUnreachable
    <2>5. HourInv'
        BY <2>1, <2>2, <2>3, <2>4 DEF HourInv
    <2>6. OrphansKnown'
        BY <2>1, <2>2, <2>3, <2>4 DEF OrphansKnown
    <2> QED
        BY <2>5, <2>6
<1>8. ASSUME NEW u \in Uploads, PutUnversioned(u)
      PROVE  HourInv' /\ OrphansKnown'
    <2>1. PICK f \in Uploads : f = target[u]
        OBVIOUS
    <2>2. /\ UNCHANGED <<old, target, found, sweeping, missed>>
          /\ pc[u] = "putting"
          /\ pc' = [pc EXCEPT ![u] = IF f = u THEN "discarding" ELSE "broken"]
          /\ status' = IF f = u THEN [status EXCEPT ![u] = "absent"] ELSE status
        BY <1>8, <2>1 DEF PutUnversioned, Abandoned
    <2>3. status[f] # "absent" /\ (f # u => pc[f] \in Beyond)
        BY <2>1, <2>2 DEF RowInv, HourInv
    <2>4. \A g \in Uploads \ {f} : puts'[g] = puts[g] /\ Latest(g)' = Latest(g)
        BY <1>8, <2>1, WriteOne DEF PutUnversioned
    <2>5. \A w \in Uploads : target[w] # w => target[w] # u \/ f # u
        BY <2>1, <2>2 DEF RowInv
    <2>6. HourInv'
        BY <2>1, <2>2, <2>3, <2>4, <2>5 DEF HourInv
    <2>7. OrphansKnown'
        BY <2>1, <2>2, <2>3, <2>4 DEF OrphansKnown
    <2> QED
        BY <2>6, <2>7
<1>9. ASSUME NEW u \in Uploads, Discard(u)
      PROVE  HourInv' /\ OrphansKnown'
    <2>1. /\ UNCHANGED <<status, old, target, found, sweeping>>
          /\ pc[u] = "discarding" /\ pc' = [pc EXCEPT ![u] = "broken"]
        BY <1>9 DEF Discard
    <2>2. /\ \A g \in Uploads \ {u} : puts'[g] = puts[g] /\ Latest(g)' = Latest(g)
          /\ missed \subseteq missed' /\ (Latest(u)' = Removed \/ u \in missed')
        <3>1. CASE Written(u, Removed) /\ UNCHANGED missed
            BY <3>1, WriteOne
        <3>2. CASE missed' = missed \cup {u} /\ UNCHANGED puts
            BY <3>2 DEF Latest
        <3> QED
            BY <1>9, <3>1, <3>2 DEF Discard
    <2>3. HourInv'
        BY <2>1, <2>2 DEF HourInv
    <2>4. OrphansKnown'
        BY <2>1, <2>2 DEF OrphansKnown
    <2> QED
        BY <2>3, <2>4
<1>10. ASSUME NEW u \in Uploads, Finalize(u)
      PROVE  HourInv' /\ OrphansKnown'
    <2>1. /\ UNCHANGED <<old, puts, target, found, sweeping, missed>>
          /\ pc[u] = "stored" /\ target[u] = u
          /\ \A w \in Uploads \ {u} : pc'[w] = pc[w] /\ status'[w] = status[w]
        BY <1>10 DEF Finalize
    <2>2. pc'[u] \in {"auditing", "broken"} /\ status'[u] # "absent"
        <3>1. CASE status[u] = "pending" /\ ~Taken(u, name[u])
            BY <1>10, <3>1 DEF Finalize
        <3>2. CASE ~(status[u] = "pending" /\ ~Taken(u, name[u]))
            BY <1>10, <2>1, <3>2 DEF Finalize, HourInv
        <3> QED
            BY <3>1, <3>2
    <2>3. \A w \in Uploads : target[w] # w => target[w] # u
        BY <2>1 DEF RowInv
    <2>4. HourInv'
        <3>1. \A w \in Uploads : target[w] # w => status'[target[w]] = "ready"
            <4>1. ASSUME NEW w \in Uploads, target[w] # w
                  PROVE  status'[target[w]] = "ready"
                <5>1. target[w] \in Uploads \ {u} /\ status[target[w]] = "ready"
                    BY <2>3, <4>1 DEF HourInv
                <5> QED
                    BY <2>1, <5>1
            <4> QED
                BY <4>1
        <3>2. \A w \in Uploads : target'[w] = w =>
                  /\ pc'[w] \in {"putting", "stored"} => status'[w] = "pending"
                  /\ pc'[w] = "putting" => puts'[w] = <<>>
            BY <2>1, <2>2 DEF HourInv
        <3>3. /\ \A f \in Uploads : f \in old' => pc'[f] \in Over
              /\ \A f \in Uploads, m \in Listings :
                     f \in found'[m] => pc'[f] \in Over /\ status'[f] # "ready"
            BY <2>1, <2>2 DEF HourInv
        <3> QED
            BY <2>1, <3>1, <3>2, <3>3 DEF HourInv
    <2>5. OrphansKnown'
        BY <2>1, <2>2 DEF OrphansKnown, Latest
    <2> QED
        BY <2>4, <2>5
<1>11. ASSUME NEW u \in Uploads, Number(u)
      PROVE  HourInv' /\ OrphansKnown'
    <2>1. HourInv'
        BY <1>11 DEF Number, RowInv, HourInv
    <2>2. OrphansKnown'
        BY <1>11 DEF Number, Latest, RowInv, HourInv, OrphansKnown
    <2> QED
        BY <2>1, <2>2
<1>12. ASSUME NEW u \in Uploads, AddVersion(u)
      PROVE  HourInv' /\ OrphansKnown'
    <2>1. /\ UNCHANGED <<status, old, puts, target, found, sweeping, missed>>
          /\ pc[u] = "numbered"
          /\ \A w \in Uploads \ {u} : pc'[w] = pc[w]
        BY <1>12 DEF AddVersion
    <2>2. pc'[u] \in {"auditing", "broken"}
        BY <1>12 DEF AddVersion
    <2>3. HourInv'
        BY <2>1, <2>2 DEF HourInv
    <2>4. OrphansKnown'
        BY <2>1, <2>2 DEF OrphansKnown, Latest
    <2> QED
        BY <2>3, <2>4
<1>13. ASSUME NEW u \in Uploads, Audit(u)
      PROVE  HourInv' /\ OrphansKnown'
    <2>1. HourInv'
        BY <1>13 DEF Audit, RowInv, HourInv
    <2>2. OrphansKnown'
        BY <1>13 DEF Audit, Latest, RowInv, HourInv, OrphansKnown
    <2> QED
        BY <2>1, <2>2
<1>14. ASSUME NEW u \in Uploads, ReadBytes(u)
      PROVE  HourInv' /\ OrphansKnown'
    <2>1. HourInv'
        BY <1>14 DEF ReadBytes, RowInv, HourInv
    <2>2. OrphansKnown'
        BY <1>14 DEF ReadBytes, Latest, RowInv, HourInv, OrphansKnown
    <2> QED
        BY <2>1, <2>2
<1>15. ASSUME NEW u \in Uploads, SetSummary(u)
      PROVE  HourInv' /\ OrphansKnown'
    <2>1. HourInv'
        BY <1>15 DEF SetSummary, RowInv, HourInv
    <2>2. OrphansKnown'
        BY <1>15 DEF SetSummary, Latest, RowInv, HourInv, OrphansKnown
    <2> QED
        BY <2>1, <2>2
<1>16. ASSUME NEW u \in Uploads, Age(u)
      PROVE  HourInv' /\ OrphansKnown'
    <2>1. HourInv'
        BY <1>16 DEF Age, RowInv, HourInv
    <2>2. OrphansKnown'
        BY <1>16 DEF Age, Latest, RowInv, HourInv, OrphansKnown
    <2> QED
        BY <2>1, <2>2
<1>17. ASSUME NEW u \in Uploads, Trash(u)
      PROVE  HourInv' /\ OrphansKnown'
    <2>1. HourInv'
        BY <1>17 DEF Trash, Shown, RowInv, HourInv
    <2>2. OrphansKnown'
        BY <1>17 DEF Trash, Shown, Latest, RowInv, HourInv, OrphansKnown
    <2> QED
        BY <2>1, <2>2
<1>18. ASSUME NEW u \in Uploads, NEW n \in Names, Rename(u, n)
      PROVE  HourInv' /\ OrphansKnown'
    <2>1. HourInv'
        BY <1>18 DEF Rename, Shown, RowInv, HourInv
    <2>2. OrphansKnown'
        BY <1>18 DEF Rename, Shown, Latest, RowInv, HourInv, OrphansKnown
    <2> QED
        BY <2>1, <2>2
<1>19. ASSUME NEW l \in Listings, Select(l)
      PROVE  HourInv' /\ OrphansKnown'
    <2>1. HourInv'
        BY <1>19 DEF Select, Stale, RowInv, HourInv
    <2>2. OrphansKnown'
        BY <1>19 DEF Select, Stale, Latest, RowInv, HourInv, OrphansKnown
    <2> QED
        BY <2>1, <2>2
<1>20. ASSUME NEW l \in Listings, Drop(l)
      PROVE  HourInv' /\ OrphansKnown'
    <2>1. /\ UNCHANGED <<old, puts, pc, target, found, missed>>
          /\ sweeping[l] = "found" /\ sweeping' = [sweeping EXCEPT ![l] = "dropped"]
          /\ status' = [f \in Uploads |-> IF f \in found[l] THEN "absent" ELSE status[f]]
        BY <1>20 DEF Drop
    <2>2. \A w \in Uploads : status[w] = "ready" => w \notin found[l]
        BY DEF HourInv
    <2>3. \A w \in Uploads : pc[w] \in {"putting", "stored"} => w \notin found[l]
        BY DEF HourInv
    <2>4. HourInv'
        BY <2>1, <2>2, <2>3 DEF HourInv
    <2>5. OrphansKnown'
        BY <2>1 DEF OrphansKnown, Latest
    <2> QED
        BY <2>4, <2>5
<1>21. ASSUME NEW l \in Listings, Remove(l)
      PROVE  HourInv' /\ OrphansKnown'
    <2>1. PICK f \in found[l] :
              /\ \/ Written(f, Removed) /\ UNCHANGED missed
                 \/ Latest(f) = Removed /\ UNCHANGED <<puts, missed>>
                 \/ missed' = missed \cup {f} /\ UNCHANGED puts
              /\ found' = [found EXCEPT ![l] = @ \ {f}]
        BY <1>21 DEF Remove
    <2>2. /\ UNCHANGED <<status, old, pc, target>>
          /\ sweeping[l] = "dropped"
          /\ sweeping' = [sweeping EXCEPT ![l] = IF found'[l] = {} THEN "no" ELSE "dropped"]
        BY <1>21 DEF Remove
    <2>3. /\ f \in Uploads
          /\ \A g \in Uploads \ {f} : puts'[g] = puts[g] /\ Latest(g)' = Latest(g)
          /\ missed \subseteq missed' /\ (Latest(f)' = Removed \/ f \in missed')
        <3>1. f \in Uploads /\ Removed \in Uploads \cup {Removed}
            OBVIOUS
        <3>2. CASE Written(f, Removed) /\ UNCHANGED missed
            BY <3>1, <3>2, WriteOne
        <3>3. CASE UNCHANGED puts /\ ((Latest(f) = Removed /\ UNCHANGED missed) \/ missed' = missed \cup {f})
            BY <3>1, <3>3 DEF Latest
        <3> QED
            BY <2>1, <3>2, <3>3
    <2>4. pc[f] \in Over
        BY DEF HourInv
    <2>5. found'[l] = found[l] \ {f} /\ \A m \in Listings \ {l} : found'[m] = found[m]
        BY <2>1
    <2>6. HourInv'
        <3>1. \A m \in Listings : found'[m] \subseteq found[m]
            BY <2>5
        <3> QED
            BY <2>2, <2>3, <2>4, <3>1 DEF HourInv
    <2>7. OrphansKnown'
        <3>1. ASSUME NEW m \in Listings, sweeping[m] = "dropped", NEW g \in found[m], g # f
              PROVE  sweeping'[m] = "dropped" /\ g \in found'[m]
            BY <2>2, <2>5, <3>1
        <3> QED
            BY <2>2, <2>3, <3>1 DEF OrphansKnown
    <2> QED
        BY <2>6, <2>7
<1>22. ASSUME Crash
      PROVE  HourInv' /\ OrphansKnown'
    <2>1. /\ UNCHANGED <<status, old, puts, target>>
          /\ pc' = [w \in Uploads |-> IF pc[w] \in Writing \cup After THEN "lost" ELSE pc[w]]
          /\ found' = [l \in Listings |-> {}]
          /\ missed' = missed \cup {w \in Uploads : pc[w] = "discarding"}
                       \cup UNION {found[l] : l \in {m \in Listings : sweeping[m] = "dropped"}}
        BY <1>22 DEF Crash
    <2>2. HourInv'
        <3>1. \A w \in Uploads : pc[w] \in Over => pc'[w] = pc[w]
            BY <2>1
        <3>2. \A w \in Uploads : pc'[w] \notin {"putting", "stored"}
            BY <2>1
        <3> QED
            BY <2>1, <3>1, <3>2 DEF HourInv
    <2>3. \A f \in Uploads, l \in Listings : sweeping[l] = "dropped" /\ f \in found[l] => f \in missed'
        BY <2>1
    <2>4. \A f \in Uploads : pc[f] = "discarding" \/ f \in missed => f \in missed'
        BY <2>1
    <2>5. OrphansKnown'
        BY <2>1, <2>3, <2>4 DEF OrphansKnown, Latest
    <2> QED
        BY <2>2, <2>5
<1>23. CASE UNCHANGED vars
    BY <1>23 DEF vars, HourInv, OrphansKnown, Latest
<1>24. ASSUME NEW u \in Uploads, LoadName(u)
      PROVE  HourInv' /\ OrphansKnown'
    <2>1. HourInv'
        BY <1>24 DEF LoadName, Shown, RowInv, HourInv
    <2>2. OrphansKnown'
        BY <1>24 DEF LoadName, Shown, Latest, RowInv, HourInv, OrphansKnown
    <2> QED
        BY <2>1, <2>2
<1> QED
    BY <1>1, <1>2, <1>3, <1>4, <1>5, <1>6, <1>7, <1>8, <1>9, <1>10, <1>11, <1>12, <1>13, <1>14,
       <1>15, <1>16, <1>17, <1>18, <1>19, <1>20, <1>21, <1>22, <1>23, <1>24 DEF Next, Handler, Store,
       Summarize, Sweep

LEMMA HourAlways ==
    ASSUME ~SlowUploads
    PROVE  Spec => [](Inv /\ HourInv /\ OrphansKnown)
<1>1. Init => HourInv /\ OrphansKnown
    BY DEF Init, HourInv, OrphansKnown, Latest
<1>2. Inv /\ HourInv /\ OrphansKnown /\ [Next]_vars => HourInv' /\ OrphansKnown'
    BY TypeShapes, HourStep DEF Inv
<1> QED
    BY <1>1, <1>2, InitInv, StepInv, PTL DEF Spec

\* As long as no upload outlives its hour, bytes without a row are about to be
\* removed, or their removal failed or died with the process (_sweep and
\* upload_file, api/routes/files.py:79 and :244).
THEOREM Orphans ==
    ASSUME ~SlowUploads
    PROVE  Spec => []OrphansKnown
BY HourAlways, PTL

\* As long as no upload outlives its hour, no sweep, failure or restart takes
\* the row of a file that was shown (sweep_pending, repositories/files.py:250).
THEOREM ReadyKept ==
    ASSUME ~SlowUploads
    PROVE  Spec => ReadyStays
<1>1. Inv /\ HourInv /\ [Next]_vars => [\A f \in Uploads : status[f] = "ready" => status'[f] = "ready"]_vars
    <2> SUFFICES ASSUME Inv, HourInv, Next, NEW f \in Uploads, status[f] = "ready"
                 PROVE  status'[f] = "ready"
        OBVIOUS
    <2> USE DEF columns, handler, sweep, counters
    <2>1. Shapes /\ RowInv
        BY TypeShapes DEF Inv
    <2>2. ASSUME NEW u \in Uploads, Reserve(u)
          PROVE  status'[f] = "ready"
        BY <2>1, <2>2 DEF Reserve, Shapes, RowInv, Early
    <2>3. ASSUME NEW u \in Uploads, PutRefused(u) \/ PutUnversioned(u)
          PROVE  status'[f] = "ready"
        <3>1. pc[u] = "putting" /\ status' = Abandoned(u)
            BY <2>3 DEF PutRefused, PutUnversioned
        <3>2. f # u
            BY <2>1, <3>1 DEF RowInv, Beyond
        <3> QED
            BY <2>1, <3>1, <3>2 DEF Abandoned, Shapes
    <2>4. ASSUME NEW u \in Uploads, Finalize(u)
          PROVE  status'[f] = "ready"
        BY <2>1, <2>4 DEF Finalize, Shapes
    <2>5. ASSUME NEW l \in Listings, Drop(l)
          PROVE  status'[f] = "ready"
        BY <2>1, <2>5 DEF Drop, Shapes, HourInv
    <2>6. CASE UNCHANGED status
        BY <2>6
    <2> QED
        BY <2>2, <2>3, <2>4, <2>5, <2>6 DEF Next, Handler, Store, Summarize, Sweep, Find, Weigh,
           Claim, Put, PutUnreachable, Discard, Number, AddVersion, Audit, ReadBytes, SetSummary,
           Age, Trash, LoadName, Rename, Select, Remove, Crash
<1> QED
    BY <1>1, HourAlways, PTL DEF Spec, ReadyStays

-----------------------------------------------------------------------------
(* The files the owner sees                                                *)

\* Who made a version is past making it, and made it of the file it wrote to:
\* an upload makes one version at most.
MadeInv ==
    \A f \in Uploads : \A v \in versions[f] : target[v.by] = f /\ pc[v.by] \in Beyond

LEMMA MadeStep == Shapes /\ RowInv /\ MadeInv /\ [Next]_vars => MadeInv'
<1> SUFFICES ASSUME Shapes, RowInv, MadeInv, [Next]_vars, NEW f \in Uploads, NEW v \in versions'[f]
             PROVE  target'[v.by] = f /\ pc'[v.by] \in Beyond
    BY DEF MadeInv
<1> USE DEF columns, handler, sweep, counters, Goto, Beyond
<1>1. ASSUME NEW w \in Uploads, pc[w] \in Beyond
      PROVE  target'[w] = target[w] /\ pc'[w] \in Beyond
    <2>1. CASE UNCHANGED vars
        BY <1>1, <2>1 DEF vars
    <2>2. CASE Crash
        BY <1>1, <2>2 DEF Crash, Shapes
    <2>3. ASSUME NEW u \in Uploads, Find(u)
          PROVE  target'[w] = target[w] /\ pc'[w] \in Beyond
        BY <1>1, <2>3 DEF Find, Shapes
    <2>4. ASSUME NEW u \in Uploads, Handler(u) \/ Summarize(u)
          PROVE  target'[w] = target[w] /\ pc'[w] \in Beyond
        <3>1. UNCHANGED target
            BY <2>4 DEF Handler, Store, Summarize, Weigh, Claim, Reserve, Put, PutRefused,
               PutUnreachable, PutUnversioned, Discard, Finalize, Number, AddVersion, Audit,
               ReadBytes, SetSummary
        <3>2. CASE u # w
            <4>1. \E label : pc' = [pc EXCEPT ![u] = label]
                BY <2>4 DEF Handler, Store, Summarize, Weigh, Claim, Reserve, Put, PutRefused,
                   PutUnreachable, PutUnversioned, Discard, Finalize, Number, AddVersion, Audit,
                   ReadBytes, SetSummary
            <4> QED
                BY <1>1, <3>1, <3>2, <4>1 DEF Shapes
        <3>3. CASE u = w
            <4>1. Audit(w) \/ ReadBytes(w) \/ SetSummary(w)
                BY <1>1, <2>4, <3>3 DEF Handler, Store, Summarize, Weigh, Claim, Reserve, Put,
                   PutRefused, PutUnreachable, PutUnversioned, Discard, Finalize, Number, AddVersion
            <4> QED
                BY <1>1, <3>1, <4>1 DEF Audit, ReadBytes, SetSummary, Shapes
        <3> QED
            BY <3>2, <3>3
    <2>5. CASE UNCHANGED <<target, pc>>
        BY <1>1, <2>5
    <2> QED
        BY <2>1, <2>2, <2>3, <2>4, <2>5 DEF Next, Sweep, Age, Trash, LoadName, Rename, Select, Drop, Remove
<1>2. v \in versions[f] => v.by \in Uploads
    BY DEF Shapes, Version
<1>3. CASE v \in versions[f]
    BY <1>1, <1>2, <1>3 DEF MadeInv
<1>4. CASE v \notin versions[f]
    <2>1. ASSUME NEW u \in Uploads, Finalize(u)
          PROVE  target'[v.by] = f /\ pc'[v.by] \in Beyond
        <3>1. f = u /\ v = [no |-> 1, by |-> u]
            BY <1>4, <2>1 DEF Finalize, Shapes
        <3>2. v.by = u
            BY <3>1
        <3>3. status[u] = "pending" /\ ~Taken(u, name[u])
            BY <1>4, <2>1 DEF Finalize
        <3> QED
            BY <2>1, <3>1, <3>2, <3>3 DEF Finalize, Fresh, Shapes
    <2>2. ASSUME NEW u \in Uploads, AddVersion(u)
          PROVE  target'[v.by] = f /\ pc'[v.by] \in Beyond
        <3>1. status[target[u]] # "absent" /\ number[u] \notin Numbers(target[u])
            BY <1>4, <2>2 DEF AddVersion
        <3>2. f = target[u] /\ v = [no |-> number[u], by |-> u]
            <4>1. target[u] \in Uploads
                BY DEF Shapes
            <4>2. versions' = [versions EXCEPT ![target[u]] =
                                   @ \cup {[no |-> number[u], by |-> u]}]
                BY <2>2, <3>1 DEF AddVersion
            <4> QED
                BY <1>4, <4>1, <4>2 DEF Shapes
        <3>3. v.by = u
            BY <3>2
        <3> QED
            BY <2>2, <3>1, <3>2, <3>3 DEF AddVersion, Shapes
    <2>3. ASSUME NEW l \in Listings, Drop(l)
          PROVE  FALSE
        BY <1>4, <2>3 DEF Drop
    <2>4. CASE UNCHANGED versions
        BY <1>4, <2>4
    <2> QED
        BY <2>1, <2>2, <2>3, <2>4 DEF Next, Handler, Store, Summarize, Sweep, Find, Weigh, Claim,
           Reserve, Put, PutRefused, PutUnreachable, PutUnversioned, Discard, Number, Audit,
           ReadBytes, SetSummary, Age, Trash, LoadName, Rename, Select, Remove, Crash, vars
<1> QED
    BY <1>3, <1>4

LEMMA MadeAlways == Spec => [](Inv /\ MadeInv)
<1>1. Init => MadeInv
    BY DEF Init, MadeInv
<1>2. Inv /\ MadeInv /\ [Next]_vars => MadeInv'
    BY TypeShapes, MadeStep DEF Inv
<1> QED
    BY <1>1, <1>2, InitInv, StepInv, PTL DEF Spec

\* What was written to a key whose bytes are there can be read.
LEMMA InBucket ==
    ASSUME NEW f \in Uploads, NEW u \in Uploads, Latest(f) # Removed, Holds(f, u)
    PROVE  u \in Bucket[f]
<1>1. u \in {puts[f][i] : i \in DOMAIN puts[f]} \ {Removed}
    BY NobodyAssumption DEF Holds
<1> QED
    BY <1>1 DEF Bucket

LEMMA SameBucket == UNCHANGED puts => UNCHANGED Bucket
BY DEF Bucket, Latest

\* A write to one key changes what can be read there and nowhere else.
LEMMA OneBucket ==
    ASSUME Shapes, NEW f \in Uploads, NEW x \in Uploads \cup {Removed}, Written(f, x)
    PROVE  Bucket' = [Bucket EXCEPT ![f] = Bucket'[f]]
<1>1. \A g \in Uploads \ {f} : puts'[g] = puts[g] /\ Latest(g)' = Latest(g)
    BY WriteOne
<1>2. \A g \in Uploads \ {f} : Bucket'[g] = Bucket[g]
    BY <1>1 DEF Bucket
<1>3. Bucket = [g \in Uploads |-> Bucket[g]] /\ Bucket' = [g \in Uploads |-> Bucket'[g]]
    BY DEF Bucket
<1> QED
    BY <1>2, <1>3

\* Bytes that arrive join those that are there.
LEMMA BytesArrive ==
    ASSUME Shapes, NEW f \in Uploads, NEW u \in Uploads, Written(f, u)
    PROVE  Bucket[f] \cup {u} \subseteq Bucket'[f]
<1>1. Latest(f)' = u /\ u # Removed
    BY WriteOne, NobodyAssumption
<1>2. Bucket'[f] = {puts'[f][i] : i \in DOMAIN puts'[f]} \ {Removed}
    BY <1>1 DEF Bucket
<1>3. \A y : Holds(f, y) => Holds(f, y)'
    BY WriteOne
<1>4. Holds(f, u)'
    BY WriteOne
<1>5. \A y \in Bucket[f] : Holds(f, y) /\ y # Removed
    BY DEF Bucket, Holds
<1>6. \A y : Holds(f, y)' /\ y # Removed => y \in Bucket'[f]
    BY <1>2 DEF Holds
<1> QED
    BY <1>1, <1>3, <1>4, <1>5, <1>6

\* A removal leaves nothing to read.
LEMMA BytesGone ==
    ASSUME Shapes, NEW f \in Uploads, Written(f, Removed)
    PROVE  Bucket' = [Bucket EXCEPT ![f] = {}]
<1>1. Latest(f)' = Removed
    BY WriteOne
<1>2. Bucket'[f] = {}
    BY <1>1 DEF Bucket
<1> QED
    BY <1>2, OneBucket

LEMMA DriveInit == Init => Files!Init
<1> SUFFICES ASSUME Init
             PROVE  Files!Init
    OBVIOUS
<1>1. Listed = {}
    BY DEF Init, Listed
<1>2. Bucket = [f \in Uploads |-> {}]
    BY DEF Init, Bucket, Latest
<1>3. name \in [Uploads -> Names]
    BY DEF Init
<1> QED
    BY <1>1, <1>2, <1>3 DEF Files!Init, Init

\* A reservation becomes a file: nothing else can make it one.
LEMMA AppearSeen ==
    ASSUME Inv, MadeInv, NEW u \in Uploads, Finalize(u), status[u] = "pending", ~Taken(u, name[u])
    PROVE  Files!Appear(u)
<1>1. Shapes /\ RowInv /\ BytesInv /\ VersionInv
    BY TypeShapes DEF Inv, NumberInv
<1>2. /\ pc[u] = "stored" /\ target[u] = u
      /\ status' = [status EXCEPT ![u] = "ready"]
      /\ versions' = [versions EXCEPT ![u] = {[no |-> 1, by |-> u]}]
      /\ UNCHANGED <<trashed, name, puts>>
    BY DEF Finalize, Fresh
<1>3. u \notin Listed /\ Listed' = Listed \cup {u}
    BY <1>1, <1>2 DEF Listed, Shapes
<1>4. Files!Free(name[u])
    BY DEF Taken, Shown, Files!Free, Files!Shown, Listed
<1>5. u \in Bucket[u]
    <2>1. Holds(u, u)
        BY <1>1, <1>2 DEF BytesInv
    <2>2. puts[u] # <<>>
        <3>1. CASE puts[u] = <<>>
            <4>1. DOMAIN puts[u] = {}
                BY <3>1
            <4> QED
                BY <2>1, <4>1 DEF Holds
        <3> QED
            BY <3>1
    <2>3. Latest(u) # Removed
        BY <1>1, <2>2 DEF BytesInv
    <2> QED
        BY <2>1, <2>3, InBucket
<1>6. ~Files!HasVersion(u)
    BY <1>2 DEF Files!HasVersion, MadeInv, Beyond
<1>7. versions[u] = {}
    BY <1>1 DEF VersionInv
<1>8. versions' = [versions EXCEPT ![u] = @ \cup {[no |-> 1, by |-> u]}]
    BY <1>2, <1>7
<1>9. {v.no : v \in versions[u]} = 1 .. 1 - 1
    BY <1>7
<1>10. Files!Version(u, 1, u)
    BY <1>5, <1>6, <1>8, <1>9 DEF Files!Version
<1>11. UNCHANGED <<trashed, name, Bucket>>
    BY <1>2, SameBucket
<1> QED
    BY <1>3, <1>4, <1>10, <1>11 DEF Files!Appear

\* The version an upload adds is the next one, whatever it read before.
LEMMA ReviseSeen ==
    ASSUME Inv, MadeInv, NEW u \in Uploads, AddVersion(u),
           status[target[u]] # "absent", number[u] \notin Numbers(target[u])
    PROVE  Files!Revise(target[u])
<1>1. Shapes /\ RowInv /\ BytesInv /\ VersionInv /\ NextInv
    BY TypeShapes DEF Inv, NumberInv
<1>2. PICK f \in Uploads : f = target[u]
    BY <1>1 DEF Shapes
<1> DEFINE new == [no |-> number[u], by |-> u]
<1>3. /\ pc[u] = "numbered"
      /\ versions' = [versions EXCEPT ![f] = @ \cup {new}]
      /\ UNCHANGED <<status, trashed, name, puts>>
    BY <1>2 DEF AddVersion
<1>4. status[f] = "ready"
    <2>1. target[u] # u
        BY <1>1, <1>3 DEF RowInv
    <2>2. status[f] # "pending"
        BY <1>1, <1>2, <2>1 DEF RowInv
    <2>3. status[f] \in {"absent", "pending", "ready"}
        BY <1>1 DEF Shapes
    <2> QED
        BY <1>2, <2>2, <2>3
<1>5. f \in Listed /\ UNCHANGED Listed
    BY <1>3, <1>4 DEF Listed
<1>6. u \in Bucket[f]
    <2>1. Holds(f, u)
        BY <1>1, <1>2, <1>3 DEF BytesInv
    <2>2. puts[f] # <<>>
        <3>1. CASE puts[f] = <<>>
            <4>1. DOMAIN puts[f] = {}
                BY <3>1
            <4> QED
                BY <2>1, <4>1 DEF Holds
        <3> QED
            BY <3>1
    <2>3. Latest(f) # Removed
        BY <1>1, <1>4, <2>2 DEF BytesInv
    <2> QED
        BY <2>1, <2>3, InBucket
<1>7. ~Files!HasVersion(u)
    BY <1>3 DEF Files!HasVersion, MadeInv, Beyond
<1>8. Numbers(f) = 1 .. number[u] - 1
    <2>1. PICK n \in Nat : Numbers(f) = 1 .. n
        BY <1>1 DEF VersionInv
    <2>2. Highest(f) = n
        BY <2>1, HighestIs
    <2>3. number[u] \in 1 .. n + 1 /\ number[u] \notin 1 .. n
        BY <1>1, <1>2, <1>3, <1>4, <2>1, <2>2 DEF NextInv
    <2>4. number[u] = n + 1
        BY <2>3, NextOne
    <2>5. n = number[u] - 1
        BY <2>4
    <2> QED
        BY <2>1, <2>5
<1>9. new.no = number[u] /\ new.by = u
    OBVIOUS
<1>10. Files!Version(f, number[u], u)
    BY <1>3, <1>6, <1>7, <1>8 DEF Files!Version, Numbers
<1>11. new \in versions'[f]
    BY <1>1, <1>3 DEF Shapes
<1>12. UNCHANGED <<trashed, name, Bucket>>
    BY <1>3, SameBucket
<1> HIDE DEF new
<1>13. \E v \in versions'[f] : Files!Version(f, v.no, v.by)
    BY <1>9, <1>10, <1>11
<1> QED
    BY <1>2, <1>5, <1>12, <1>13 DEF Files!Revise

\* Bytes reach the bucket before any version shows them.
LEMMA StoreSeen ==
    ASSUME Shapes, NEW f \in Uploads, NEW u \in Uploads, Written(f, u),
           UNCHANGED <<Listed, trashed, name, versions>>
    PROVE  Files!Store(f, u)
BY OneBucket, BytesArrive DEF Files!Store

\* What is taken out of the bucket is of no listed file.
LEMMA RemovalSeen ==
    ASSUME Shapes, NEW f \in Uploads, Written(f, Removed), status[f] = "absent",
           UNCHANGED <<status, trashed, name, versions>>
    PROVE  Files!Remove(f)
<1>1. f \notin Listed /\ UNCHANGED Listed
    BY DEF Listed
<1> QED
    BY <1>1, BytesGone DEF Files!Remove

\* An upload still at the bucket has no listed row: a failure hides nothing.
LEMMA StillListed ==
    ASSUME Shapes, RowInv, NEW u \in Uploads, pc[u] = "putting",
           status' = Abandoned(u) \/ UNCHANGED status
    PROVE  UNCHANGED Listed
<1>1. status[u] # "ready"
    BY DEF RowInv, Beyond
<1>2. CASE status' = Abandoned(u)
    BY <1>1, <1>2 DEF Abandoned, Fresh, Listed, Shapes
<1>3. CASE UNCHANGED status
    BY <1>3 DEF Listed
<1> QED
    BY <1>2, <1>3

\* The sweep's DELETE takes listed files only from an upload that was too slow.
LEMMA DropSeen ==
    ASSUME Inv, SlowUploads \/ HourInv, NEW l \in Listings, Drop(l)
    PROVE  Files!Lose \/ UNCHANGED Files!vars
<1>1. Shapes /\ VersionInv
    BY TypeShapes DEF Inv, NumberInv
<1>2. /\ status' = [f \in Uploads |-> IF f \in found[l] THEN "absent" ELSE status[f]]
      /\ versions' = [f \in Uploads |-> IF f \in found[l] THEN {} ELSE versions[f]]
      /\ UNCHANGED <<trashed, name, puts>>
    BY DEF Drop
<1>3. Listed' = Listed \ found[l]
    BY <1>2 DEF Listed
<1>4. \A f \in Uploads : f \notin Listed => versions[f] = {}
    BY <1>1 DEF VersionInv, Listed
<1>5. versions' = [f \in Uploads |-> IF f \in Listed \ Listed' THEN {} ELSE versions[f]]
    <2>1. \A f \in Uploads : versions'[f] = IF f \in Listed \ Listed' THEN {} ELSE versions[f]
        BY <1>2, <1>3, <1>4
    <2> QED
        BY <1>2, <2>1
<1>6. UNCHANGED <<trashed, name, Bucket>>
    BY <1>2, SameBucket
<1>7. CASE SlowUploads
    BY <1>3, <1>5, <1>6, <1>7 DEF Files!Lose
<1>8. CASE HourInv
    <2>1. \A f \in Listed : f \notin found[l]
        BY <1>8 DEF HourInv, Listed
    <2>2. UNCHANGED Listed
        BY <1>3, <2>1
    <2>3. versions' = [f \in Uploads |-> versions[f]]
        BY <1>5, <2>2
    <2>4. UNCHANGED versions
        BY <1>1, <2>3 DEF Shapes
    <2> QED
        BY <1>6, <2>2, <2>4 DEF Files!vars
<1> QED
    BY <1>7, <1>8

LEMMA DriveStep ==
    Inv /\ MadeInv /\ (SlowUploads \/ HourInv) /\ [Next]_vars => [Files!Next]_(Files!vars)
<1> SUFFICES ASSUME Inv, MadeInv, SlowUploads \/ HourInv, [Next]_vars
             PROVE  Files!Next \/ UNCHANGED Files!vars
    OBVIOUS
<1> USE DEF columns, handler, sweep, counters
<1>1. Shapes /\ RowInv /\ SweepInv
    BY TypeShapes DEF Inv
<1>2. ASSUME UNCHANGED <<status, trashed, name, versions, puts>>
      PROVE  UNCHANGED Files!vars
    <2>1. UNCHANGED Listed
        BY <1>2 DEF Listed
    <2> QED
        BY <1>2, <2>1, SameBucket DEF Files!vars
<1>3. ASSUME NEW u \in Uploads, Find(u) \/ Weigh(u) \/ Claim(u) \/ Number(u) \/ Audit(u)
                                \/ ReadBytes(u) \/ SetSummary(u) \/ Age(u)
      PROVE  UNCHANGED Files!vars
    <2>1. UNCHANGED <<status, trashed, name, versions, puts>>
        BY <1>3 DEF Find, Weigh, Claim, Number, Audit, ReadBytes, SetSummary, Age
    <2> QED
        BY <1>2, <2>1
<1>4. ASSUME NEW u \in Uploads, Reserve(u)
      PROVE  UNCHANGED Files!vars
    <2>1. status[u] = "absent" /\ status' = [status EXCEPT ![u] = "pending"]
        BY <1>1, <1>4 DEF Reserve, RowInv, Early
    <2>2. UNCHANGED Listed
        BY <1>1, <2>1 DEF Listed, Shapes
    <2>3. UNCHANGED <<trashed, name, versions, puts>>
        BY <1>4 DEF Reserve
    <2> QED
        BY <2>2, <2>3, SameBucket DEF Files!vars
<1>5. ASSUME NEW u \in Uploads, Store(u)
      PROVE  Files!Next \/ UNCHANGED Files!vars
    <2>1. pc[u] = "putting" /\ target[u] \in Uploads
        BY <1>1, <1>5 DEF Store, Put, PutRefused, PutUnreachable, PutUnversioned, Shapes
    <2>2. UNCHANGED <<trashed, name, versions>> /\ (status' = Abandoned(u) \/ UNCHANGED status)
        BY <1>5 DEF Store, Put, PutRefused, PutUnreachable, PutUnversioned
    <2>3. UNCHANGED Listed
        BY <1>1, <2>1, <2>2, StillListed
    <2>4. CASE Written(target[u], u)
        <3>1. Files!Store(target[u], u)
            BY <1>1, <2>1, <2>2, <2>3, <2>4, StoreSeen
        <3> QED
            BY <2>1, <3>1 DEF Files!Next
    <2>5. CASE UNCHANGED puts
        BY <2>2, <2>3, <2>5, SameBucket DEF Files!vars
    <2> QED
        BY <1>5, <2>4, <2>5 DEF Store, Put, PutRefused, PutUnreachable, PutUnversioned
<1>6. ASSUME NEW u \in Uploads, Discard(u)
      PROVE  Files!Next \/ UNCHANGED Files!vars
    <2>1. status[u] = "absent" /\ UNCHANGED <<status, trashed, name, versions>>
        BY <1>1, <1>6 DEF Discard, RowInv
    <2>2. CASE Written(u, Removed)
        <3>1. Files!Remove(u)
            BY <1>1, <2>1, <2>2, RemovalSeen
        <3> QED
            BY <3>1 DEF Files!Next
    <2>3. CASE UNCHANGED puts
        BY <1>2, <2>1, <2>3
    <2> QED
        BY <1>6, <2>2, <2>3 DEF Discard
<1>7. ASSUME NEW u \in Uploads, Finalize(u)
      PROVE  Files!Next \/ UNCHANGED Files!vars
    <2>1. CASE status[u] = "pending" /\ ~Taken(u, name[u])
        <3>1. Files!Appear(u)
            BY <1>7, <2>1, AppearSeen
        <3> QED
            BY <3>1 DEF Files!Next
    <2>2. CASE ~(status[u] = "pending" /\ ~Taken(u, name[u]))
        <3>1. UNCHANGED <<status, trashed, name, versions, puts>>
            BY <1>7, <2>2 DEF Finalize
        <3> QED
            BY <1>2, <3>1
    <2> QED
        BY <2>1, <2>2
<1>8. ASSUME NEW u \in Uploads, AddVersion(u)
      PROVE  Files!Next \/ UNCHANGED Files!vars
    <2>1. CASE status[target[u]] # "absent" /\ number[u] \notin Numbers(target[u])
        <3>1. Files!Revise(target[u]) /\ target[u] \in Uploads
            BY <1>1, <1>8, <2>1, ReviseSeen DEF Shapes
        <3> QED
            BY <3>1 DEF Files!Next
    <2>2. CASE ~(status[target[u]] # "absent" /\ number[u] \notin Numbers(target[u]))
        <3>1. UNCHANGED <<status, trashed, name, versions, puts>>
            BY <1>8, <2>2 DEF AddVersion
        <3> QED
            BY <1>2, <3>1
    <2> QED
        BY <2>1, <2>2
<1>9. ASSUME NEW f \in Uploads, Trash(f)
      PROVE  Files!Next
    <2>1. Files!Shown(f)
        BY <1>9 DEF Trash, Shown, Files!Shown, Listed
    <2>2. UNCHANGED <<status, name, versions, puts>> /\ trashed' = trashed \cup {f}
        BY <1>9 DEF Trash
    <2>3. UNCHANGED Listed
        BY <2>2 DEF Listed
    <2>4. Files!Trash(f)
        BY <2>1, <2>2, <2>3, SameBucket DEF Files!Trash
    <2> QED
        BY <2>4 DEF Files!Next
<1>10. ASSUME NEW f \in Uploads, NEW n \in Names, Rename(f, n)
       PROVE  Files!Next
    <2>1. f \in Listed
        BY <1>10 DEF Rename, Listed
    <2>2. Files!Shown(f) => Files!Free(n)
        BY <1>10 DEF Rename, Taken, Shown, Files!Free, Files!Shown, Listed
    <2>3. UNCHANGED <<status, trashed, versions, puts>> /\ name' = [name EXCEPT ![f] = n]
        BY <1>10 DEF Rename
    <2>4. UNCHANGED Listed
        BY <2>3 DEF Listed
    <2>5. Files!Rename(f, n)
        BY <2>1, <2>2, <2>3, <2>4, SameBucket DEF Files!Rename
    <2> QED
        BY <2>5 DEF Files!Next
<1>11. ASSUME NEW l \in Listings, Drop(l)
       PROVE  Files!Next \/ UNCHANGED Files!vars
    BY <1>11, DropSeen DEF Files!Next
<1>12. ASSUME NEW l \in Listings, Remove(l)
       PROVE  Files!Next \/ UNCHANGED Files!vars
    <2>1. PICK f \in found[l] : Written(f, Removed) \/ UNCHANGED puts
        BY <1>12 DEF Remove
    <2>2. f \in Uploads /\ status[f] = "absent" /\ UNCHANGED <<status, trashed, name, versions>>
        BY <1>1, <1>12 DEF Remove, SweepInv, Shapes
    <2>3. CASE Written(f, Removed)
        <3>1. Files!Remove(f)
            BY <1>1, <2>2, <2>3, RemovalSeen
        <3> QED
            BY <2>2, <3>1 DEF Files!Next
    <2>4. CASE UNCHANGED puts
        BY <1>2, <2>2, <2>4
    <2> QED
        BY <2>1, <2>3, <2>4
<1>13. ASSUME Crash \/ (\E l \in Listings : Select(l)) \/ UNCHANGED vars
       PROVE  UNCHANGED Files!vars
    <2>1. UNCHANGED <<status, trashed, name, versions, puts>>
        BY <1>13 DEF Crash, Select, vars
    <2> QED
        BY <1>2, <2>1
<1>14. ASSUME NEW f \in Uploads, LoadName(f)
       PROVE  UNCHANGED Files!vars
    <2>1. UNCHANGED <<status, trashed, name, versions, puts>>
        BY <1>14 DEF LoadName
    <2> QED
        BY <1>2, <2>1
<1> QED
    BY <1>3, <1>4, <1>5, <1>6, <1>7, <1>8, <1>9, <1>10, <1>11, <1>12, <1>13, <1>14 DEF Next, Handler,
       Summarize, Sweep

\* Whatever uploads, sweeps and the owner do, in any order, whatever fails and
\* whenever the process restarts, what can be seen of the files is a behaviour
\* of Drive: a file appears in one step with its bytes and a name of its own
\* (finalize, repositories/files.py:172), every version is the next one with its
\* bytes (add_version, repositories/files.py:188), and the rows and the bytes of
\* a listed file go only when an upload outlived the hour of its reservation
\* (sweep_pending, repositories/files.py:250).
THEOREM Implements == Spec => ImplementsDrive
<1>1. Spec => [](SlowUploads \/ HourInv)
    <2>1. CASE SlowUploads
        <3>1. TRUE => SlowUploads \/ HourInv
            BY <2>1
        <3> QED
            BY <3>1, PTL
    <2>2. CASE ~SlowUploads
        <3>1. Spec => []HourInv
            BY <2>2, HourAlways, PTL
        <3> QED
            BY <3>1, PTL
    <2> QED
        BY <2>1, <2>2
<1>2. Inv /\ MadeInv /\ (SlowUploads \/ HourInv) /\ [Next]_vars => [Files!Next]_(Files!vars)
    BY DriveStep
<1> QED
    BY <1>1, <1>2, DriveInit, MadeAlways, PTL DEF Spec, ImplementsDrive, Files!Spec

=============================================================================
