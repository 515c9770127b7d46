----------------------------- MODULE FileUploads -----------------------------
(***************************************************************************)
(* One owner's files: the row in PostgreSQL, the object in the versioned   *)
(* bucket, and everything that touches both: uploads of new and of known   *)
(* names, the quota, the sweep that rides along on every listing, renames, *)
(* deletes, and the summary a background task writes afterwards.           *)
(*                                                                         *)
(* The handlers are plain functions run by a thread pool, so every SQL     *)
(* statement outside a transaction's lock and every call to the bucket is  *)
(* a point where others run. PostgreSQL is at READ COMMITTED: a statement  *)
(* sees what is committed when it starts.                                  *)
(*                                                                         *)
(* A file is named by the upload whose reservation inserted it; a name     *)
(* stands for the pair (folder, lower(name)) of the unique index; an       *)
(* object's content is named by the upload that wrote it.                  *)
(***************************************************************************)
EXTENDS Integers, Sequences, FiniteSets, FiniteSetsExt

CONSTANTS
    Uploads,      \* POST /files requests of the owner
    Names,        \* names the owner uses
    Sizes,        \* sizes in bytes
    Quota,        \* settings.user_quota_bytes
    Listings,     \* requests that list the files, and sweep on their way
    Nobody,       \* no upload: a free lock, a NULL column
    Removed,      \* S3 delete marker
    SlowUploads,  \* a call to the bucket may outlive the hour of a reservation
    MaxFaults,    \* bound: failed calls to the bucket
    MaxCrashes    \* bound: process restarts

ASSUME SizesAssumption == Sizes \subseteq Nat /\ Quota \in Nat
ASSUME NobodyAssumption == {Nobody, Removed} \cap Uploads = {} /\ Nobody # Removed
ASSUME LimitsAssumption ==
    SlowUploads \in BOOLEAN /\ MaxFaults \in Nat /\ MaxCrashes \in Nat

VARIABLES
    wants,      \* upload -> name it gives
    bytes,      \* upload -> size it measured
    status,     \* file -> "absent" (no row), "pending", "ready"
    name,       \* file -> name
    size,       \* file -> size_bytes
    trashed,    \* files with deleted_at
    current,    \* file -> current_version_id, by the upload that wrote it
    summary,    \* file -> upload whose bytes its summary describes
    versions,   \* file -> its file_versions rows
    audited,    \* uploads with an audit_log row
    old,        \* files created more than an hour ago
    puts,       \* file -> writes to its key, oldest first
    lock,       \* holder of pg_advisory_xact_lock for the owner
    pc,         \* upload -> where its handler, then its summary task, stands
    target,     \* upload -> file it writes to
    loaded,     \* upload -> size_bytes of the row find_by_name loaded
    number,     \* upload -> version_no it read
    digest,     \* upload -> bytes its summary task read
    renaming,   \* files that a request to rename them has loaded
    found,      \* listing -> stale reservations it selected
    sweeping,   \* listing -> where its sweep stands
    missed,     \* history: files whose removal from the bucket did not happen
    faults, crashes

columns == <<status, name, size, trashed, current, summary, versions, audited>>
handler == <<wants, bytes, target, loaded, number, digest, renaming>>
sweep == <<found, sweeping, missed>>
counters == <<faults, crashes>>
vars == <<columns, old, puts, lock, pc, handler, sweep, counters>>

Version == [no : Nat \ {0}, by : Uploads]
Writing == {"weighing", "claiming", "claimed", "putting", "stored", "numbered", "discarding",
            "auditing"}
After == {"answered", "summarizing"}
Over == {"refused", "broken", "over", "lost"}

Goto(u, label) == pc' = [pc EXCEPT ![u] = label]

Shown(f) == status[f] = "ready" /\ f \notin trashed
Rows == {f \in Uploads : status[f] # "absent"}
\* The bytes of the files in S, each a pair of a file and an offset.
BytesOf(S) == UNION {{f} \X (1 .. size[f]) : f \in S}
\* FileRepository.used_bytes: pending and trashed rows count.
Used == Cardinality(BytesOf(Rows))
\* An upload is fresh when its name was free: it reserves a row of its own.
Fresh(u) == target[u] = u
Taken(f, n) == \E g \in Uploads \ {f} : Shown(g) /\ name[g] = n
Latest(f) == IF puts[f] = <<>> THEN Removed ELSE puts[f][Len(puts[f])]
Written(f, x) == puts' = [puts EXCEPT ![f] = Append(@, x)]
Numbers(f) == {v.no : v \in versions[f]}
Highest(f) == Max({0} \cup Numbers(f))

-----------------------------------------------------------------------------
Init ==
    /\ wants \in [Uploads -> Names]
    /\ bytes \in [Uploads -> Sizes]
    /\ status = [f \in Uploads |-> "absent"]
    /\ name = wants
    /\ size = [f \in Uploads |-> 0]
    /\ trashed = {}
    /\ current = [f \in Uploads |-> Nobody]
    /\ summary = [f \in Uploads |-> Nobody]
    /\ versions = [f \in Uploads |-> {}]
    /\ audited = {}
    /\ old = {}
    /\ puts = [f \in Uploads |-> <<>>]
    /\ lock = Nobody
    /\ pc = [u \in Uploads |-> "idle"]
    /\ target = [u \in Uploads |-> u]
    /\ loaded = [u \in Uploads |-> 0]
    /\ number = [u \in Uploads |-> 0]
    /\ digest = [u \in Uploads |-> Nobody]
    /\ renaming = {}
    /\ found = [l \in Listings |-> {}]
    /\ sweeping = [l \in Listings |-> "no"]
    /\ missed = {}
    /\ faults = 0
    /\ crashes = 0

-----------------------------------------------------------------------------
(* The quota                                                               *)

\* find_by_name: a live, ready file of that name gets a new version.
Matches(u) == {f \in Uploads : Shown(f) /\ name[f] = wants[u]}

Find(u) ==
    /\ pc[u] = "idle"
    /\ IF Matches(u) = {}
       THEN Goto(u, "claiming") /\ UNCHANGED <<target, loaded>>
       ELSE \E f \in Matches(u) :
                /\ target' = [target EXCEPT ![u] = f]
                /\ loaded' = [loaded EXCEPT ![u] = size[f]]
                /\ Goto(u, "weighing")
    /\ UNCHANGED <<columns, old, puts, lock, wants, bytes, number, digest, renaming, sweep,
                   counters>>

\* _append_version checks the quota without the lock.
Weigh(u) ==
    /\ pc[u] = "weighing"
    /\ Goto(u, IF Used - loaded[u] + bytes[u] > Quota THEN "refused" ELSE "putting")
    /\ UNCHANGED <<columns, old, puts, lock, handler, sweep, counters>>

\* Mutant: no advisory lock.
ClaimUnlocked(u) ==
    /\ pc[u] = "claiming"
    /\ IF Used + bytes[u] > Quota
       THEN Goto(u, "refused")
       ELSE Goto(u, "claimed")
    /\ UNCHANGED <<columns, old, puts, lock, handler, sweep, counters>>

\* reserve takes the lock and reads the total; a refusal rolls back.
Claim(u) ==
    /\ pc[u] = "claiming"
    /\ lock = Nobody
    /\ IF Used + bytes[u] > Quota
       THEN Goto(u, "refused") /\ UNCHANGED lock
       ELSE Goto(u, "claimed") /\ lock' = u
    /\ UNCHANGED <<columns, old, puts, handler, sweep, counters>>

\* Mutant: a session lock, which the commit does not release.
ReserveHolding(u) ==
    /\ pc[u] = "claimed"
    /\ status' = [status EXCEPT ![u] = "pending"]
    /\ size' = [size EXCEPT ![u] = bytes[u]]
    /\ Goto(u, "putting")
    /\ UNCHANGED <<name, trashed, current, summary, versions, audited, old, puts, lock, handler,
                   sweep, counters>>

\* The insert and the commit of reserve, which releases the lock.
Reserve(u) ==
    /\ pc[u] = "claimed"
    /\ status' = [status EXCEPT ![u] = "pending"]
    /\ size' = [size EXCEPT ![u] = bytes[u]]
    /\ lock' = Nobody
    /\ Goto(u, "putting")
    /\ UNCHANGED <<name, trashed, current, summary, versions, audited, old, puts, handler, sweep,
                   counters>>

-----------------------------------------------------------------------------
(* put_object                                                              *)

Put(u) ==
    /\ pc[u] = "putting"
    /\ Written(target[u], u)
    /\ Goto(u, "stored")
    /\ UNCHANGED <<columns, old, lock, handler, sweep, counters>>

Failing == faults < MaxFaults /\ faults' = faults + 1

\* Mutant: a failed version upload abandons the row it found.
AbandonedAny(u) == [status EXCEPT ![target[u]] = "absent"]
\* abandon deletes the row that reserve inserted; a version upload has none.
Abandoned(u) == IF Fresh(u) THEN [status EXCEPT ![u] = "absent"] ELSE status

\* The store answers with an error: S3Error, then abandon.
PutRefused(u) ==
    /\ pc[u] = "putting"
    /\ Failing
    /\ status' = Abandoned(u)
    /\ Goto(u, "refused")
    /\ UNCHANGED <<name, size, trashed, current, summary, versions, audited, old, puts, lock,
                   handler, sweep, crashes>>

\* Mutant: every error abandons the reservation, and none looks for the bytes.
PutUnreachableAbandons(u) ==
    /\ pc[u] = "putting"
    /\ Failing
    /\ Written(target[u], u) \/ UNCHANGED puts
    /\ status' = Abandoned(u)
    /\ Goto(u, "broken")
    /\ UNCHANGED <<name, size, trashed, current, summary, versions, audited, old, lock, handler,
                   sweep, crashes>>

\* The store cannot be reached, or its answer is lost: urllib3's error is no
\* S3Error, so no handler catches it and the reservation stays.
PutUnreachable(u) ==
    /\ pc[u] = "putting"
    /\ Failing
    /\ Written(target[u], u) \/ UNCHANGED puts
    /\ Goto(u, "broken")
    /\ UNCHANGED <<columns, old, lock, handler, sweep, crashes>>

\* The bucket is not versioned: abandon, then remove_object.
PutUnversioned(u) ==
    /\ pc[u] = "putting"
    /\ Failing
    /\ Written(target[u], u)
    /\ status' = Abandoned(u)
    /\ Goto(u, IF Fresh(u) THEN "discarding" ELSE "broken")
    /\ UNCHANGED <<name, size, trashed, current, summary, versions, audited, old, lock, handler,
                   sweep, crashes>>

\* remove_object, its failure suppressed.
Discard(u) ==
    /\ pc[u] = "discarding"
    /\ \/ Written(u, Removed) /\ UNCHANGED <<missed, faults>>
       \/ Failing /\ missed' = missed \cup {u} /\ UNCHANGED puts
    /\ Goto(u, "broken")
    /\ UNCHANGED <<columns, old, lock, handler, found, sweeping, crashes>>

-----------------------------------------------------------------------------
(* finalize, add_version and audit                                         *)

\* Version 1 and the status, in one transaction: it fails if the row was swept
\* or the name was taken meanwhile, and nothing catches that.
Finalize(u) ==
    /\ pc[u] = "stored" /\ Fresh(u)
    /\ IF status[u] = "pending" /\ ~Taken(u, name[u])
       THEN /\ status' = [status EXCEPT ![u] = "ready"]
            /\ versions' = [versions EXCEPT ![u] = {[no |-> 1, by |-> u]}]
            /\ current' = [current EXCEPT ![u] = u]
            /\ Goto(u, "auditing")
       ELSE Goto(u, "broken") /\ UNCHANGED <<status, versions, current>>
    /\ UNCHANGED <<name, size, trashed, summary, audited, old, puts, lock, handler, sweep,
                   counters>>

\* select(max(version_no))
Number(u) ==
    /\ pc[u] = "stored" /\ ~Fresh(u)
    /\ number' = [number EXCEPT ![u] = 1 + Highest(target[u])]
    /\ Goto(u, "numbered")
    /\ UNCHANGED <<columns, old, puts, lock, wants, bytes, target, loaded, digest, renaming,
                   sweep, counters>>

\* The session updates only columns that differ from what it loaded.
Resized(u) == IF bytes[u] = loaded[u] THEN size ELSE [size EXCEPT ![target[u]] = bytes[u]]

\* Mutant: no unique (file_id, version_no).
AddVersionTwice(u) ==
    /\ pc[u] = "numbered"
    /\ IF status[target[u]] # "absent"
       THEN /\ versions' = [versions EXCEPT ![target[u]] = @ \cup {[no |-> number[u], by |-> u]}]
            /\ current' = [current EXCEPT ![target[u]] = u]
            /\ size' = Resized(u)
            /\ Goto(u, "auditing")
       ELSE Goto(u, "broken") /\ UNCHANGED <<versions, current, size>>
    /\ UNCHANGED <<status, name, trashed, summary, audited, old, puts, lock, handler, sweep,
                   counters>>

\* The insert and the update, in one transaction: it fails if the row was swept
\* or another version took the number.
AddVersion(u) ==
    /\ pc[u] = "numbered"
    /\ IF status[target[u]] # "absent" /\ number[u] \notin Numbers(target[u])
       THEN /\ versions' = [versions EXCEPT ![target[u]] = @ \cup {[no |-> number[u], by |-> u]}]
            /\ current' = [current EXCEPT ![target[u]] = u]
            /\ size' = Resized(u)
            /\ Goto(u, "auditing")
       ELSE Goto(u, "broken") /\ UNCHANGED <<versions, current, size>>
    /\ UNCHANGED <<status, name, trashed, summary, audited, old, puts, lock, handler, sweep,
                   counters>>

\* The audit row has a transaction of its own; the answer follows.
Audit(u) ==
    /\ pc[u] = "auditing"
    /\ audited' = audited \cup {u}
    /\ Goto(u, "answered")
    /\ UNCHANGED <<status, name, size, trashed, current, summary, versions, old, puts, lock,
                   handler, sweep, counters>>

-----------------------------------------------------------------------------
(* The summary, after the answer                                           *)

\* material reads the object as it is now; a file of another kind, a failed
\* read or a silent model leaves nothing to say.
ReadBytes(u) ==
    /\ pc[u] = "answered"
    /\ \E d \in {Nobody, Latest(target[u])} \ {Removed} : digest' = [digest EXCEPT ![u] = d]
    /\ Goto(u, "summarizing")
    /\ UNCHANGED <<columns, old, puts, lock, wants, bytes, target, loaded, number, renaming,
                   sweep, counters>>

\* set_summary: an update that matches no row does nothing.
SetSummary(u) ==
    /\ pc[u] = "summarizing"
    /\ summary' = IF status[target[u]] = "absent" THEN summary
                  ELSE [summary EXCEPT ![target[u]] = digest[u]]
    /\ Goto(u, "over")
    /\ UNCHANGED <<status, name, size, trashed, current, versions, audited, old, puts, lock,
                   handler, sweep, counters>>

-----------------------------------------------------------------------------
(* The sweep                                                               *)

\* An hour has passed since the reservation. With SlowUploads FALSE an upload
\* is over by then, one way or another.
Age(f) ==
    /\ status[f] = "pending" /\ f \notin old
    /\ SlowUploads \/ pc[f] \in Over
    /\ old' = old \cup {f}
    /\ UNCHANGED <<columns, puts, lock, pc, handler, sweep, counters>>

\* Mutant: the comparison with the cutoff the wrong way round.
StaleYoung == {f \in Uploads : status[f] = "pending" /\ f \notin old}
Stale == {f \in Uploads : status[f] = "pending" /\ f \in old}

\* The SELECT of sweep_pending. Without a stale row the sweep does nothing.
Select(l) ==
    /\ sweeping[l] = "no"
    /\ Stale # {}
    /\ found' = [found EXCEPT ![l] = Stale]
    /\ sweeping' = [sweeping EXCEPT ![l] = "found"]
    /\ UNCHANGED <<columns, old, puts, lock, pc, handler, missed, counters>>

\* Mutant: the DELETE looks at the status again, the keys were taken before.
DropPending(l) ==
    /\ sweeping[l] = "found"
    /\ status' = [f \in Uploads |-> IF f \in found[l] /\ status[f] = "pending" THEN "absent"
                                    ELSE status[f]]
    /\ sweeping' = [sweeping EXCEPT ![l] = "dropped"]
    /\ UNCHANGED <<name, size, trashed, current, summary, versions, audited, old, puts, lock, pc,
                   handler, found, missed, counters>>

\* DELETE by primary key, versions cascading, and the commit.
Drop(l) ==
    /\ sweeping[l] = "found"
    /\ status' = [f \in Uploads |-> IF f \in found[l] THEN "absent" ELSE status[f]]
    /\ versions' = [f \in Uploads |-> IF f \in found[l] THEN {} ELSE versions[f]]
    /\ sweeping' = [sweeping EXCEPT ![l] = "dropped"]
    /\ UNCHANGED <<name, size, trashed, current, summary, audited, old, puts, lock, pc, handler,
                   found, missed, counters>>

\* remove_object for each key, failures suppressed.
Remove(l) ==
    /\ sweeping[l] = "dropped"
    /\ \E f \in found[l] :
           /\ \/ /\ Latest(f) # Removed
                 /\ Written(f, Removed)
                 /\ UNCHANGED <<missed, faults>>
              \/ Latest(f) = Removed /\ UNCHANGED <<puts, missed, faults>>
              \/ Failing /\ missed' = missed \cup {f} /\ UNCHANGED puts
           /\ found' = [found EXCEPT ![l] = @ \ {f}]
    /\ sweeping' = [sweeping EXCEPT ![l] = IF found'[l] = {} THEN "no" ELSE "dropped"]
    /\ UNCHANGED <<columns, old, lock, pc, handler, crashes>>

-----------------------------------------------------------------------------
(* The owner, and restarts                                                 *)

\* update_file reads the row of a file that is shown. The request writes at any
\* time from then on, and any number like it may have read the row too.
LoadName(f) ==
    /\ Shown(f) /\ f \notin renaming
    /\ renaming' = renaming \cup {f}
    /\ UNCHANGED <<columns, old, puts, lock, pc, wants, bytes, target, loaded, number, digest,
                   sweep, counters>>

\* The UPDATE by primary key of a new name or folder (of two requests, one may
\* give the name and the other the folder). The unique index knows shown files
\* only: to one of them a taken name is refused (409), while a file trashed
\* since it was read is renamed in the trash, to a taken name too.
Rename(f, n) ==
    /\ f \in renaming /\ status[f] = "ready" /\ n # name[f]
    /\ f \in trashed \/ ~Taken(f, n)
    /\ name' = [name EXCEPT ![f] = n]
    /\ UNCHANGED <<status, size, trashed, current, summary, versions, audited, old, puts, lock,
                   pc, handler, sweep, counters>>

\* delete_file: the row is marked, the bytes stay. The row is read first, but a
\* file that is shown stays so until another delete marks it, which is no step.
Trash(f) ==
    /\ Shown(f)
    /\ trashed' = trashed \cup {f}
    /\ UNCHANGED <<status, name, size, current, summary, versions, audited, old, puts, lock, pc,
                   handler, sweep, counters>>

\* Requests, background tasks and sweeps die; an open transaction rolls back.
Crash ==
    /\ crashes < MaxCrashes
    /\ crashes' = crashes + 1
    /\ pc' = [u \in Uploads |-> IF pc[u] \in Writing \cup After THEN "lost" ELSE pc[u]]
    /\ lock' = Nobody
    /\ missed' = missed \cup {u \in Uploads : pc[u] = "discarding"}
                 \cup UNION {found[l] : l \in {m \in Listings : sweeping[m] = "dropped"}}
    /\ found' = [l \in Listings |-> {}]
    /\ sweeping' = [l \in Listings |-> "no"]
    /\ renaming' = {}
    /\ UNCHANGED <<columns, old, puts, wants, bytes, target, loaded, number, digest, faults>>

Store(u) == Put(u) \/ PutRefused(u) \/ PutUnreachable(u) \/ PutUnversioned(u)

Handler(u) ==
    \/ Weigh(u) \/ Claim(u) \/ Reserve(u) \/ Store(u) \/ Discard(u)
    \/ Finalize(u) \/ Number(u) \/ AddVersion(u) \/ Audit(u)

Summarize(u) == ReadBytes(u) \/ SetSummary(u)

Sweep(l) == Select(l) \/ Drop(l) \/ Remove(l)

Next ==
    \/ \E u \in Uploads :
           \/ Find(u) \/ Handler(u) \/ Summarize(u)
           \/ Age(u) \/ Trash(u) \/ LoadName(u)
           \/ \E n \in Names : Rename(u, n)
    \/ \E l \in Listings : Sweep(l)
    \/ Crash

Spec == Init /\ [][Next]_vars

\* Handlers, background tasks and sweeps go on once started; time passes; the
\* owner lists the files again and again. Nobody has to upload.
FairSpec ==
    /\ Spec
    /\ \A u \in Uploads : WF_vars(Handler(u)) /\ WF_vars(Summarize(u)) /\ WF_vars(Age(u))
    /\ \A l \in Listings : WF_vars(Sweep(l))

-----------------------------------------------------------------------------
RowTypes ==
    /\ status \in [Uploads -> {"absent", "pending", "ready"}]
    /\ name \in [Uploads -> Names]
    /\ size \in [Uploads -> Sizes \cup {0}]
    /\ current \in [Uploads -> Uploads \cup {Nobody}]
    /\ summary \in [Uploads -> Uploads \cup {Nobody}]
    /\ versions \in [Uploads -> SUBSET Version]
    /\ trashed \subseteq Uploads /\ audited \subseteq Uploads /\ old \subseteq Uploads

HandlerTypes ==
    /\ wants \in [Uploads -> Names] /\ bytes \in [Uploads -> Sizes]
    /\ pc \in [Uploads -> {"idle"} \cup Writing \cup After \cup Over]
    /\ target \in [Uploads -> Uploads]
    /\ loaded \in [Uploads -> Sizes \cup {0}]
    /\ number \in [Uploads -> Nat]
    /\ digest \in [Uploads -> Uploads \cup {Nobody}]
    /\ lock \in Uploads \cup {Nobody}
    /\ renaming \subseteq Uploads

SweepTypes ==
    /\ found \in [Listings -> SUBSET Uploads]
    /\ sweeping \in [Listings -> {"no", "found", "dropped"}]
    /\ missed \subseteq Uploads
    /\ faults \in 0 .. MaxFaults /\ crashes \in 0 .. MaxCrashes

ObjectTypes == puts \in [Uploads -> Seq(Uploads \cup {Removed})]

\* Every column and every handler's local keeps its type.
TypeOK == RowTypes /\ HandlerTypes /\ SweepTypes /\ ObjectTypes

\* docs/files-feature.md 4.4: "a file is never shown before its bytes exist",
\* nor after the sweep took them: its object is there and its current version
\* is one of the object's.
ShownHasBytes ==
    \A f \in Uploads : status[f] = "ready" =>
        /\ Latest(f) # Removed
        /\ \E i \in DOMAIN puts[f] : puts[f][i] = current[f]

\* Version numbers run from 1 without a gap or a repeat, however many uploads
\* race for the next one, and the current version is the highest.
VersionsNumbered ==
    \A f \in Uploads : status[f] = "ready" =>
        /\ Numbers(f) = 1 .. Highest(f)
        /\ \A v, w \in versions[f] : v.no = w.no => v = w
        /\ [no |-> Highest(f), by |-> current[f]] \in versions[f]

\* The lock of reserve keeps new files within the quota (BR-9): only a second
\* version, whose check takes no lock, may go over it.
NewFilesFitQuota ==
    (\A f \in Uploads : Cardinality(versions[f]) <= 1) => Used <= Quota

\* Bytes that no row points at are always somebody's to remove, unless the
\* removal failed or was cut short.
OrphansKnown ==
    \A f \in Uploads : status[f] = "absent" /\ Latest(f) # Removed =>
        \/ pc[f] = "discarding"
        \/ \E l \in Listings : sweeping[l] = "dropped" /\ f \in found[l]
        \/ f \in missed

\* A file that was ever shown keeps its row, in the trash too, unless an hour
\* passed over its upload.
ReadyStays ==
    [][\A f \in Uploads : status[f] = "ready" => status'[f] = "ready"]_vars

Listed == {f \in Uploads : status[f] = "ready"}

\* What can be read under the key of a file: nothing once it is removed.
Bucket ==
    [f \in Uploads |-> IF Latest(f) = Removed THEN {}
                      ELSE {puts[f][i] : i \in DOMAIN puts[f]} \ {Removed}]

Files == INSTANCE Drive WITH
    listed <- Listed, history <- versions, bucket <- Bucket, MayLose <- SlowUploads

\* Whatever races, fails or dies between the row, the object and the sweep, the
\* owner sees files that appear whole, under names of their own, with versions
\* one after the other and the bytes of every version, and that nothing takes
\* away again but an upload slower than the sweep.
ImplementsDrive == Files!Spec

\* A reservation does not hold the quota for ever: it becomes a file or a
\* listing sweeps it.
ReservationEnds == \A f \in Uploads : status[f] = "pending" ~> status[f] # "pending"

\* No upload waits for ever, for the owner's lock or anything else.
UploadEnds == \A u \in Uploads : pc[u] \in Writing \cup After ~> pc[u] \in Over
=============================================================================
