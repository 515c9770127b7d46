-------------------------------- MODULE Drive --------------------------------
(***************************************************************************)
(* What the owner of some files is promised, without rows, locks, sweeps   *)
(* or restarts: a file appears in one step, under a name no other file     *)
(* shows and with its bytes in the bucket; its versions are added one by   *)
(* one, each with its bytes; and the bytes of a file that is listed, in    *)
(* the trash too, are not taken away. MayLose says whether an upload may   *)
(* outlive the hour of its reservation: a listed file may be lost then,    *)
(* whole, and at no other time.                                            *)
(***************************************************************************)
EXTENDS Naturals

CONSTANTS Uploads, Names, MayLose

VARIABLES
    listed,     \* files with a ready row, in the trash or not
    trashed,    \* files in the trash
    name,       \* file -> its name, or the one it will appear under
    history,    \* file -> its versions, numbered
    bucket      \* file -> uploads whose bytes are there to be read

vars == <<listed, trashed, name, history, bucket>>

Shown(f) == f \in listed \ trashed
Free(n) == ~ \E f \in Uploads : Shown(f) /\ name[f] = n
HasVersion(u) == \E f \in Uploads : \E v \in history[f] : v.by = u

Init ==
    /\ listed = {}
    /\ trashed = {}
    /\ name \in [Uploads -> Names]
    /\ history = [f \in Uploads |-> {}]
    /\ bucket = [f \in Uploads |-> {}]

\* The n-th version of f is what u uploaded: its bytes are there, no other file
\* nor another version of this one is what u uploaded, and none is skipped.
Version(f, n, u) ==
    /\ u \in bucket[f]
    /\ ~HasVersion(u)
    /\ {v.no : v \in history[f]} = 1 .. n - 1
    /\ history' = [history EXCEPT ![f] = @ \cup {[no |-> n, by |-> u]}]

Appear(f) ==
    /\ f \notin listed
    /\ Free(name[f])
    /\ listed' = listed \cup {f}
    /\ Version(f, 1, f)
    /\ UNCHANGED <<trashed, name, bucket>>

Revise(f) ==
    /\ f \in listed
    /\ \E v \in history'[f] : Version(f, v.no, v.by)
    /\ UNCHANGED <<listed, trashed, name, bucket>>

\* A file that is shown gets a name no other shows. One in the trash may get
\* any name, from a request that is older than its delete.
Rename(f, n) ==
    /\ f \in listed
    /\ Shown(f) => Free(n)
    /\ name' = [name EXCEPT ![f] = n]
    /\ UNCHANGED <<listed, trashed, history, bucket>>

Trash(f) ==
    /\ Shown(f)
    /\ trashed' = trashed \cup {f}
    /\ UNCHANGED <<listed, name, history, bucket>>

\* Bytes come before the version that shows them, or for nothing.
Store(f, u) ==
    /\ bucket[f] \cup {u} \subseteq bucket'[f]
    /\ bucket' = [bucket EXCEPT ![f] = bucket'[f]]
    /\ UNCHANGED <<listed, trashed, name, history>>

\* Only what is not listed is removed.
Remove(f) ==
    /\ f \notin listed
    /\ bucket' = [bucket EXCEPT ![f] = {}]
    /\ UNCHANGED <<listed, trashed, name, history>>

Lose ==
    /\ MayLose
    /\ listed' \subseteq listed
    /\ history' = [f \in Uploads |-> IF f \in listed \ listed' THEN {} ELSE history[f]]
    /\ UNCHANGED <<trashed, name, bucket>>

Next ==
    \/ \E f \in Uploads :
           \/ Appear(f) \/ Revise(f) \/ Trash(f) \/ Remove(f)
           \/ \E n \in Names : Rename(f, n)
           \/ \E u \in Uploads : Store(f, u)
    \/ Lose

Spec == Init /\ [][Next]_vars
=============================================================================
