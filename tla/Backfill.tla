------------------------------ MODULE Backfill -------------------------------
(***************************************************************************)
(* The one-shot that moves legacy objects (<owner>/<name>) to keys of      *)
(* their own and indexes them: per object a copy, a commit and a removal,  *)
(* in a store and a database that share no transaction, with crashes       *)
(* between any two and runs repeated, while the API serves the files.      *)
(*                                                                         *)
(* One owner's root folder. A name is what uq_files_folder_name keys on,   *)
(* lower(name) of a row that is not in the trash. The dry run changes      *)
(* nothing and is left out; known has no legacy key, since no row is ever  *)
(* given one.                                                              *)
(***************************************************************************)
EXTENDS Naturals, FiniteSets

CONSTANTS
    Keys,       \* the legacy keys at the start
    Folded,     \* names in lower case
    FileIds,    \* uuids the runs draw (one undone may serve again): a bound
    NoKey,      \* no object
    NoRow,      \* no row
    MaxAborts   \* bound: runs that end before their end

ASSUME NamesAssumption == /\ NoRow \notin Folded \cup {"trash"}
                          /\ NoKey \notin Keys

VARIABLES
    lower,      \* legacy key -> its name in lower case
    legacy,     \* legacy keys with an object
    copies,     \* file id -> the legacy key whose bytes its object holds
    rows,       \* file id -> the name of its row, or "trash"
    taken,      \* names of files the owner uploaded himself
    todo,       \* keys the run has still to come to
    at,         \* where the run stands
    key,        \* the key it is at
    id,         \* the id it drew for it
    aborts,     \* runs that were cut short
    touched     \* rows the owner renamed or put in the trash

backfillVars == <<lower, legacy, copies, rows, taken, todo, at, key, id, aborts, touched>>
bucket == <<legacy, copies>>
run == <<todo, at, key, id>>

Indexed(f) == rows[f] # NoRow
Clash(name) == name \in taken \/ \E f \in FileIds : rows[f] = name

BackfillInit ==
    /\ lower \in [Keys -> Folded]
    /\ legacy = Keys
    /\ copies = [f \in FileIds |-> NoKey]
    /\ rows = [f \in FileIds |-> NoRow]
    /\ taken = {}
    /\ todo = {}
    /\ at = "off"
    /\ key = NoKey
    /\ id = NoRow
    /\ aborts = 0
    /\ touched = {}

-----------------------------------------------------------------------------
(* The script                                                              *)

\* The listing is read as the loop goes: what the run itself copies comes up
\* under a uuid and is skipped.
StartRun ==
    /\ at = "off"
    /\ at' = "next"
    /\ todo' = legacy
    /\ UNCHANGED <<lower, bucket, rows, taken, key, id, aborts, touched>>

\* Mutant: a move, which removes the old object.
Move(k, f) ==
    /\ at = "next" /\ k \in todo /\ copies[f] = NoKey /\ ~Indexed(f)
    /\ copies' = [copies EXCEPT ![f] = k]
    /\ legacy' = legacy \ {k}
    /\ todo' = todo \ {k}
    /\ at' = "copied" /\ key' = k /\ id' = f
    /\ UNCHANGED <<lower, rows, taken, aborts, touched>>

\* copy_object and stat_object.
Copy(k, f) ==
    /\ at = "next" /\ k \in todo /\ copies[f] = NoKey /\ ~Indexed(f)
    /\ copies' = [copies EXCEPT ![f] = k]
    /\ todo' = todo \ {k}
    /\ at' = "copied" /\ key' = k /\ id' = f
    /\ UNCHANGED <<lower, legacy, rows, taken, aborts, touched>>

\* The row and its version; an IntegrityError rolls both back.
Commit ==
    /\ at = "copied"
    /\ IF Clash(lower[key])
       THEN /\ at' = "refused"
            /\ UNCHANGED rows
       ELSE /\ at' = "committed"
            /\ rows' = [rows EXCEPT ![id] = lower[key]]
    /\ UNCHANGED <<lower, bucket, taken, todo, key, id, aborts, touched>>

\* Mutant: a refused key only skips.
SkipOnly ==
    /\ at = "refused"
    /\ at' = "next"
    /\ UNCHANGED <<lower, bucket, rows, taken, todo, key, id, aborts, touched>>

\* The copy of a refused key is undone.
Undo ==
    /\ at = "refused"
    /\ copies' = [copies EXCEPT ![id] = NoKey]
    /\ at' = "next"
    /\ UNCHANGED <<lower, legacy, rows, taken, todo, key, id, aborts, touched>>

RemoveOld ==
    /\ at = "committed"
    /\ legacy' = legacy \ {key}
    /\ at' = "next"
    /\ UNCHANGED <<lower, copies, rows, taken, todo, key, id, aborts, touched>>

EndRun ==
    /\ at = "next" /\ todo = {}
    /\ at' = "off"
    /\ UNCHANGED <<lower, bucket, rows, taken, todo, key, id, aborts, touched>>

\* A call raises, or the process is killed.
Abort ==
    /\ at # "off" /\ aborts < MaxAborts
    /\ aborts' = aborts + 1
    /\ at' = "off"
    /\ todo' = {}
    /\ UNCHANGED <<lower, bucket, rows, taken, key, id, touched>>

-----------------------------------------------------------------------------
(* The owner, through the API                                              *)

\* A file of his own comes under a free name, or frees the one it had.
OwnFile(name) ==
    /\ \/ ~Clash(name) /\ taken' = taken \cup {name}
       \/ name \in taken /\ taken' = taken \ {name}
    /\ UNCHANGED <<lower, bucket, rows, run, aborts, touched>>

\* A rename to a free name, the trash, or a restore: the object stays where it
\* is. A file deleted for good is lost because its owner said so: left out.
Touch(f, name) ==
    /\ Indexed(f) /\ rows[f] # name
    /\ name = "trash" \/ ~Clash(name)
    /\ rows' = [rows EXCEPT ![f] = name]
    /\ touched' = touched \cup {f}
    /\ UNCHANGED <<lower, bucket, taken, run, aborts>>

-----------------------------------------------------------------------------
BackfillNext ==
    \/ StartRun \/ Commit \/ Undo \/ RemoveOld \/ EndRun \/ Abort
    \/ \E k \in Keys, f \in FileIds : Copy(k, f)
    \/ \E name \in Folded : OwnFile(name)
    \/ \E f \in FileIds, name \in Folded \cup {"trash"} : Touch(f, name)

BackfillSpec == BackfillInit /\ [][BackfillNext]_backfillVars

-----------------------------------------------------------------------------
(* Properties                                                              *)

\* A legacy object's bytes are always under its old key or under the key of a
\* row, wherever a run was cut and however often it is repeated.
NoBytesLost ==
    \A k \in Keys : k \in legacy \/ \E f \in FileIds : copies[f] = k /\ Indexed(f)

\* What a run leaves behind, it leaves because it was cut short: an object
\* without a row takes one cut each, two rows for one legacy object another cut
\* and an owner who renamed or trashed the first ("the next run skips" it, by
\* its name only).
LeftoversNeedAnAbort ==
    /\ Cardinality({f \in FileIds : copies[f] # NoKey /\ ~Indexed(f)})
          <= aborts + (IF at \in {"copied", "refused"} THEN 1 ELSE 0)
    /\ \A f, g \in FileIds :
          f # g /\ copies[f] = copies[g] /\ Indexed(f) /\ Indexed(g)
          => aborts > 0 /\ touched \cap {f, g} # {}
=============================================================================
