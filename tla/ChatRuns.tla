------------------------------ MODULE ChatRuns ------------------------------
(***************************************************************************)
(* How a chat reply runs: the routes that ask for one (send, edit and      *)
(* resend, regenerate), the in-memory registry of runs, the task that      *)
(* streams the model's answer, its writes to PostgreSQL and the requests   *)
(* that stop, delete or rename meanwhile.                                  *)
(*                                                                         *)
(* The API is one process with one event loop: code between two awaits is  *)
(* one atomic action here, and every await is a point where others run.    *)
(* Statements sent with asyncio.to_thread or run_in_threadpool commit in a *)
(* thread, so an action of their own models the commit.                    *)
(*                                                                         *)
(* Texts are abstracted: a reply's text is the number of deltas it holds   *)
(* (reasoning and content together); a user message's text is the name of  *)
(* the request that wrote it.                                              *)
(*                                                                         *)
(* A conversation is read ORDER BY created_at, and created_at is now(): in  *)
(* PostgreSQL the start of the transaction, which a request's session      *)
(* opens at its first statement and keeps until it commits. So a row may   *)
(* sort above rows that were committed before it was inserted.             *)
(***************************************************************************)
EXTENDS Naturals

CONSTANTS
    Conversations,  \* conversations that exist, live at the start
    Requests,       \* requests for a reply; each starts one run at most
    Absent,         \* no key in Runs._runs
    Reserved,       \* the key maps to None
    NoText,         \* no flush in flight
    MaxDeltas,      \* bound: deltas of one reply
    MaxFaults,      \* bound: database failures
    MaxCrashes      \* bound: process restarts

ASSUME ConversationsAssumption == Conversations # {}
ASSUME RegistryAssumption == /\ Absent # Reserved
                             /\ {Absent, Reserved} \cap Requests = {}
ASSUME BoundsAssumption == /\ MaxDeltas \in Nat
                           /\ MaxFaults \in Nat
                           /\ MaxCrashes \in Nat
                           /\ NoText \notin Nat

VARIABLES
    live,       \* conversation -> deleted_at IS NULL
    history,    \* conversation -> its messages, a table ordered by `at`
    row,        \* request -> the assistant row it adds: status and text
    runs,       \* Runs._runs
    kind,       \* request -> which route and body
    conv,       \* request -> the conversation it names
    pivot,      \* request -> the message replace_from names
    pc,         \* request -> where its handler, then its task, stands
    began,      \* request -> start of its open transaction, 0 when none is
    clock,      \* transactions started so far
    seen,       \* request -> the messages it last read
    text,       \* request -> deltas received by its run
    outcome,    \* request -> status the final save writes
    stopped,    \* request -> _Run.stopped
    cancelled,  \* request -> task.cancel() called, not yet delivered
    flush,      \* request -> text a flush thread has still to write
    titling,    \* request -> its automatic title
    name,       \* conversation -> who wrote the title
    asked,      \* conversations with a stop request past the ownership check
    deleting,   \* conversation -> where its delete request stands
    faults,     \* database failures so far
    crashes     \* process restarts so far

db == <<live, history, row, name>>
request == <<kind, conv, pivot, seen>>
task == <<text, outcome, stopped, cancelled, flush, titling>>
counters == <<faults, crashes>>
times == <<began, clock>>
vars == <<db, request, task, counters, times, runs, pc, asked, deleting>>

Kinds == {"send", "edit", "regenerate"}
Preparing == {"reserved", "read", "edited", "prepared", "composed", "added"}
Running == {"created", "streaming", "flushing", "saving", "saved"}
Over == {"refused", "ended", "lost", "dead"}
Statuses == {"none", "streaming", "complete", "stopped", "error"}

\* at: created_at, the start of the transaction that inserted the row.
Message == [by : Requests, role : {"user", "assistant"}, words : Requests, at : Nat]
Asks(r) == [by |-> r, role |-> "user", words |-> r, at |-> began[r]]
Replies(r) == [by |-> r, role |-> "assistant", words |-> r, at |-> began[r]]
IsReply(r, m) == m.by = r /\ m.role = "assistant"

\* The assistant row of r is still in the table.
Stored(r) == \E m \in history[conv[r]] : IsReply(r, m)

\* ORDER BY created_at: what stands above m, and whether a reply stands last.
Above(S, m) == {x \in S : x.at < m.at}
IsLast(S, m) == m \in S /\ \A x \in S : x.at <= m.at
EndsInReply(S) == \E m \in S : IsLast(S, m) /\ m.role = "assistant"

\* The first statement after a commit begins a transaction.
BeginTransaction(r) ==
    /\ clock' = clock + 1
    /\ began' = [began EXCEPT ![r] = clock + 1]

\* A commit, or the rollback of a request that is given up, ends it.
EndTransaction(r) == began' = [began EXCEPT ![r] = 0] /\ UNCHANGED clock

\* Mutant: a task is cancelled before its first step too.
CancellableUnstarted(r) == pc[r] \in {"created", "streaming", "flushing"}
\* Mutant: a stop during a flush is only noted.
CancellableBetweenFlushes(r) == pc[r] = "streaming"
\* _Run.cancellable: set on entering the stream, cleared on leaving it.
Cancellable(r) == pc[r] \in {"streaming", "flushing"}

Goto(r, label) == pc' = [pc EXCEPT ![r] = label]

-----------------------------------------------------------------------------
Init ==
    /\ live = [c \in Conversations |-> TRUE]
    /\ history = [c \in Conversations |-> {}]
    /\ row = [r \in Requests |-> [status |-> "none", text |-> 0]]
    /\ runs = [c \in Conversations |-> Absent]
    /\ kind \in [Requests -> Kinds]
    /\ conv \in [Requests -> Conversations]
    /\ pivot = [r \in Requests |-> r]
    /\ pc = [r \in Requests |-> "idle"]
    /\ began = [r \in Requests |-> 0]
    /\ clock = 0
    /\ seen = [r \in Requests |-> {}]
    /\ text = [r \in Requests |-> 0]
    /\ outcome = [r \in Requests |-> "none"]
    /\ stopped = [r \in Requests |-> FALSE]
    /\ cancelled = [r \in Requests |-> FALSE]
    /\ flush = [r \in Requests |-> NoText]
    /\ titling = [r \in Requests |-> "none"]
    /\ name = [c \in Conversations |-> "fallback"]
    /\ asked = {}
    /\ deleting = [c \in Conversations |-> "no"]
    /\ faults = 0
    /\ crashes = 0

-----------------------------------------------------------------------------
(* Runs.reserve and Runs.release                                           *)

\* Mutant: no Busy.
ReserveAnyway(r) ==
    /\ pc[r] = "admitted"
    /\ runs' = [runs EXCEPT ![conv[r]] = Reserved]
    /\ Goto(r, "reserved")
    /\ UNCHANGED <<db, request, task, counters, times, asked, deleting>>

\* A key already there raises Busy, which the route answers with 409.
Reserve(r) ==
    /\ pc[r] = "admitted"
    /\ IF runs[conv[r]] = Absent
       THEN /\ runs' = [runs EXCEPT ![conv[r]] = Reserved]
            /\ Goto(r, "reserved")
            /\ UNCHANGED times
       ELSE /\ Goto(r, "refused")
            /\ EndTransaction(r)
            /\ UNCHANGED runs
    /\ UNCHANGED <<db, request, task, counters, asked, deleting>>

\* Mutant: a failure keeps the reservation.
ReleasedNever(c) == runs

Released(c) == IF runs[c] = Reserved THEN [runs EXCEPT ![c] = Absent] ELSE runs

\* The `except BaseException` of _reply.
GiveUp(r) ==
    /\ runs' = Released(conv[r])
    /\ Goto(r, "refused")
    /\ EndTransaction(r)

-----------------------------------------------------------------------------
(* The handler of a request, up to Runs.start                              *)

\* The ownership check, in the session's first transaction: the conversation
\* is the caller's and live. An edit names a user message the client was shown.
Admit(r) ==
    /\ pc[r] = "idle"
    /\ live[conv[r]]
    /\ IF kind[r] = "edit"
       THEN \E m \in history[conv[r]] :
                /\ m.role = "user"
                /\ pivot' = [pivot EXCEPT ![r] = m.by]
       ELSE UNCHANGED pivot
    /\ BeginTransaction(r)
    /\ Goto(r, "admitted")
    /\ UNCHANGED <<db, kind, conv, seen, task, counters, runs, asked, deleting>>

\* The first repo.messages, after the model list was awaited, in the same
\* transaction still.
ReadHistory(r) ==
    /\ pc[r] = "reserved"
    /\ seen' = [seen EXCEPT ![r] = history[conv[r]]]
    /\ Goto(r, "read")
    /\ UNCHANGED <<db, kind, conv, pivot, task, counters, times, runs, asked, deleting>>

\* Mutant: every message asks for a title.
PrepareSendTitled(r) ==
    /\ pc[r] = "read" /\ kind[r] = "send" /\ live[conv[r]]
    /\ history' = [history EXCEPT ![conv[r]] = @ \cup {Asks(r)}]
    /\ titling' = [titling EXCEPT ![r] = "wanted"]
    /\ Goto(r, "prepared")
    /\ EndTransaction(r)
    /\ UNCHANGED <<live, row, name, request, text, outcome, stopped, cancelled, flush,
                   counters, runs, asked, deleting>>

\* prepare of a plain send: add the user message and commit, unless the
\* conversation was deleted since the ownership check (404). The message is
\* dated from that check: it sorts above those of a run that came and went
\* meanwhile. The first message asks for a title.
PrepareSend(r) ==
    /\ pc[r] = "read" /\ kind[r] = "send"
    /\ IF live[conv[r]]
       THEN /\ history' = [history EXCEPT ![conv[r]] = @ \cup {Asks(r)}]
            /\ titling' = [titling EXCEPT ![r] = IF seen[r] = {} THEN "wanted" ELSE "none"]
            /\ Goto(r, "prepared")
            /\ EndTransaction(r)
            /\ UNCHANGED runs
       ELSE /\ GiveUp(r)
            /\ UNCHANGED <<history, titling>>
    /\ UNCHANGED <<live, row, name, request, text, outcome, stopped, cancelled, flush,
                   counters, asked, deleting>>

IsPivot(r, m) == m.role = "user" /\ m.by = pivot[r]

\* UPDATE messages SET content: the row keeps its place.
Reworded(r, m) == IF IsPivot(r, m) THEN [m EXCEPT !.words = r] ELSE m

\* prepare of an edit, first transaction: rewrite the user message, or 404.
PrepareEdit(r) ==
    /\ pc[r] = "read" /\ kind[r] = "edit"
    /\ IF \E m \in seen[r] : IsPivot(r, m)
       THEN /\ history' = [history EXCEPT ![conv[r]] = {Reworded(r, m) : m \in @}]
            /\ Goto(r, "edited")
            /\ EndTransaction(r)
            /\ UNCHANGED runs
       ELSE /\ GiveUp(r)
            /\ UNCHANGED history
    /\ UNCHANGED <<live, row, name, request, task, counters, asked, deleting>>

\* Mutant: an edit keeps the later messages.
TruncateNothing(r) ==
    /\ pc[r] = "edited"
    /\ Goto(r, "prepared")
    /\ UNCHANGED <<db, request, task, counters, times, runs, asked, deleting>>

\* prepare of an edit, second transaction: drop every message below the pivot.
Truncate(r) ==
    /\ pc[r] = "edited"
    /\ \E p \in history[conv[r]] :
          /\ IsPivot(r, p)
          /\ history' = [history EXCEPT ![conv[r]] = {m \in @ : m.at <= p.at}]
    /\ Goto(r, "prepared")
    /\ UNCHANGED <<live, row, name, request, task, counters, times, runs, asked, deleting>>

\* Mutant: a regenerate deletes the wrong end of the list, history[0].
PrepareRegenerateFirst(r) ==
    /\ pc[r] = "read" /\ kind[r] = "regenerate"
    /\ \E m \in seen[r] : m.role = "user"
    /\ history' = [history EXCEPT ![conv[r]] =
                       {m \in @ : EndsInReply(seen[r]) => Above(seen[r], m) # {}}]
    /\ Goto(r, "prepared")
    /\ EndTransaction(r)
    /\ UNCHANGED <<live, row, name, request, task, counters, runs, asked, deleting>>

\* prepare of a regenerate: delete the reply that stands last, and commit; a
\* last message nobody answered stays, and the transaction stays open. Nothing
\* to answer is a 409.
PrepareRegenerate(r) ==
    /\ pc[r] = "read" /\ kind[r] = "regenerate"
    /\ history' = IF EndsInReply(seen[r])
                  THEN [history EXCEPT ![conv[r]] = {m \in @ : ~IsLast(seen[r], m)}]
                  ELSE history
    /\ IF \E m \in seen[r] : m.role = "user"
       THEN /\ Goto(r, "prepared")
            /\ IF EndsInReply(seen[r]) THEN EndTransaction(r) ELSE UNCHANGED times
            /\ UNCHANGED runs
       ELSE GiveUp(r)
    /\ UNCHANGED <<live, row, name, request, task, counters, asked, deleting>>

\* Mutant: the prompt is built from the first read.
ComposeFirstRead(r) ==
    /\ pc[r] = "prepared"
    /\ Goto(r, "composed")
    /\ IF began[r] = 0 THEN BeginTransaction(r) ELSE UNCHANGED times
    /\ UNCHANGED <<db, request, task, counters, runs, asked, deleting>>

\* The second repo.messages: the prompt is built from it. It begins the
\* transaction of the reply, unless prepare committed nothing.
Compose(r) ==
    /\ pc[r] = "prepared"
    /\ seen' = [seen EXCEPT ![r] = history[conv[r]]]
    /\ Goto(r, "composed")
    /\ IF began[r] = 0 THEN BeginTransaction(r) ELSE UNCHANGED times
    /\ UNCHANGED <<db, kind, conv, pivot, task, counters, runs, asked, deleting>>

\* The assistant row, `streaming` and empty; 404 if deleted meanwhile.
AddReply(r) ==
    /\ pc[r] = "composed"
    /\ IF live[conv[r]]
       THEN /\ history' = [history EXCEPT ![conv[r]] = @ \cup {Replies(r)}]
            /\ row' = [row EXCEPT ![r] = [status |-> "streaming", text |-> 0]]
            /\ Goto(r, "added")
            /\ EndTransaction(r)
            /\ UNCHANGED runs
       ELSE /\ GiveUp(r)
            /\ UNCHANGED <<history, row>>
    /\ UNCHANGED <<live, name, request, task, counters, asked, deleting>>

\* A database statement of the handler fails: its transaction is rolled back.
Fail(r) ==
    /\ pc[r] \in Preparing
    /\ faults < MaxFaults
    /\ faults' = faults + 1
    /\ GiveUp(r)
    /\ UNCHANGED <<db, request, task, crashes, asked, deleting>>

\* Runs.start: the registry entry becomes a run and its task is created.
Start(r) ==
    /\ pc[r] = "added"
    /\ runs' = [runs EXCEPT ![conv[r]] = r]
    /\ Goto(r, "created")
    /\ UNCHANGED <<db, request, task, counters, times, asked, deleting>>

-----------------------------------------------------------------------------
(* The task: Runs._run and Runs._stream                                    *)

\* Mutant: a stop that came first is ignored.
BeginAnyway(r) ==
    /\ pc[r] = "created"
    /\ Goto(r, "streaming")
    /\ UNCHANGED <<db, request, task, counters, times, runs, asked, deleting>>

\* Mutant: a task stopped before its first step returns without saving.
BeginOrReturn(r) ==
    /\ pc[r] = "created"
    /\ IF stopped[r]
       THEN /\ runs' = [runs EXCEPT ![conv[r]] = Absent]
            /\ Goto(r, "ended")
       ELSE /\ Goto(r, "streaming")
            /\ UNCHANGED runs
    /\ UNCHANGED <<db, request, task, counters, times, asked, deleting>>

\* The task's first step. A stop that came before it skips the stream.
Begin(r) ==
    /\ pc[r] = "created"
    /\ IF stopped[r]
       THEN /\ outcome' = [outcome EXCEPT ![r] = "stopped"]
            /\ Goto(r, "saving")
       ELSE /\ Goto(r, "streaming")
            /\ UNCHANGED outcome
    /\ UNCHANGED <<db, request, text, stopped, cancelled, flush, titling, counters, times,
                   runs, asked, deleting>>

\* A delta arrives and is added to the text; when the last flush is old enough
\* a thread is sent to write the text so far, and the task awaits it.
Delta(r) ==
    /\ pc[r] = "streaming" /\ ~cancelled[r]
    /\ text[r] < MaxDeltas
    /\ text' = [text EXCEPT ![r] = @ + 1]
    /\ \/ UNCHANGED <<flush, pc>>
       \/ /\ flush' = [flush EXCEPT ![r] = text'[r]]
          /\ Goto(r, "flushing")
    /\ UNCHANGED <<db, request, outcome, stopped, cancelled, titling, counters, times,
                   runs, asked, deleting>>

\* The answer is over, or the stream raises.
EndStream(r) ==
    /\ pc[r] = "streaming" /\ ~cancelled[r]
    /\ \E status \in {"complete", "error"} : outcome' = [outcome EXCEPT ![r] = status]
    /\ Goto(r, "saving")
    /\ UNCHANGED <<db, request, text, stopped, cancelled, flush, titling, counters, times,
                   runs, asked, deleting>>

\* UPDATE messages ... WHERE id = ...: nothing happens when the row is gone.
Updated(r, fields) == IF Stored(r) THEN [row EXCEPT ![r] = fields] ELSE row

\* The flush thread writes the text it captured, or fails, which is only logged.
\* It is not cancelled with the task, so this may come long after it was sent.
Flush(r) ==
    /\ flush[r] # NoText
    /\ \/ row' = Updated(r, [row[r] EXCEPT !.text = flush[r]])
       \/ UNCHANGED row
    /\ flush' = [flush EXCEPT ![r] = NoText]
    /\ UNCHANGED <<live, history, name, request, text, outcome, stopped, cancelled,
                   titling, counters, times, runs, pc, asked, deleting>>

Flushed(r) ==
    /\ pc[r] = "flushing" /\ ~cancelled[r]
    /\ flush[r] = NoText
    /\ Goto(r, "streaming")
    /\ UNCHANGED <<db, request, task, counters, times, runs, asked, deleting>>

\* asyncio delivers the cancellation at the await where the task stands. In the
\* stream the handler swallows it. A task that never ran is dropped with all its
\* handlers, and the final save would be abandoned after its `finally`.
Cancelled(r) ==
    /\ cancelled[r]
    /\ cancelled' = [cancelled EXCEPT ![r] = FALSE]
    /\ CASE pc[r] \in {"streaming", "flushing"} ->
              /\ outcome' = [outcome EXCEPT ![r] = "stopped"]
              /\ Goto(r, "saving")
              /\ UNCHANGED runs
         [] pc[r] = "created" ->
              /\ Goto(r, "dead")
              /\ UNCHANGED <<outcome, runs>>
         [] OTHER ->
              /\ runs' = [runs EXCEPT ![conv[r]] = Absent]
              /\ Goto(r, "ended")
              /\ UNCHANGED outcome
    /\ UNCHANGED <<db, request, text, stopped, flush, titling, counters, times, asked, deleting>>

\* The final save, in a thread: it fails or it writes status and text.
Save(r) ==
    /\ pc[r] = "saving"
    /\ \/ /\ row' = Updated(r, [status |-> outcome[r], text |-> text[r]])
          /\ UNCHANGED faults
       \/ /\ faults < MaxFaults
          /\ faults' = faults + 1
          /\ UNCHANGED row
    /\ Goto(r, "saved")
    /\ UNCHANGED <<live, history, name, request, task, crashes, times, runs, asked, deleting>>

\* `done` is published and the registry entry deleted, with no await between.
\* A complete first reply not stopped meanwhile starts the title task.
Finish(r) ==
    /\ pc[r] = "saved" /\ ~cancelled[r]
    /\ runs' = [runs EXCEPT ![conv[r]] = Absent]
    /\ titling' = [titling EXCEPT ![r] =
           IF @ = "wanted" /\ outcome[r] = "complete" /\ ~stopped[r] THEN "pending" ELSE "none"]
    /\ Goto(r, "ended")
    /\ UNCHANGED <<db, request, text, outcome, stopped, cancelled, flush, counters, times,
                   asked, deleting>>

\* The detached title task renames a live conversation, or gives up.
Title(r) ==
    /\ titling[r] = "pending"
    /\ \/ /\ live[conv[r]]
          /\ name' = [name EXCEPT ![conv[r]] = "model"]
       \/ UNCHANGED name
    /\ titling' = [titling EXCEPT ![r] = "done"]
    /\ UNCHANGED <<live, history, row, request, text, outcome, stopped, cancelled, flush,
                   counters, times, runs, pc, asked, deleting>>

-----------------------------------------------------------------------------
(* Stop, delete, rename and restart                                        *)

\* Runs.stop: a reservation is not a run yet, and only a stream is cancelled.
Halt(c) ==
    IF runs[c] \in Requests /\ ~stopped[runs[c]]
    THEN /\ stopped' = [stopped EXCEPT ![runs[c]] = TRUE]
         /\ cancelled' = [cancelled EXCEPT ![runs[c]] = Cancellable(runs[c])]
    ELSE UNCHANGED <<stopped, cancelled>>

AdmitStop(c) ==
    /\ live[c]
    /\ asked' = asked \cup {c}
    /\ UNCHANGED <<db, request, task, counters, times, runs, pc, deleting>>

Stop(c) ==
    /\ c \in asked
    /\ asked' = asked \ {c}
    /\ Halt(c)
    /\ UNCHANGED <<db, request, text, outcome, flush, titling, counters, times, runs, pc, deleting>>

AdmitDelete(c) ==
    /\ live[c] /\ deleting[c] = "no"
    /\ deleting' = [deleting EXCEPT ![c] = "admitted"]
    /\ UNCHANGED <<db, request, task, counters, times, runs, pc, asked>>

DeleteStops(c) ==
    /\ deleting[c] = "admitted"
    /\ deleting' = [deleting EXCEPT ![c] = "stopped"]
    /\ Halt(c)
    /\ UNCHANGED <<db, request, text, outcome, flush, titling, counters, times, runs, pc, asked>>

SoftDelete(c) ==
    /\ deleting[c] = "stopped"
    /\ deleting' = [deleting EXCEPT ![c] = "done"]
    /\ live' = [live EXCEPT ![c] = FALSE]
    /\ UNCHANGED <<history, row, name, request, task, counters, times, runs, pc, asked>>

\* A user's rename: the row is read, and written with its new title. (A title
\* equal to the one just read is not written, which is no step.)
Rename(c) ==
    /\ live[c]
    /\ name' = [name EXCEPT ![c] = "user"]
    /\ UNCHANGED <<live, history, row, request, task, counters, times, runs, pc, asked, deleting>>

\* ChatRepository.stop_streaming
Swept == [r \in Requests |->
            IF Stored(r) /\ row[r].status = "streaming"
            THEN [row[r] EXCEPT !.status = "stopped"] ELSE row[r]]

\* The process dies, and all it held in memory with it; the next one starts
\* with a sweep, whose failure does not keep it from starting.
Restart ==
    /\ crashes < MaxCrashes
    /\ crashes' = crashes + 1
    /\ \/ /\ row' = Swept
          /\ UNCHANGED faults
       \/ /\ faults < MaxFaults
          /\ faults' = faults + 1
          /\ UNCHANGED row
    /\ runs' = [c \in Conversations |-> Absent]
    /\ began' = [r \in Requests |-> 0]
    /\ pc' = [r \in Requests |-> IF pc[r] \in Over \cup {"idle"} THEN pc[r] ELSE "lost"]
    /\ cancelled' = [r \in Requests |-> FALSE]
    /\ flush' = [r \in Requests |-> NoText]
    /\ titling' = [r \in Requests |-> IF titling[r] = "done" THEN "done" ELSE "none"]
    /\ asked' = {}
    /\ deleting' = [c \in Conversations |-> IF live[c] THEN "no" ELSE "done"]
    /\ UNCHANGED <<live, history, name, request, text, outcome, stopped, clock>>

-----------------------------------------------------------------------------
Handler(r) ==
    \/ Reserve(r) \/ ReadHistory(r)
    \/ PrepareSend(r) \/ PrepareEdit(r) \/ Truncate(r) \/ PrepareRegenerate(r)
    \/ Compose(r) \/ AddReply(r) \/ Start(r)

\* What the model and its server decide: when a delta comes and when it ends.
Model(r) == Delta(r) \/ EndStream(r)

Task(r) == Begin(r) \/ Flush(r) \/ Flushed(r) \/ Cancelled(r) \/ Save(r) \/ Finish(r)

Others(c) == AdmitStop(c) \/ Stop(c) \/ AdmitDelete(c) \/ DeleteStops(c) \/ SoftDelete(c)
             \/ Rename(c)

Next ==
    \/ \E r \in Requests : Admit(r) \/ Handler(r) \/ Fail(r) \/ Model(r) \/ Task(r) \/ Title(r)
    \/ \E c \in Conversations : Others(c)
    \/ Restart

\* The event loop and the threads run what they were given: an admitted request
\* goes on and a task moves unless it waits for the model. Nothing makes a user
\* act, a title come or a process restart.
LoopFairness == \A r \in Requests : WF_vars(Handler(r)) /\ WF_vars(Task(r))

Spec == Init /\ [][Next]_vars /\ LoopFairness

\* The model answers, or its timeout (llm_timeout_seconds) raises.
ModelAnswers == \A r \in Requests : WF_vars(Model(r))

-----------------------------------------------------------------------------
(* Properties                                                              *)

StoreType ==
    /\ live \in [Conversations -> BOOLEAN]
    /\ history \in [Conversations -> SUBSET Message]
    /\ row \in [Requests -> [status : Statuses, text : 0..MaxDeltas]]
    /\ name \in [Conversations -> {"fallback", "model", "user"}]

RequestType ==
    /\ kind \in [Requests -> Kinds]
    /\ conv \in [Requests -> Conversations]
    /\ pivot \in [Requests -> Requests]
    /\ seen \in [Requests -> SUBSET Message]
    /\ began \in [Requests -> Nat]
    /\ clock \in Nat

TaskType ==
    /\ text \in [Requests -> 0..MaxDeltas]
    /\ outcome \in [Requests -> Statuses \ {"streaming"}]
    /\ stopped \in [Requests -> BOOLEAN]
    /\ cancelled \in [Requests -> BOOLEAN]
    /\ flush \in [Requests -> {NoText} \cup 0..MaxDeltas]
    /\ titling \in [Requests -> {"none", "wanted", "pending", "done"}]

ControlType ==
    /\ runs \in [Conversations -> {Absent, Reserved} \cup Requests]
    /\ pc \in [Requests -> {"idle", "admitted"} \cup Preparing \cup Running \cup Over]
    /\ asked \subseteq Conversations
    /\ deleting \in [Conversations -> {"no", "admitted", "stopped", "done"}]
    /\ faults \in 0..MaxFaults
    /\ crashes \in 0..MaxCrashes

\* Every variable keeps its type: the registry maps a conversation to nothing,
\* a reservation or a run, and a reply's text never exceeds what was received.
TypeOK == StoreType /\ RequestType /\ TaskType /\ ControlType

\* At most one request at a time writes to a conversation: between reserve and
\* the end of the run no other request is past its own reserve (the 409 of
\* _reply). Everything else a reply relies on rests on this.
OneReplyAtATime ==
    \A r, q \in Requests :
        /\ conv[r] = conv[q]
        /\ pc[r] \in Preparing \cup Running
        /\ pc[q] \in Preparing \cup Running
        => r = q

\* The registry says exactly who is at work: a reservation belongs to a handler
\* that will start or release it, an entry to a live task that will delete it,
\* and no path (404, 409, failed statement, early stop) leaves a key behind,
\* which would answer 409 until the next restart.
RegistryExact ==
    /\ \A r \in Requests : pc[r] \in Preparing => runs[conv[r]] = Reserved
    /\ \A r \in Requests : pc[r] \in Running => runs[conv[r]] = r
    /\ \A c \in Conversations :
          /\ runs[c] = Reserved =>
                \E r \in Requests : conv[r] = c /\ pc[r] \in Preparing
          /\ runs[c] \in Requests =>
                conv[runs[c]] = c /\ pc[runs[c]] \in Running

\* A cancellation is only ever pending inside the stream: "a cancel before the
\* task's first step would skip every handler, and one during the final save
\* would lose it" (runs.py).
CancelOnlyInStream ==
    \A r \in Requests : cancelled[r] => pc[r] \in {"streaming", "flushing"}

\* After a failed statement a regenerate may find a message nobody answered; it
\* deletes nothing, so its reply is dated from its ownership check and may stand
\* above what it answers.
Misplaced(r) == kind[r] = "regenerate" /\ faults > 0

\* While a reply is written, the rest of the conversation is the very history
\* its prompt was built from, and the reply stands below all of it.
PromptStands ==
    \A r \in Requests :
        pc[r] \in {"added"} \cup Running =>
            /\ {m \in history[conv[r]] : ~IsReply(r, m)} = seen[r]
            /\ \E a \in history[conv[r]] :
                  /\ IsReply(r, a)
                  /\ ~Misplaced(r) => \A m \in seen[r] : m.at < a.at

\* Without a failed statement or a restart, and but for the instant between the
\* two transactions of an edit, every reply stands below all the messages it
\* answered, in the words they had: an edit never leaves an answer to the old
\* words, nor a regenerate a second answer. What else stands above it are
\* questions that came later (their request was let in before), and the answer
\* to such a question is not above it too.
RepliesStand ==
    \A c \in Conversations : \A a \in history[c] :
        /\ a.role = "assistant"
        /\ faults = 0 /\ crashes = 0
        /\ \A r \in Requests : conv[r] = c => pc[r] # "edited"
        => /\ seen[a.by] \subseteq Above(history[c], a)
           /\ \A q \in Above(history[c], a) \ seen[a.by] :
                 /\ q.role = "user"
                 /\ \A x \in Above(history[c], a) : ~IsReply(q.by, x)

\* Whatever failed and wherever the process died, no reply outlives a message
\* it answered, nor comes to stand above it: at worst an edit cut between its
\* transactions has given that message other words.
RepliesKeepTheirPrompt ==
    \A c \in Conversations : \A a \in history[c] :
        a.role = "assistant" /\ ~Misplaced(a.by) =>
            \A m \in seen[a.by] :
                \E x \in Above(history[c], a) : x.by = m.by /\ x.role = m.role

\* A `streaming` row has a writer that will settle it, unless a statement
\* failed: neither a stop before the task's first step nor one during the final
\* save, nor a restart, leaves a reply streaming for ever.
StreamingHasWriter ==
    \A r \in Requests :
        Stored(r) /\ row[r].status = "streaming" /\ faults = 0 =>
            pc[r] \in {"added", "created", "streaming", "flushing", "saving"}

\* A flush cancelled by a stop may commit after the final save "harmlessly
\* (same text)" (runs.py): once the final save is through, the row holds the
\* whole text, and any flush still in flight carries that text.
LateFlushHarmless ==
    \A r \in Requests :
        /\ row[r].status \in {"complete", "error"} => row[r].text = text[r]
        /\ flush[r] # NoText => flush[r] = text[r]

\* The detached title task renames unconditionally (Runs._title), but at most
\* once in a conversation's life: a rename by the user after it is never lost.
RenameSurvives ==
    [][\A c \in Conversations :
           name[c] = "user" /\ (\E r \in Requests : conv[r] = c /\ titling[r] = "done")
           => name'[c] = "user"]_vars

\* A settled reply never changes again: late flushes, the sweep at startup and
\* other requests leave its status and its text alone.
SettledFrozen ==
    [][\A r \in Requests :
           row[r].status \in {"complete", "stopped", "error"} => row'[r] = row[r]]_vars

\* Once stopped, a run takes no more text and cannot end as complete or error,
\* unless the answer was already over when the stop came.
StopWins ==
    [][\A r \in Requests : stopped[r] =>
           /\ text'[r] = text[r]
           /\ outcome'[r] # outcome[r] => outcome'[r] = "stopped"]_vars

\* The registry, the task, its flushes and the sweep at startup together give
\* each conversation one reply slot, and each answer one writer, as ReplySlot
\* says: taken or refused, growing, settled once, left open by failures only.
Slots == INSTANCE ReplySlot WITH
            about <- conv,
            turned <- {r \in Requests : pc[r] \notin {"idle", "admitted"}},
            holding <- {r \in Requests : pc[r] \in Preparing \cup Running},
            answer <- row,
            broken <- faults > 0

ImplementsSlots == Slots!Spec

\* Every request that reserved a conversation gives it back, and the run it
\* started ends, provided the model answers or times out; and its row does not
\* stay `streaming`, unless a statement failed.
EveryReplyEnds ==
    ModelAnswers =>
        \A r \in Requests :
            /\ pc[r] \in Preparing \cup Running ~> pc[r] \in {"refused", "ended", "lost"}
            /\ row[r].status = "streaming" ~> row[r].status # "streaming" \/ faults > 0

\* A stopped run ends even if the model never says another word.
StopEnds == \A r \in Requests : stopped[r] ~> pc[r] \in {"ended", "lost"}
=============================================================================
