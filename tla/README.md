# DarkAngel, specified

TLA+ modules, model-checking configurations and proofs for DarkAngel: a FastAPI
backend (`src/backend/app`) over PostgreSQL, a versioned S3 bucket and local
language models, and the Vue application (`src/frontend/src`) that uses it. Paths
below are relative to the repository unless they are modules of this directory.

Contents: [the system](#1-the-system) · [the plan](#2-the-plan) ·
[the modules](#3-the-modules) · [the runs](#4-the-runs-and-their-bounds) ·
[fairness](#5-fairness) · [the proofs](#6-the-proofs) ·
[where code and documents differ](#7-where-the-code-and-its-documents-differ) ·
[not modelled](#8-what-is-not-modelled)

## 1. The system

### How it runs

The API is one process, one uvicorn worker, one replica (`docs/chat.md:42-47`).
The chat routes are coroutines on its event loop; every other route is a plain
function that Starlette runs on a thread pool, so two of them interleave at every
SQL statement and every call to the bucket. Sessions are at PostgreSQL's default,
READ COMMITTED: a statement sees what is committed when it starts, an UPDATE by
primary key does not look at anything else, and what was loaded into a session is
not read again (`core/db.py`, `expire_on_commit=False`). Most handlers therefore
look first and write later, and the question asked everywhere below is what the
world may have become in between.

Work outlives its request in four places: the task that streams a chat reply, the
task that gives a conversation its title, the background reading of an uploaded
invoice and the background summary of an uploaded file. All four die with the
process. The next process sweeps what they left (`main.py`, `reset_interrupted`).

### Inventory

| Component | State | Operations | Hard behaviour | What makes it correct |
|---|---|---|---|---|
| Chat run registry, `chat/runs.py` | `_runs`: conversation → reservation or run (text so far, subscribers, stopped); title tasks | reserve, release, start, subscribe, stop, the run task | awaits everywhere; cancellation at the wrong await; flush threads that survive their task | one reply per conversation; no key leaks; a stop ends the reply; a settled row is frozen |
| Chat routes and repository, `api/routes/chat.py`, `repositories/chat.py`, `chat/prompt.py` | `conversations`, `messages` | send, edit and resend, regenerate, stop, rename, delete, list | several transactions per request; failure between two; delete while a reply runs | a reply stands below the history it answered; nothing stays `streaming` |
| LLM client, `chat/llm.py` | model list cached for 10 s | models, stream, complete | chunks cut anywhere; silence | the split of `<think>` text does not depend on the chunks |
| Files, `api/routes/files.py`, `repositories/files.py` | `files`, `file_versions`, `audit_log`, the advisory lock, the bucket | upload (new, version), list with sweep, rename, move, delete, download | quota under concurrency; bucket and database cannot commit together; the sweep against a slow upload; crashes | a shown file has its bytes; versions are numbered; the quota; orphans are accounted for |
| Summaries, `summary.py` | `files.summary` | one background task per upload | older bytes finishing last | (best effort) |
| Folders, `repositories/folders.py`, `api/routes/folders.py` | `folders`, `files.folder_id`, `deleted_at` | create, rename and move, delete with its subtree | walk then write; count then select then update | a forest; nothing shown below a trashed folder; a delete trashes what it counted |
| Households, `repositories/households.py`, `api/routes/household.py`, `core/household.py` | `households`, `household_members`, `household_invitations` | create, invite, revoke, join, leave, remove, set role, delete | the caller's membership is read first; row locks of redeem against cascades; deadlock | one owner; a link works once; a refusal leaves it usable |
| Invoices, `repositories/invoices.py`, `api/routes/invoices.py`, `invoice_extraction.py` | `invoices`, `invoice_taxes`, the tasks of an upload | upload, read, validate, manual, pay, delete, startup sweep | a reading of minutes against deletes, restarts and validations; partial uploads | what waits for a reading gets one; a validation is never undone |
| Providers and services, `repositories/providers.py`, `api/routes/providers.py` | `providers`, `services` | create, update, archive, delete | checked by one statement, deleted by another; two updates that each read older dates | nothing that somebody saw in use is deleted; dates in order |
| Costs, `costs.py`, `api/routes/costs.py` | none | yearly costs, alerts, upcoming dues | several reads, no snapshot; boundaries of dates and thresholds | a list that does not fail because of what changes meanwhile |
| Collector, `collector/`, `repositories/infra.py`, `api/routes/infra.py` | `portainer_status`, `backup_status` | one pass, prune, read | a pass that dies half way; staleness window | a reading is shown as of its time |
| Startup, `main.py` | – | two sweeps | either may fail, the process starts anyway | nothing of the last process looks alive |
| Backfill, `scripts/backfill.py` | bucket and `files` | move legacy objects | crash between copy, commit and remove, and runs repeated | no bytes lost; what is left behind has a reason |
| Metrics, `metrics/` | none | queries to Prometheus | – | – |
| Auth, config, database, clock, `core/` | key cache | token checks | – | – |
| Browser stores, `frontend/src/stores/` | one list each, request guards; the chat store also follows a stream | load, load more, mutate, reload; open, send, edit, follow, leave | answers out of order; a stream against a reload; a connection that breaks | what is shown is one listing, and in the end what is stored |
| Browser views, `frontend/src/views/`, `components/` | selection, forms | – | the form of ReviewView is refilled by reloads | what was typed is kept |

Interactions: the routes call the repositories in the request's session; `_reply`
reserves in the registry, writes through the repository and hands over to
`Runs.start`; the run task writes through its own sessions in threads; the invoice
upload stores its PDF through the file repository and adds reading tasks to its
response; files and folders share the tree; invoices refer to files (SET NULL) and
services (RESTRICT), services to providers (CASCADE), invitations and members to
households (CASCADE); the browser learns of everything through requests and two
event streams.

`PROJECT.json` lists every part with its sources under `components`, and under
`hazards` the places, line by line, where this code can go wrong in a way that a
test would hardly reach.

## 2. The plan

In order of importance. All of these are written, checked and, where it says so,
proved:

1. **ChatRuns** – routes, registry, task, writes, stop, delete, restart; proofs.
2. **ReplySlot** – the abstract specification of 1: a slot per conversation, an
   answer that grows and settles once. ChatRuns implements it; proved.
3. **FileUploads** – rows, objects, quota, sweep, crashes; proofs. **Drive** is what
   it promises the owner: files, versions and bytes, with no row, lock or sweep.
   FileUploads implements it; proved.
4. **Households** – membership, links, row locks; proofs. **Membership** is what it
   promises: every request acts at one moment. Households implements it; proved.
5. **Folders** – the tree under concurrent requests; proofs.
6. **Invoices** – uploads, readings, validations; proofs.
7. **ChatFeed** – subscriptions of a run and the browser's chat store over them; proofs.
8. **Providers**, **Backfill** – small protocols of two statements or three; proofs.
9. **FilesList**, **ThinkSplitter** – the browser's files store; the cut of a
   model's text into reasoning and content; proofs.

Every invariant, every action property and every refinement of a run is a theorem,
but for the half of `NobodyStuck` that speaks of ENABLED. What would come next: the arithmetic
of `costs.py` and of `build_context` against reference definitions.

Every module takes its sets as CONSTANTS, names the assumptions it needs on them, has
one action per operation or statement, and no RECURSIVE operator, so that it can be
proved about.

## 3. The modules

All modules share a few conventions. A request has a program counter `pc[r]`; each
of its actions is the code between two points where others run, whole, with the
guard and the early returns of the code. Refusals that happen at a request's first
look and change nothing are left out. Data is abstracted to identity: a text is a
number of pieces or the name of the request that wrote it. Definitions keep the
code's names where there is one. A definition that starts with "Mutant:" is not
part of any specification: it is a plausible bug in the definition that follows,
which the property named in `PROJECT.json` must catch.

### ChatRuns

One conversation's life under requests for replies. `runs` is `Runs._runs`:
`Absent`, `Reserved` (the key maps to None) or the run. `history` and `row` are the
`messages` table, `seen` what the handler last read, `text`, `outcome`, `stopped`,
`cancelled` and `flush` the task's, with the flush thread as a write of its own
that nobody cancels.

The order of a conversation is the one the code reads it in, by `created_at`
(`repositories/chat.py:75`), and `created_at` is `now()` (`models/chat.py:45-47`): for
PostgreSQL the start of the transaction, not the moment of the insert. So a
conversation is a set of rows, each with the `at` of its transaction, and `began[r]` is
when the open transaction of a request's session started, counted by `clock`. The
first one starts at the ownership check (`Admit`) and lasts across the reservation, the
wait for the model list and the first read, until the question is committed; the next
one starts at the second read (`Compose`) and ends with the reply. A regenerate that
finds nothing to delete commits nothing in between, and its reply is dated from its
ownership check. `Above` and `IsLast` are the order by those dates.

| Action | Code |
|---|---|
| `Admit`, `Reserve`, `ReadHistory` | `_owned`, where the transaction begins, `Runs.reserve`, the first read of `_reply` |
| `PrepareSend`, `PrepareEdit` + `Truncate`, `PrepareRegenerate` | the three `prepare` closures; an edit is two transactions |
| `Compose`, `AddReply`, `Start`, `Fail` | the rest of `_reply`, and its `except BaseException` |
| `Begin`, `Delta`, `EndStream`, `Flush`, `Flushed`, `Cancelled` | `_run` up to the save, `_stream` |
| `Save`, `Finish`, `Title` | the shielded save, `done` and the release with no await between, `_title` |
| `AdmitStop`/`Stop`, `AdmitDelete`/`DeleteStops`/`SoftDelete`, `Rename` | the other routes, split at their awaits |
| `Restart` | death of the process, `stop_streaming` in the next one, which may fail |

### ReplySlot

What all of that promises, in five variables: requests are let in or turned
away, one holds the slot of a conversation, its answer goes from none to `streaming`
to a settled status, only grows, and is written by nobody else. A failed statement
(`broken`) is the only excuse for giving up the slot with an answer left open, and a
crash frees every slot and stops what was open. ChatRuns implements it with

| ReplySlot | ChatRuns |
|---|---|
| `about` | `conv` |
| `turned` | the requests past `admitted` |
| `holding` | the requests between their reservation and the end of their task |
| `answer` | `row` |
| `broken` | `faults > 0` |

A flush that lands after its task is gone is an `Extend` that changes nothing, or,
after a failed final save, one that the failure allows. The slot knows nothing of
`runs`: that the registry's keys and the slots taken are the same thing is what the
refinement has to show.

### ChatFeed

What a tab shows of one conversation. The server's half is `Runs.subscribe` and
`publish` (`Subscribe`, `Published`), the two reads of `get_conversation` with an
await between (`ReadMessages`, `ReadRegistry`), and of a run only what it leaves in
the registry, the rows and its subscribers' queues. The tab's half is
`stores/chat.ts`: `Ask` (send, edit, regenerate, with the trim of what is shown),
`Deliver` (`apply`, event by event), `Unstreamed` (a refusal or a 204, then `resync`),
`Show` (the answer of a fetch, dropped if `openSeq` moved on), `Leave`, `Open`, and
`Lose` for a connection that breaks. `AskElsewhere` is another tab or a request this
tab has left behind. Two history variables name the excuses of `ShownIsStored`: `stale`
(somebody else wrote since the rows on the page were read, or the page holds a reply
it does not follow) and `lost` (a connection broke).

### FileUploads

One owner's files. A file is named by the upload that reserved it; `puts[f]` is the
sequence of writes to its object, delete markers included. `lock` is the advisory
lock of `reserve`. Uploads are `Find`, then `Claim`/`Reserve` (a new name) or
`Weigh` (a version, whose quota check takes no lock), one of the four `Put…`
outcomes, `Finalize` or `Number`/`AddVersion`, `Audit`, then the summary task.
`PutUnreachable` is the error no handler catches: `urllib3`'s, not `S3Error`.
Listings run the sweep as `Select`, `Drop`, `Remove`. A rename is the two statements of
`update_file`: `LoadName` reads the row of a file that is shown and puts it among
`renaming`, `Rename` writes it by primary key, whether or not the file was trashed
meanwhile; the unique name, which leaves the trash out, refuses only a file that is
still shown. `SlowUploads` says whether a
call to the bucket may outlive the hour after which a reservation is stale; the code
does not bound it.

### Drive

What the owner of those files is promised, in five variables. A file appears in one
step, under a name no other file shows and with its bytes (`Appear`); versions are
added one by one, each the next number, each with its bytes, each the only one its
upload makes (`Revise`); bytes are stored before the version that shows them, or for
nothing (`Store`), and only those of a file that is not listed are removed (`Remove`);
a rename gives a file that is shown a free name, and a file in the trash any (`Rename`),
because a request may be older than the delete. `Lose` is the one way in which a listed file goes, and
exists only if uploads may be slow. FileUploads implements it with

| Drive | FileUploads |
|---|---|
| `listed` | `Listed`, the files with a ready row |
| `trashed`, `name` | the same columns |
| `history` | `versions` |
| `bucket` | `Bucket`: what was written to the key and can be read, nothing below a delete marker |
| `MayLose` | `SlowUploads` |

Reservations, the quota, the lock, what a sweep has selected and every handler's local
are hidden: a stale local that reached the owner's files would be a step Drive does
not have. That includes what the code gives up: an upload whose finalize or insert
fails leaves bytes in `bucket` that no version names, which is a `Store` for nothing.

### Households

Members, links and the row locks between `redeem` and the cascade of a delete.
A household and a link go by the number of the request that made them. `Enter`
is the context dependency that reads the caller's membership; `Check` the second
look of the owner's routes; `SetRole`, `Remove`, `Leave`, `Invite` their single
statements; `Drop`/`Cascade` the delete and its wait for claimed links;
`Claim`/`Join` the two statements of `redeem`. `Victim` is PostgreSQL's deadlock
detector: it breaks a cycle of waiting transactions and nothing else.

### Membership

What the routes promise, without looks, locks or statements: every request takes
effect at one moment between its arrival and its answer, and its right, its effect and
its answer are all true of that moment. `SetRole` and `Invite` happen while the caller
owns the household, `Depart` while the member is in it, `Delete` takes the household
with its members and its links at once, `Join` finds the link open, its household
owned and the caller without one, `Refuse` gives the reason that holds then, `Gone` is
a success with nothing left to do. `Fail` is an answer for no reason shown: a deadlock
that cost a redeem or a delete, an invitation to a household that is gone.

| Membership | Households |
|---|---|
| `asks`, `home`, `rank`, `links` | the same |
| `about` | `context`, the household the dependency read |
| `outcome` | `Outcome`: `pc`, with every state between arrival and answer seen as `open` |

A request reads its caller's membership when it arrives and writes later, so the
moment is not the one of its look: the refinement puts it at the statement that
answers, and has to show that what was read then is still true.

### Folders

The tree of one owner. `rows`, `parent` and `stamp` are the two tables. `Insert`,
`Move` and `Delete` are what arrives; `Look`, `Walk` (BR-5) and `Place` a move;
`CountFolders`, `CountFiles`, `Select`, `Trash` a delete of a folder. The recursive
queries are written as closures: `Subtree(f)` is the smallest set that holds `f` and
is closed downwards through live rows, `IsCycle(f, p)` says that `f` is in every set
that holds `p` and is closed upwards. `crossed` and `raced` are history variables:
they remember whether a race the code admits to has happened, and the properties
say that nothing goes wrong without one.

### Invoices

A household's invoices of one service. An upload stores its PDFs one by one and
commits an invoice after each (`Store`), is refused at any of them (`Refuse`) or is
answered (`Respond`), and only then are its readings run, one after the other:
`Start`, `Ask`, `Finish`, `Refresh`, `Fail`. `Fault` is a failing statement of a
reading. `Check` is `_reject_duplicate`; `Manual`, `Validate`, `Pay` and `Delete`
write what their session thinks has changed (`Written`). `taxes[i]` names the
request whose tax lines the invoice has.

### Providers

Providers, services and the invoices that name them; each member has one request at a
time. `CheckServices`/`DeleteProvider`, `CheckInvoices`/`DeleteService` and
`GetService`/`UpdateService` are the two statements of their routes; the UPDATE writes
the columns that differ from the row that was read, which is what SQLAlchemy sends.
`ReadNames`, `ReadServices` are the page of what is due. `stale`, `born` and `had` are
history: services whose dates were written over newer ones, providers created since a
page read the names, services there when a provider was found empty.

### Backfill

`scripts/backfill.py` for one owner: per legacy object `Copy`, `Commit` (or the
refusal and `Undo`), `RemoveOld`; `Abort` anywhere; runs repeated; and the owner, who
uploads, renames and trashes meanwhile (`OwnFile`, `Touch`).

### FilesList

`stores/files.ts`: the sequence number drawn by each listing, the `loading` flag that
disables "Load more" but not a change of folder, and the changes that refresh. `rushed`
and `failed` remember what excuses a list that mixes two listings.

### ThinkSplitter

`_ThinkSplitter.feed` and `flush` with the loop of `LlmClient.stream` around them.
Characters are real here, because the property is about where text is cut; the tags
are shortened in the run (`<t>`, `</t>`).

### MCParts

Composes the last four, which share nothing, into one run: `part` says at the start
which of them a behaviour is of.

## 4. The runs and their bounds

| Run | Instance | Shows |
|---|---|---|
| `chat_one` | 1 conversation, 3 requests, empty replies, nothing fails | a reply stands below the history it answered and above nothing it should have seen, a rename after the title survives |
| `chat_faults` | 2 requests, 2 deltas, 1 fault, 1 restart | the runs implement the reply slot; the registry is exact; no reply outlives a message it answered; a streaming row has a writer, after a restart too; a stop wins |
| `chat_live` | 2 requests in the order of their kinds, 1 delta, 1 fault | every request ends and its row settles if the model answers; a stop ends a reply even if it never does |
| `chat_feed` | 1 tab, 2 requests made in it or elsewhere, 1 delta, 1 return to the page, 1 failure | no event is missed, a reader gets `done` or finds no run, the page ends up showing what is stored, "streaming" ends |
| `chat_doc_last` | 1 tab, 1 request, nothing fails | *violated*: see section 7 |
| `files_safe` | 3 uploads, 2 names, 2 sizes, quota 2, 1 listing, 1 fault, 1 crash | version numbers, quota, orphans; what the owner sees is a behaviour of Drive |
| `files_live` | 2 uploads that may be slow, 1 fault, 1 crash | shown files have their bytes; reservations and uploads end |
| `households` | 2 people, 6 requests, 3 at once | one owner, links, refusals, no stuck request; the routes implement Membership |
| `folders` | 3 folders, 1 file, 3 requests, any forest at the start | cycles, orphans and surprises need their races |
| `invoices` | 3 requests, 2 invoices, 2 PDFs per upload, 1 fault, 1 restart | nothing waits in vain without a fault or a refusal, validations stand, readings end |
| `invoices_doc_read` | 2 requests, no fault | *violated*: see section 7 |
| `parts` | 2 members, 1 provider, 2 services, 1 invoice, 2 dates; 2 legacy objects, 4 ids, 2 cuts; 2 listings of 2 pages, 5 requests; texts of up to 3 pieces of 7, opened by a tag or not | deletions spare what was seen, dates and the due list fail only in their race; no bytes lost; one listing shown; the split does not depend on the chunks |

The type invariants are proved (section 6), so that no run spends time on them.

Why these bounds. Exclusion, crossing moves, a link sent twice and lost updates are
all races of two; a third request is there to do something to what the two race
for (a delete, another version, the move of the folder in between). Three folders
are the smallest tree in which a subtree has an inside and a cycle can pass through
a folder that neither move names. Six requests are what it takes to create two
households, invite, join, and race two more. A quota of two against sizes one and
two lets a pair fit, fill, and overflow. One fault and one restart reach every
error path once, and each property speaks of a single reply, file or invoice, which
a second fault would only make fail earlier. The tab needs two requests to be refused
by one and follow the other, and one return to find a reply under way; a second return
repeats the first with older rows. Three requests are what it takes for one to be let
in, wait while another runs, and add its question above that one's, with a third to
truncate or regenerate what they left; what replies say plays no part in it, so they
are empty in `chat_one`. The backfill needs two cuts, since a repetition of
a repetition is what leaves two rows for one object. Seven pieces hold the tags whole
and every part of them a chunk may end in. What no bound can show is proved
(section 6).

`CHECK_DEADLOCK FALSE` is set everywhere because requests are bounded:
when all of them are over, nothing is left to do. That nobody waits for anybody for
ever is a property where it could happen (`NobodyStuck`, `UploadEnds`,
`EveryReplyEnds`, `SpinEnds`, `UploadsEnd`). Symmetry is used in runs without liveness
only, and in `parts` over members and services only: what the initial state and the
texts choose is not interchangeable. `chat_live` takes of two behaviours that differ by
a swap of the two requests the one whose kinds come in order (`OrderedSpec`), which is
a choice of the initial state.

The bounds are constants: `MaxDeltas`, `MaxFaults`, `MaxCrashes`, `MaxRestarts`,
`MaxRequests`, `MaxOpen`, `MaxOpens`, `MaxFailures`, `KindsElsewhere`, `MaxInvoices`,
`MaxFiles`, `MaxAborts`, `FileIds`, `Pages`, `MaxAsked`, `MaxPieces`.

### Hypotheses inside properties

Several properties carry a condition, which is part of what they say of the code:
`StreamingHasWriter` and the second half of `EveryReplyEnds` exclude failed statements,
because a failed final save is only logged; `RepliesStand` excludes failures and the instant
between the two transactions of an edit; `PromptStands` and `RepliesKeepTheirPrompt` make
no claim of the place of a regenerate's reply after a failure (`Misplaced`), because the
code may put it above its question; `NewFilesFitQuota` speaks of files with one version,
because `_append_version` checks without the lock, and says nothing of the overrun that
this allows; `ImplementsDrive` is checked where
uploads do not outlive their hour, so that nothing listed may go, and proved for both
values of `SlowUploads`; `ShownHasBytes`, which does not need that, is checked where
they do; `CyclesNeedTwoMoves`, `OrphansNeedARace` and `SurprisesNeedARace`
exclude exactly one race each, and so do `DisorderNeedsOverlap` and `DueNeedsNoLuck`: the
code does not prevent these races, and the properties say that nothing else does the
harm;
`ShownIsStored` speaks of a page on which nothing is under way and whose rows are not
`stale` nor a connection `lost`; `ShowsOneListing` excludes a failed request and a
"Load more" beside another listing, since the last first page; `StuckNeedsAFault` names the two ways in which an
invoice is left waiting; `OneForm` excludes two validations of one invoice at once,
whose result is a mixture.

## 5. Fairness

`ChatRuns`: weak fairness of each handler and each task, because the event loop
runs what is ready and threads finish. Nothing makes the model speak: `EveryReplyEnds`
assumes `ModelAnswers` (the client of `chat/llm.py` has a
timeout), `StopEnds` does not. A user is never made to act.
`FileUploads` (`FairSpec`): handlers, summaries and started sweeps go on; an hour
passes; the owner lists the files again and again (the sweep rides on listings, and
without one nothing would ever sweep). `Invoices`: an upload and its readings go on,
because every call they make has a timeout; people need not do anything.
`ChatFeed`: the server answers, a run ends (the model answers or times out), and what
was answered reaches the tab; nobody is made to ask, to leave or to come back.
`Households`, `Folders` and the modules of `parts` have safety properties only;
`NobodyStuck` says what stands in for fairness there: a handler is ENABLED while one
is open.

## 6. The proofs

TLAPS checks every theorem below for all values of the constants under the
assumptions the modules name, not only for the instances of section 4. The
assumptions are these: sets are disjoint from the values that stand for NULL or for
nothing (`NoKey`, `NoStream`, ...), bounds are natural numbers, there is at least one
person, and the tags are texts of which the Close tag is no shorter than the Open
one. Two theorems have a hypothesis of their own: `Orphans` and `ReadyKept` are about a
bucket that answers within the hour, `~SlowUploads`, since after a slower answer a
sweep may take a file that has become ready (section 7). `ReadyStays` of the latter and
`WritesAreScoped` of `Scoped` are in no run of their own: the refinements
`ImplementsDrive` and `ImplementsMembership`, which the runs check, say more.

| Module | Theorems |
|---|---|
| `ChatRunsProofs` | `TypeCorrect`, `Exclusion`, `NoLeak`, `StreamOnlyCancelled`, `LateFlush`, `Frozen`, `Prompt`, `KeepPrompt`, `Stand`, `Stopped`, `Renamed` |
| `ChatSlotProofs` | `Implements`, `Writers` |
| `ChatFeedProofs` | `TypeCorrect`, `DoneOrNo`, `Nothing`, `Shown` |
| `FileUploadsProofs` | `TypeCorrect`, `Bytes`, `Numbered`, `QuotaHolds`, `LockPasses`, `Orphans`, `ReadyKept`, `Implements` |
| `HouseholdsProofs` | `TypeCorrect`, `Ownership`, `LinksForOne`, `Refusals`, `Scoped`, `Unstuck`, `Implements` |
| `FoldersProofs` | `TypeCorrect`, `Forests`, `NoOrphans`, `NoSurprises` |
| `InvoicesProofs` | `TypeCorrect`, `Reached`, `Confirmation`, `Lasting` |
| `PartsProofs` | Providers: `Order`, `Due`, `Spared`. Backfill: `BytesKept`, `Leftovers`. FilesList: `OneListing`. ThinkSplitter: `OnePiece` |

**The arguments.** *ChatRuns.* Exclusion is not inductive: it needs to know who owns
a key. `RegistryInv` says that a request between reserve and start finds its
reservation in the registry, a running one its own entry, and that every key has
such an owner; Reserve takes only absent keys, so two owners would share one.
`FlushInv` adds that while a flush is in flight the task either waits for it or was
cancelled and will take no more text: hence a flush carries the whole text whenever
it lands, and a settled row rewritten with its own text does not change. `PromptInv`
adds that from the second read on the history is exactly what was read: only the
owner of the reservation writes, by exclusion. The place of a row rests on
the same exclusion and on `TableInv`, which is about dates. No row is dated after the
clock, nor two rows alike (`Dates`); a row is of a request that has come far enough to
write it, and what was read by whoever holds the slot is what is there (`Rows`, `Held`).
A question may sort above rows written before it, but the reply to it is dated from a
transaction that began at the second read, when every other row was there already
(`LatePlaced`). A regenerate that deletes nothing has no such transaction: its reply is
dated from its ownership check, and stands below the question only because a question
nobody answers is left, unless a statement failed, before any request still open was let
in (`EarlyPlaced`). What each step does to the table is stated once (`Effects`), apart from
the registry and the task. `KeepPrompt` follows because a cut at a date takes a reply
with any message it answered. `StandInv` says below which list each reply was made, but for
the messages an edit has rewritten and not yet cut (`Doomed`, `Truncate`), and `StopInv` that a
stopped run which still streams has a cancellation on its way, so that what it saves
is `stopped`. `TitleInv`: only the first message of a conversation asks for a title, so
there is one title task, and a rename made once it is done is overwritten by none.
*The reply slot.* Every step of ChatRuns is shown to be a step of ReplySlot or a
stutter, and the initial states to be initial states. A request is let in where
ReplySlot lets it in because a key of the registry has exactly one owner among the
requests that hold a slot (`TakenKey`, from the registry invariant above). The rows are
written where ReplySlot allows because `SlotInv` follows a row through its request: it
has none before `AddReply`, is open while the request writes, is settled once the task
saved it unless a statement failed, and is never ahead of what the run received.
`StreamingHasWriter` follows from the same invariant.
*ChatFeed.* Three invariants on top of one another. `FirstInv` is who is at work:
the registry names the one request under way, the tab follows a stream or waits for
one fetch, and a queue ends in `done` or its run still has it to publish; hence
`DoneOrNoRun`. `SecondInv` is what is on its way: the reply being written is the last
row (`StoredInv`), an answer to a fetch is what was stored when it was read, up to the
reply that grows (`FetchInv`, `AttachInv`), and what the tab has had of a reply plus the
deltas in its queue is the text of the run (`FlowInv`), which is `NothingMissed`. `ThirdInv` is what
the page becomes: with nothing under way it is what is stored; while the tab's request
waits, the trimmed page and what the request will add are what will be stored; while
it follows a run, the page with the events of the queue applied is (`ShownInv`). Each
of those is kept while neither excuse, `stale` or `lost`, is there; the rows a new
fetch shows may take `stale` away, and are then what is stored, as they were read.
*FileUploads.* Every file is followed through its upload: `Inv` says for each value
of `pc` what the row, the object and the version number read must look like. A
version number is the successor of the highest at the time of the read and the
insert requires it to be free, so numbers stay a prefix of the naturals. The bytes of a ready file
survive the sweep because a finalize after the sweep's delete finds no row, and a
delete after a finalize takes the row first. For the quota the bytes are counted as a
set, of pairs of a file and a number, so that sums are cardinalities: the files of one
version, and what the holder of the lock is about to reserve, fit (`QuotaInv`); a
weighed version makes its file one of two versions and leaves that sum. Within the hour the sweep only meets
uploads that are over (`HourInv`), so that a row it deletes is never ready nor being
written, and its bytes are its own to remove or `missed`. For `Implements` each action
is a step of Drive or changes nothing Drive sees. A rename loaded before a delete is one of a
listed file, which is all that `Drive` asks of it. `MadeInv` is what that adds to the
invariant: whoever made a version is past making one, and made it of the file it wrote
to, so a finalize or an insert brings an upload no file has yet. The number it brings
is the next one because it was at most the next when read and is free when used. What
can be read under a key only grows by a write and only ends by a delete marker, and
both removals, of a refused upload and of the sweep, are of a key whose row is gone. A
DELETE of the sweep that takes a ready row is `Lose`, which `HourInv` rules out within
the hour.
*Households.* The invariant locates every stale read: whoever is about to be changed
or leaves is not the creator of the household that was looked at (`Placed`), so no
late write can touch an owner; a claimed link is open and its row is held by exactly
one redeem (`Claims`), so a cascade waits, the household of a claimed link exists and
a refused insert can only mean a membership. For `Unstuck`: every lock is held by a
redeem that has claimed or a delete that is dropping, so if none of those is there
whoever is open can go on; if all of those wait, they wait for one another, and the
smallest set of them that does is a cycle, which has a victim. For `Implements` the
question is what an old look is still worth. Who acts as the owner of a household made
it (`Owning`), and a maker is its owner as long as it exists, because no role is
written over the owner's, nobody removes them and they cannot leave; so a change that
finds its member there finds the caller's right as well, and one that finds nobody has
nothing left to do. A household being deleted is there until the cascade, which takes
its members, its links and its row in one step and waits for every claimed link, so
that its redeem, too, is seen whole or not at all.
*Folders.* A move that passed its walk keeps a witness: a set closed upwards from
the new parent that does not hold the folder. Any other placement is of a new row or
a file, or is a second move between walk and write, which `crossed` excludes. If the
move made a cycle S, the part of S inside the witness would be a cycle before it.
Orphans and surprises keep, for each deleting request, that the set it selected is
closed downwards (`SelectionsHold`) or that what it counted is still empty
(`CountsHold`), which only a placement could break, and `raced` remembers it.
*Invoices.* Every step is first restated as what it does to the place of one request,
to its tasks as a set and to the status of one invoice (`Step`); the parts of the
invariant are then kept by each of those. An invoice is a task of one upload, once
(`Apart`, `Once`), the tasks to come find it queued or deleted, and the one at work
has it to itself (`Queues`): hence no task leaves its invoice waiting. What a person
looked at never waits again (`Targets`), and before the first validation its number
is the one the person saw (`Unseen`), so that the columns which are not written
already say what the form says.
*Providers.* Three facts carry it: a service in use has its provider (`Owned`, from the
foreign key), whoever lists knows every provider from the names or has seen it born
since (`Known`), and what was there when a provider was found empty is not of that
provider (`Seen`). *Backfill.* `Handled` says what the run holds in its hands: the copy
of its key, without a row before the commit and with one after; so the removal of the
old object, and only that, comes after a row. An object without a row is counted against
the runs that were cut short (`StraysInv`), and a second row for one object means that
the first one's name was given up in between (`TwiceInv`): otherwise the unique name
refuses it.
*FilesList.* The number drawn last decides which answer counts, and numbers are drawn
once (`NumbersInv`): a refresh that counts asks for the view asked last, a "Load more"
that counts asks for what follows the list, unless the order was upset (`ListingInv`).
*ThinkSplitter.* Three cases. At the start nothing was sent and what is withheld may
yet be the Open tag. While thinking, what was sent and withheld is all that came after
it, no Close tag is in it, and what is withheld is too short to hold one and as long as
a beginning of one can be (`ThinkingInv`): so a Close tag that a chunk completes begins
in what is withheld, and is the first one of the whole text. After it everything is
sent; lstrip of a list of chunks and lstrip of the first alone differ by spaces that
lstrip takes away. Texts are sequences over any set, of any length; no induction is
needed, because each chunk is related to the text before it.

**Only model-checked.** Liveness (`EveryReplyEnds`, `StopEnds`, `SpinEnds`,
`ReservationEnds`, `UploadEnds`, `UploadsEnd`) and ENABLED are out of the prover's
reach. Of `UploadEnds`, `LockPasses` proves that the lock is never left behind.
`NobodyStuck` therefore has two halves: that a handler is `Able` while one is open,
which `Unstuck` proves, and that `Able` is when a handler is ENABLED, which the run
checks.

## 7. Where the code and its documents differ

Shown by a run:

- **`chat_doc_last`** – `stores/chat.ts:74`: "The streaming assistant message is always
  the last one." `get_conversation` reads the messages first and asks the registry
  afterwards. A reply whose row is added and whose run starts in between is reported
  as streaming with a list that does not hold it: the page that follows it writes the
  snapshot over the reply before it, or drops every delta until `done`.
- **`invoices_doc_read`** – `README.md:170`: "An uploaded invoice PDF is read by
  Ollama, then waits in the review queue". If a later PDF of the same upload is
  refused, the earlier invoices are committed but the tasks that would read them go
  with the response that is never sent: they stay `queued`, and a person who opens
  them is told 409, until a restart sweeps them to `failed`.

Met while modelling, without a run of their own:

- `docs/chat.md:30-33` says that a reply that is done is saved: when the final save
  fails, `done` is published all the same and the row stays `streaming` until the
  next start; and when the sweep of that start fails too (`main.py:27`), until the
  one after. `StreamingHasWriter` carries the condition.
- `docs/files-feature.md:159` calls `file_versions` "the readable index" over the
  object's versions. Two version uploads that read the same highest number both store
  their bytes; the one that loses the unique key fails and its bytes stay in the
  bucket as a version no row lists, above the current one.
- `api/routes/folders.py:118`: "a non-empty folder needs `?recursive=true`". What
  enters the folder between the count and the second selection is trashed without it
  (`SurprisesNeedARace` names the race).
- A question is dated from the ownership check of its request (`created_at` is `now()`,
  `models/chat.py:46`), although it waits for the model list before it is added; for
  `updated_at` the repository took `clock_timestamp()` (`repositories/chat.py:105`). A
  question let in before another run began and reserved after it ended sorts above that
  run's question and reply: the conversation then shows two replies in a row, and the
  first of them has a question above it that it never saw. `RepliesStand` says how far
  this goes.
- A regenerate after a failed request finds a question last, deletes nothing, and its
  reply is dated from its ownership check: if that came before the question was added,
  the reply is shown above it (`Misplaced`).
- A rename of a conversation to the title its request loaded writes nothing
  (`repositories/chat.py:56-61`), and a title committed in between stays.
- A file deleted between the two statements of a rename (`routes/files.py:346` and `:367`)
  is renamed in the trash, to a taken name too, because the unique index covers only
  rows that are not deleted.
- A stop during the reservation answers 204 and is forgotten (`runs.py:134`).
- A sweep cut short after its DELETE leaves bytes no row points to
  (`docs/files-feature.md:188-190` has the sweep remove both); `OrphansKnown` counts
  them in `missed`.
- A sweep may select a reservation that is finalized before its DELETE, which takes
  the ready file with it (`docs/files-feature.md:315` has it delete pending rows). It
  takes an upload slower than an hour.
- `files.size_bytes` is not written when a version has the size its session loaded,
  although another version changed it in between (`routes/files.py:213`).
- The comment at `routes/files.py:237` has an outage release the reservation; an
  error of the connection is no `S3Error`, so it stays until a sweep.
- Two first uploads of one name both reserve and store; the second finalize hits the
  unique name and answers 500 instead of becoming version 2.
- `summary.py:271`: a stale summary is overwritten by the next one only if the tasks
  finish in order.
- `docs/files-feature.md:243` (BR-5): two opposite moves make a cycle. The comment in
  `_subtree` knows it, and the browser's `pathOf` guards against it.
- `repositories/folders.py:114`: "Rows already trashed keep their own stamp" holds
  for what the second selection sees; folders trashed after it are stamped again.
- A contract may end before it starts: two updates, each in order with the dates it
  read, write one date each, and no constraint of `services` compares them
  (`DisorderNeedsOverlap`).
- `GET /upcoming` raises KeyError (`api/routes/costs.py:81`) for a service whose
  provider was created after the names were read (`DueNeedsNoLuck`).
- `scripts/backfill.py:12-14` calls the script idempotent: a run cut short can be
  repeated. After a cut between the commit and the removal the next run copies the old
  object again and is refused by the name of the row the first one made, so a file renamed or trashed in between is
  indexed a second time (`LeftoversNeedAnAbort`).
- `stores/files.ts:72`: "Load more" is disabled while `loading`, but any answer, of an
  older request too, lowers the flag, and a failed load leaves the old list under the
  new parameters: the next page then belongs to another listing than the ones above it.
- A stream that breaks, or is stopped, inside a tag loses the withheld characters
  (fewer than a tag), because only the end of a stream flushes the splitter.
- Rows read between the insert of a reply and the start of its run show a reply that
  streams and that nobody follows; so does the second fetch after a refusal or a 204,
  which does not follow what runs. Opening the page again repairs it.
- Two validations of one invoice at once leave columns of one form and tax lines of
  the other.

## 8. What is not modelled

The collector is one loop, alone at its two tables. The series, totals and thresholds
of `costs.py` are arithmetic on one list of invoices, `build_context` is a budget over
one list of messages, and both have no steps to interleave. The LLM client's list of
models and its cache only read. An update of a provider writes fields nothing depends
on; a household's delete, which takes its providers with it, is in Households and not
repeated in Providers. Of the browser, the stores other than chat and files guard one
list each or none, the lists of conversations and models beside the chat are such
lists, and the views render; the form of ReviewView, which a reload refills, is the one
state machine among them and is left out. Metrics, authentication, configuration: no
state of their own. Migrations, deployment and the shell scripts: their constraints are
in the models, running them is not. Listings, searches and
downloads only read. Tokens are taken as valid; PostgreSQL, the bucket and the model
are modelled from how the code uses them: statements are atomic, unique and foreign
keys hold, a call to the bucket may fail before or after its effect.
