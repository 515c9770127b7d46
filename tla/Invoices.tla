-------------------------------- MODULE Invoices --------------------------------
(***************************************************************************)
(* The invoices of a household: uploads that are read after their answer,  *)
(* people who validate what was read, mark it paid or delete it.           *)
(*                                                                         *)
(* A reading is a task of the upload that stored the PDF; the tasks of an  *)
(* upload run one after the other, once it is answered. Every request      *)
(* reads the invoice first and writes the columns it changes later, by     *)
(* primary key, with no look at what the row has become.                   *)
(*                                                                         *)
(* Requests are numbered as they arrive and invoices as they are made. Of  *)
(* the columns that a person fills in there is the invoice number, which   *)
(* is unique per service; there is one service. The tax lines of an        *)
(* invoice go by the request that wrote them.                              *)
(***************************************************************************)
EXTENDS Integers, Sequences

CONSTANTS
    Numbers,      \* invoice numbers
    None,         \* no number
    Error,        \* what cannot be read
    MaxRequests,  \* bound: requests that arrive
    MaxInvoices,  \* bound: invoices made
    MaxFiles,     \* bound: PDFs of one upload
    MaxFaults,    \* bound: statements of a reading, or sweeps, that fail
    MaxRestarts   \* bound: restarts of the process

ASSUME ValuesAssumption == None \notin Numbers /\ Error \notin Numbers \cup {None}
ASSUME BoundsAssumption ==
    /\ MaxRequests \in Nat /\ MaxInvoices \in Nat /\ MaxFiles \in Nat \ {0}
    /\ MaxFaults \in Nat /\ MaxRestarts \in Nat

Requests == 1 .. MaxRequests
Invoices == 1 .. MaxInvoices
NumberOrNone == Numbers \cup {None}
Kinds == {"upload", "manual", "validate", "pay", "delete"}

\* files, filed: the PDFs of an upload, and whether it preselects the service;
\* invoice: the {invoice_id} of the path; number, paid: the form.
Body == [kind : Kinds, files : 0 .. MaxFiles, filed : BOOLEAN, invoice : Invoices \cup {0},
         number : NumberOrNone, paid : BOOLEAN]
Bodies == {b \in Body :
    /\ b.kind = "upload" <=> b.files > 0
    /\ b.filed => b.kind = "upload"
    /\ b.kind \in {"validate", "pay", "delete"} <=> b.invoice # 0
    /\ b.kind \notin {"manual", "validate"} => b.number = None
    /\ b.paid => b.kind = "pay"}

Reading == {"reading", "asking", "finishing", "refreshing", "failing"}
Open == Reading \cup {"uploading", "loaded", "checked"}
Over == {"done", "refused", "broken", "dead"}

VARIABLES
    arrived,   \* number of requests that have arrived
    asks,      \* request -> body
    pc,        \* request -> where its handler, or its tasks, stand
    seen,      \* request -> invoice_number or paid_at as it was read
    todo,      \* upload -> invoices that it has made and not yet read
    answer,    \* upload -> invoice_number that the model found
    made,      \* number of invoices made
    status,    \* invoice -> status; "none": not made yet, "gone": deleted
    filed,     \* invoice -> is service_id set
    number,    \* invoice -> invoice_number
    taxes,     \* invoice -> request that wrote its tax lines, 0: none
    paid,      \* invoice -> is paid_at set
    ollama,    \* is DARKANGEL_OLLAMA_URL set
    faults, restarts

row == <<status, filed, number, taxes, paid>>
run == <<seen, todo, answer>>
rest == <<ollama, faults, restarts>>
vars == <<arrived, asks, pc, run, made, row, rest>>

Kind(r) == asks[r].kind
Target(r) == asks[r].invoice
Goto(r, label) == pc' = [pc EXCEPT ![r] = label]
Present(i) == status[i] \notin {"none", "gone"}
Waiting(i) == status[i] \in {"queued", "extracting"}

\* uq_invoices_service_number, and what find_duplicate looks for.
Taken(n, i) == n # None /\ \E j \in Invoices \ {i} : Present(j) /\ filed[j] /\ number[j] = n

Init ==
    /\ arrived = 0
    /\ asks = [r \in Requests |-> [kind |-> "manual", files |-> 0, filed |-> FALSE,
                                   invoice |-> 0, number |-> None, paid |-> FALSE]]
    /\ pc = [r \in Requests |-> "idle"]
    /\ seen = [r \in Requests |-> None]
    /\ todo = [r \in Requests |-> <<>>]
    /\ answer = [r \in Requests |-> None]
    /\ made = 0
    /\ status = [i \in Invoices |-> "none"]
    /\ filed = [i \in Invoices |-> FALSE]
    /\ number = [i \in Invoices |-> None]
    /\ taxes = [i \in Invoices |-> 0]
    /\ paid = [i \in Invoices |-> FALSE]
    /\ ollama \in BOOLEAN
    /\ faults = 0
    /\ restarts = 0

-----------------------------------------------------------------------------
(* Arrival: the first look at the invoice                                  *)

\* Mutant: a person need not wait for the reading.
BeginEarly(r, b) ==
    \/ /\ b.kind = "upload"
       /\ Goto(r, "uploading")
       /\ UNCHANGED seen
    \/ /\ b.kind = "manual"
       /\ Goto(r, "loaded")
       /\ UNCHANGED seen
    \/ /\ b.kind = "validate" /\ Present(b.invoice) /\ status[b.invoice] # "validated"
       /\ Goto(r, "loaded")
       /\ seen' = [seen EXCEPT ![r] = number[b.invoice]]
    \/ /\ b.kind = "pay" /\ status[b.invoice] = "validated"
       /\ Goto(r, "checked")
       /\ seen' = [seen EXCEPT ![r] = paid[b.invoice]]
    \/ /\ b.kind = "delete" /\ Present(b.invoice)
       /\ Goto(r, "checked")
       /\ UNCHANGED seen

Begin(r, b) ==
    \/ /\ b.kind = "upload"
       /\ Goto(r, "uploading")
       /\ UNCHANGED seen
    \/ /\ b.kind = "manual"
       /\ Goto(r, "loaded")
       /\ UNCHANGED seen
    \/ /\ b.kind = "validate" /\ status[b.invoice] \in {"to_validate", "failed"}
       /\ Goto(r, "loaded")
       /\ seen' = [seen EXCEPT ![r] = number[b.invoice]]
    \/ /\ b.kind = "pay" /\ status[b.invoice] = "validated"
       /\ Goto(r, "checked")
       /\ seen' = [seen EXCEPT ![r] = paid[b.invoice]]
    \/ /\ b.kind = "delete" /\ Present(b.invoice)
       /\ Goto(r, "checked")
       /\ UNCHANGED seen

Arrive ==
    /\ arrived < MaxRequests
    /\ arrived' = arrived + 1
    /\ \E b \in Bodies :
           /\ asks' = [asks EXCEPT ![arrived + 1] = b]
           /\ Begin(arrived + 1, b)
    /\ UNCHANGED <<todo, answer, made, row, rest>>

-----------------------------------------------------------------------------
(* upload_invoices                                                         *)

\* A PDF is stored, and its invoice made and committed.
Store(r) ==
    LET i == made + 1 IN
    /\ pc[r] = "uploading" /\ Len(todo[r]) < asks[r].files
    /\ made < MaxInvoices
    /\ made' = i
    /\ status' = [status EXCEPT ![i] = IF ollama THEN "queued" ELSE "to_validate"]
    /\ filed' = [filed EXCEPT ![i] = asks[r].filed]
    /\ todo' = [todo EXCEPT ![r] = Append(@, i)]
    /\ UNCHANGED <<arrived, asks, pc, seen, answer, number, taxes, paid, rest>>

\* A PDF is refused (too large, over the quota, no storage, a name taken): the
\* request ends with an error, and the tasks it has added so far never run.
Refuse(r) ==
    /\ pc[r] = "uploading" /\ Len(todo[r]) < asks[r].files
    /\ Goto(r, "refused")
    /\ UNCHANGED <<arrived, asks, run, made, row, rest>>

Respond(r) ==
    /\ pc[r] = "uploading" /\ Len(todo[r]) = asks[r].files
    /\ Goto(r, IF ollama THEN "reading" ELSE "done")
    /\ UNCHANGED <<arrived, asks, run, made, row, rest>>

-----------------------------------------------------------------------------
(* extract                                                                 *)

Current(r) == Head(todo[r])
NextTask(r) ==
    /\ todo' = [todo EXCEPT ![r] = Tail(@)]
    /\ Goto(r, IF Len(todo[r]) = 1 THEN "done" ELSE "reading")

\* Mutant: a deleted invoice is waited for.
StartPresent(r) ==
    /\ pc[r] = "reading" /\ Present(Current(r))
    /\ status' = [status EXCEPT ![Current(r)] = "extracting"]
    /\ Goto(r, "asking")
    /\ UNCHANGED <<arrived, asks, run, made, filed, number, taxes, paid, rest>>

\* by_id and set_status: nothing but a delete comes between the two.
Start(r) ==
    /\ pc[r] = "reading"
    /\ IF Present(Current(r))
       THEN /\ status' = [status EXCEPT ![Current(r)] = "extracting"]
            /\ Goto(r, "asking")
            /\ UNCHANGED todo
       ELSE NextTask(r) /\ UNCHANGED status
    /\ UNCHANGED <<arrived, asks, seen, answer, made, filed, number, taxes, paid, rest>>

\* The PDF, the model, and what is made of its answer; a number that the
\* preselected service has is left to the person.
Ask(r) ==
    /\ pc[r] = "asking"
    /\ \E a \in NumberOrNone \cup {Error} :
           /\ answer' = [answer EXCEPT ![r] =
                  IF a # Error /\ filed[Current(r)] /\ Taken(a, Current(r)) THEN None ELSE a]
           /\ Goto(r, IF a = Error THEN "failing" ELSE "finishing")
    /\ UNCHANGED <<arrived, asks, seen, todo, made, row, rest>>

\* The outcome is recorded while the invoice waits for it. A number that is not
\* found leaves the column alone.
Finish(r) ==
    LET i == Current(r) IN
    /\ pc[r] = "finishing"
    /\ IF Waiting(i) /\ filed[i] /\ Taken(answer[r], i)
       THEN Goto(r, "failing") /\ UNCHANGED <<status, number>>
       ELSE /\ Goto(r, "refreshing")
            /\ status' = [status EXCEPT ![i] = IF Waiting(i) THEN "to_validate" ELSE @]
            /\ number' = [number EXCEPT ![i] =
                   IF Waiting(i) /\ answer[r] # None THEN answer[r] ELSE @]
    /\ UNCHANGED <<arrived, asks, run, made, filed, taxes, paid, rest>>

\* The row is read again, and may be gone.
Refresh(r) ==
    /\ pc[r] = "refreshing"
    /\ IF Present(Current(r)) THEN NextTask(r) ELSE Goto(r, "failing") /\ UNCHANGED todo
    /\ UNCHANGED <<arrived, asks, seen, answer, made, row, rest>>

\* Mutant: the failure is recorded whatever the invoice has become.
FailAnyway(r) ==
    /\ pc[r] = "failing"
    /\ status' = [status EXCEPT ![Current(r)] = IF Present(Current(r)) THEN "failed" ELSE @]
    /\ NextTask(r)
    /\ UNCHANGED <<arrived, asks, seen, answer, made, filed, number, taxes, paid, rest>>

Fail(r) ==
    /\ pc[r] = "failing"
    /\ status' = [status EXCEPT ![Current(r)] = IF Waiting(Current(r)) THEN "failed" ELSE @]
    /\ NextTask(r)
    /\ UNCHANGED <<arrived, asks, seen, answer, made, filed, number, taxes, paid, rest>>

\* A statement of a reading fails: in the middle that is a failed reading, at
\* its two ends it is logged and the invoice stays as it is.
Fault(r) ==
    /\ pc[r] \in Reading \ {"asking"} /\ faults < MaxFaults
    /\ faults' = faults + 1
    /\ IF pc[r] \in {"reading", "failing"} THEN NextTask(r) ELSE Goto(r, "failing") /\ UNCHANGED todo
    /\ UNCHANGED <<arrived, asks, seen, answer, made, row, ollama, restarts>>

-----------------------------------------------------------------------------
(* The person's requests                                                   *)

\* _reject_duplicate.
Check(r) ==
    /\ pc[r] = "loaded"
    /\ Goto(r, IF Taken(asks[r].number, Target(r)) THEN "refused" ELSE "checked")
    /\ UNCHANGED <<arrived, asks, run, made, row, rest>>

\* A write whose row is gone, or whose number was taken since, is an error that
\* nothing catches.
Break(r) == Goto(r, "broken") /\ UNCHANGED <<made, row>>

Manual(r) ==
    LET i == made + 1 IN
    /\ pc[r] = "checked" /\ Kind(r) = "manual"
    /\ made < MaxInvoices
    /\ IF Taken(asks[r].number, i)
       THEN Break(r)
       ELSE /\ made' = i
            /\ status' = [status EXCEPT ![i] = "validated"]
            /\ filed' = [filed EXCEPT ![i] = TRUE]
            /\ number' = [number EXCEPT ![i] = asks[r].number]
            /\ taxes' = [taxes EXCEPT ![i] = r]
            /\ Goto(r, "done")
            /\ UNCHANGED paid
    /\ UNCHANGED <<arrived, asks, run, rest>>

\* The session writes the columns that differ from what it read.
Written(r) == IF asks[r].number = seen[r] THEN number[Target(r)] ELSE asks[r].number

\* validate: the columns that differ from what was read, and the tax lines.
Validate(r) ==
    LET i == Target(r) IN
    /\ pc[r] = "checked" /\ Kind(r) = "validate"
    /\ IF ~Present(i) \/ Taken(Written(r), i)
       THEN Break(r)
       ELSE /\ status' = [status EXCEPT ![i] = "validated"]
            /\ filed' = [filed EXCEPT ![i] = TRUE]
            /\ number' = [number EXCEPT ![i] = Written(r)]
            /\ taxes' = [taxes EXCEPT ![i] = r]
            /\ Goto(r, "done")
            /\ UNCHANGED <<made, paid>>
    /\ UNCHANGED <<arrived, asks, run, rest>>

Pay(r) ==
    LET i == Target(r) IN
    /\ pc[r] = "checked" /\ Kind(r) = "pay"
    /\ IF asks[r].paid = seen[r] \/ Present(i)
       THEN /\ paid' = [paid EXCEPT ![i] = IF asks[r].paid = seen[r] THEN @ ELSE asks[r].paid]
            /\ Goto(r, "done")
            /\ UNCHANGED <<made, status, filed, number, taxes>>
       ELSE Break(r)
    /\ UNCHANGED <<arrived, asks, run, rest>>

Delete(r) ==
    /\ pc[r] = "checked" /\ Kind(r) = "delete"
    /\ status' = [status EXCEPT ![Target(r)] = "gone"]
    /\ Goto(r, "done")
    /\ UNCHANGED <<arrived, asks, run, made, filed, number, taxes, paid, rest>>

-----------------------------------------------------------------------------
\* Mutant: the sweep forgets what was being read.
SweptQueued == [i \in Invoices |-> IF status[i] = "queued" THEN "failed" ELSE status[i]]
\* reset_stuck.
Swept == [i \in Invoices |-> IF Waiting(i) THEN "failed" ELSE status[i]]

\* The process dies, the readings with it, and the next one sweeps as it starts,
\* unless the database is not up yet.
Restart ==
    /\ restarts < MaxRestarts
    /\ restarts' = restarts + 1
    /\ pc' = [r \in Requests |-> IF pc[r] \in Open THEN "dead" ELSE pc[r]]
    /\ \/ status' = Swept /\ UNCHANGED faults
       \/ faults < MaxFaults /\ faults' = faults + 1 /\ UNCHANGED status
    /\ UNCHANGED <<arrived, asks, run, made, filed, number, taxes, paid, ollama>>

Upload(r) ==
    \/ Store(r) \/ Refuse(r) \/ Respond(r)
    \/ Start(r) \/ Ask(r) \/ Finish(r) \/ Refresh(r) \/ Fail(r)
Person(r) == Check(r) \/ Manual(r) \/ Validate(r) \/ Pay(r) \/ Delete(r)

Next == Arrive \/ Restart \/ \E r \in Requests : Upload(r) \/ Person(r) \/ Fault(r)

\* A task that has begun goes on, its calls have timeouts.
Spec == Init /\ [][Next]_vars /\ \A r \in Requests : WF_vars(Upload(r))

-----------------------------------------------------------------------------
\* Every variable keeps its type; an invoice is without a status exactly until it
\* is made.
TypeOK ==
    /\ arrived \in 0 .. MaxRequests /\ made \in 0 .. MaxInvoices
    /\ asks \in [Requests -> Body]
    /\ pc \in [Requests -> {"idle"} \cup Open \cup Over]
    /\ seen \in [Requests -> NumberOrNone \cup BOOLEAN]
    /\ todo \in [Requests -> Seq(Invoices)] /\ answer \in [Requests -> NumberOrNone \cup {Error}]
    /\ \A i \in Invoices : status[i] = "none" <=> i > made
    /\ status \in [Invoices -> {"none", "gone", "queued", "extracting", "to_validate",
                                "validated", "failed"}]
    /\ filed \in [Invoices -> BOOLEAN] /\ paid \in [Invoices -> BOOLEAN]
    /\ number \in [Invoices -> NumberOrNone] /\ taxes \in [Invoices -> Requests \cup {0}]
    /\ ollama \in BOOLEAN /\ faults \in 0 .. MaxFaults /\ restarts \in 0 .. MaxRestarts

Reads(i) == {r \in Requests : \E k \in DOMAIN todo[r] : todo[r][k] = i}

\* An invoice that waits for its reading has one to come, through deletes,
\* restarts and failed readings, unless a statement failed at the wrong moment
\* or its upload was refused at a later PDF.
StuckNeedsAFault ==
    \A i \in Invoices : Waiting(i) =>
        faults > 0 \/ \E r \in Reads(i) : pc[r] \in Reading \cup {"uploading", "refused"}

\* "An uploaded invoice PDF is read by Ollama, then waits in the review queue
\* until someone validates it by hand": an invoice that waits for its reading
\* has one to come, or a fault to blame.
WaitingIsRead ==
    \A i \in Invoices : Waiting(i) =>
        faults > 0 \/ \E r \in Reads(i) : pc[r] \in Reading \cup {"uploading"}

Validators(i) == {r \in Requests : Kind(r) = "validate" /\ Target(r) = i /\ pc[r] = "done"}

\* A validated invoice is one that a person confirmed, and unless two did at
\* once it holds what that person's form said, tax lines and columns, whatever
\* was read or written while the form was on its way.
OneForm ==
    \A i \in Invoices : status[i] = "validated" =>
        /\ taxes[i] # 0 /\ pc[taxes[i]] = "done"
        /\ (\A q, r \in Validators(i) : q = r) => number[i] = asks[taxes[i]].number

\* A late outcome of a reading, a sweep or another request never undoes a
\* validation, and nothing brings a deleted invoice back.
ValidatedStays ==
    [][\A i \in Invoices :
           /\ status[i] = "validated" => status'[i] \in {"validated", "gone"}
           /\ status[i] = "gone" => status'[i] = "gone"]_vars

\* The readings of every upload come to an end, whatever is deleted, swept or
\* failing meanwhile (so few requests arrive that they all do at some time).
UploadsEnd == <>[](\A r \in Requests : pc[r] \notin Reading)
=============================================================================
