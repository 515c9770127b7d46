------------------------------ MODULE Providers ------------------------------
(***************************************************************************)
(* The providers of a household, their services, and the page that lists   *)
(* what is due: requests of several members, whose statements interleave.  *)
(* Every statement sees what is committed when it runs (READ COMMITTED),   *)
(* and every request commits once, with its last statement.                *)
(*                                                                         *)
(* Dates are small numbers; an absent one passes every test and is left    *)
(* out. The other fields of a provider and of a service say nothing here,  *)
(* and the household, whose delete takes all of this with it, stays.       *)
(***************************************************************************)
EXTENDS Naturals

CONSTANTS
    ProviderIds,
    ServiceIds,
    InvoiceIds,
    Members,        \* members of the household, one request at a time each
    Days,           \* the dates a contract may start or end at
    NoService,      \* an invoice that names no service, or does not exist
    NoCall          \* a member who waits for nothing

ASSUME DaysAssumption == Days # {} /\ Days \subseteq Nat

VARIABLES
    provider,   \* provider -> "unborn", "live" or "gone"
    service,    \* service -> "unborn", "live" or "gone"
    of,         \* service -> the provider it is, or will be, created for
    contract,   \* service -> what its row says of the contract
    names,      \* invoice -> the service it names
    call,       \* member -> the request the server works on
    stale       \* services whose dates were written by who read older ones

providersVars == <<provider, service, of, contract, names, call, stale>>

Alive == {s \in ServiceIds : service[s] = "live"}
Of(p) == {s \in Alive : of[s] = p}
Invoiced(s) == \E i \in InvoiceIds : names[i] = s

Contracts == [start : Days, end : Days, archived : BOOLEAN]
InOrder(row) == row.start <= row.end
Fresh == CHOOSE row \in Contracts : InOrder(row) /\ ~row.archived

States == {"unborn", "live", "gone"}
ProviderCalls ==
    [does : {"delete provider", "create service"}, step : {"got", "checked"},
     on : ProviderIds, had : SUBSET ServiceIds]
ServiceCalls ==
    [does : {"update service", "delete service", "file invoice"}, step : {"got", "checked"},
     on : ServiceIds, read : Contracts]
PageCalls ==
    [does : {"upcoming"}, step : {"named", "listed", "failed"},
     on : SUBSET ProviderIds, born : SUBSET ProviderIds]

ProvidersTypeOK ==
    /\ provider \in [ProviderIds -> States]
    /\ service \in [ServiceIds -> States]
    /\ of \in [ServiceIds -> ProviderIds]
    /\ contract \in [ServiceIds -> Contracts]
    /\ names \in [InvoiceIds -> ServiceIds \cup {NoService}]
    /\ call \in [Members -> ProviderCalls \cup ServiceCalls \cup PageCalls \cup {NoCall}]
    /\ stale \subseteq ServiceIds

ProvidersInit ==
    /\ provider = [p \in ProviderIds |-> "unborn"]
    /\ service = [s \in ServiceIds |-> "unborn"]
    /\ of \in [ServiceIds -> ProviderIds]
    /\ contract = [s \in ServiceIds |-> Fresh]
    /\ names = [i \in InvoiceIds |-> NoService]
    /\ call = [m \in Members |-> NoCall]
    /\ stale = {}

Free(m) == call[m] = NoCall
Does(m, what, step) == call[m] # NoCall /\ call[m].does = what /\ call[m].step = step
Answer(m) == call' = [call EXCEPT ![m] = NoCall]

-----------------------------------------------------------------------------
(* Providers                                                               *)

CreateProvider(p) ==
    /\ provider[p] = "unborn"
    /\ provider' = [provider EXCEPT ![p] = "live"]
    \* Ghost of the pages under way: who appeared since they read the names.
    /\ call' = [m \in Members |->
           IF Does(m, "upcoming", "named") THEN [call[m] EXCEPT !.born = @ \cup {p}] ELSE call[m]]
    /\ UNCHANGED <<service, of, contract, names, stale>>

\* _provider: 404 unless it is there, for who deletes it or adds a service.
GetProvider(m, p) ==
    /\ Free(m) /\ provider[p] = "live"
    /\ \E what \in {"delete provider", "create service"} :
          call' = [call EXCEPT ![m] =
              [does |-> what, step |-> "got", on |-> p, had |-> {}]]
    /\ UNCHANGED <<provider, service, of, contract, names, stale>>

\* Mutant: archived services do not count.
CheckUnarchived(m) ==
    /\ Does(m, "delete provider", "got")
    /\ IF \A s \in Of(call[m].on) : contract[s].archived
       THEN call' = [call EXCEPT ![m] = [@ EXCEPT !.step = "checked", !.had = Alive]]
       ELSE Answer(m)
    /\ UNCHANGED <<provider, service, of, contract, names, stale>>

\* 409 if it has services, archived ones included.
CheckServices(m) ==
    /\ Does(m, "delete provider", "got")
    /\ IF Of(call[m].on) = {}
       THEN call' = [call EXCEPT ![m] = [@ EXCEPT !.step = "checked", !.had = Alive]]
       ELSE Answer(m)
    /\ UNCHANGED <<provider, service, of, contract, names, stale>>

\* DELETE, which cascades to the services; one with an invoice refuses, and
\* then nothing is deleted (500).
DeleteProvider(m) ==
    /\ Does(m, "delete provider", "checked")
    /\ IF \E s \in Of(call[m].on) : Invoiced(s)
       THEN UNCHANGED <<provider, service>>
       ELSE /\ provider' = [provider EXCEPT ![call[m].on] = "gone"]
            /\ service' = [s \in ServiceIds |->
                   IF s \in Of(call[m].on) THEN "gone" ELSE service[s]]
    /\ Answer(m)
    /\ UNCHANGED <<of, contract, names, stale>>

-----------------------------------------------------------------------------
(* Services                                                                *)

\* The insert fails when the provider went meanwhile (500).
CreateService(m, s) ==
    /\ Does(m, "create service", "got")
    /\ service[s] = "unborn" /\ of[s] = call[m].on
    /\ \/ /\ provider[call[m].on] = "live"
          /\ service' = [service EXCEPT ![s] = "live"]
          /\ \E row \in Contracts :
                /\ InOrder(row) /\ ~row.archived
                /\ contract' = [contract EXCEPT ![s] = row]
       \/ /\ provider[call[m].on] = "gone"
          /\ UNCHANGED <<service, contract>>
    /\ Answer(m)
    /\ UNCHANGED <<provider, of, names, stale>>

\* _service and _own_service: 404 unless it is there.
GetService(m, s) ==
    /\ Free(m) /\ s \in Alive
    /\ \E what \in {"update service", "delete service", "file invoice"} :
          call' = [call EXCEPT ![m] =
              [does |-> what, step |-> "got", on |-> s, read |-> contract[s]]]
    /\ UNCHANGED <<provider, service, of, contract, names, stale>>

\* Mutant: the dates are compared only when both are in the body.
AcceptedTogether(read, new) ==
    (new.start # read.start /\ new.end # read.end) => InOrder(new)

\* _check_dates, on the body completed with the row that was read.
Accepted(read, new) == InOrder(new)

\* The UPDATE sets the columns that differ from the row that was read. A
\* service deleted meanwhile is not there to set (500); a bad order is a 422.
UpdateService(m) ==
    /\ Does(m, "update service", "got")
    /\ LET s == call[m].on
           read == call[m].read
           now == contract[s]
       IN  \/ /\ s \in Alive
              /\ \E new \in Contracts :
                    /\ Accepted(read, new)
                    /\ contract' = [contract EXCEPT ![s] =
                           [field \in DOMAIN now |->
                               IF new[field] # read[field] THEN new[field] ELSE now[field]]]
              /\ stale' = IF <<read.start, read.end>> # <<now.start, now.end>>
                          THEN stale \cup {s} ELSE stale
           \/ UNCHANGED <<contract, stale>>
    /\ Answer(m)
    /\ UNCHANGED <<provider, service, of, names>>

\* service_has_invoices: 409.
CheckInvoices(m) ==
    /\ Does(m, "delete service", "got")
    /\ IF Invoiced(call[m].on)
       THEN Answer(m)
       ELSE call' = [call EXCEPT ![m].step = "checked"]
    /\ UNCHANGED <<provider, service, of, contract, names, stale>>

\* invoices.service_id has no cascade: a service with invoices refuses to go.
DeleteService(m) ==
    /\ Does(m, "delete service", "checked")
    /\ service' = IF Invoiced(call[m].on)
                  THEN service
                  ELSE [service EXCEPT ![call[m].on] = "gone"]
    /\ Answer(m)
    /\ UNCHANGED <<provider, of, contract, names, stale>>

\* An invoice is entered by hand or validated for a service, and fails (500) if
\* the service went meanwhile.
FileInvoice(m, i) ==
    /\ Does(m, "file invoice", "got")
    /\ names' = IF call[m].on \in Alive THEN [names EXCEPT ![i] = call[m].on] ELSE names
    /\ Answer(m)
    /\ UNCHANGED <<provider, service, of, contract, stale>>

DropInvoice(i) ==
    /\ names[i] # NoService
    /\ names' = [names EXCEPT ![i] = NoService]
    /\ UNCHANGED <<provider, service, of, contract, call, stale>>

-----------------------------------------------------------------------------
(* What is due: GET /upcoming                                              *)

\* Mutant: the names come from a join with the services.
LiveJoined == {p \in ProviderIds : Of(p) # {}}

Live == {p \in ProviderIds : provider[p] = "live"}

ReadNames(m) ==
    /\ Free(m)
    /\ call' = [call EXCEPT ![m] =
           [does |-> "upcoming", step |-> "named", on |-> Live, born |-> {}]]
    /\ UNCHANGED <<provider, service, of, contract, names, stale>>

\* names[service.provider_id] raises KeyError (500) for a provider that was not
\* there when the names were read, if its service is due for the list.
ReadServices(m) ==
    /\ Does(m, "upcoming", "named")
    /\ \E step \in {"listed", "failed"} :
          /\ step = "failed" => \E s \in Alive : of[s] \notin call[m].on
          /\ call' = [call EXCEPT ![m].step = step]
    /\ UNCHANGED <<provider, service, of, contract, names, stale>>

Listed(m) ==
    /\ Does(m, "upcoming", "listed") \/ Does(m, "upcoming", "failed")
    /\ Answer(m)
    /\ UNCHANGED <<provider, service, of, contract, names, stale>>

-----------------------------------------------------------------------------
ProvidersNext ==
    \/ \E p \in ProviderIds : CreateProvider(p)
    \/ \E i \in InvoiceIds : DropInvoice(i)
    \/ \E m \in Members :
          \/ \E p \in ProviderIds : GetProvider(m, p)
          \/ CheckServices(m) \/ DeleteProvider(m)
          \/ \E s \in ServiceIds : CreateService(m, s) \/ GetService(m, s)
          \/ UpdateService(m) \/ CheckInvoices(m) \/ DeleteService(m)
          \/ \E i \in InvoiceIds : FileInvoice(m, i)
          \/ ReadNames(m) \/ ReadServices(m) \/ Listed(m)

ProvidersSpec == ProvidersInit /\ [][ProvidersNext]_providersVars

-----------------------------------------------------------------------------
(* Properties                                                              *)

\* Nothing that a member had reason to keep is deleted: a service goes because
\* it was named, or with its provider when it was created after the check that
\* found none, archived ones included; never with an invoice.
OnlyTheUnseenGoes ==
    [][\A s \in ServiceIds : s \in Alive /\ s \notin Alive' =>
           /\ ~Invoiced(s)
           /\ \E m \in Members :
                 \/ Does(m, "delete service", "checked") /\ call[m].on = s
                 \/ /\ Does(m, "delete provider", "checked")
                    /\ call[m].on = of[s] /\ s \notin call[m].had]_providersVars

\* A contract ends before it starts only if two updates overlapped, each of
\* which was in order with the dates the other replaced (update_service).
DisorderNeedsOverlap ==
    \A s \in Alive : InOrder(contract[s]) \/ s \in stale

\* The list of what is due fails only when a provider was created between its
\* first two statements: whatever is deleted meanwhile leaves it whole.
DueNeedsNoLuck ==
    \A m \in Members : Does(m, "upcoming", "failed") => call[m].born # {}
=============================================================================
