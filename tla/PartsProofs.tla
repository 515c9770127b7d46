----------------------------- MODULE PartsProofs -----------------------------
(***************************************************************************)
(* Theorems about the small parts: what deletions of providers and         *)
(* services spare, what order dates keep and when the list of what is due  *)
(* may fail; what cuts and repetitions of a backfill keep and leave; which *)
(* listing the Files page shows; how a text is split, wherever it is cut.  *)
(* All for any number of members, records, objects, runs, views and        *)
(* requests, and for texts of any length.                                  *)
(***************************************************************************)
EXTENDS Providers, Backfill, FilesList, ThinkSplitter,
        FiniteSetTheorems, SequenceTheorems, WellFoundedInduction, TLAPS

-----------------------------------------------------------------------------
(* Providers and services                                                  *)

\* The provider of a service in use is there.
Owned == \A s \in ServiceIds : service[s] = "live" => provider[of[s]] = "live"

\* Who lists knows of every provider, from the names or since.
Known ==
    \A m \in Members :
        Does(m, "upcoming", "named") => Live \subseteq call[m].on \cup call[m].born

\* What was there when a provider was found without services is not of it.
Seen ==
    \A m \in Members : Does(m, "delete provider", "checked") =>
        \A s \in call[m].had : service[s] # "unborn" /\ ~(service[s] = "live" /\ of[s] = call[m].on)

ProvidersInv ==
    ProvidersTypeOK /\ Owned /\ Known /\ Seen /\ DueNeedsNoLuck /\ DisorderNeedsOverlap

AllCalls == ProviderCalls \cup ServiceCalls \cup PageCalls \cup {NoCall}

-----------------------------------------------------------------------------
\* A member's call tells the shape of its record.
LEMMA CallShapes ==
    ASSUME ProvidersTypeOK, NEW m \in Members, NEW what, NEW step, Does(m, what, step)
    PROVE  /\ what \in {"delete provider", "create service"} => call[m] \in ProviderCalls
           /\ what \in {"update service", "delete service", "file invoice"} =>
                 call[m] \in ServiceCalls
           /\ what = "upcoming" => call[m] \in PageCalls
    BY DEF ProvidersTypeOK, Does, ProviderCalls, ServiceCalls, PageCalls

\* Where the services and providers stay as they are and one call becomes one
\* of which nothing is required, everything stands.
LEMMA CallChanges ==
    ASSUME ProvidersInv, NEW m \in Members, NEW new \in AllCalls,
           call' = [call EXCEPT ![m] = new],
           UNCHANGED <<provider, service, of, contract, stale>>,
           names' \in [InvoiceIds -> ServiceIds \cup {NoService}],
           new # NoCall => new.step \notin {"failed", "named"}
                           /\ (new.does = "delete provider" => new.step # "checked")
    PROVE  ProvidersInv'
<1>1. ProvidersTypeOK'
    BY DEF ProvidersInv, ProvidersTypeOK, AllCalls
<1>2. \A n \in Members : n # m => call'[n] = call[n]
    BY DEF ProvidersInv, ProvidersTypeOK
<1>3. call'[m] = new
    BY DEF ProvidersInv, ProvidersTypeOK
<1>4. \A n \in Members : \A what, step :
          Does(n, what, step)' =>
              \/ n # m /\ Does(n, what, step)
              \/ n = m /\ new # NoCall /\ new.does = what /\ new.step = step
    BY <1>2, <1>3 DEF Does
<1>5. Owned' /\ DisorderNeedsOverlap'
    BY DEF ProvidersInv, Owned, DisorderNeedsOverlap, Alive
<1>6. Known'
    BY <1>2, <1>4 DEF ProvidersInv, Known, Live
<1>7. Seen'
  <2> SUFFICES ASSUME NEW n \in Members, Does(n, "delete provider", "checked")',
                      NEW s \in call'[n].had
               PROVE  service'[s] # "unborn" /\ ~(service'[s] = "live" /\ of'[s] = call'[n].on)
      BY DEF Seen
  <2>1. Does(n, "delete provider", "checked") /\ call'[n] = call[n]
      BY <1>2, <1>4
  <2> QED BY <2>1 DEF ProvidersInv, Seen
<1>8. DueNeedsNoLuck'
    BY <1>2, <1>4 DEF ProvidersInv, DueNeedsNoLuck
<1> QED BY <1>1, <1>5, <1>6, <1>7, <1>8 DEF ProvidersInv

-----------------------------------------------------------------------------
LEMMA ProvidersStart == ProvidersInit => ProvidersInv
<1> SUFFICES ASSUME ProvidersInit PROVE ProvidersInv
    OBVIOUS
<1>1. Fresh \in Contracts /\ InOrder(Fresh)
  <2>1. PICK d \in Days : d \in Nat
      BY DaysAssumption
  <2>2. [start |-> d, end |-> d, archived |-> FALSE] \in Contracts
      BY <2>1 DEF Contracts
  <2>3. \E row \in Contracts : InOrder(row) /\ ~row.archived
      BY <2>1, <2>2 DEF InOrder
  <2> QED BY <2>3 DEF Fresh
<1>2. ProvidersTypeOK
    BY <1>1 DEF ProvidersInit, ProvidersTypeOK, States
<1>3. \A m \in Members : \A what, step : ~Does(m, what, step)
    BY DEF ProvidersInit, Does
<1>4. Owned /\ DisorderNeedsOverlap
    BY DEF ProvidersInit, Owned, DisorderNeedsOverlap, Alive
<1>5. Known /\ Seen /\ DueNeedsNoLuck
    BY <1>3 DEF Known, Seen, DueNeedsNoLuck
<1> QED BY <1>2, <1>4, <1>5 DEF ProvidersInv

LEMMA StepCreateProvider ==
    ASSUME ProvidersInv, NEW p \in ProviderIds, CreateProvider(p) PROVE ProvidersInv'
<1>1. \A m \in Members :
          /\ Does(m, "upcoming", "named") =>
                call[m] \in PageCalls /\ call'[m] = [call[m] EXCEPT !.born = @ \cup {p}]
          /\ ~Does(m, "upcoming", "named") => call'[m] = call[m]
    BY CallShapes DEF CreateProvider, ProvidersInv
<1>2. \A m \in Members : \A what, step : Does(m, what, step)' => Does(m, what, step)
  <2> SUFFICES ASSUME NEW m \in Members, NEW what, NEW step, Does(m, what, step)'
               PROVE  Does(m, what, step)
      OBVIOUS
  <2>1. CASE Does(m, "upcoming", "named")
      BY <1>1, <2>1 DEF Does, PageCalls
  <2>2. CASE ~Does(m, "upcoming", "named")
      BY <1>1, <2>2 DEF Does
  <2> QED BY <2>1, <2>2
<1>3. \A m \in Members : Does(m, "upcoming", "named") =>
          /\ call'[m] \in PageCalls
          /\ call'[m].on = call[m].on /\ call'[m].born = call[m].born \cup {p}
  <2> SUFFICES ASSUME NEW m \in Members, Does(m, "upcoming", "named")
               PROVE  /\ call'[m] \in PageCalls
                      /\ call'[m].on = call[m].on /\ call'[m].born = call[m].born \cup {p}
      OBVIOUS
  <2>1. call[m] \in PageCalls /\ call'[m] = [call[m] EXCEPT !.born = call[m].born \cup {p}]
      BY <1>1
  <2>2. call[m].born \cup {p} \in SUBSET ProviderIds
      BY <2>1 DEF PageCalls
  <2> QED BY <2>1, <2>2 DEF PageCalls
<1>4. ProvidersTypeOK'
  <2>1. call' \in [Members -> AllCalls]
    <3>1. call' = [m \in Members |-> call'[m]]
        BY DEF CreateProvider
    <3>2. \A m \in Members : call'[m] \in AllCalls
        BY <1>1, <1>3 DEF ProvidersInv, ProvidersTypeOK, AllCalls
    <3> QED BY <3>1, <3>2
  <2> QED BY <2>1 DEF CreateProvider, ProvidersInv, ProvidersTypeOK, States, AllCalls
<1>5. Owned' /\ DisorderNeedsOverlap'
    BY DEF CreateProvider, ProvidersInv, ProvidersTypeOK, Owned, DisorderNeedsOverlap, Alive
<1>6. Known'
  <2>1. Live' = Live \cup {p}
      BY DEF CreateProvider, Live, ProvidersInv, ProvidersTypeOK
  <2> QED BY <1>2, <1>3, <2>1 DEF ProvidersInv, Known
<1>7. Seen'
  <2> SUFFICES ASSUME NEW m \in Members, Does(m, "delete provider", "checked")',
                      NEW s \in call'[m].had
               PROVE  service'[s] # "unborn" /\ ~(service'[s] = "live" /\ of'[s] = call'[m].on)
      BY DEF Seen
  <2>1. Does(m, "delete provider", "checked") /\ ~Does(m, "upcoming", "named")
      BY <1>2 DEF Does
  <2>2. call'[m] = call[m]
      BY <1>1, <2>1
  <2> QED BY <2>1, <2>2 DEF ProvidersInv, Seen, CreateProvider
<1>8. DueNeedsNoLuck'
  <2> SUFFICES ASSUME NEW m \in Members, Does(m, "upcoming", "failed")' PROVE call'[m].born # {}
      BY DEF DueNeedsNoLuck
  <2>1. Does(m, "upcoming", "failed") /\ ~Does(m, "upcoming", "named")
      BY <1>2 DEF Does
  <2> QED BY <1>1, <2>1 DEF ProvidersInv, DueNeedsNoLuck
<1> QED BY <1>4, <1>5, <1>6, <1>7, <1>8 DEF ProvidersInv

LEMMA StepCheckServices ==
    ASSUME ProvidersInv, NEW m \in Members, CheckServices(m) PROVE ProvidersInv'
<1>1. call[m] \in ProviderCalls /\ ProvidersTypeOK
    BY CallShapes DEF CheckServices, ProvidersInv
<1>2. CASE Of(call[m].on) # {}
    BY <1>1, <1>2, CallChanges DEF CheckServices, Answer, AllCalls, ProvidersTypeOK
<1>3. CASE Of(call[m].on) = {}
  <2> DEFINE new == [call[m] EXCEPT !.step = "checked", !.had = Alive]
  <2>1. /\ new \in ProviderCalls
        /\ new.does = call[m].does /\ new.step = "checked" /\ new.on = call[m].on /\ new.had = Alive
      BY <1>1 DEF ProviderCalls, Alive
  <2>2. call' = [call EXCEPT ![m] = new]
      BY <1>3 DEF CheckServices
  <2> HIDE DEF new
  <2>3. call'[m] = new /\ \A n \in Members : n # m => call'[n] = call[n]
      BY <1>1, <2>2 DEF ProvidersTypeOK
  <2>4. UNCHANGED <<provider, service, of, contract, names, stale>>
      BY DEF CheckServices
  <2>5. ProvidersTypeOK'
      BY <1>1, <2>1, <2>2, <2>4 DEF ProvidersTypeOK
  <2>6. Owned' /\ DisorderNeedsOverlap'
      BY <2>4 DEF ProvidersInv, Owned, DisorderNeedsOverlap, Alive
  <2>7. Known' /\ DueNeedsNoLuck'
      BY <2>1, <2>3, <2>4 DEF ProvidersInv, Known, DueNeedsNoLuck, Live, Does
  <2>8. Seen'
    <3>1. \A s \in Alive : service[s] = "live" /\ of[s] # call[m].on
        BY <1>3 DEF Of, Alive
    <3>2. \A s \in new.had : service'[s] # "unborn" /\ ~(service'[s] = "live" /\ of'[s] = new.on)
        BY <2>1, <2>4, <3>1
    <3> QED BY <2>3, <2>4, <3>2 DEF ProvidersInv, Seen, Does
  <2> QED BY <2>5, <2>6, <2>7, <2>8 DEF ProvidersInv
<1> QED BY <1>2, <1>3

\* Where services only go, and providers only with theirs, what is required of
\* the calls stands.
LEMMA ServicesGo ==
    ASSUME ProvidersInv, NEW m \in Members, Answer(m), ProvidersTypeOK',
           \A s \in ServiceIds : service'[s] = service[s] \/ service'[s] = "gone",
           \A p \in ProviderIds : provider'[p] = provider[p] \/ provider'[p] = "gone",
           UNCHANGED <<of, contract, stale>>,
           Owned'
    PROVE  ProvidersInv'
<1>1. call'[m] = NoCall /\ \A n \in Members : n # m => call'[n] = call[n]
    BY DEF Answer, ProvidersInv, ProvidersTypeOK
<1>2. \A n \in Members : \A what, step :
          Does(n, what, step)' => Does(n, what, step) /\ call'[n] = call[n]
    BY <1>1 DEF Does
<1>3. Known' /\ DueNeedsNoLuck'
    BY <1>2 DEF ProvidersInv, Known, DueNeedsNoLuck, Live
<1>4. Seen'
  <2> SUFFICES ASSUME NEW n \in Members, Does(n, "delete provider", "checked")',
                      NEW s \in call'[n].had
               PROVE  service'[s] # "unborn" /\ ~(service'[s] = "live" /\ of'[s] = call'[n].on)
      BY DEF Seen
  <2>1. Does(n, "delete provider", "checked") /\ call'[n] = call[n]
      BY <1>2
  <2>2. s \in ServiceIds
      BY <2>1, CallShapes DEF ProvidersInv, ProviderCalls
  <2> QED BY <2>1, <2>2 DEF ProvidersInv, Seen
<1>5. DisorderNeedsOverlap'
    BY DEF ProvidersInv, DisorderNeedsOverlap, Alive
<1> QED BY <1>3, <1>4, <1>5 DEF ProvidersInv

LEMMA StepDeleteProvider ==
    ASSUME ProvidersInv, NEW m \in Members, DeleteProvider(m) PROVE ProvidersInv'
<1>1. call[m] \in ProviderCalls /\ ProvidersTypeOK
    BY CallShapes DEF DeleteProvider, ProvidersInv
<1>2. Answer(m) /\ UNCHANGED <<of, contract, names, stale>>
    BY DEF DeleteProvider
<1>3. ProvidersTypeOK'
    BY <1>1, <1>2 DEF DeleteProvider, ProvidersTypeOK, States, ProviderCalls, Answer
<1>4. /\ \A s \in ServiceIds : service'[s] = service[s] \/ service'[s] = "gone"
      /\ \A p \in ProviderIds : provider'[p] = provider[p] \/ provider'[p] = "gone"
    BY <1>1 DEF DeleteProvider, ProvidersTypeOK, ProviderCalls
<1>5. Owned'
  <2>1. CASE \E s \in Of(call[m].on) : Invoiced(s)
      BY <1>2, <2>1 DEF DeleteProvider, ProvidersInv, Owned
  <2>2. CASE ~\E s \in Of(call[m].on) : Invoiced(s)
    <3>1. \A s \in ServiceIds : service'[s] = "live" => service[s] = "live" /\ of[s] # call[m].on
        BY <1>1, <2>2 DEF DeleteProvider, Of, Alive
    <3>2. \A p \in ProviderIds : p # call[m].on => provider'[p] = provider[p]
        BY <1>1, <2>2 DEF DeleteProvider, ProvidersTypeOK
    <3> QED BY <1>1, <1>2, <3>1, <3>2 DEF ProvidersInv, Owned, ProvidersTypeOK
  <2> QED BY <2>1, <2>2
<1> QED BY <1>2, <1>3, <1>4, <1>5, ServicesGo

LEMMA StepDeleteService ==
    ASSUME ProvidersInv, NEW m \in Members, DeleteService(m) PROVE ProvidersInv'
<1>1. call[m] \in ServiceCalls /\ ProvidersTypeOK
    BY CallShapes DEF DeleteService, ProvidersInv
<1>2. Answer(m) /\ UNCHANGED <<provider, of, contract, names, stale>>
    BY DEF DeleteService
<1>3. ProvidersTypeOK'
    BY <1>1, <1>2 DEF DeleteService, ProvidersTypeOK, States, ServiceCalls, Answer
<1>4. \A s \in ServiceIds : service'[s] = service[s] \/ service'[s] = "gone"
    BY <1>1 DEF DeleteService, ProvidersTypeOK, ServiceCalls
<1>5. Owned'
    BY <1>2, <1>4 DEF ProvidersInv, Owned
<1> QED BY <1>2, <1>3, <1>4, <1>5, ServicesGo

LEMMA StepCreateService ==
    ASSUME ProvidersInv, NEW m \in Members, NEW s \in ServiceIds, CreateService(m, s)
    PROVE  ProvidersInv'
<1>1. call[m] \in ProviderCalls /\ ProvidersTypeOK /\ service[s] = "unborn"
    BY CallShapes DEF CreateService, ProvidersInv
<1>2. CASE provider[call[m].on] = "gone" /\ UNCHANGED <<service, contract>>
    BY <1>1, <1>2, CallChanges DEF CreateService, Answer, AllCalls, ProvidersTypeOK
<1>3. ASSUME provider[call[m].on] = "live", service' = [service EXCEPT ![s] = "live"],
             NEW row \in Contracts, InOrder(row), contract' = [contract EXCEPT ![s] = row]
      PROVE  ProvidersInv'
  <2>1. Answer(m) /\ of[s] = call[m].on /\ UNCHANGED <<provider, of, names, stale>>
      BY DEF CreateService
  <2>2. call'[m] = NoCall /\ \A n \in Members : n # m => call'[n] = call[n]
      BY <1>1, <2>1 DEF Answer, ProvidersTypeOK
  <2>3. \A n \in Members : \A what, step :
            Does(n, what, step)' => Does(n, what, step) /\ call'[n] = call[n]
      BY <2>2 DEF Does
  <2>4. \A t \in ServiceIds : t # s => service'[t] = service[t] /\ contract'[t] = contract[t]
      BY <1>1, <1>3 DEF ProvidersTypeOK
  <2>5. service'[s] = "live" /\ contract'[s] = row
      BY <1>1, <1>3 DEF ProvidersTypeOK
  <2>6. ProvidersTypeOK'
      BY <1>1, <1>3, <2>1 DEF ProvidersTypeOK, States, Answer
  <2>7. Owned'
      BY <1>3, <2>1, <2>4, <2>5 DEF ProvidersInv, Owned
  <2>8. DisorderNeedsOverlap'
      BY <1>3, <2>1, <2>4, <2>5 DEF ProvidersInv, DisorderNeedsOverlap, Alive
  <2>9. Known' /\ DueNeedsNoLuck'
      BY <2>1, <2>3 DEF ProvidersInv, Known, DueNeedsNoLuck, Live
  <2>10. Seen'
    <3> SUFFICES ASSUME NEW n \in Members, Does(n, "delete provider", "checked")',
                        NEW t \in call'[n].had
                 PROVE  service'[t] # "unborn" /\ ~(service'[t] = "live" /\ of'[t] = call'[n].on)
        BY DEF Seen
    <3>1. Does(n, "delete provider", "checked") /\ call'[n] = call[n]
        BY <2>3
    <3>2. t \in ServiceIds
        BY <1>1, <3>1, CallShapes DEF ProviderCalls
    <3>3. t # s
        BY <1>1, <3>1 DEF ProvidersInv, Seen
    <3> QED BY <2>1, <2>4, <3>1, <3>2, <3>3 DEF ProvidersInv, Seen
  <2> QED BY <2>6, <2>7, <2>8, <2>9, <2>10 DEF ProvidersInv
<1> QED BY <1>2, <1>3 DEF CreateService

LEMMA StepUpdateService ==
    ASSUME ProvidersInv, NEW m \in Members, UpdateService(m) PROVE ProvidersInv'
<1> DEFINE s == call[m].on
           read == call[m].read
           now == contract[s]
<1>1. call[m] \in ServiceCalls /\ ProvidersTypeOK /\ Does(m, "update service", "got")
    BY CallShapes DEF UpdateService, ProvidersInv
<1>2. s \in ServiceIds /\ read \in Contracts /\ now \in Contracts
    BY <1>1 DEF ServiceCalls, ProvidersTypeOK
<1>3. Answer(m) /\ UNCHANGED <<provider, service, of, names>>
    BY DEF UpdateService
<1>4. CASE UNCHANGED <<contract, stale>>
    BY <1>1, <1>3, <1>4, CallChanges DEF Answer, AllCalls, ProvidersTypeOK
<1>5. ASSUME NEW new \in Contracts, InOrder(new),
             contract' = [contract EXCEPT ![s] =
                 [field \in DOMAIN now |->
                     IF new[field] # read[field] THEN new[field] ELSE now[field]]],
             stale' = IF <<read.start, read.end>> # <<now.start, now.end>>
                      THEN stale \cup {s} ELSE stale
      PROVE  ProvidersInv'
  <2> DEFINE set == [start |-> IF new.start # read.start THEN new.start ELSE now.start,
                     end |-> IF new.end # read.end THEN new.end ELSE now.end,
                     archived |-> IF new.archived # read.archived
                                  THEN new.archived ELSE now.archived]
  <2>1. set \in Contracts
      BY <1>2, <1>5 DEF Contracts
  <2>2. [field \in DOMAIN now |-> IF new[field] # read[field] THEN new[field] ELSE now[field]] = set
      BY <1>2, <1>5 DEF Contracts
  <2>3. contract' = [contract EXCEPT ![s] = set]
      BY <1>5, <2>2
  <2>4. <<read.start, read.end>> = <<now.start, now.end>> => InOrder(set)
      BY <1>2, <1>5 DEF Contracts, InOrder
  <2> HIDE DEF set
  <2>5. ProvidersTypeOK'
      BY <1>1, <1>2, <1>3, <1>5, <2>1, <2>3, ZenonT(40) DEF ProvidersTypeOK, Answer
  <2>6. DisorderNeedsOverlap'
    <3> SUFFICES ASSUME NEW t \in ServiceIds, service'[t] = "live"
                 PROVE  InOrder(contract'[t]) \/ t \in stale'
        BY DEF DisorderNeedsOverlap, Alive, InOrder
    <3>1. stale \subseteq stale'
        BY <1>5
    <3>2. CASE t # s
      <4>1. contract'[t] = contract[t]
          BY <1>1, <2>3, <3>2 DEF ProvidersTypeOK
      <4> QED BY <1>3, <3>1, <4>1 DEF ProvidersInv, DisorderNeedsOverlap, Alive
    <3>3. CASE t = s
      <4>1. contract'[t] = set
          BY <1>1, <1>2, <2>3, <3>3 DEF ProvidersTypeOK
      <4> QED BY <1>5, <2>4, <3>3, <4>1
    <3> QED BY <3>2, <3>3
  <2>7. call'[m] = NoCall /\ \A n \in Members : n # m => call'[n] = call[n]
      BY <1>1, <1>3 DEF Answer, ProvidersTypeOK
  <2>8. \A n \in Members : \A what, step :
            Does(n, what, step)' => Does(n, what, step) /\ call'[n] = call[n]
      BY <2>7 DEF Does
  <2>9. Owned' /\ Known' /\ Seen' /\ DueNeedsNoLuck'
      BY <1>3, <2>8 DEF ProvidersInv, Owned, Known, Seen, DueNeedsNoLuck, Live
  <2> QED BY <2>5, <2>6, <2>9 DEF ProvidersInv
<1> QED BY <1>4, <1>5 DEF UpdateService, Accepted

LEMMA StepUpcoming ==
    ASSUME ProvidersInv, NEW m \in Members, ReadNames(m) \/ ReadServices(m)
    PROVE  ProvidersInv'
<1>1. ProvidersTypeOK /\ UNCHANGED <<provider, service, of, contract, names, stale>>
    BY DEF ReadNames, ReadServices, ProvidersInv
<1>2. Owned' /\ DisorderNeedsOverlap'
    BY <1>1 DEF ProvidersInv, Owned, DisorderNeedsOverlap, Alive
<1>3. ASSUME NEW new \in PageCalls, call' = [call EXCEPT ![m] = new],
             new.step = "named" => Live \subseteq new.on \cup new.born,
             new.step = "failed" => new.born # {}
      PROVE  ProvidersInv'
  <2>1. ProvidersTypeOK'
      BY <1>1, <1>3 DEF ProvidersTypeOK
  <2>2. call'[m] = new /\ \A n \in Members : n # m => call'[n] = call[n]
      BY <1>1, <1>3 DEF ProvidersTypeOK
  <2>3. Known' /\ DueNeedsNoLuck'
      BY <1>1, <1>3, <2>2 DEF ProvidersInv, Known, DueNeedsNoLuck, Live, Does
  <2>4. Seen'
    <3>1. new.does = "upcoming"
        BY <1>3 DEF PageCalls
    <3>2. \A n \in Members :
              Does(n, "delete provider", "checked")' =>
                  Does(n, "delete provider", "checked") /\ call'[n] = call[n]
        BY <2>2, <3>1 DEF Does
    <3> QED BY <1>1, <3>2 DEF ProvidersInv, Seen
  <2> QED BY <1>2, <2>1, <2>3, <2>4 DEF ProvidersInv
<1>4. CASE ReadNames(m)
  <2> DEFINE new == [does |-> "upcoming", step |-> "named", on |-> Live, born |-> {}]
  <2>1. new \in PageCalls /\ new.step = "named" /\ new.on = Live
      BY DEF PageCalls, Live
  <2>2. call' = [call EXCEPT ![m] = new]
      BY <1>4 DEF ReadNames
  <2> HIDE DEF new
  <2> QED BY <1>3, <2>1, <2>2
<1>5. CASE ReadServices(m)
  <2>1. call[m] \in PageCalls /\ Does(m, "upcoming", "named")
      BY <1>1, <1>5, CallShapes DEF ReadServices
  <2>2. PICK step \in {"listed", "failed"} :
            /\ step = "failed" => \E s \in Alive : of[s] \notin call[m].on
            /\ call' = [call EXCEPT ![m].step = step]
      BY <1>5 DEF ReadServices
  <2> DEFINE new == [call[m] EXCEPT !.step = step]
  <2>3. new \in PageCalls /\ new.step = step /\ new.on = call[m].on /\ new.born = call[m].born
      BY <2>1, <2>2 DEF PageCalls
  <2>4. call' = [call EXCEPT ![m] = new]
      BY <2>2
  <2>5. step = "failed" => call[m].born # {}
      BY <1>1, <2>1, <2>2 DEF ProvidersInv, Known, Owned, Live, Alive, ProvidersTypeOK
  <2> HIDE DEF new
  <2> QED BY <1>3, <2>2, <2>3, <2>4, <2>5
<1> QED BY <1>4, <1>5

LEMMA ProvidersStep == ProvidersInv /\ [ProvidersNext]_providersVars => ProvidersInv'
<1> SUFFICES ASSUME ProvidersInv, [ProvidersNext]_providersVars
             PROVE  ProvidersInv'
    OBVIOUS
<1>0. ProvidersTypeOK
    BY DEF ProvidersInv
<1>1. ASSUME NEW i \in InvoiceIds, DropInvoice(i) PROVE ProvidersInv'
    BY <1>1, <1>0 DEF DropInvoice, ProvidersInv, ProvidersTypeOK, Owned, Known, Seen,
        DueNeedsNoLuck, DisorderNeedsOverlap, Alive, Live, Does
<1>2. ASSUME NEW m \in Members, NEW p \in ProviderIds, GetProvider(m, p) PROVE ProvidersInv'
  <2>1. PICK what \in {"delete provider", "create service"} :
            call' = [call EXCEPT ![m] = [does |-> what, step |-> "got", on |-> p, had |-> {}]]
      BY <1>2 DEF GetProvider
  <2>2. [does |-> what, step |-> "got", on |-> p, had |-> {}] \in AllCalls
      BY DEF AllCalls, ProviderCalls
  <2> QED BY <1>0, <1>2, <2>1, <2>2, CallChanges DEF GetProvider, ProvidersTypeOK
<1>3. ASSUME NEW m \in Members, NEW s \in ServiceIds, GetService(m, s) PROVE ProvidersInv'
  <2>1. PICK what \in {"update service", "delete service", "file invoice"} :
            call' = [call EXCEPT ![m] =
                [does |-> what, step |-> "got", on |-> s, read |-> contract[s]]]
      BY <1>3 DEF GetService
  <2>2. [does |-> what, step |-> "got", on |-> s, read |-> contract[s]] \in AllCalls
      BY <1>0 DEF AllCalls, ServiceCalls, ProvidersTypeOK
  <2> QED BY <1>0, <1>3, <2>1, <2>2, CallChanges DEF GetService, ProvidersTypeOK
<1>4. ASSUME NEW m \in Members, CheckInvoices(m) PROVE ProvidersInv'
  <2>1. call[m] \in ServiceCalls
      BY <1>0, <1>4, CallShapes DEF CheckInvoices
  <2>2. CASE Invoiced(call[m].on)
      BY <1>0, <1>4, <2>2, CallChanges DEF CheckInvoices, Answer, AllCalls, ProvidersTypeOK
  <2>3. CASE ~Invoiced(call[m].on)
    <3> DEFINE new == [call[m] EXCEPT !.step = "checked"]
    <3>1. new \in ServiceCalls /\ new.does = call[m].does /\ new.step = "checked"
        BY <2>1 DEF ServiceCalls
    <3>2. new \in AllCalls /\ call' = [call EXCEPT ![m] = new] /\ new.does # "delete provider"
        BY <1>4, <2>1, <2>3, <3>1 DEF CheckInvoices, AllCalls, ServiceCalls
    <3> HIDE DEF new
    <3> QED BY <1>0, <1>4, <3>1, <3>2, CallChanges DEF CheckInvoices, ProvidersTypeOK
  <2> QED BY <2>2, <2>3
<1>5. ASSUME NEW m \in Members, NEW i \in InvoiceIds, FileInvoice(m, i) PROVE ProvidersInv'
  <2>1. call[m] \in ServiceCalls
      BY <1>0, <1>5, CallShapes DEF FileInvoice
  <2>2. names' \in [InvoiceIds -> ServiceIds \cup {NoService}]
      BY <1>0, <1>5, <2>1 DEF FileInvoice, ProvidersTypeOK, ServiceCalls
  <2> QED BY <1>0, <1>5, <2>2, CallChanges DEF FileInvoice, Answer, AllCalls, ProvidersTypeOK
<1>6. ASSUME NEW m \in Members, Listed(m) PROVE ProvidersInv'
    BY <1>0, <1>6, CallChanges DEF Listed, Answer, AllCalls, ProvidersTypeOK
<1>7. CASE UNCHANGED providersVars
    BY <1>7, <1>0 DEF providersVars, ProvidersInv, ProvidersTypeOK, Owned, Known, Seen,
        DueNeedsNoLuck, DisorderNeedsOverlap, Alive, Live, Does
<1> QED
    BY <1>1, <1>2, <1>3, <1>4, <1>5, <1>6, <1>7, StepCreateProvider, StepCheckServices,
       StepDeleteProvider, StepDeleteService, StepCreateService, StepUpdateService,
       StepUpcoming DEF ProvidersNext

LEMMA ProvidersAlways == ProvidersSpec => []ProvidersInv
    BY ProvidersStart, ProvidersStep, PTL DEF ProvidersSpec

-----------------------------------------------------------------------------
\* Dates end up out of order only where an update replaced what another wrote
\* meanwhile.
THEOREM Order == ProvidersSpec => []DisorderNeedsOverlap
<1>1. ProvidersInv => DisorderNeedsOverlap
    BY DEF ProvidersInv
<1> QED BY ProvidersAlways, <1>1, PTL

\* The list of what is due fails only when a provider was created since it read
\* the names.
THEOREM Due == ProvidersSpec => []DueNeedsNoLuck
<1>1. ProvidersInv => DueNeedsNoLuck
    BY DEF ProvidersInv
<1> QED BY ProvidersAlways, <1>1, PTL

\* A service goes by name, or unseen with its provider, and never an invoiced
\* one.
THEOREM Spared == ProvidersSpec => OnlyTheUnseenGoes
<1> DEFINE Goes(s) ==
       /\ ~Invoiced(s)
       /\ \E m \in Members :
             \/ Does(m, "delete service", "checked") /\ call[m].on = s
             \/ /\ Does(m, "delete provider", "checked")
                /\ call[m].on = of[s] /\ s \notin call[m].had
<1>1. ASSUME ProvidersInv, ProvidersNext, NEW s \in ServiceIds, s \in Alive, s \notin Alive'
      PROVE  Goes(s)
  <2>0. ProvidersTypeOK /\ service[s] = "live" /\ service'[s] # "live"
      BY <1>1 DEF ProvidersInv, Alive
  <2>1. ASSUME NEW m \in Members, DeleteService(m) PROVE Goes(s)
      BY <2>0, <2>1 DEF DeleteService, ProvidersTypeOK
  <2>2. ASSUME NEW m \in Members, DeleteProvider(m) PROVE Goes(s)
    <3>1. Does(m, "delete provider", "checked")
        BY <2>2 DEF DeleteProvider
    <3>2. ~\E t \in Of(call[m].on) : Invoiced(t)
        BY <2>0, <2>2 DEF DeleteProvider
    <3>3. s \in Of(call[m].on)
        BY <2>0, <2>2, <3>2 DEF DeleteProvider
    <3>4. of[s] = call[m].on
        BY <3>3 DEF Of
    <3>5. s \notin call[m].had
        BY <1>1, <2>0, <3>1, <3>4 DEF ProvidersInv, Seen
    <3> QED BY <3>1, <3>2, <3>3, <3>4, <3>5
  <2>3. ASSUME NEW m \in Members, NEW t \in ServiceIds, CreateService(m, t) PROVE FALSE
      BY <2>0, <2>3 DEF CreateService, ProvidersTypeOK
  <2>4. service' = service \/ (\E m \in Members : DeleteService(m) \/ DeleteProvider(m)
            \/ \E t \in ServiceIds : CreateService(m, t))
      BY <1>1 DEF ProvidersNext, CreateProvider, DropInvoice, GetProvider, CheckServices,
         GetService, UpdateService, CheckInvoices, FileInvoice, ReadNames, ReadServices, Listed
  <2> QED BY <2>0, <2>1, <2>2, <2>3, <2>4
<1>2. ProvidersInv /\ [ProvidersNext]_providersVars =>
          [\A s \in ServiceIds : s \in Alive /\ s \notin Alive' => Goes(s)]_providersVars
    BY <1>1
<1>3. ProvidersSpec =>
          [][\A s \in ServiceIds : s \in Alive /\ s \notin Alive' => Goes(s)]_providersVars
    BY ProvidersAlways, <1>2, PTL DEF ProvidersSpec
<1> QED BY <1>3 DEF OnlyTheUnseenGoes

-----------------------------------------------------------------------------
(* The backfill of legacy objects                                          *)

Typed ==
    /\ lower \in [Keys -> Folded]
    /\ legacy \subseteq Keys
    /\ copies \in [FileIds -> Keys \cup {NoKey}]
    /\ rows \in [FileIds -> Folded \cup {"trash", NoRow}]
    /\ taken \subseteq Folded
    /\ todo \subseteq Keys
    /\ at \in {"off", "next", "copied", "refused", "committed"}
    /\ at \in {"copied", "refused", "committed"} => key \in Keys /\ id \in FileIds

\* What the run holds in its hands: the copy of its key, and no row for it until
\* the commit.
Handled ==
    /\ at \in {"copied", "refused", "committed"} => copies[id] = key
    /\ at \in {"copied", "refused"} => ~Indexed(id)
    /\ at = "committed" => Indexed(id)

BackfillInv == Typed /\ Handled /\ NoBytesLost

-----------------------------------------------------------------------------
LEMMA BackfillStart == BackfillInit => BackfillInv
    BY DEF BackfillInit, BackfillInv, Typed, Handled, NoBytesLost, Indexed

LEMMA BackfillStep == BackfillInv /\ [BackfillNext]_backfillVars => BackfillInv'
<1> SUFFICES ASSUME BackfillInv, [BackfillNext]_backfillVars
             PROVE  BackfillInv'
    OBVIOUS
<1> USE NamesAssumption
<1>1. CASE StartRun
    BY <1>1 DEF StartRun, BackfillInv, Typed, Handled, NoBytesLost, Indexed, bucket
<1>2. CASE Commit
  <2>1. CASE Clash(lower[key])
      BY <1>2, <2>1 DEF Commit, BackfillInv, Typed, Handled, NoBytesLost, Indexed, bucket
  <2>2. CASE ~Clash(lower[key])
    <3>1. Typed'
        BY <1>2, <2>2 DEF Commit, BackfillInv, Typed, bucket
    <3>2. rows'[id] # NoRow /\ \A f \in FileIds : rows[f] # NoRow => rows'[f] # NoRow
        BY <1>2, <2>2 DEF Commit, BackfillInv, Typed
    <3>3. Handled'
        BY <1>2, <2>2, <3>2 DEF Commit, BackfillInv, Typed, Handled, Indexed, bucket
    <3>4. NoBytesLost'
        BY <1>2, <2>2, <3>2 DEF Commit, BackfillInv, NoBytesLost, Indexed, bucket
    <3> QED BY <3>1, <3>3, <3>4 DEF BackfillInv
  <2> QED BY <2>1, <2>2
<1>3. CASE Undo
  <2>1. \A f \in FileIds : Indexed(f) => f # id /\ copies'[f] = copies[f]
      BY <1>3 DEF Undo, BackfillInv, Typed, Handled
  <2>2. Typed' /\ Handled'
      BY <1>3 DEF Undo, BackfillInv, Typed, Handled
  <2>3. NoBytesLost'
      BY <1>3, <2>1 DEF Undo, BackfillInv, NoBytesLost, Indexed
  <2> QED BY <2>2, <2>3 DEF BackfillInv
<1>4. CASE RemoveOld
  <2>1. key \in Keys /\ id \in FileIds /\ copies[id] = key /\ Indexed(id)
      BY <1>4 DEF RemoveOld, BackfillInv, Typed, Handled
  <2>2. Typed' /\ Handled'
      BY <1>4 DEF RemoveOld, BackfillInv, Typed, Handled
  <2>3. NoBytesLost'
      BY <1>4, <2>1 DEF RemoveOld, BackfillInv, NoBytesLost, Indexed
  <2> QED BY <2>2, <2>3 DEF BackfillInv
<1>5. CASE EndRun
    BY <1>5 DEF EndRun, BackfillInv, Typed, Handled, NoBytesLost, Indexed, bucket
<1>6. CASE Abort
    BY <1>6 DEF Abort, BackfillInv, Typed, Handled, NoBytesLost, Indexed, bucket
<1>7. ASSUME NEW k \in Keys, NEW f \in FileIds, Copy(k, f)
      PROVE  BackfillInv'
  <2>1. ~Indexed(f) /\ \A g \in FileIds : g # f => copies'[g] = copies[g]
      BY <1>7 DEF Copy, BackfillInv, Typed
  <2>2. Typed' /\ Handled'
      BY <1>7 DEF Copy, BackfillInv, Typed, Handled, Indexed
  <2>3. NoBytesLost'
      BY <1>7, <2>1 DEF Copy, BackfillInv, NoBytesLost, Indexed
  <2> QED BY <2>2, <2>3 DEF BackfillInv
<1>8. ASSUME NEW name \in Folded, OwnFile(name)
      PROVE  BackfillInv'
    BY <1>8 DEF OwnFile, BackfillInv, Typed, Handled, NoBytesLost, Indexed, bucket, run
<1>9. ASSUME NEW f \in FileIds, NEW name \in Folded \cup {"trash"}, Touch(f, name)
      PROVE  BackfillInv'
  <2>1. \A g \in FileIds : Indexed(g) <=> rows'[g] # NoRow
      BY <1>9 DEF Touch, BackfillInv, Typed, Indexed
  <2>2. Typed'
      BY <1>9 DEF Touch, BackfillInv, Typed, bucket, run
  <2>3. Handled' /\ NoBytesLost'
      BY <1>9, <2>1 DEF Touch, BackfillInv, Typed, Handled, NoBytesLost, Indexed, bucket, run
  <2> QED BY <2>2, <2>3 DEF BackfillInv
<1>10. CASE UNCHANGED backfillVars
    BY <1>10 DEF backfillVars, BackfillInv, Typed, Handled, NoBytesLost, Indexed, bucket, run
<1> QED
    BY <1>1, <1>2, <1>3, <1>4, <1>5, <1>6, <1>7, <1>8, <1>9, <1>10 DEF BackfillNext

\* A legacy object's bytes are under its old key or under the key of a row in
\* every state, for any number of objects, runs and cuts.
THEOREM BytesKept == BackfillSpec => []NoBytesLost
<1>1. BackfillInv => NoBytesLost
    BY DEF BackfillInv
<1> QED BY BackfillStart, BackfillStep, <1>1, PTL DEF BackfillSpec

\* An object without a row.
Strays == {f \in FileIds : copies[f] # NoKey /\ ~Indexed(f)}

\* A run takes from the legacy objects only what it has put under a row, and
\* each row not touched since has the name of its object.
RunInv ==
    /\ at # "off" => todo \subseteq legacy
    /\ at \in {"copied", "refused", "committed"} => key \in legacy \ todo
    /\ \A f \in FileIds : Indexed(f) =>
          /\ copies[f] \in Keys
          /\ f \notin touched => rows[f] = lower[copies[f]]
          /\ copies[f] \in legacy => aborts > 0 \/ (at = "committed" /\ key = copies[f])

\* One object without a row at a time, and one more for each run cut short.
StraysInv ==
    /\ IsFiniteSet(Strays) /\ aborts \in Nat
    /\ Cardinality(Strays) <= aborts + (IF at \in {"copied", "refused"} THEN 1 ELSE 0)

TwiceInv ==
    \A f, g \in FileIds :
        f # g /\ copies[f] = copies[g] /\ Indexed(f) /\ Indexed(g)
        => aborts > 0 /\ touched \cap {f, g} # {}

LEMMA StraysStep == BackfillInv /\ StraysInv /\ [BackfillNext]_backfillVars => StraysInv'
<1> SUFFICES ASSUME BackfillInv, StraysInv, [BackfillNext]_backfillVars
             PROVE  StraysInv'
    OBVIOUS
<1> USE NamesAssumption
<1> DEFINE n == Cardinality(Strays)
<1>0. n \in Nat /\ IsFiniteSet(Strays) /\ aborts \in Nat
    BY FS_CardinalityType DEF StraysInv
<1>1. ASSUME UNCHANGED <<copies, rows>>,
             \/ aborts' = aborts /\ (at \in {"copied", "refused"} => at' \in {"copied", "refused"})
             \/ aborts' = aborts + 1
      PROVE  StraysInv'
  <2>1. Strays' = Strays
      BY <1>1 DEF Strays, Indexed
  <2> QED BY <1>0, <1>1, <2>1 DEF StraysInv
<1>2. CASE StartRun \/ RemoveOld \/ EndRun \/ Abort
    BY <1>1, <1>2 DEF StartRun, RemoveOld, EndRun, Abort, bucket
<1>3. ASSUME NEW k \in Keys, NEW f \in FileIds, Copy(k, f)
      PROVE  StraysInv'
  <2>1. copies' = [copies EXCEPT ![f] = k] /\ UNCHANGED <<rows, aborts>>
        /\ at = "next" /\ at' = "copied"
      BY <1>3 DEF Copy
  <2>2. Strays' = Strays \cup {f} /\ f \notin Strays
      BY <1>3, <2>1 DEF Copy, Strays, Indexed, BackfillInv, Typed
  <2>3. IsFiniteSet(Strays') /\ Cardinality(Strays') = n + 1
      BY <1>0, <2>2, FS_AddElement
  <2> QED BY <1>0, <2>1, <2>3 DEF StraysInv
<1>4. ASSUME at \in {"copied", "refused"}, at' \notin {"copied", "refused"}, UNCHANGED aborts,
             Strays' = Strays \ {id}
      PROVE  StraysInv'
  <2>1. id \in Strays
      BY <1>4 DEF Strays, BackfillInv, Typed, Handled
  <2>2. IsFiniteSet(Strays') /\ Cardinality(Strays') = n - 1
      BY <1>0, <1>4, <2>1, FS_RemoveElement
  <2> QED BY <1>0, <1>4, <2>2 DEF StraysInv
<1>5. CASE Commit
  <2>1. CASE Clash(lower[key])
      BY <1>1, <1>5, <2>1 DEF Commit, bucket
  <2>2. CASE ~Clash(lower[key])
    <3>1. /\ at = "copied" /\ at' = "committed" /\ UNCHANGED <<copies, aborts>>
          /\ rows' = [rows EXCEPT ![id] = lower[key]] /\ lower[key] # NoRow
        BY <1>5, <2>2 DEF Commit, bucket, BackfillInv, Typed
    <3>2. Strays' = Strays \ {id}
        BY <3>1 DEF Strays, Indexed, BackfillInv, Typed
    <3> QED BY <1>4, <3>1, <3>2
  <2> QED BY <2>1, <2>2
<1>6. CASE Undo
  <2>1. /\ at = "refused" /\ at' = "next" /\ UNCHANGED <<rows, aborts>>
        /\ copies' = [copies EXCEPT ![id] = NoKey]
      BY <1>6 DEF Undo
  <2>2. Strays' = Strays \ {id}
      BY <2>1 DEF Strays, Indexed, BackfillInv, Typed
  <2> QED BY <1>4, <2>1, <2>2
<1>7. ASSUME NEW name \in Folded, OwnFile(name)
      PROVE  StraysInv'
    BY <1>1, <1>7 DEF OwnFile, bucket, run
<1>8. ASSUME NEW f \in FileIds, NEW name \in Folded \cup {"trash"}, Touch(f, name)
      PROVE  StraysInv'
  <2>1. \A g \in FileIds : rows'[g] # NoRow <=> rows[g] # NoRow
      BY <1>8 DEF Touch, BackfillInv, Typed, Indexed
  <2>2. UNCHANGED <<copies, aborts, at>>
      BY <1>8 DEF Touch, bucket, run
  <2>3. Strays' = Strays
      BY <2>1, <2>2 DEF Strays, Indexed
  <2> QED BY <2>2, <2>3 DEF StraysInv
<1>9. CASE UNCHANGED backfillVars
    BY <1>1, <1>9 DEF backfillVars
<1> QED
    BY <1>2, <1>3, <1>5, <1>6, <1>7, <1>8, <1>9 DEF BackfillNext

\* What is under a row is known by its name, or its owner has touched it.
LEMMA RunStep == BackfillInv /\ RunInv /\ StraysInv /\ [BackfillNext]_backfillVars => RunInv'
<1> SUFFICES ASSUME BackfillInv, RunInv, StraysInv, [BackfillNext]_backfillVars
             PROVE  RunInv'
    OBVIOUS
<1> USE NamesAssumption
<1>1. CASE StartRun
    BY <1>1 DEF StartRun, BackfillInv, Typed, RunInv, Indexed, bucket
<1>2. CASE Commit
  <2>1. CASE Clash(lower[key])
      BY <1>2, <2>1 DEF Commit, BackfillInv, Typed, RunInv, Indexed, bucket
  <2>2. CASE ~Clash(lower[key])
    <3>1. /\ at = "copied" /\ at' = "committed" /\ rows' = [rows EXCEPT ![id] = lower[key]]
          /\ UNCHANGED <<lower, legacy, copies, taken, todo, key, id, aborts, touched>>
        BY <1>2, <2>2 DEF Commit, bucket
    <3>2. copies[id] = key /\ key \in Keys /\ rows'[id] = lower[key]
        BY <3>1 DEF BackfillInv, Typed, Handled
    <3>3. \A f \in FileIds \ {id} : rows'[f] = rows[f]
        BY <3>1 DEF BackfillInv, Typed
    <3>4. ASSUME NEW f \in FileIds, rows'[f] # NoRow
          PROVE  /\ copies[f] \in Keys
                 /\ f \notin touched => rows'[f] = lower[copies[f]]
                 /\ copies[f] \in legacy => aborts > 0 \/ key = copies[f]
        BY <3>1, <3>2, <3>3, <3>4 DEF RunInv, Indexed
    <3> QED BY <3>1, <3>4 DEF RunInv, Indexed
  <2> QED BY <2>1, <2>2
<1>3. CASE Undo
  <2>1. \A f \in FileIds : Indexed(f) => f # id /\ copies'[f] = copies[f]
      BY <1>3 DEF Undo, BackfillInv, Typed, Handled
  <2> QED BY <1>3, <2>1 DEF Undo, RunInv, Indexed
<1>4. CASE RemoveOld
    BY <1>4 DEF RemoveOld, BackfillInv, Typed, RunInv, Indexed
<1>5. CASE EndRun
    BY <1>5 DEF EndRun, BackfillInv, Typed, RunInv, Indexed, bucket
<1>6. CASE Abort
  <2>1. aborts' > 0
      BY <1>6 DEF Abort, StraysInv
  <2> QED BY <1>6, <2>1 DEF Abort, RunInv, Indexed, bucket
<1>7. ASSUME NEW k \in Keys, NEW f \in FileIds, Copy(k, f)
      PROVE  RunInv'
  <2>1. \A g \in FileIds : Indexed(g) => copies'[g] = copies[g]
      BY <1>7 DEF Copy, BackfillInv, Typed
  <2> QED BY <1>7, <2>1 DEF Copy, RunInv, Indexed
<1>8. ASSUME NEW name \in Folded, OwnFile(name)
      PROVE  RunInv'
    BY <1>8 DEF OwnFile, RunInv, Indexed, bucket, run
<1>9. ASSUME NEW f \in FileIds, NEW name \in Folded \cup {"trash"}, Touch(f, name)
      PROVE  RunInv'
  <2>1. \A g \in FileIds : rows'[g] # NoRow => rows[g] # NoRow /\ (g # f => rows'[g] = rows[g])
      BY <1>9 DEF Touch, BackfillInv, Typed, Indexed
  <2>2. UNCHANGED <<lower, legacy, copies, todo, at, key, aborts>> /\ touched' = touched \cup {f}
      BY <1>9 DEF Touch, bucket, run
  <2> QED BY <2>1, <2>2 DEF RunInv, Indexed
<1>10. CASE UNCHANGED backfillVars
    BY <1>10 DEF backfillVars, RunInv, Indexed
<1> QED
    BY <1>1, <1>2, <1>3, <1>4, <1>5, <1>6, <1>7, <1>8, <1>9, <1>10 DEF BackfillNext

\* Only a run after a cut comes to an object a second time, and only a row its
\* owner has touched lets it through.
LEMMA TwiceStep ==
    BackfillInv /\ RunInv /\ StraysInv /\ TwiceInv /\ [BackfillNext]_backfillVars => TwiceInv'
<1> SUFFICES ASSUME BackfillInv, RunInv, StraysInv, TwiceInv, [BackfillNext]_backfillVars
             PROVE  TwiceInv'
    OBVIOUS
<1> USE NamesAssumption
<1>1. ASSUME \A f \in FileIds : rows'[f] # NoRow => rows[f] # NoRow /\ copies'[f] = copies[f],
             aborts > 0 => aborts' > 0, touched \subseteq touched'
      PROVE  TwiceInv'
    BY <1>1 DEF TwiceInv, Indexed
<1>2. CASE StartRun \/ EndRun \/ RemoveOld
    BY <1>1, <1>2 DEF StartRun, EndRun, RemoveOld, bucket
<1>3. CASE Commit
  <2>1. CASE Clash(lower[key])
      BY <1>1, <1>3, <2>1 DEF Commit, bucket
  <2>2. CASE ~Clash(lower[key])
    <3>1. /\ at = "copied" /\ rows' = [rows EXCEPT ![id] = lower[key]]
          /\ UNCHANGED <<copies, aborts, touched>>
        BY <1>3, <2>2 DEF Commit, bucket
    <3>2. copies[id] = key /\ key \in legacy
        BY <3>1 DEF BackfillInv, Handled, RunInv
    <3>3. \A f \in FileIds \ {id} : rows'[f] = rows[f]
        BY <3>1 DEF BackfillInv, Typed
    <3>4. ASSUME NEW f \in FileIds \ {id}, copies[f] = key, rows[f] # NoRow
          PROVE  aborts > 0 /\ f \in touched
        BY <2>2, <3>1, <3>2, <3>4 DEF RunInv, Indexed, Clash
    <3>5. ASSUME NEW f \in FileIds, NEW g \in FileIds, f # g, copies[f] = copies[g],
                 rows'[f] # NoRow, rows'[g] # NoRow
          PROVE  aborts > 0 /\ touched \cap {f, g} # {}
        BY <3>2, <3>3, <3>4, <3>5 DEF TwiceInv, Indexed
    <3> QED BY <3>1, <3>5 DEF TwiceInv, Indexed
  <2> QED BY <2>1, <2>2
<1>4. CASE Undo
  <2>1. \A f \in FileIds : Indexed(f) => f # id /\ copies'[f] = copies[f]
      BY <1>4 DEF Undo, BackfillInv, Typed, Handled
  <2> QED BY <1>1, <1>4, <2>1 DEF Undo, Indexed
<1>5. CASE Abort
  <2>1. aborts' > 0
      BY <1>5 DEF Abort, StraysInv
  <2> QED BY <1>1, <1>5, <2>1 DEF Abort, bucket
<1>6. ASSUME NEW k \in Keys, NEW f \in FileIds, Copy(k, f)
      PROVE  TwiceInv'
  <2>1. \A g \in FileIds : Indexed(g) => copies'[g] = copies[g]
      BY <1>6 DEF Copy, BackfillInv, Typed
  <2> QED BY <1>1, <1>6, <2>1 DEF Copy, Indexed
<1>7. ASSUME NEW name \in Folded, OwnFile(name)
      PROVE  TwiceInv'
    BY <1>1, <1>7 DEF OwnFile, bucket, run
<1>8. ASSUME NEW f \in FileIds, NEW name \in Folded \cup {"trash"}, Touch(f, name)
      PROVE  TwiceInv'
  <2>1. \A g \in FileIds : rows'[g] # NoRow => rows[g] # NoRow
      BY <1>8 DEF Touch, BackfillInv, Typed, Indexed
  <2> QED BY <1>1, <1>8, <2>1 DEF Touch, bucket, run
<1>9. CASE UNCHANGED backfillVars
    BY <1>1, <1>9 DEF backfillVars
<1> QED
    BY <1>2, <1>3, <1>4, <1>5, <1>6, <1>7, <1>8, <1>9 DEF BackfillNext

\* Every object without a row and every legacy object under two of them is
\* there because a run was cut short, for any number of objects, runs and cuts.
THEOREM Leftovers == BackfillSpec => []LeftoversNeedAnAbort
<1>1. BackfillInit => BackfillInv /\ StraysInv /\ RunInv /\ TwiceInv
  <2> SUFFICES ASSUME BackfillInit
               PROVE  BackfillInv /\ StraysInv /\ RunInv /\ TwiceInv
      OBVIOUS
  <2>1. \A f \in FileIds : rows[f] = NoRow /\ copies[f] = NoKey
      BY DEF BackfillInit
  <2>2. Strays = {}
      BY <2>1 DEF Strays
  <2>3. StraysInv
      BY <2>2, FS_EmptySet DEF BackfillInit, StraysInv
  <2>4. RunInv /\ TwiceInv
      BY <2>1 DEF BackfillInit, RunInv, TwiceInv, Indexed
  <2> QED BY <2>3, <2>4, BackfillStart
<1>2. StraysInv /\ TwiceInv => LeftoversNeedAnAbort
    BY DEF StraysInv, Strays, TwiceInv, LeftoversNeedAnAbort
<1> QED BY BackfillStep, StraysStep, RunStep, TwiceStep, <1>1, <1>2, PTL DEF BackfillSpec

-----------------------------------------------------------------------------
(* The files store of the browser                                          *)

FileRow == [view : Views, page : Nat]
Request == [id : Nat, kind : {"refresh", "more"}, view : Views, offset : Nat]

FilesTyped ==
    /\ params \in Views
    /\ files \in Seq(FileRow)
    /\ requestId \in Nat
    /\ flying \subseteq Request
    /\ rushed \in BOOLEAN /\ failed \in BOOLEAN

\* What is shown is a beginning of the listing asked last.
ShowsLast == files = Listing(params, Len(files))

\* Numbers are drawn once; the last one drawn asks for the view asked last, from
\* its start or, unless the order was upset, from where the list ends.
NumbersInv ==
    /\ \A q \in flying : q.id \in 1 .. requestId
    /\ \A p, q \in flying : p.id = q.id => p = q
    /\ \A q \in flying : Counts(q) =>
          /\ q.view = params
          /\ q.kind = "refresh" => q.offset = 0
          /\ q.kind = "more" /\ ~rushed /\ ~failed => ShowsLast /\ q.offset = Len(files)
    /\ hasMore => requestId > 0

\* Where no answer that counts is awaited, it has come.
ListingInv ==
    ~rushed /\ ~failed =>
        /\ \E view \in Views : files = Listing(view, Len(files))
        /\ requestId > 0 /\ (\A q \in flying : ~Counts(q)) => ShowsLast

FilesInv == FilesTyped /\ NumbersInv /\ ListingInv

LEMMA ListingLen ==
    ASSUME NEW v, NEW n \in Nat
    PROVE  Len(Listing(v, n)) = n
BY DEF Listing

\* A page put after the beginning of its listing makes a longer one.
LEMMA PageFollows ==
    ASSUME NEW v \in Views, NEW n \in Nat
    PROVE  /\ Listing(v, n) \o Page(v, n) \in Seq(FileRow)
           /\ \E m \in Nat : Listing(v, n) \o Page(v, n) = Listing(v, m)
<1> DEFINE row == [view |-> v, page |-> n + 1]
<1>1. row \in FileRow
    BY DEF FileRow
<1>2. Listing(v, n) \in Seq(FileRow) /\ Len(Listing(v, n)) = n
    BY DEF Listing, FileRow
<1>3. CASE Page(v, n) = <<row>>
  <2>1. Listing(v, n) \o <<row>> = Append(Listing(v, n), row)
      BY <1>1, <1>2, AppendIsConcat
  <2>2. Append(Listing(v, n), row) = Listing(v, n + 1)
      BY <1>1, <1>2 DEF Listing
  <2>3. n + 1 \in Nat
      OBVIOUS
  <2> QED BY <1>1, <1>2, <1>3, <2>1, <2>2, <2>3
<1>4. CASE Page(v, n) = <<>>
    BY <1>2, <1>4, ConcatEmptySeq
<1> QED BY <1>3, <1>4 DEF Page

\* The first page is the beginning of its listing.
LEMMA PageFirst ==
    ASSUME NEW v \in Views
    PROVE  /\ Page(v, 0) \in Seq(FileRow)
           /\ \E m \in Nat : Page(v, 0) = Listing(v, m)
<1> DEFINE row == [view |-> v, page |-> 0 + 1]
<1>1. <<row>> = Listing(v, 1)
    BY DEF Listing
<1>2. <<>> = Listing(v, 0)
    BY DEF Listing
<1>3. row \in FileRow
    BY DEF FileRow
<1> QED BY <1>1, <1>2, <1>3 DEF Page

\* A request leaves under the next number.
LEMMA FlyStep ==
    ASSUME FilesInv, NEW kind \in {"refresh", "more"}, NEW view \in Views, NEW offset \in Nat,
           Fly(kind, view, offset), params' = view, UNCHANGED <<files, hasMore, failed>>,
           rushed' \in BOOLEAN, rushed => rushed',
           kind = "refresh" => offset = 0,
           kind = "more" /\ ~rushed' /\ ~failed => ShowsLast' /\ offset = Len(files)
    PROVE  FilesInv'
<1> DEFINE new == [id |-> requestId + 1, kind |-> kind, view |-> view, offset |-> offset]
<1>1. /\ requestId' = requestId + 1 /\ requestId \in Nat /\ flying' = flying \cup {new}
      /\ new \in Request /\ flying \subseteq Request
    BY DEF Fly, FilesInv, FilesTyped, Request
<1>2. new.id = requestId + 1 /\ new.kind = kind /\ new.view = view /\ new.offset = offset
    OBVIOUS
<1> HIDE DEF new
<1>3. \A q \in flying : q.id \in 1 .. requestId /\ q.id # requestId'
    BY <1>1 DEF FilesInv, NumbersInv
<1>4. FilesTyped'
    BY <1>1 DEF FilesInv, FilesTyped
<1>5. \A q \in flying' : q.id \in 1 .. requestId'
    BY <1>1, <1>2, <1>3
<1>6. \A p, q \in flying' : p.id = q.id => p = q
    BY <1>1, <1>2, <1>3 DEF FilesInv, NumbersInv
<1>7. \A q \in flying' : Counts(q)' => q = new
    BY <1>1, <1>3 DEF Counts
<1>8. NumbersInv'
    BY <1>1, <1>2, <1>5, <1>6, <1>7 DEF NumbersInv, FilesInv
<1>9. \E q \in flying' : Counts(q)'
    BY <1>1, <1>2 DEF Counts
<1>10. ListingInv'
    BY <1>9 DEF ListingInv, FilesInv
<1> QED BY <1>4, <1>8, <1>10 DEF FilesInv

LEMMA AnsweredStep ==
    ASSUME FilesInv, NEW q \in flying, Answered(q)
    PROVE  FilesInv'
<1> DEFINE page == Page(q.view, q.offset)
<1>1. /\ flying' = flying \ {q} /\ UNCHANGED <<params, requestId>>
      /\ q \in Request /\ requestId \in Nat /\ params \in Views /\ files \in Seq(FileRow)
      /\ q.id \in 1 .. requestId
      /\ rushed' \in BOOLEAN /\ failed' \in BOOLEAN
    BY DEF Answered, FilesInv, FilesTyped, NumbersInv
<1>2. CASE ~Counts(q)
  <2>1. UNCHANGED <<files, hasMore>> /\ rushed' = rushed /\ failed' = failed
      BY <1>2 DEF Answered, FilesInv, FilesTyped
  <2>2. (\A p \in flying' : ~Counts(p)') => (\A p \in flying : ~Counts(p))
      BY <1>1, <1>2 DEF Counts
  <2>3. FilesTyped' /\ NumbersInv'
      BY <1>1, <2>1 DEF FilesInv, FilesTyped, NumbersInv, Counts, ShowsLast
  <2>4. ListingInv'
      BY <1>1, <2>1, <2>2 DEF FilesInv, ListingInv, ShowsLast
  <2> QED BY <2>3, <2>4 DEF FilesInv
<1>3. CASE Counts(q)
  <2>1. \A p \in flying' : ~Counts(p)'
      BY <1>1, <1>3 DEF Counts, FilesInv, NumbersInv
  <2>2. q.view = params /\ (q.kind = "refresh" => q.offset = 0)
      BY <1>3 DEF FilesInv, NumbersInv
  <2>3. ASSUME files' \in Seq(FileRow),
               ~rushed' /\ ~failed' => \E m \in Nat : files' = Listing(params, m)
        PROVE  FilesInv'
    <3>1. FilesTyped'
        BY <1>1, <2>3 DEF FilesInv, FilesTyped
    <3>2. NumbersInv'
        BY <1>1, <2>1 DEF FilesInv, NumbersInv
    <3>3. ~rushed' /\ ~failed' => files' = Listing(params, Len(files'))
        BY <2>3, ListingLen
    <3>4. ListingInv'
        BY <1>1, <3>3 DEF ListingInv, ShowsLast
    <3> QED BY <3>1, <3>2, <3>4 DEF FilesInv
  <2>4. CASE q.kind = "refresh"
    <3>1. files' = Page(params, 0)
        BY <1>3, <2>2, <2>4 DEF Answered
    <3> QED BY <1>1, <2>3, <3>1, PageFirst
  <2>5. CASE q.kind # "refresh"
    <3>1. /\ files' = files \o Page(params, q.offset)
          /\ rushed' = rushed /\ failed' = failed /\ q.kind = "more"
        BY <1>1, <1>3, <2>2, <2>5 DEF Answered, Request, FilesInv, FilesTyped
    <3>2. Page(params, q.offset) \in Seq(FileRow)
      <4>1. q.offset + 1 \in Nat
          BY <1>1 DEF Request
      <4>2. [view |-> params, page |-> q.offset + 1] \in FileRow
          BY <1>1, <4>1 DEF FileRow
      <4> QED BY <4>2 DEF Page
    <3>3. files' \in Seq(FileRow)
        BY <1>1, <3>1, <3>2, ConcatProperties
    <3>4. ASSUME ~rushed', ~failed'
          PROVE  \E m \in Nat : files' = Listing(params, m)
      <4>1. files = Listing(params, Len(files)) /\ q.offset = Len(files)
          BY <1>3, <3>1, <3>4 DEF FilesInv, NumbersInv, ShowsLast
      <4>2. Len(files) \in Nat
          BY <1>1
      <4> QED BY <1>1, <3>1, <4>1, <4>2, PageFollows
    <3> QED BY <2>3, <3>3, <3>4
  <2> QED BY <2>4, <2>5
<1> QED BY <1>2, <1>3

LEMMA FilesStep == FilesInv /\ [FilesNext]_filesVars => FilesInv'
<1> SUFFICES ASSUME FilesInv, [FilesNext]_filesVars
             PROVE  FilesInv'
    OBVIOUS
<1>0. /\ params \in Views /\ files \in Seq(FileRow) /\ Len(files) \in Nat
      /\ rushed \in BOOLEAN /\ failed \in BOOLEAN
    BY DEF FilesInv, FilesTyped
<1>1. ASSUME NEW view \in Views, Load(view)
      PROVE  FilesInv'
    BY <1>0, <1>1, FlyStep DEF Load, Run
<1>2. CASE LoadMore
  <2>1. /\ Fly("more", params, Len(files)) /\ UNCHANGED <<params, files, hasMore, failed>>
        /\ rushed' = (rushed \/ flying # {}) /\ hasMore
      BY <1>2 DEF LoadMore, Run
  <2>2. ASSUME ~rushed', ~failed
        PROVE  ShowsLast'
    <3>1. flying = {} /\ ~rushed /\ requestId > 0
        BY <2>1, <2>2 DEF FilesInv, NumbersInv
    <3> QED BY <2>1, <2>2, <3>1 DEF FilesInv, ListingInv, ShowsLast
  <2>3. rushed' \in BOOLEAN
      BY <2>1
  <2> QED BY <1>0, <2>1, <2>2, <2>3, FlyStep
<1>3. CASE Change \/ NotChanged
    BY <1>3 DEF Change, NotChanged, Run, FilesInv, FilesTyped, NumbersInv, ListingInv, ShowsLast,
        Counts
<1>4. CASE Changed
    BY <1>0, <1>4, FlyStep DEF Changed
<1>5. ASSUME NEW q \in flying, Failed(q)
      PROVE  FilesInv'
  <2>1. /\ flying' = flying \ {q} /\ failed'
        /\ UNCHANGED <<params, files, hasMore, requestId, rushed>>
      BY <1>5 DEF Failed
  <2> QED BY <2>1 DEF FilesInv, FilesTyped, NumbersInv, ListingInv, ShowsLast, Counts
<1>6. CASE UNCHANGED filesVars
    BY <1>6 DEF filesVars, FilesInv, FilesTyped, NumbersInv, ListingInv, ShowsLast, Counts
<1> QED
    BY <1>1, <1>2, <1>3, <1>4, <1>5, <1>6, AnsweredStep DEF FilesNext

\* However answers are reordered, the page shows one listing without a hole or a
\* repeat, and in the end the one asked last: for any number of views, pages and
\* requests.
THEOREM OneListing == FilesSpec => []ShowsOneListing
<1>1. FilesInit => FilesInv
  <2> SUFFICES ASSUME FilesInit
               PROVE  FilesInv
      OBVIOUS
  <2>1. files = <<>> /\ flying = {} /\ requestId = 0 /\ params \in Views /\ ~hasMore
        /\ rushed = FALSE /\ failed = FALSE
      BY DEF FilesInit
  <2>2. <<>> = Listing(params, Len(<<>>))
      BY DEF Listing
  <2>3. FilesTyped
      BY <2>1, EmptySeq DEF FilesTyped
  <2>4. NumbersInv /\ ListingInv
      BY <2>1, <2>2 DEF NumbersInv, ListingInv
  <2> QED BY <2>3, <2>4 DEF FilesInv
<1>2. FilesInv => ShowsOneListing
    BY DEF FilesInv, ListingInv, ShowsLast, ShowsOneListing
<1> QED BY <1>1, <1>2, FilesStep, PTL DEF FilesSpec

-----------------------------------------------------------------------------
(* Texts                                                                   *)

\* What a text is.
LEMMA TextIs ==
    ASSUME NEW s \in Seq(Characters)
    PROVE  /\ Len(s) \in Nat /\ DOMAIN s = 1..Len(s)
           /\ \A i \in 1..Len(s) : s[i] \in Characters
           /\ s = <<>> <=> Len(s) = 0
BY EmptySeq

\* Two texts, one after the other.
LEMMA Glued ==
    ASSUME NEW s \in Seq(Characters), NEW t \in Seq(Characters)
    PROVE  /\ s \o t \in Seq(Characters) /\ Len(s \o t) = Len(s) + Len(t)
           /\ \A i \in 1..Len(s) : (s \o t)[i] = s[i]
           /\ \A i \in 1..Len(t) : (s \o t)[Len(s) + i] = t[i]
<1>1. /\ s \o t \in Seq(Characters) /\ Len(s \o t) = Len(s) + Len(t)
      /\ \A i \in 1 .. Len(s) + Len(t) : (s \o t)[i] = IF i <= Len(s) THEN s[i] ELSE t[i - Len(s)]
    BY ConcatProperties
<1>2. Len(s) \in Nat /\ Len(t) \in Nat
    BY TextIs
<1>3. ASSUME NEW i \in 1..Len(s) PROVE (s \o t)[i] = s[i]
  <2>1. i \in 1..Len(s) + Len(t) /\ i <= Len(s)
      BY <1>2
  <2> QED
      BY <1>1, <2>1
<1>4. ASSUME NEW i \in 1..Len(t) PROVE (s \o t)[Len(s) + i] = t[i]
  <2>1. Len(s) + i \in 1..Len(s) + Len(t) /\ ~ (Len(s) + i <= Len(s)) /\ Len(s) + i - Len(s) = i
      BY <1>2
  <2>2. (s \o t)[Len(s) + i] = t[Len(s) + i - Len(s)]
      BY <1>1, <2>1
  <2> QED
      BY <2>1, <2>2
<1> QED
    BY <1>1, <1>3, <1>4

\* It does not matter which two of three are put together first.
LEMMA GluedThrice ==
    ASSUME NEW s \in Seq(Characters), NEW t \in Seq(Characters), NEW r \in Seq(Characters)
    PROVE  (s \o t) \o r = s \o (t \o r)
BY ConcatAssociative

\* A piece of a text.
LEMMA PieceIs ==
    ASSUME NEW s \in Seq(Characters), NEW m \in 1..Len(s) + 1, NEW n \in m - 1..Len(s)
    PROVE  /\ SubSeq(s, m, n) \in Seq(Characters) /\ Len(SubSeq(s, m, n)) = n - m + 1
           /\ n - m + 1 \in Nat
           /\ \A i \in 1..n - m + 1 : SubSeq(s, m, n)[i] = s[m + i - 1]
<1>1. Len(s) \in Nat /\ m \in Nat \ {0} /\ n \in Int
    BY TextIs
<1>2. \A i \in m..n : s[i] \in Characters
  <2>1. \A i \in m..n : i \in 1..Len(s)
      BY <1>1
  <2> QED
      BY <2>1, TextIs
<1>3. /\ SubSeq(s, m, n) \in Seq(Characters)
      /\ Len(SubSeq(s, m, n)) = IF m <= n THEN n - m + 1 ELSE 0
      /\ \A i \in 1 .. n - m + 1 : SubSeq(s, m, n)[i] = s[m + i - 1]
    BY <1>1, <1>2, SubSeqProperties
<1>4. n - m + 1 \in Nat /\ (~ (m <= n) => n - m + 1 = 0)
    BY <1>1
<1> QED
    BY <1>3, <1>4

\* What stands from a place on.
LEMMA FromIs ==
    ASSUME NEW s \in Seq(Characters), NEW i \in 1..Len(s) + 1
    PROVE  /\ From(s, i) \in Seq(Characters) /\ Len(From(s, i)) = Len(s) - i + 1
           /\ Len(s) - i + 1 \in Nat
           /\ \A j \in 1..Len(s) - i + 1 : From(s, i)[j] = s[i + j - 1]
<1>1. Len(s) \in Nat
    BY TextIs
<1>2. Len(s) \in i - 1..Len(s)
    BY <1>1
<1> QED
    BY <1>2, PieceIs DEF From

\* A text is what stands before a place and what stands from there on.
LEMMA Parted ==
    ASSUME NEW s \in Seq(Characters), NEW n \in 0..Len(s)
    PROVE  SubSeq(s, 1, n) \o From(s, n + 1) = s
<1>1. Len(s) \in Nat
    BY TextIs
<1>2. 1 \in 1..Len(s) + 1 /\ n \in 1 - 1..Len(s) /\ Len(s) \in n..Len(s)
    BY <1>1
<1>3. SubSeq(s, 1, n) \o SubSeq(s, n + 1, Len(s)) = SubSeq(s, 1, Len(s))
    BY <1>2, ConcatAdjacentSubSeq
<1> QED
    BY <1>3, SubSeqFull DEF From

\* From the first place on stands everything.
LEMMA FromAll ==
    ASSUME NEW s \in Seq(Characters)
    PROVE  From(s, 1) = s
BY SubSeqFull DEF From

\* What stands from a place of the first of two texts on.
LEMMA FromGlued ==
    ASSUME NEW s \in Seq(Characters), NEW t \in Seq(Characters), NEW i \in 1..Len(s) + 1
    PROVE  From(s \o t, i) = From(s, i) \o t
<1>1. /\ Len(s) \in Nat /\ Len(t) \in Nat /\ i \in Nat \ {0} /\ i <= Len(s) + 1
      /\ s \o t \in Seq(Characters) /\ Len(s \o t) = Len(s) + Len(t)
    BY TextIs, Glued
<1>2. i \in 1..Len(s \o t) + 1
    BY <1>1
<1> DEFINE f == From(s \o t, i)
           g == From(s, i)
<1>3. /\ f \in Seq(Characters) /\ Len(f) = Len(s) + Len(t) - i + 1
      /\ \A j \in 1..Len(s) + Len(t) - i + 1 : f[j] = (s \o t)[i + j - 1]
  <2>1. /\ f \in Seq(Characters) /\ Len(f) = Len(s \o t) - i + 1
        /\ \A j \in 1..Len(s \o t) - i + 1 : f[j] = (s \o t)[i + j - 1]
      BY <1>1, <1>2, FromIs
  <2> QED
      BY <1>1, <2>1
<1>4. /\ g \in Seq(Characters) /\ Len(g) = Len(s) - i + 1 /\ Len(s) - i + 1 \in Nat
      /\ \A j \in 1..Len(s) - i + 1 : g[j] = s[i + j - 1]
    BY FromIs
<1>5. /\ g \o t \in Seq(Characters) /\ Len(g \o t) = Len(g) + Len(t)
      /\ \A j \in 1..Len(g) : (g \o t)[j] = g[j]
      /\ \A j \in 1..Len(t) : (g \o t)[Len(g) + j] = t[j]
    BY <1>4, Glued
<1> HIDE DEF f, g
<1>6. Len(f) = Len(g \o t)
    BY <1>1, <1>3, <1>4, <1>5
<1>7. ASSUME NEW j \in 1..Len(f) PROVE f[j] = (g \o t)[j]
  <2>1. j \in Nat \ {0} /\ j \in 1..Len(s) + Len(t) - i + 1 /\ f[j] = (s \o t)[i + j - 1]
      BY <1>1, <1>3
  <2>2. CASE j <= Len(s) - i + 1
    <3>1. j \in 1..Len(s) - i + 1 /\ j \in 1..Len(g) /\ i + j - 1 \in 1..Len(s)
        BY <1>1, <1>4, <2>1, <2>2
    <3>2. (s \o t)[i + j - 1] = s[i + j - 1]
        BY <3>1, Glued
    <3> QED
        BY <1>4, <1>5, <2>1, <3>1, <3>2
  <2>3. CASE j > Len(s) - i + 1
    <3> DEFINE k == j - (Len(s) - i + 1)
    <3>1. k \in 1..Len(t) /\ Len(s) + k = i + j - 1 /\ Len(g) + k = j
        BY <1>1, <1>4, <2>1, <2>3
    <3> HIDE DEF k
    <3>2. (s \o t)[Len(s) + k] = t[k] /\ (g \o t)[Len(g) + k] = t[k]
        BY <1>5, <3>1, Glued
    <3> QED
        BY <2>1, <3>1, <3>2
  <2> QED
      BY <1>1, <1>4, <2>1, <2>2, <2>3
<1> QED
    BY <1>3, <1>5, <1>6, <1>7, SeqEqual DEF f, g

\* What stands behind s in s and t is of t.
LEMMA FromBehind ==
    ASSUME NEW s \in Seq(Characters), NEW t \in Seq(Characters), NEW k \in 1..Len(t) + 1
    PROVE  From(s \o t, Len(s) + k) = From(t, k) /\ Len(s) + k \in 1..Len(s \o t) + 1
<1>1. /\ Len(s) \in Nat /\ Len(t) \in Nat /\ k \in Nat \ {0} /\ k <= Len(t) + 1
      /\ s \o t \in Seq(Characters) /\ Len(s \o t) = Len(s) + Len(t)
    BY TextIs, Glued
<1>2. Len(s) + k \in 1..Len(s \o t) + 1
    BY <1>1
<1> DEFINE f == From(s \o t, Len(s) + k)
           g == From(t, k)
<1>3. /\ f \in Seq(Characters) /\ Len(f) = Len(s \o t) - (Len(s) + k) + 1
      /\ \A j \in 1..Len(s \o t) - (Len(s) + k) + 1 : f[j] = (s \o t)[Len(s) + k + j - 1]
    BY <1>1, <1>2, FromIs
<1>4. /\ g \in Seq(Characters) /\ Len(g) = Len(t) - k + 1 /\ Len(t) - k + 1 \in Nat
      /\ \A j \in 1..Len(t) - k + 1 : g[j] = t[k + j - 1]
    BY FromIs
<1> HIDE DEF f, g
<1>5. Len(f) = Len(g) /\ Len(s \o t) - (Len(s) + k) + 1 = Len(t) - k + 1
    BY <1>1, <1>3, <1>4
<1>6. ASSUME NEW j \in 1..Len(f) PROVE f[j] = g[j]
  <2>1. /\ j \in 1..Len(t) - k + 1 /\ k + j - 1 \in 1..Len(t)
        /\ Len(s) + k + j - 1 = Len(s) + (k + j - 1)
      BY <1>1, <1>4, <1>5
  <2>2. (s \o t)[Len(s) + (k + j - 1)] = t[k + j - 1]
      BY <2>1, Glued
  <2> QED
      BY <1>3, <1>4, <1>5, <2>1, <2>2
<1> QED
    BY <1>2, <1>3, <1>4, <1>5, <1>6, SeqEqual DEF f, g

\* The beginning of s and t, when it ends in s, or in t.
LEMMA StartGlued ==
    ASSUME NEW s \in Seq(Characters), NEW t \in Seq(Characters), NEW n \in 0..Len(s)
    PROVE  SubSeq(s \o t, 1, n) = SubSeq(s, 1, n)
<1>1. /\ Len(s) \in Nat /\ Len(t) \in Nat /\ n \in Nat
      /\ s \o t \in Seq(Characters) /\ Len(s \o t) = Len(s) + Len(t)
    BY TextIs, Glued
<1>2. /\ 1 \in 1..Len(s \o t) + 1 /\ n \in 1 - 1..Len(s \o t) /\ 1 \in 1..Len(s) + 1
      /\ n \in 1 - 1..Len(s) /\ n - 1 + 1 = n /\ \A i \in 1..n : 1 + i - 1 = i /\ i \in 1..Len(s)
    BY <1>1
<1>3. /\ SubSeq(s \o t, 1, n) \in Seq(Characters) /\ Len(SubSeq(s \o t, 1, n)) = n
      /\ \A i \in 1..n : SubSeq(s \o t, 1, n)[i] = (s \o t)[i]
    BY <1>1, <1>2, PieceIs
<1>4. /\ SubSeq(s, 1, n) \in Seq(Characters) /\ Len(SubSeq(s, 1, n)) = n
      /\ \A i \in 1..n : SubSeq(s, 1, n)[i] = s[i]
    BY <1>1, <1>2, PieceIs
<1>5. \A i \in 1..n : SubSeq(s \o t, 1, n)[i] = SubSeq(s, 1, n)[i]
    BY <1>2, <1>3, <1>4, Glued
<1> QED
    BY <1>3, <1>4, <1>5, SeqEqual

\* What stands before a place of the second.
LEMMA StartBehind ==
    ASSUME NEW s \in Seq(Characters), NEW t \in Seq(Characters), NEW n \in 0..Len(t)
    PROVE  SubSeq(s \o t, 1, Len(s) + n) = s \o SubSeq(t, 1, n)
<1>1. /\ Len(s) \in Nat /\ Len(t) \in Nat /\ n \in Nat
      /\ s \o t \in Seq(Characters) /\ Len(s \o t) = Len(s) + Len(t)
    BY TextIs, Glued
<1> DEFINE u == SubSeq(t, 1, n)
           v == From(t, n + 1)
<1>2. /\ u \in Seq(Characters) /\ Len(u) = n
  <2>1. 1 \in 1..Len(t) + 1 /\ n \in 1 - 1..Len(t) /\ n - 1 + 1 = n
      BY <1>1
  <2> QED
      BY <2>1, PieceIs
<1>3. v \in Seq(Characters)
  <2>1. n + 1 \in 1..Len(t) + 1
      BY <1>1
  <2> QED
      BY <2>1, FromIs
<1>4. t = u \o v
    BY Parted
<1> HIDE DEF u, v
<1>5. s \o t = (s \o u) \o v
    BY <1>2, <1>3, <1>4, GluedThrice
<1>6. s \o u \in Seq(Characters) /\ Len(s \o u) = Len(s) + n
    BY <1>2, Glued
<1>7. Len(s) + n \in 0..Len(s \o u)
    BY <1>1, <1>6
<1>8. SubSeq(s \o t, 1, Len(s) + n) = SubSeq(s \o u, 1, Len(s) + n)
    BY <1>3, <1>5, <1>6, <1>7, StartGlued
<1> QED
    BY <1>6, <1>8, SubSeqFull DEF u

-----------------------------------------------------------------------------
(* Tags and spaces                                                         *)

\* What is known of the tags.
LEMMA TagIs ==
    /\ Len(Open) \in Nat \ {0} /\ Len(Close) \in Nat \ {0} /\ Keep \in Nat /\ Len(Close) = Keep + 1
    /\ Open \in Seq(Characters) /\ Close \in Seq(Characters)
BY TagsAssumption, TextIs DEF Keep

\* A text that another begins with.
LEMMA PrefixIs ==
    ASSUME NEW s \in Seq(Characters), NEW t \in Seq(Characters)
    PROVE  IsPrefix(s, t) <=> Len(s) <= Len(t) /\ \A i \in 1..Len(s) : s[i] = t[i]
<1>1. Len(s) \in Nat /\ Len(t) \in Nat
    BY TextIs
<1>2. CASE Len(s) <= Len(t)
  <2>1. /\ 1 \in 1..Len(t) + 1 /\ Len(s) \in 1 - 1..Len(t) /\ Len(s) - 1 + 1 = Len(s)
        /\ \A i \in 1..Len(s) : 1 + i - 1 = i
      BY <1>1, <1>2
  <2>2. /\ SubSeq(t, 1, Len(s)) \in Seq(Characters) /\ Len(SubSeq(t, 1, Len(s))) = Len(s)
        /\ \A i \in 1..Len(s) : SubSeq(t, 1, Len(s))[i] = t[i]
      BY <2>1, PieceIs
  <2>3. SubSeq(s, 1, Len(s)) = s
      BY SubSeqFull
  <2>4. (\A i \in 1..Len(s) : s[i] = t[i]) => s = SubSeq(t, 1, Len(s))
      BY <2>2, SeqEqual
  <2> QED
      BY <1>2, <2>2, <2>3, <2>4 DEF IsPrefix
<1>3. CASE ~ (Len(s) <= Len(t))
    BY <1>3 DEF IsPrefix
<1> QED
    BY <1>2, <1>3

\* A text that goes on opens with a tag that it opened with.
LEMMA PrefixKept ==
    ASSUME NEW p \in Seq(Characters), NEW s \in Seq(Characters), NEW t \in Seq(Characters), IsPrefix(p, s)
    PROVE  IsPrefix(p, s \o t)
<1>1. /\ Len(p) \in Nat /\ Len(s) \in Nat /\ Len(t) \in Nat
      /\ s \o t \in Seq(Characters) /\ Len(s \o t) = Len(s) + Len(t)
    BY TextIs, Glued
<1>2. Len(p) <= Len(s) /\ \A i \in 1..Len(p) : p[i] = s[i]
    BY PrefixIs
<1>3. Len(p) <= Len(s \o t) /\ \A i \in 1..Len(p) : i \in 1..Len(s)
    BY <1>1, <1>2
<1>4. \A i \in 1..Len(p) : p[i] = (s \o t)[i]
    BY <1>2, <1>3, Glued
<1> QED
    BY <1>1, <1>3, <1>4, PrefixIs

\* It cannot come to open with a tag once it has left it.
LEMMA PrefixBack ==
    ASSUME NEW p \in Seq(Characters), NEW s \in Seq(Characters), NEW t \in Seq(Characters)
    PROVE  /\ IsPrefix(p, s \o t) => IsPrefix(p, s) \/ IsPrefix(s, p)
           /\ IsPrefix(s \o t, p) => IsPrefix(s, p)
<1>1. /\ Len(p) \in Nat /\ Len(s) \in Nat /\ Len(t) \in Nat
      /\ s \o t \in Seq(Characters) /\ Len(s \o t) = Len(s) + Len(t)
    BY TextIs, Glued
<1>2. ASSUME IsPrefix(p, s \o t) PROVE IsPrefix(p, s) \/ IsPrefix(s, p)
  <2>1. \A i \in 1..Len(p) : p[i] = (s \o t)[i]
      BY <1>1, <1>2, PrefixIs
  <2>2. CASE Len(p) <= Len(s)
    <3>1. \A i \in 1..Len(p) : i \in 1..Len(s)
        BY <1>1, <2>2
    <3>2. \A i \in 1..Len(p) : p[i] = s[i]
        BY <2>1, <3>1, Glued
    <3> QED
        BY <2>2, <3>2, PrefixIs
  <2>3. CASE ~ (Len(p) <= Len(s))
    <3>1. Len(s) <= Len(p) /\ \A i \in 1..Len(s) : i \in 1..Len(p)
        BY <1>1, <2>3
    <3>2. \A i \in 1..Len(s) : s[i] = p[i]
        BY <2>1, <3>1, Glued
    <3> QED
        BY <3>1, <3>2, PrefixIs
  <2> QED
      BY <2>2, <2>3
<1>3. ASSUME IsPrefix(s \o t, p) PROVE IsPrefix(s, p)
  <2>1. Len(s \o t) <= Len(p) /\ \A i \in 1..Len(s \o t) : (s \o t)[i] = p[i]
      BY <1>1, <1>3, PrefixIs
  <2>2. Len(s) <= Len(p) /\ \A i \in 1..Len(s) : i \in 1..Len(s \o t)
      BY <1>1, <2>1
  <2>3. \A i \in 1..Len(s) : s[i] = p[i]
      BY <2>1, <2>2, Glued
  <2> QED
      BY <2>2, <2>3, PrefixIs
<1> QED
    BY <1>2, <1>3

\* Any set of numbers has a least one.
LEMMA LeastIs ==
    ASSUME NEW S \in SUBSET Nat, S # {}
    PROVE  Min(S) \in S /\ \A y \in S : Min(S) <= y
<1>1. \E x \in S : \A y \in S : ~ (<<y, x>> \in OpToRel(<, Nat))
    BY NatLessThanWellFounded, WFMin
<1>2. \E x \in S : \A y \in S : x <= y
  <2>1. PICK x \in S : \A y \in S : ~ (<<y, x>> \in OpToRel(<, Nat))
      BY <1>1
  <2>2. ASSUME NEW y \in S PROVE x <= y
    <3>1. y \in Nat /\ x \in Nat
        OBVIOUS
    <3>2. y < x => <<y, x>> \in OpToRel(<, Nat)
        BY <3>1 DEF OpToRel
    <3>3. ~ (y < x)
        BY <2>1, <3>2
    <3> QED
        BY <3>1, <3>3
  <2> QED
      BY <2>2
<1> QED
    BY <1>2 DEF Min

\* Where the Close tag stands.
Closes(s, i) == \A k \in 1..Len(Close) : s[i + k - 1] = Close[k]

\* Where a Close tag stands, letter by letter.
LEMMA EndsAre ==
    ASSUME NEW s \in Seq(Characters), NEW i \in Nat \ {0}
    PROVE  i \in Ends(s) <=> i + Keep <= Len(s) /\ Closes(s, i)
<1>1. Len(s) \in Nat /\ Len(Close) \in Nat /\ Keep \in Nat /\ Len(Close) = Keep + 1
    BY TextIs, TagIs
<1>2. i \in 1..(Len(s) - Len(Close) + 1) <=> i + Keep <= Len(s)
    BY <1>1
<1>3. CASE i + Keep <= Len(s)
  <2>1. /\ i \in 1..Len(s) + 1 /\ i + Len(Close) - 1 \in i - 1..Len(s)
        /\ i + Len(Close) - 1 - i + 1 = Len(Close)
      BY <1>1, <1>3
  <2> DEFINE p == SubSeq(s, i, i + Len(Close) - 1)
  <2>2. /\ p \in Seq(Characters) /\ Len(p) = i + Len(Close) - 1 - i + 1
        /\ \A k \in 1..i + Len(Close) - 1 - i + 1 : p[k] = s[i + k - 1]
      BY <2>1, PieceIs
  <2>3. Len(p) = Len(Close) /\ \A k \in 1..Len(Close) : p[k] = s[i + k - 1]
      BY <2>1, <2>2
  <2> HIDE DEF p
  <2>4. p = Close <=> Closes(s, i)
    <3>1. Closes(s, i) => \A k \in 1..Len(p) : p[k] = Close[k]
        BY <2>3 DEF Closes
    <3>2. Closes(s, i) => p = Close
        BY <2>2, <2>3, <3>1, TagIs, SeqEqual
    <3>3. p = Close => Closes(s, i)
        BY <2>3 DEF Closes
    <3> QED
        BY <3>2, <3>3
  <2> QED
      BY <1>2, <1>3, <2>4 DEF Ends, p
<1>4. CASE ~ (i + Keep <= Len(s))
    BY <1>2, <1>4 DEF Ends
<1> QED
    BY <1>3, <1>4

\* What str.find answers.
LEMMA FindIs ==
    ASSUME NEW s \in Seq(Characters)
    PROVE  /\ Find(s) \in Nat
           /\ Find(s) = 0 <=> Ends(s) = {}
           /\ Find(s) # 0 => Find(s) \in Ends(s) /\ \A i \in Ends(s) : Find(s) <= i
<1>1. Ends(s) \in SUBSET Nat /\ \A i \in Ends(s) : i # 0
  <2>1. \A i \in 1..(Len(s) - Len(Close) + 1) : i \in Nat /\ i # 0
      BY TextIs, TagIs
  <2> QED
      BY <2>1 DEF Ends
<1>2. CASE Ends(s) = {}
    BY <1>2 DEF Find
<1>3. CASE Ends(s) # {}
  <2>1. Min(Ends(s)) \in Ends(s) /\ \A i \in Ends(s) : Min(Ends(s)) <= i
      BY <1>1, <1>3, LeastIs
  <2>2. Find(s) = Min(Ends(s))
      BY <1>3 DEF Find
  <2> QED
      BY <1>1, <1>3, <2>1, <2>2
<1> QED
    BY <1>2, <1>3

\* What is found first is found.
LEMMA FindThen ==
    ASSUME NEW s \in Seq(Characters), NEW i \in Ends(s), \A j \in Ends(s) : i <= j
    PROVE  Find(s) = i
<1>1. Find(s) \in Ends(s) /\ Find(s) <= i /\ Find(s) \in Nat
    BY FindIs
<1>2. i \in Nat
    BY TextIs, TagIs DEF Ends
<1> QED
    BY <1>1, <1>2

\* A Close tag that stands in a text stands there whatever follows.
LEMMA EndsKept ==
    ASSUME NEW s \in Seq(Characters), NEW t \in Seq(Characters),
           NEW i \in Nat \ {0}, i + Keep <= Len(s)
    PROVE  i \in Ends(s) <=> i \in Ends(s \o t)
<1>1. /\ Len(s) \in Nat /\ Len(t) \in Nat /\ Keep \in Nat /\ Len(Close) = Keep + 1
      /\ s \o t \in Seq(Characters) /\ Len(s \o t) = Len(s) + Len(t)
    BY TextIs, Glued, TagIs
<1>2. \A k \in 1..Len(Close) : i + k - 1 \in 1..Len(s)
    BY <1>1
<1>3. Closes(s, i) <=> Closes(s \o t, i)
    BY <1>2, Glued DEF Closes
<1>4. i + Keep <= Len(s \o t)
    BY <1>1
<1> QED
    BY <1>1, <1>3, <1>4, EndsAre

\* A Close tag stays the first one as the text goes on.
LEMMA FoundKept ==
    ASSUME NEW s \in Seq(Characters), NEW t \in Seq(Characters), Find(s) # 0
    PROVE  Find(s \o t) = Find(s)
<1> DEFINE e == Find(s)
<1>1. /\ Len(s) \in Nat /\ Len(t) \in Nat /\ Keep \in Nat /\ Len(Close) = Keep + 1
      /\ s \o t \in Seq(Characters) /\ Len(s \o t) = Len(s) + Len(t)
    BY TextIs, Glued, TagIs
<1>2. e \in Nat \ {0} /\ e \in Ends(s) /\ \A i \in Ends(s) : e <= i
    BY FindIs
<1> HIDE DEF e
<1>3. ASSUME NEW i \in Nat \ {0}, i + Keep <= Len(s)
      PROVE  i \in Ends(s) <=> i \in Ends(s \o t)
    BY <1>3, EndsKept
<1>4. e + Keep <= Len(s)
    BY <1>2, EndsAre
<1>5. e \in Ends(s \o t)
    BY <1>2, <1>3, <1>4
<1>6. ASSUME NEW i \in Ends(s \o t) PROVE e <= i
  <2>1. i \in Nat \ {0}
      BY <1>1 DEF Ends
  <2>2. CASE i + Keep <= Len(s)
      BY <1>2, <1>3, <2>1, <2>2
  <2>3. CASE ~ (i + Keep <= Len(s))
      BY <1>1, <1>2, <1>4, <2>1, <2>3
  <2> QED
      BY <2>2, <2>3
<1> QED
    BY <1>1, <1>5, <1>6, FindThen DEF e

\* Where no Close tag starts in s, the first one of s and t is that of t.
LEMMA FoundBehind ==
    ASSUME NEW s \in Seq(Characters), NEW t \in Seq(Characters),
           \A i \in Ends(s \o t) : ~ (i <= Len(s))
    PROVE  Find(s \o t) = IF Find(t) = 0 THEN 0 ELSE Len(s) + Find(t)
<1>1. /\ Len(s) \in Nat /\ Len(t) \in Nat /\ Keep \in Nat /\ Len(Close) = Keep + 1
      /\ s \o t \in Seq(Characters) /\ Len(s \o t) = Len(s) + Len(t)
    BY TextIs, Glued, TagIs
<1>2. ASSUME NEW j \in Nat \ {0}
      PROVE  j \in Ends(t) <=> Len(s) + j \in Ends(s \o t)
  <2>1. Len(s) + j \in Nat \ {0} /\ (j + Keep <= Len(t) <=> Len(s) + j + Keep <= Len(s \o t))
      BY <1>1
  <2>2. ASSUME j + Keep <= Len(t) PROVE Closes(t, j) <=> Closes(s \o t, Len(s) + j)
    <3>1. ASSUME NEW k \in 1..Len(Close)
          PROVE  (s \o t)[Len(s) + j + k - 1] = t[j + k - 1]
      <4>1. j + k - 1 \in 1..Len(t) /\ Len(s) + j + k - 1 = Len(s) + (j + k - 1)
          BY <1>1, <2>2
      <4>2. (s \o t)[Len(s) + (j + k - 1)] = t[j + k - 1]
          BY <4>1, Glued
      <4> QED
          BY <4>1, <4>2
    <3> QED
        BY <3>1 DEF Closes
  <2> QED
      BY <1>1, <2>1, <2>2, EndsAre
<1>3. ASSUME NEW i \in Ends(s \o t)
      PROVE  \E j \in Nat \ {0} : i = Len(s) + j /\ j \in Ends(t)
  <2>1. i \in Nat \ {0}
      BY <1>1 DEF Ends
  <2>0. ~ (i <= Len(s))
      BY <1>3
  <2>2. i - Len(s) \in Nat \ {0} /\ i = Len(s) + (i - Len(s))
      BY <1>1, <2>0, <2>1
  <2> QED
      BY <1>2, <2>2
<1>4. CASE Find(t) = 0
  <2>1. Ends(t) = {}
      BY <1>4, FindIs
  <2>2. Ends(s \o t) = {}
      BY <1>3, <2>1
  <2> QED
      BY <1>1, <1>4, <2>2, FindIs
<1>5. CASE Find(t) # 0
  <2>1. Find(t) \in Nat \ {0} /\ Find(t) \in Ends(t) /\ \A i \in Ends(t) : Find(t) <= i
      BY <1>5, FindIs
  <2>2. Len(s) + Find(t) \in Ends(s \o t)
      BY <1>2, <2>1
  <2>3. ASSUME NEW i \in Ends(s \o t) PROVE Len(s) + Find(t) <= i
    <3>1. PICK j \in Nat \ {0} : i = Len(s) + j /\ j \in Ends(t)
        BY <1>3
    <3> QED
        BY <1>1, <2>1, <3>1
  <2> QED
      BY <1>1, <1>5, <2>2, <2>3, FindThen
<1> QED
    BY <1>4, <1>5

\* Where lstrip stops.
LEMMA StrippedIs ==
    ASSUME NEW s \in Seq(Characters)
    PROVE  /\ (\A i \in 1..Len(s) : s[i] \in Space) => Stripped(s) = 0
           /\ \A k \in 1..Len(s) :
                 s[k] \notin Space /\ (\A i \in 1..Len(s) : i < k => s[i] \in Space) => Stripped(s) = k
           /\ ~ (\A i \in 1..Len(s) : s[i] \in Space) =>
                 /\ Stripped(s) \in 1..Len(s) /\ s[Stripped(s)] \notin Space
                 /\ \A i \in 1..Len(s) : i < Stripped(s) => s[i] \in Space
<1> DEFINE I == {i \in 1..Len(s) : s[i] \notin Space}
<1>1. Stripped(s) = IF I # {} THEN Min(I) ELSE 0
    BY DEF Stripped, SelectInSeq
<1>2. Len(s) \in Nat /\ I \in SUBSET Nat /\ \A i \in 1..Len(s) : i \in Nat
    BY TextIs
<1>3. \A i : i \in I <=> i \in 1..Len(s) /\ s[i] \notin Space
    OBVIOUS
<1> HIDE DEF I
<1>4. I # {} => Min(I) \in I /\ \A i \in I : Min(I) <= i
    BY <1>2, LeastIs
<1>5. (\A i \in 1..Len(s) : s[i] \in Space) => Stripped(s) = 0
    BY <1>1, <1>3
<1>6. ~ (\A i \in 1..Len(s) : s[i] \in Space) => Stripped(s) \in I /\ \A i \in I : Stripped(s) <= i
    BY <1>1, <1>3, <1>4
<1>7. Stripped(s) \in I /\ (\A i \in I : Stripped(s) <= i) =>
          /\ Stripped(s) \in 1..Len(s) /\ s[Stripped(s)] \notin Space
          /\ \A i \in 1..Len(s) : i < Stripped(s) => s[i] \in Space
  <2>1. SUFFICES ASSUME Stripped(s) \in I, \A i \in I : Stripped(s) <= i
                 PROVE  \A i \in 1..Len(s) : i < Stripped(s) => s[i] \in Space
      BY <1>3
  <2>2. ASSUME NEW i \in 1..Len(s), i < Stripped(s) PROVE i \notin I
    <3>1. Stripped(s) \in Nat /\ i \in Nat
        BY <1>2, <2>1
    <3>2. ~ (Stripped(s) <= i)
        BY <2>2, <3>1
    <3> QED
        BY <2>1, <3>2
  <2> QED
      BY <1>3, <2>2
<1>8. ASSUME NEW k \in 1..Len(s), s[k] \notin Space, \A i \in 1..Len(s) : i < k => s[i] \in Space
      PROVE  Stripped(s) = k
  <2>1. Stripped(s) \in I /\ Stripped(s) <= k
      BY <1>3, <1>6, <1>8
  <2>2. ~ (Stripped(s) < k)
      BY <1>3, <1>8, <2>1
  <2>3. Stripped(s) \in Nat /\ k \in Nat
      BY <1>2, <2>1
  <2> QED
      BY <2>1, <2>2, <2>3
<1> QED
    BY <1>5, <1>6, <1>7, <1>8

\* lstrip gives a text.
LEMMA LStripIs ==
    ASSUME NEW s \in Seq(Characters)
    PROVE  LStrip(s) \in Seq(Characters)
<1>1. CASE \A i \in 1..Len(s) : s[i] \in Space
    BY <1>1, StrippedIs, EmptySeq DEF LStrip
<1>2. CASE ~ (\A i \in 1..Len(s) : s[i] \in Space)
  <2>1. Stripped(s) \in 1..Len(s) /\ Stripped(s) # 0 /\ Stripped(s) \in 1..Len(s) + 1
      BY <1>2, StrippedIs, TextIs
  <2> QED
      BY <2>1, FromIs DEF LStrip
<1> QED
    BY <1>1, <1>2

\* Stripping the first piece of a text beforehand changes nothing.
LEMMA LStripGlued ==
    ASSUME NEW s \in Seq(Characters), NEW t \in Seq(Characters)
    PROVE  LStrip(LStrip(s) \o t) = LStrip(s \o t)
<1>1. /\ Len(s) \in Nat /\ Len(t) \in Nat
      /\ s \o t \in Seq(Characters) /\ Len(s \o t) = Len(s) + Len(t)
    BY TextIs, Glued
<1>2. CASE \A i \in 1..Len(s) : s[i] \in Space
  <2>1. LStrip(s) = <<>> /\ LStrip(s) \o t = t
      BY <1>2, StrippedIs, ConcatEmptySeq DEF LStrip
  <2>2. ASSUME NEW i \in 1..Len(s \o t)
        PROVE  \/ (s \o t)[i] \in Space /\ i <= Len(s)
               \/ \E j \in 1..Len(t) : i = Len(s) + j /\ (s \o t)[i] = t[j]
    <3>1. CASE i <= Len(s)
      <4>1. i \in 1..Len(s)
          BY <1>1, <3>1
      <4>2. (s \o t)[i] = s[i]
          BY <4>1, Glued
      <4> QED
          BY <1>2, <3>1, <4>1, <4>2
    <3>2. CASE ~ (i <= Len(s))
      <4>1. i - Len(s) \in 1..Len(t) /\ i = Len(s) + (i - Len(s))
          BY <1>1, <3>2
      <4>2. (s \o t)[Len(s) + (i - Len(s))] = t[i - Len(s)]
          BY <4>1, Glued
      <4> QED
          BY <4>1, <4>2
    <3> QED
        BY <3>1, <3>2
  <2>3. CASE \A i \in 1..Len(t) : t[i] \in Space
    <3>1. \A i \in 1..Len(s \o t) : (s \o t)[i] \in Space
        BY <2>2, <2>3
    <3>2. Stripped(s \o t) = 0 /\ Stripped(t) = 0
        BY <1>1, <2>3, <3>1, StrippedIs
    <3> QED
        BY <2>1, <3>2 DEF LStrip
  <2>4. CASE ~ (\A i \in 1..Len(t) : t[i] \in Space)
    <3> DEFINE k == Stripped(t)
    <3>1. k \in 1..Len(t) /\ t[k] \notin Space /\ \A i \in 1..Len(t) : i < k => t[i] \in Space
        BY <2>4, StrippedIs
    <3> HIDE DEF k
    <3>2. Len(s) + k \in 1..Len(s \o t) /\ k \in 1..Len(t) + 1 /\ k # 0 /\ Len(s) + k # 0 /\ k \in Nat
        BY <1>1, <3>1
    <3>3. (s \o t)[Len(s) + k] \notin Space
      <4>1. (s \o t)[Len(s) + k] = t[k]
          BY <3>1, Glued
      <4> QED
          BY <3>1, <4>1
    <3>4. ASSUME NEW i \in 1..Len(s \o t), i < Len(s) + k PROVE (s \o t)[i] \in Space
      <4>1. ASSUME NEW j \in 1..Len(t), i = Len(s) + j PROVE t[j] \in Space
        <5>1. j < k
            BY <1>1, <3>2, <3>4, <4>1
        <5> QED
            BY <3>1, <5>1
      <4> QED
          BY <2>2, <4>1
    <3>5. Stripped(s \o t) = Len(s) + k
        BY <1>1, <3>2, <3>3, <3>4, StrippedIs
    <3>6. From(s \o t, Len(s) + k) = From(t, k)
        BY <3>2, FromBehind
    <3> QED
        BY <2>1, <3>2, <3>5, <3>6 DEF LStrip, k
  <2> QED
      BY <2>3, <2>4
<1>3. CASE ~ (\A i \in 1..Len(s) : s[i] \in Space)
  <2> DEFINE k == Stripped(s)
             g == From(s, k)
  <2>1. k \in 1..Len(s) /\ s[k] \notin Space /\ \A i \in 1..Len(s) : i < k => s[i] \in Space
      BY <1>3, StrippedIs
  <2>2. LStrip(s) = g
      BY <1>1, <2>1 DEF LStrip
  <2>3. From(s \o t, k) = g \o t
    <3>1. k \in 1..Len(s) + 1
        BY <1>1, <2>1
    <3> HIDE DEF k
    <3> QED
        BY <3>1, FromGlued DEF k
  <2>4. g \in Seq(Characters) /\ Len(g) \in Nat \ {0} /\ g[1] = s[k]
    <3>1. k \in 1..Len(s) + 1 /\ 1 \in 1..Len(s) - k + 1 /\ k + 1 - 1 = k /\ Len(s) - k + 1 \in Nat \ {0}
        BY <1>1, <2>1
    <3> HIDE DEF k
    <3>2. /\ g \in Seq(Characters) /\ Len(g) = Len(s) - k + 1
          /\ \A j \in 1..Len(s) - k + 1 : g[j] = s[k + j - 1]
        BY <3>1, FromIs
    <3>3. g[1] = s[k + 1 - 1]
        BY <3>1, <3>2
    <3> HIDE DEF g
    <3> QED
        BY <3>1, <3>2, <3>3
  <2> HIDE DEF k, g
  <2>5. Stripped(s \o t) = k /\ k # 0
    <3>1. k \in 1..Len(s \o t) /\ k # 0 /\ k \in Nat
        BY <1>1, <2>1
    <3>2. (s \o t)[k] = s[k]
        BY <2>1, Glued
    <3>3. ASSUME NEW i \in 1..Len(s \o t), i < k PROVE (s \o t)[i] \in Space
      <4>1. i \in 1..Len(s)
          BY <1>1, <2>1, <3>3
      <4>2. (s \o t)[i] = s[i]
          BY <4>1, Glued
      <4> QED
          BY <2>1, <3>3, <4>1, <4>2
    <3> QED
        BY <1>1, <2>1, <3>1, <3>2, <3>3, StrippedIs
  <2>6. Stripped(g \o t) = 1
    <3>1. g \o t \in Seq(Characters) /\ 1 \in 1..Len(g \o t) /\ 1 \in 1..Len(g) /\ Len(g \o t) \in Nat
        BY <1>1, <2>4, Glued
    <3>2. (g \o t)[1] = g[1]
        BY <2>4, <3>1, Glued
    <3>3. \A i \in 1..Len(g \o t) : i < 1 => (g \o t)[i] \in Space
        BY <3>1
    <3> QED
        BY <2>1, <2>4, <3>1, <3>2, <3>3, StrippedIs
  <2>7. g \o t \in Seq(Characters)
      BY <2>4, Glued
  <2>8. LStrip(g \o t) = g \o t
    <3>1. From(g \o t, 1) = g \o t
        BY <2>7, FromAll
    <3>2. LStrip(g \o t) = From(g \o t, Stripped(g \o t))
        BY <2>6 DEF LStrip
    <3> QED
        BY <2>6, <3>1, <3>2
  <2> QED
      BY <2>2, <2>3, <2>5, <2>8 DEF LStrip
<1> QED
    BY <1>2, <1>3

\* lstrip does nothing to what it gave.
LEMMA LStripTwice ==
    ASSUME NEW s \in Seq(Characters)
    PROVE  LStrip(LStrip(s)) = LStrip(s)
<1>1. LStrip(s) \in Seq(Characters) /\ <<>> \in Seq(Characters)
    BY LStripIs, EmptySeq
<1>2. LStrip(s) \o <<>> = LStrip(s) /\ s \o <<>> = s
    BY <1>1, ConcatEmptySeq
<1> QED
    BY <1>1, <1>2, LStripGlued

-----------------------------------------------------------------------------
(* What was sent, and what is withheld                                     *)

SplitTyped ==
    /\ fed \in Seq(Characters) /\ rest \in Seq(Characters) /\ buf \in Seq(Characters)
    /\ reasoning \in Seq(Characters) /\ content \in Seq(Characters)

\* Nothing is sent that may be the Open tag.
StartInv == state = "start" =>
    /\ reasoning = <<>> /\ content \o buf = fed
    /\ IsStrictPrefix(fed, Open)
    /\ stream # "done" => content = <<>>

\* What is withheld is all that a Close tag can begin in, and as much as it can be.
ThinkingInv == state = "thinking" =>
    /\ content = <<>> /\ Opened(fed)
    /\ reasoning \o buf = Thought(fed) /\ Find(Thought(fed)) = 0
    /\ Len(buf) <= Keep
    /\ stream # "done" /\ reasoning # <<>> => Len(buf) = Keep

\* After a Close tag, or without any tag, all has been sent.
PlainInv == state = "plain" =>
    /\ buf = <<>>
    /\ Opened(fed) => /\ Find(Thought(fed)) # 0 /\ reasoning = ReasoningOf(fed)
                      /\ LStrip(content) = ContentOf(fed)
    /\ ~Opened(fed) => reasoning = <<>> /\ content = fed /\ ~IsPrefix(fed, Open)

SplitInv == /\ SplitTyped /\ state \in {"start", "thinking", "plain"}
            /\ StartInv /\ ThinkingInv /\ PlainInv

\* What follows the Open tag.
LEMMA ThoughtIs ==
    ASSUME NEW s \in Seq(Characters), Opened(s)
    PROVE  /\ Thought(s) \in Seq(Characters)
           /\ \A t \in Seq(Characters) : Opened(s \o t) /\ Thought(s \o t) = Thought(s) \o t
<1>1. Len(Open) <= Len(s) /\ Len(Open) \in Nat \ {0} /\ Len(s) \in Nat /\ Open \in Seq(Characters)
    BY TagIs, TextIs, PrefixIs DEF Opened
<1>2. Len(Open) + 1 \in 1..Len(s) + 1
    BY <1>1
<1>3. Thought(s) \in Seq(Characters)
    BY <1>2, FromIs DEF Thought
<1>4. \A t \in Seq(Characters) : Thought(s \o t) = Thought(s) \o t
    BY <1>2, FromGlued DEF Thought
<1>5. \A t \in Seq(Characters) : Opened(s \o t)
    BY <1>1, PrefixKept DEF Opened
<1> QED
    BY <1>3, <1>4, <1>5

\* A text that may still become the Open tag is shorter, and does not open with it.
LEMMA StrictIs ==
    ASSUME NEW s \in Seq(Characters), IsStrictPrefix(s, Open)
    PROVE  Len(s) < Len(Open) /\ ~Opened(s)
<1>1. /\ Len(s) <= Len(Open) /\ s # Open /\ Open \in Seq(Characters)
      /\ Len(s) \in Nat /\ Len(Open) \in Nat /\ \A i \in 1..Len(s) : s[i] = Open[i]
    BY TagIs, TextIs, PrefixIs DEF IsStrictPrefix
<1>2. Len(s) # Len(Open)
    BY <1>1, SeqEqual
<1>3. Opened(s) => Len(Open) <= Len(s)
    BY <1>1, PrefixIs DEF Opened
<1> QED
    BY <1>1, <1>2, <1>3

\* SplitInv says what SplitAsOnePiece says.
LEMMA SplitIs == SplitInv => SplitAsOnePiece
<1> SUFFICES ASSUME SplitInv PROVE SplitAsOnePiece
    OBVIOUS
<1>1. SplitTyped /\ state \in {"start", "thinking", "plain"}
    BY DEF SplitInv
<1>2. /\ reasoning \o <<>> = reasoning /\ content \o <<>> = content
      /\ Len(buf) \in Nat /\ Len(Close) = Keep + 1 /\ Keep \in Nat /\ Len(Open) <= Len(Close)
      /\ Len(Open) \in Nat /\ Len(content) \in Nat /\ Len(<<>>) = 0
    BY <1>1, ConcatEmptySeq, TextIs, TagIs, TagsAssumption, EmptySeq DEF SplitTyped
<1>3. CASE state = "start"
  <2>1. /\ reasoning = <<>> /\ content \o buf = fed /\ Len(fed) < Len(Open) /\ ~Opened(fed)
        /\ Len(fed) = Len(content) + Len(buf)
      BY <1>1, <1>3, StrictIs, Glued DEF SplitInv, StartInv, SplitTyped
  <2>2. Withheld("reasoning") = <<>> /\ Withheld("content") = buf
      BY <1>3 DEF Withheld
  <2>3. ReasoningOf(fed) = <<>> /\ ContentOf(fed) = fed
      BY <2>1 DEF ReasoningOf, ContentOf
  <2>4. Len(buf) < Len(Close)
      BY <1>2, <2>1
  <2> QED
      BY <1>2, <2>1, <2>2, <2>3, <2>4 DEF SplitAsOnePiece
<1>4. CASE state = "thinking"
  <2>1. /\ content = <<>> /\ Opened(fed) /\ reasoning \o buf = Thought(fed)
        /\ Find(Thought(fed)) = 0 /\ Len(buf) <= Keep
      BY <1>4 DEF SplitInv, ThinkingInv
  <2>2. Withheld("reasoning") = buf /\ Withheld("content") = <<>>
      BY <1>4 DEF Withheld
  <2>3. ReasoningOf(fed) = Thought(fed) /\ ContentOf(fed) = <<>>
      BY <2>1 DEF ReasoningOf, ContentOf
  <2>4. Len(buf) < Len(Close)
      BY <1>2, <2>1
  <2> QED
      BY <1>2, <2>1, <2>2, <2>3, <2>4 DEF SplitAsOnePiece
<1>5. CASE state = "plain"
  <2>1. buf = <<>> /\ Len(buf) < Len(Close)
      BY <1>2, <1>5 DEF SplitInv, PlainInv
  <2>2. Withheld("reasoning") = <<>> /\ Withheld("content") = <<>>
      BY <1>5, <2>1 DEF Withheld
  <2>3. CASE Opened(fed)
    <3>1. reasoning = ReasoningOf(fed) /\ LStrip(content) = ContentOf(fed)
        BY <1>5, <2>3 DEF SplitInv, PlainInv
    <3> QED
        BY <1>2, <2>1, <2>2, <2>3, <3>1 DEF SplitAsOnePiece
  <2>4. CASE ~Opened(fed)
    <3>1. reasoning = <<>> /\ content = fed
        BY <1>5, <2>4 DEF SplitInv, PlainInv
    <3>2. ReasoningOf(fed) = <<>> /\ ContentOf(fed) = fed
        BY <2>4 DEF ReasoningOf, ContentOf
    <3> QED
        BY <1>2, <2>1, <2>2, <3>1, <3>2 DEF SplitAsOnePiece
  <2> QED
      BY <2>3, <2>4
<1> QED
    BY <1>1, <1>3, <1>4, <1>5

\* What is thought so far is looked through for the Close tag.
LEMMA ThinkStep ==
    ASSUME SplitTyped, NEW u \in Seq(Characters), Think(u),
           content = <<>>, fed' \in Seq(Characters), rest' \in Seq(Characters),
           Opened(fed'), reasoning \o u = Thought(fed'),
           Find(Thought(fed')) = IF Find(u) = 0 THEN 0 ELSE Len(reasoning) + Find(u),
           reasoning # <<>> => Len(u) >= Keep
    PROVE  SplitInv'
<1> DEFINE end == Find(u)
           sent == IF end > 0 THEN end - 1 ELSE IF Len(u) > Keep THEN Len(u) - Keep ELSE 0
           T == Thought(fed')
<1>t. /\ Len(u) \in Nat /\ Len(reasoning) \in Nat /\ Keep \in Nat /\ Len(Close) = Keep + 1
      /\ T \in Seq(Characters) /\ reasoning \in Seq(Characters)
    BY TextIs, TagIs, ThoughtIs DEF SplitTyped
<1>1. /\ end \in Nat
      /\ end # 0 => end \in Nat \ {0} /\ end \in Ends(u) /\ end + Keep <= Len(u)
    BY FindIs, EndsAre
<1>2. sent \in 0..Len(u) /\ (end = 0 => sent = IF Len(u) > Keep THEN Len(u) - Keep ELSE 0)
      /\ (end # 0 => sent = end - 1)
    BY <1>1, <1>t
<1>3. /\ reasoning' = reasoning \o SubSeq(u, 1, sent)
      /\ end > 0 => state' = "plain" /\ buf' = <<>>
                    /\ content' = content \o LStrip(From(u, end + Len(Close)))
      /\ ~ (end > 0) => state' = "thinking" /\ buf' = From(u, sent + 1) /\ content' = content
    BY DEF Think
<1> HIDE DEF end, sent, T
<1>4. SubSeq(u, 1, sent) \in Seq(Characters) /\ Len(SubSeq(u, 1, sent)) = sent
  <2>1. 1 \in 1..Len(u) + 1 /\ sent \in 1 - 1..Len(u) /\ sent - 1 + 1 = sent
      BY <1>2, <1>t
  <2> QED
      BY <2>1, PieceIs
<1>5. reasoning' \in Seq(Characters) /\ Len(reasoning') = Len(reasoning) + sent
    BY <1>3, <1>4, <1>t, Glued
<1>6. CASE end = 0
  <2>1. /\ state' = "thinking" /\ buf' = From(u, sent + 1) /\ content' = <<>>
        /\ Find(T) = 0
      BY <1>3, <1>6 DEF end, T
  <2>2. buf' \in Seq(Characters) /\ Len(buf') = Len(u) - sent
    <3>1. sent + 1 \in 1..Len(u) + 1 /\ Len(u) - (sent + 1) + 1 = Len(u) - sent
        BY <1>2, <1>t
    <3> QED
        BY <2>1, <3>1, FromIs
  <2>3. reasoning' \o buf' = T
    <3>1. SubSeq(u, 1, sent) \o buf' = u
        BY <1>2, <2>1, Parted
    <3> DEFINE p == SubSeq(u, 1, sent)
               b == buf'
    <3>t. p \in Seq(Characters) /\ b \in Seq(Characters) /\ reasoning \in Seq(Characters)
        BY <1>4, <1>t, <2>2
    <3> HIDE DEF p, b
    <3>2. (reasoning \o p) \o b = reasoning \o (p \o b)
        BY <3>t, GluedThrice, ZenonT(40)
    <3> QED
        BY <1>3, <3>1, <3>2 DEF T, p, b
  <2>4. Len(buf') <= Keep
      BY <1>2, <1>6, <1>t, <2>2
  <2>5. reasoning' # <<>> => Len(buf') = Keep
    <3>1. CASE Len(u) > Keep
        BY <1>2, <1>6, <1>t, <2>2, <3>1
    <3>2. CASE Len(u) = Keep
        BY <1>2, <1>6, <1>t, <2>2, <3>2
    <3>3. CASE Len(u) < Keep
      <4>1. reasoning = <<>> /\ sent = 0
          BY <1>2, <1>6, <1>t, <3>3
      <4>2. Len(reasoning') = 0
          BY <1>5, <1>t, <4>1, EmptySeq
      <4> QED
          BY <1>5, <4>2, TextIs
    <3> QED
        BY <1>t, <3>1, <3>2, <3>3
  <2>6. content' \in Seq(Characters)
      BY <2>1, EmptySeq
  <2>7. SplitTyped' /\ StartInv' /\ PlainInv' /\ state' \in {"start", "thinking", "plain"}
      BY <1>5, <2>1, <2>2, <2>6 DEF SplitTyped, StartInv, PlainInv
  <2>8. ThinkingInv'
      BY <2>1, <2>3, <2>4, <2>5 DEF ThinkingInv, T, Thought, Opened, Find, Ends, Keep, From
  <2> QED
      BY <2>7, <2>8 DEF SplitInv
<1>7. CASE end # 0
  <2> DEFINE w == From(u, end + Len(Close))
  <2>1. /\ state' = "plain" /\ buf' = <<>> /\ content' = content \o LStrip(w)
        /\ Find(T) = Len(reasoning) + end /\ Find(T) # 0 /\ sent = end - 1
      BY <1>1, <1>2, <1>3, <1>7, <1>t DEF end, T
  <2>2. end + Len(Close) \in 1..Len(u) + 1
      BY <1>1, <1>7, <1>t
  <2>3. w \in Seq(Characters) /\ LStrip(w) \in Seq(Characters)
      BY <2>2, FromIs, LStripIs
  <2>4. content' = LStrip(w)
      BY <2>1, <2>3, ConcatEmptySeq
  <2>5. reasoning' = SubSeq(T, 1, Find(T) - 1)
    <3>1. Find(T) - 1 = Len(reasoning) + sent
        BY <1>1, <1>2, <1>t, <2>1
    <3>2. SubSeq(reasoning \o u, 1, Len(reasoning) + sent) = reasoning \o SubSeq(u, 1, sent)
        BY <1>2, <1>t, StartBehind
    <3> QED
        BY <1>3, <3>1, <3>2 DEF T
  <2>6. From(T, Find(T) + Len(Close)) = w
    <3>1. Find(T) + Len(Close) = Len(reasoning) + (end + Len(Close))
        BY <1>1, <1>t, <2>1
    <3>2. From(reasoning \o u, Len(reasoning) + (end + Len(Close))) = w
        BY <1>t, <2>2, FromBehind
    <3> QED
        BY <3>1, <3>2 DEF T
  <2> HIDE DEF w
  <2>7. LStrip(content') = LStrip(w)
      BY <2>3, <2>4, LStripTwice
  <2>8. ReasoningOf(fed') = reasoning' /\ ContentOf(fed') = LStrip(w)
      BY <2>1, <2>5, <2>6 DEF ReasoningOf, ContentOf, T
  <2>9. SplitTyped' /\ StartInv' /\ ThinkingInv' /\ state' \in {"start", "thinking", "plain"}
      BY <1>5, <2>1, <2>3, <2>4, EmptySeq DEF SplitTyped, StartInv, ThinkingInv
  <2>10. PlainInv'
    <3>1. Find(Thought(fed')) # 0
        BY <2>1 DEF T
    <3>2. ReasoningOf(fed)' = ReasoningOf(fed') /\ ContentOf(fed)' = ContentOf(fed')
          /\ Opened(fed)' = Opened(fed') /\ Find(Thought(fed))' = Find(Thought(fed'))
        OBVIOUS
    <3> QED
        BY <2>1, <2>7, <2>8, <3>1, <3>2 DEF PlainInv
  <2> QED
      BY <2>9, <2>10 DEF SplitInv
<1> QED
    BY <1>6, <1>7

\* Feed keeps SplitInv: one case per state of the splitter.
LEMMA FeedStep == SplitInv /\ (\E n \in 1..Len(rest) : Feed(n)) => SplitInv'
<1> SUFFICES ASSUME SplitInv, NEW n \in 1..Len(rest), Feed(n) PROVE SplitInv'
    OBVIOUS
<1> DEFINE c == SubSeq(rest, 1, n)
<1>1. SplitTyped
    BY DEF SplitInv
<1>2. Len(rest) \in Nat /\ Len(fed) \in Nat /\ Len(buf) \in Nat /\ Len(reasoning) \in Nat
    BY <1>1, TextIs DEF SplitTyped
<1>3. c \in Seq(Characters)
  <2>1. 1 \in 1..Len(rest) + 1 /\ n \in 1 - 1..Len(rest)
      BY <1>2
  <2> QED
      BY <1>1, <2>1, PieceIs DEF SplitTyped
<1>4. rest' \in Seq(Characters)
  <2>1. n + 1 \in 1..Len(rest) + 1
      BY <1>2
  <2> QED
      BY <1>1, <2>1, FromIs DEF Feed, SplitTyped
<1>5. fed' = fed \o c /\ stream = "open" /\ stream' = "open"
    BY DEF Feed
<1>6. \/ state = "start" /\ IsStrictPrefix(buf \o c, Open) /\ Withhold(buf \o c)
      \/ state = "start" /\ IsPrefix(Open, buf \o c) /\ Think(From(buf \o c, Len(Open) + 1))
      \/ state = "start" /\ ~IsPrefix(buf \o c, Open) /\ ~IsPrefix(Open, buf \o c) /\ Say(buf \o c)
      \/ state = "thinking" /\ Think(buf \o c)
      \/ state = "plain" /\ Say(buf \o c)
    BY DEF Feed
<1> HIDE DEF c
<1>7. /\ fed' \in Seq(Characters) /\ buf \o c \in Seq(Characters)
      /\ Len(buf \o c) = Len(buf) + Len(c) /\ Len(c) \in Nat
    BY <1>1, <1>3, <1>5, Glued, TextIs DEF SplitTyped
<1>8. CASE state = "start"
  <2>1. /\ reasoning = <<>> /\ content = <<>> /\ buf = fed /\ IsStrictPrefix(fed, Open)
    <3>1. /\ reasoning = <<>> /\ content = <<>> /\ content \o buf = fed
          /\ IsStrictPrefix(fed, Open)
        BY <1>5, <1>8 DEF SplitInv, StartInv
    <3>2. <<>> \o buf = buf
        BY <1>1, ConcatEmptySeq DEF SplitTyped
    <3> QED
        BY <3>1, <3>2
  <2>2. buf \o c = fed' /\ <<>> \o fed' = fed' /\ <<>> \in Seq(Characters)
      BY <1>5, <1>7, <2>1, ConcatEmptySeq, EmptySeq
  <2>3. CASE IsStrictPrefix(fed', Open) /\ Withhold(fed')
    <3>1. buf' = fed' /\ state' = "start" /\ reasoning' = <<>> /\ content' = <<>>
        BY <1>8, <2>1, <2>3 DEF Withhold
    <3>2. SplitTyped' /\ StartInv' /\ state' \in {"start", "thinking", "plain"}
        BY <1>4, <1>7, <2>2, <2>3, <3>1 DEF SplitTyped, StartInv
    <3>3. ThinkingInv' /\ PlainInv'
        BY <3>1 DEF ThinkingInv, PlainInv
    <3> QED
        BY <3>2, <3>3 DEF SplitInv
  <2>4. CASE IsPrefix(Open, fed') /\ Think(From(fed', Len(Open) + 1))
    <3>1. Opened(fed') /\ Think(Thought(fed'))
        BY <2>4 DEF Opened, Thought
    <3>2. Thought(fed') \in Seq(Characters)
        BY <1>7, <3>1, ThoughtIs
    <3> DEFINE u == Thought(fed')
    <3>3. reasoning \o u = u /\ Len(reasoning) = 0
        BY <2>1, <3>2, ConcatEmptySeq, EmptySeq
    <3>4. Find(u) \in Nat
        BY <3>2, FindIs
    <3> HIDE DEF u
    <3>5. Find(u) = IF Find(u) = 0 THEN 0 ELSE Len(reasoning) + Find(u)
        BY <3>3, <3>4
    <3>6. u \in Seq(Characters) /\ Think(u) /\ reasoning \o u = Thought(fed')
          /\ Find(Thought(fed')) = IF Find(u) = 0 THEN 0 ELSE Len(reasoning) + Find(u)
        BY <3>1, <3>2, <3>3, <3>5 DEF u
    <3> QED
        BY <1>1, <1>4, <1>7, <2>1, <3>1, <3>6, ThinkStep
  <2>5. CASE ~IsPrefix(fed', Open) /\ ~IsPrefix(Open, fed') /\ Say(fed')
    <3>1. buf' = <<>> /\ state' = "plain" /\ reasoning' = <<>> /\ content' = fed'
        BY <2>1, <2>2, <2>5 DEF Say
    <3>2. SplitTyped' /\ StartInv' /\ ThinkingInv' /\ state' \in {"start", "thinking", "plain"}
        BY <1>4, <1>7, <2>2, <3>1 DEF SplitTyped, StartInv, ThinkingInv
    <3>3. PlainInv'
        BY <2>5, <3>1 DEF PlainInv, Opened
    <3> QED
        BY <3>2, <3>3 DEF SplitInv
  <2> QED
      BY <1>6, <1>8, <2>2, <2>3, <2>4, <2>5
<1>9. CASE state = "thinking"
  <2>1. /\ content = <<>> /\ Opened(fed) /\ reasoning \o buf = Thought(fed)
        /\ Find(Thought(fed)) = 0 /\ (reasoning # <<>> => Len(buf) = Keep)
      BY <1>5, <1>9 DEF SplitInv, ThinkingInv
  <2>2. /\ fed \in Seq(Characters) /\ buf \in Seq(Characters) /\ reasoning \in Seq(Characters)
      BY <1>1 DEF SplitTyped
  <2>3. Opened(fed') /\ Thought(fed') = Thought(fed) \o c /\ Thought(fed) \in Seq(Characters)
      BY <1>3, <1>5, <2>1, <2>2, ThoughtIs
  <2>4. reasoning \o (buf \o c) = Thought(fed')
    <3>1. (reasoning \o buf) \o c = reasoning \o (buf \o c)
        BY <1>3, <2>2, GluedThrice
    <3> QED
        BY <2>1, <2>3, <3>1
  <2> DEFINE u == buf \o c
  <2>5. u \in Seq(Characters) /\ reasoning \o u = Thought(fed') /\ Think(u)
        /\ Len(u) = Len(buf) + Len(c)
      BY <1>6, <1>7, <1>9, <2>4
  <2> HIDE DEF u
  <2>6. Keep \in Nat /\ (reasoning # <<>> => Len(u) >= Keep)
      BY <1>2, <1>7, <2>1, <2>5, TagIs
  <2>7. ASSUME NEW i \in Ends(reasoning \o u), i <= Len(reasoning) PROVE FALSE
    <3>1. i \in Nat \ {0}
        BY <1>2, <2>5, TextIs, TagIs DEF Ends
    <3>2. Len(reasoning) # 0
        BY <1>2, <2>7, <3>1
    <3>3. reasoning # <<>>
        BY <3>2, EmptySeq
    <3>4. Len(Thought(fed)) = Len(reasoning) + Keep
        BY <2>1, <2>2, <3>3, Glued
    <3>5. i + Keep <= Len(Thought(fed))
        BY <1>2, <2>6, <2>7, <3>1, <3>4
    <3>6. i \in Ends(Thought(fed) \o c)
        BY <2>3, <2>5
    <3>7. i \in Ends(Thought(fed))
        BY <1>3, <2>3, <3>1, <3>5, <3>6, EndsKept
    <3> QED
        BY <2>1, <2>3, <3>7, FindIs
  <2>8. Find(reasoning \o u) = IF Find(u) = 0 THEN 0 ELSE Len(reasoning) + Find(u)
      BY <2>2, <2>5, <2>7, FoundBehind
  <2> QED
      BY <1>1, <1>4, <1>7, <2>1, <2>3, <2>5, <2>6, <2>8, ThinkStep
<1>10. CASE state = "plain"
  <2>1. /\ buf = <<>>
        /\ Opened(fed) => /\ Find(Thought(fed)) # 0 /\ reasoning = ReasoningOf(fed)
                          /\ LStrip(content) = ContentOf(fed)
        /\ ~Opened(fed) => reasoning = <<>> /\ content = fed /\ ~IsPrefix(fed, Open)
      BY <1>10 DEF SplitInv, PlainInv
  <2>2. /\ fed \in Seq(Characters) /\ reasoning \in Seq(Characters) /\ content \in Seq(Characters)
      BY <1>1 DEF SplitTyped
  <2>3. buf' = <<>> /\ state' = "plain" /\ reasoning' = reasoning /\ content' = content \o c
      BY <1>3, <1>6, <1>10, <2>1, ConcatEmptySeq DEF Say
  <2>4. SplitTyped' /\ StartInv' /\ ThinkingInv' /\ state' \in {"start", "thinking", "plain"}
    <3>1. content' \in Seq(Characters)
        BY <1>3, <2>2, <2>3, Glued
    <3> QED
        BY <1>4, <1>7, <2>2, <2>3, <3>1, EmptySeq DEF SplitTyped, StartInv, ThinkingInv
  <2>5. CASE Opened(fed)
    <3> DEFINE T == Thought(fed)
               e == Find(T)
    <3>1. /\ Opened(fed') /\ Thought(fed') = T \o c /\ T \in Seq(Characters)
        BY <1>3, <1>5, <2>2, <2>5, ThoughtIs
    <3>2. Find(T) # 0
        BY <2>1, <2>5
    <3>3. Find(T \o c) = e
        BY <1>3, <3>1, <3>2, FoundKept
    <3>4. e \in Nat \ {0} /\ e + Keep <= Len(T)
      <4>1. e \in Nat \ {0} /\ e \in Ends(T)
          BY <3>1, <3>2, FindIs
      <4> QED
          BY <3>1, <4>1, EndsAre
    <3>5. /\ reasoning = SubSeq(T, 1, e - 1)
          /\ LStrip(content) = LStrip(From(T, e + Len(Close)))
        BY <2>1, <2>5, <3>2 DEF ReasoningOf, ContentOf
    <3>6. /\ ReasoningOf(fed') = SubSeq(T \o c, 1, e - 1)
          /\ ContentOf(fed') = LStrip(From(T \o c, e + Len(Close)))
        BY <3>1, <3>2, <3>3 DEF ReasoningOf, ContentOf
    <3> HIDE DEF T, e
    <3>7. e - 1 \in 0..Len(T) /\ e + Len(Close) \in 1..Len(T) + 1
        BY <3>1, <3>4, TextIs, TagIs
    <3>8. ReasoningOf(fed') = reasoning
        BY <1>3, <3>1, <3>5, <3>6, <3>7, StartGlued
    <3> DEFINE w == From(T, e + Len(Close))
    <3>9. w \in Seq(Characters) /\ From(T \o c, e + Len(Close)) = w \o c
        BY <1>3, <3>1, <3>7, FromIs, FromGlued
    <3>10. LStrip(content) = LStrip(w) /\ ContentOf(fed') = LStrip(w \o c)
        BY <3>5, <3>6, <3>9
    <3> HIDE DEF w
    <3>11. LStrip(LStrip(w) \o c) = LStrip(w \o c)
        BY <1>3, <3>9, LStripGlued
    <3>12. LStrip(LStrip(content) \o c) = LStrip(content \o c)
        BY <1>3, <2>2, LStripGlued
    <3>13. LStrip(content') = ContentOf(fed')
        BY <2>3, <3>10, <3>11, <3>12
    <3>14. Find(Thought(fed')) # 0
        BY <3>1, <3>2, <3>3 DEF e
    <3>15. PlainInv'
      <4>1. ReasoningOf(fed)' = ReasoningOf(fed') /\ ContentOf(fed)' = ContentOf(fed')
            /\ Opened(fed)' = Opened(fed') /\ Find(Thought(fed))' = Find(Thought(fed'))
            /\ LStrip(content)' = LStrip(content')
          OBVIOUS
      <4> QED
          BY <2>3, <3>1, <3>8, <3>13, <3>14, <4>1 DEF PlainInv
    <3> QED
        BY <2>4, <3>15 DEF SplitInv
  <2>6. CASE ~Opened(fed)
    <3>1. reasoning = <<>> /\ content = fed /\ ~IsPrefix(fed, Open) /\ ~IsPrefix(Open, fed)
        BY <2>1, <2>6 DEF Opened
    <3>2. ~IsPrefix(Open, fed \o c) /\ ~IsPrefix(fed \o c, Open)
        BY <1>3, <2>2, <3>1, TagIs, PrefixBack
    <3>3. PlainInv'
        BY <1>5, <2>3, <3>1, <3>2 DEF PlainInv, Opened
    <3> QED
        BY <2>4, <3>3 DEF SplitInv
  <2> QED
      BY <2>5, <2>6
<1> QED
    BY <1>8, <1>9, <1>10 DEF SplitInv

\* SplitInv says nothing of the stream but whether it was read to its end.
LEMMA SplitKept ==
    ASSUME SplitInv, rest' \in Seq(Characters), stream = "done" => stream' = "done",
           UNCHANGED <<fed, state, buf, reasoning, content>>
    PROVE  SplitInv'
<1>1. SplitTyped /\ state \in {"start", "thinking", "plain"} /\ StartInv /\ ThinkingInv /\ PlainInv
    BY DEF SplitInv
<1>2. SplitTyped' /\ state' \in {"start", "thinking", "plain"} /\ StartInv'
    BY <1>1 DEF SplitTyped, StartInv
<1>3. /\ Opened(fed)' = Opened(fed) /\ Thought(fed)' = Thought(fed)
      /\ Find(Thought(fed))' = Find(Thought(fed)) /\ Keep' = Keep
      /\ ReasoningOf(fed)' = ReasoningOf(fed) /\ ContentOf(fed)' = ContentOf(fed)
      /\ LStrip(content)' = LStrip(content)
    OBVIOUS
<1>4. ThinkingInv'
    BY <1>1, <1>3 DEF ThinkingInv
<1>5. PlainInv'
    BY <1>1, <1>3 DEF PlainInv
<1> QED
    BY <1>2, <1>4, <1>5 DEF SplitInv

\* Every step keeps SplitInv: one step per action.
LEMMA SplitStep == SplitInv /\ [SplitterNext]_splitterVars => SplitInv'
<1> SUFFICES ASSUME SplitInv, [SplitterNext]_splitterVars PROVE SplitInv'
    OBVIOUS
<1> USE DEF SplitInv
<1>1. SplitTyped /\ state \in {"start", "thinking", "plain"} /\ StartInv /\ ThinkingInv /\ PlainInv
    OBVIOUS
<1>2. ASSUME NEW text \in Texts, Speak(text) PROVE SplitInv'
  <2>1. /\ rest' \in Seq(Characters) /\ stream = "idle" /\ stream' = "open"
        /\ UNCHANGED <<fed, state, buf, reasoning, content>>
      BY <1>2, TextsAssumption DEF Speak
  <2> QED
      BY <1>1, <2>1, SplitKept DEF SplitTyped
<1>3. ASSUME NEW n \in 1..Len(rest), Feed(n) PROVE SplitInv'
    BY <1>3, FeedStep
<1>4. CASE Done
  <2>1. /\ stream = "open" /\ stream' = "done" /\ buf' = <<>>
        /\ fed' = fed /\ rest' = rest /\ state' = state
        /\ fed \in Seq(Characters) /\ rest \in Seq(Characters) /\ buf \in Seq(Characters)
        /\ reasoning \in Seq(Characters) /\ content \in Seq(Characters)
      BY <1>1, <1>4 DEF Done, SplitTyped
  <2>2. /\ <<>> \in Seq(Characters) /\ Len(<<>>) = 0 /\ Keep \in Nat
        /\ \A s \in Seq(Characters) : s \o <<>> = s /\ <<>> \o s = s
      BY TagIs, EmptySeq, ConcatEmptySeq
  <2>3. CASE state = "start"
    <3>1. content' = fed /\ reasoning' = <<>> /\ IsStrictPrefix(fed, Open)
        BY <1>1, <1>4, <2>1, <2>2, <2>3 DEF Done, StartInv
    <3> QED
        BY <2>1, <2>2, <2>3, <3>1 DEF SplitTyped, StartInv, ThinkingInv, PlainInv
  <2>4. CASE state = "thinking"
    <3>1. /\ content' = <<>> /\ Opened(fed) /\ reasoning' = Thought(fed) /\ Find(Thought(fed)) = 0
        BY <1>1, <1>4, <2>1, <2>4 DEF Done, ThinkingInv
    <3>2. reasoning' \in Seq(Characters)
        BY <2>1, <3>1, ThoughtIs
    <3>3. /\ Opened(fed)' = Opened(fed') /\ Thought(fed)' = Thought(fed')
          /\ Find(Thought(fed))' = Find(Thought(fed'))
        OBVIOUS
    <3>4. ThinkingInv'
        BY <2>1, <2>2, <3>1, <3>2, <3>3 DEF ThinkingInv
    <3> QED
        BY <2>1, <2>2, <2>4, <3>1, <3>2, <3>4 DEF SplitTyped, StartInv, PlainInv
  <2>5. CASE state = "plain"
    <3>1. content' = content /\ reasoning' = reasoning
        BY <1>1, <1>4, <2>1, <2>2, <2>5 DEF Done, PlainInv
    <3>2. /\ Opened(fed)' = Opened(fed') /\ Find(Thought(fed))' = Find(Thought(fed'))
          /\ ReasoningOf(fed)' = ReasoningOf(fed') /\ ContentOf(fed)' = ContentOf(fed')
          /\ LStrip(content)' = LStrip(content')
        OBVIOUS
    <3>3. PlainInv'
        BY <1>1, <2>1, <2>5, <3>1, <3>2 DEF PlainInv
    <3> QED
        BY <2>1, <2>2, <2>5, <3>1, <3>3 DEF SplitTyped, StartInv, ThinkingInv
  <2> QED
      BY <1>1, <2>3, <2>4, <2>5
<1>5. CASE Broken
  <2>1. /\ stream = "open" /\ stream' = "failed"
        /\ UNCHANGED <<fed, rest, state, buf, reasoning, content>>
      BY <1>5 DEF Broken
  <2> QED
      BY <1>1, <2>1, SplitKept DEF SplitTyped
<1>6. CASE UNCHANGED splitterVars
  <2>1. UNCHANGED <<fed, rest, state, buf, reasoning, content, stream>>
      BY <1>6 DEF splitterVars
  <2> QED
      BY <1>1, <2>1, SplitKept DEF SplitTyped
<1> QED
    BY <1>2, <1>3, <1>4, <1>5, <1>6 DEF SplitterNext

\* Whatever the tags and the text, and wherever it is cut, _ThinkSplitter sends and
\* withholds what it would make of the text in one piece, and withholds less than a tag.
THEOREM OnePiece == SplitterSpec => []SplitAsOnePiece
<1>1. SplitterInit => SplitInv
  <2>1. /\ Open \in Seq(Characters) /\ <<>> \in Seq(Characters) /\ <<>> \o <<>> = <<>>
        /\ Open # <<>> /\ Len(Open) \in Nat /\ Len(<<>>) = 0 /\ \A i \in 1..0 : FALSE
      BY TagIs, TagsAssumption, EmptySeq, ConcatEmptySeq
  <2>2. IsPrefix(<<>>, Open)
    <3>1. Len(<<>>) <= Len(Open) /\ \A i \in 1..Len(<<>>) : <<>>[i] = Open[i]
        BY <2>1
    <3> DEFINE s == <<>>
    <3>2. s \in Seq(Characters) /\ Len(s) <= Len(Open) /\ \A i \in 1..Len(s) : s[i] = Open[i]
        BY <2>1, <3>1
    <3> HIDE DEF s
    <3>3. IsPrefix(s, Open)
        BY <2>1, <3>2, PrefixIs
    <3> QED
        BY <3>3 DEF s
  <2> QED
      BY <2>1, <2>2 DEF SplitterInit, SplitInv, SplitTyped, StartInv, ThinkingInv, PlainInv,
          IsStrictPrefix
<1> QED
    BY <1>1, SplitStep, SplitIs, PTL DEF SplitterSpec
=============================================================================
