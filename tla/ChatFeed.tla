------------------------------ MODULE ChatFeed ------------------------------
(***************************************************************************)
(* What a browser shows of a conversation while replies are written: the   *)
(* subscriptions of a run (runs.py), the routes that read and follow it,   *)
(* and the chat store of one tab (stores/chat.ts), next to requests for    *)
(* replies made elsewhere: another tab, another device, or a page this tab *)
(* has left.                                                               *)
(*                                                                         *)
(* One conversation, open in the tab. A request for a reply is a number;   *)
(* its messages carry it as their id. A reply's text is the number of its  *)
(* deltas, a user's is the request that wrote it. Request 0 is answered    *)
(* at the start. How replies exclude each other is ChatRuns' subject: here *)
(* the registry is what Reserve, Start and Finish leave in it.             *)
(***************************************************************************)
EXTENDS Naturals, Sequences, FiniteSets

CONSTANTS
    Absent,         \* no key in Runs._runs
    Reserved,       \* the key maps to None
    NoStream,       \* ctrl === null
    MaxRequests,    \* bound: requests for a reply
    MaxDeltas,      \* bound: deltas of one reply
    MaxOpens,       \* bound: times the page is opened again
    MaxFailures,    \* bound: handlers that fail and connections that break
    KindsElsewhere  \* bound: what is asked elsewhere

ASSUME ValuesAssumption == /\ Absent # Reserved
                           /\ {Absent, Reserved, NoStream} \cap Nat = {}
ASSUME KindsAssumption == KindsElsewhere \subseteq {"send", "edit", "regenerate"}
ASSUME BoundsAssumption == /\ MaxRequests \in Nat
                           /\ MaxDeltas \in Nat
                           /\ MaxOpens \in Nat
                           /\ MaxFailures \in Nat

VARIABLES
    stored,     \* the conversation's rows, oldest first
    runs,       \* the registry's entry for the conversation
    pc,         \* request -> where its handler, then its task, stands
    body,       \* request -> what its handler was asked, while it runs
    text,       \* deltas received by the run
    outcome,    \* the status the run ends with
    shown,      \* current.value.messages
    spin,       \* streaming.value
    mounted,    \* the page is displayed
    stream,     \* what ctrl controls: a POST or an attach, and its events
    fetches,    \* calls of getConversation in flight
    opens,      \* times the page was opened again
    failures,   \* handlers that failed and connections that broke so far
    lost,       \* a connection of the tab broke
    stale       \* history variable: the tab shows what it will be told no more of

server == <<stored, runs, pc, body, text, outcome>>
tab == <<shown, spin, mounted, stream, fetches>>
counters == <<opens, failures, lost>>
vars == <<server, tab, counters, stale>>

Requests == 1..MaxRequests
Kinds == {"send", "edit", "regenerate"}
Statuses == {"streaming", "complete", "error"}
Body == [kind : Kinds, pivot : {0} \cup Requests]
Preparing == {"reserved", "prepared", "added"}
Running == {"running", "ending", "saved"}

Asks(q, words) == [id |-> q, role |-> "user", status |-> "complete", text |-> words]
Replies(q, status, n) == [id |-> q, role |-> "assistant", status |-> status, text |-> n]
Message == [id : {0} \cup Requests, role : {"user", "assistant"},
            status : Statuses, text : Nat]

\* A handler that is over forgets what it was asked.
NoBody == [kind |-> "send", pivot |-> 0]
Forgotten(q) == body' = [body EXCEPT ![q] = NoBody]

\* What a run publishes; `start` is the first line of a POST's response.
Event == [event : {"start", "snapshot", "content", "error", "done"},
          text : Nat, status : Statuses, body : Body]
Ev(event, n, status) == [event |-> event, text |-> n, status |-> status, body |-> NoBody]

\* A followed stream: which call, of which request or run, how the response
\* stands, the events on their way and whether one was applied.
Call(call, q, state) == [call |-> call, run |-> q, state |-> state, queue |-> <<>>, began |-> FALSE]

EndsInReply(h) == h # <<>> /\ h[Len(h)].role = "assistant"
Front(h) == SubSeq(h, 1, Len(h) - 1)
\* Where the user message of request m stands, 0 if it does not.
Place(h, m) ==
    IF \E i \in DOMAIN h : h[i].role = "user" /\ h[i].id = m
    THEN CHOOSE i \in DOMAIN h : h[i].role = "user" /\ h[i].id = m
    ELSE 0

Goto(q, label) == pc' = [pc EXCEPT ![q] = label]

-----------------------------------------------------------------------------
Init ==
    /\ stored = <<Asks(0, 0), Replies(0, "complete", 1)>>
    /\ runs = Absent
    /\ pc = [q \in Requests |-> "idle"]
    /\ body = [q \in Requests |-> NoBody]
    /\ text = 0
    /\ outcome = "streaming"
    /\ shown = stored
    /\ spin = FALSE
    /\ mounted = TRUE
    /\ stream = NoStream
    /\ fetches = {}
    /\ opens = 0
    /\ failures = 0
    /\ lost = FALSE
    /\ stale = FALSE

-----------------------------------------------------------------------------
(* The server: a request for a reply, its run, its readers                 *)

\* The tab waits for the answer to this request, or follows this run.
Followed(q) == stream # NoStream /\ stream.run = q
Sent(q) == Followed(q) /\ stream.call = "post"

\* Rows written by a request the tab does not wait for are news to it, and to
\* every answer that was read before.
Written(q) ==
    IF Sent(q)
    THEN UNCHANGED <<stale, fetches>>
    ELSE /\ stale' = TRUE
         /\ fetches' = {[f EXCEPT !.old = f.step # "sent"] : f \in fetches}

\* The response is not OK: apiRequest throws.
Refused(q) ==
    /\ stream' = IF Sent(q) THEN [stream EXCEPT !.state = "refused"] ELSE stream
    /\ Goto(q, "over")
    /\ Forgotten(q)

\* Runs.reserve, or 409.
Reserve(q) ==
    /\ pc[q] = "sent"
    /\ IF runs = Absent
       THEN /\ runs' = Reserved
            /\ Goto(q, "reserved")
            /\ UNCHANGED <<body, stream>>
       ELSE /\ Refused(q)
            /\ UNCHANGED runs
    /\ UNCHANGED <<stored, text, outcome, shown, spin, mounted, fetches, counters, stale>>

\* What the three `prepare` make of the conversation.
Prepared(q) ==
    CASE body[q].kind = "send" -> Append(stored, Asks(q, q))
      [] body[q].kind = "edit" -> Append(SubSeq(stored, 1, Place(stored, body[q].pivot) - 1),
                                    Asks(body[q].pivot, q))
      [] body[q].kind = "regenerate" -> IF EndsInReply(stored) THEN Front(stored) ELSE stored

\* `prepare` writes the user side; a message to edit that is gone is a 404.
Prepare(q) ==
    /\ pc[q] = "reserved"
    /\ IF body[q].kind = "edit" /\ Place(stored, body[q].pivot) = 0
       THEN /\ runs' = Absent
            /\ Refused(q)
            /\ UNCHANGED <<stored, fetches, stale>>
       ELSE /\ stored' = Prepared(q)
            /\ Goto(q, "prepared")
            /\ Written(q)
            /\ UNCHANGED <<runs, body, stream>>
    /\ UNCHANGED <<text, outcome, shown, spin, mounted, counters>>

\* The streaming row.
AddReply(q) ==
    /\ pc[q] = "prepared"
    /\ stored' = Append(stored, Replies(q, "streaming", 0))
    /\ Goto(q, "added")
    /\ Written(q)
    /\ UNCHANGED <<runs, body, text, outcome, shown, spin, mounted, stream, counters>>

\* A statement fails after `prepare`: the reservation is released, the user side
\* stays written.
Fail(q) ==
    /\ pc[q] \in {"prepared", "added"}
    /\ failures < MaxFailures
    /\ failures' = failures + 1
    /\ runs' = Absent
    /\ Refused(q)
    /\ UNCHANGED <<stored, text, outcome, shown, spin, mounted, fetches,
                   opens, lost, stale>>

\* Mutant: the response subscribes when it is first read, after a delta.
StartUnsubscribed(q) ==
    /\ pc[q] = "added"
    /\ runs' = q
    /\ text' = 1
    /\ Goto(q, "running")
    /\ stream' = IF Sent(q)
                 THEN [stream EXCEPT !.state = "open",
                                     !.queue = <<[Ev("start", 0, "streaming") EXCEPT
                                                    !.body = body[q]]>>]
                 ELSE stream
    /\ Forgotten(q)
    /\ UNCHANGED <<stored, outcome, shown, spin, mounted, fetches, counters, stale>>

\* Runs.start, the subscription and the `start` line, with no await between.
Start(q) ==
    /\ pc[q] = "added"
    /\ runs' = q
    /\ text' = 0
    /\ Goto(q, "running")
    /\ stream' = IF Sent(q)
                 THEN [stream EXCEPT !.state = "open",
                                     !.queue = <<[Ev("start", 0, "streaming") EXCEPT
                                                    !.body = body[q]]>>]
                 ELSE stream
    /\ Forgotten(q)
    /\ UNCHANGED <<stored, outcome, shown, spin, mounted, fetches, counters, stale>>

\* _Run.publish: to every queue of the run. A tab that aborted has left it.
Published(q, ev) ==
    IF Followed(q) /\ stream.state = "open"
    THEN [stream EXCEPT !.queue = Append(@, ev)]
    ELSE stream

Delta(q) ==
    /\ pc[q] = "running"
    /\ text < MaxDeltas
    /\ text' = text + 1
    /\ stream' = Published(q, Ev("content", 1, "streaming"))
    /\ UNCHANGED <<stored, runs, pc, body, outcome, shown, spin, mounted, fetches,
                   counters, stale>>

\* The answer is over or was stopped, or the stream raised, which is published.
EndStream(q) ==
    /\ pc[q] = "running"
    /\ \E status \in {"complete", "error"} :
          /\ outcome' = status
          /\ stream' = IF status = "error"
                       THEN Published(q, Ev("error", 0, "error")) ELSE stream
    /\ Goto(q, "ending")
    /\ UNCHANGED <<stored, runs, body, text, shown, spin, mounted, fetches, counters, stale>>

\* The row of q, with what its run has made of it.
Settled(h, q) == [i \in DOMAIN h |-> IF h[i].role = "assistant" /\ h[i].id = q
                                     THEN Replies(q, outcome, text) ELSE h[i]]

\* Mutant: the registry entry is deleted before the save, `done` published after.
SaveReleased(q) ==
    /\ pc[q] = "ending"
    /\ stored' = Settled(stored, q)
    /\ runs' = Absent
    /\ Goto(q, "saved")
    /\ UNCHANGED <<body, text, outcome, tab, counters, stale>>

\* The final save.
Save(q) ==
    /\ pc[q] = "ending"
    /\ stored' = Settled(stored, q)
    /\ Goto(q, "saved")
    /\ UNCHANGED <<runs, body, text, outcome, tab, counters, stale>>

\* `done` and the release, with no await between; the run is forgotten.
Finish(q) ==
    /\ pc[q] = "saved"
    /\ stream' = Published(q, Ev("done", text, outcome))
    /\ runs' = Absent
    /\ text' = 0
    /\ outcome' = "streaming"
    /\ Goto(q, "over")
    /\ UNCHANGED <<stored, body, shown, spin, mounted, fetches, counters, stale>>

\* Mutant: a reader that finds the run ended is left waiting.
SubscribeAlways ==
    /\ stream # NoStream
    /\ stream.call = "attach" /\ stream.state = "sent"
    /\ stream' = IF runs \in Requests
                 THEN [stream EXCEPT !.run = runs, !.state = "open",
                                     !.queue = <<Ev("snapshot", text, "streaming")>>]
                 ELSE [stream EXCEPT !.state = "open"]
    /\ UNCHANGED <<server, shown, spin, mounted, fetches, counters, stale>>

\* GET .../stream: the queue is registered at once and starts with all there is;
\* nothing running is a 204.
Subscribe ==
    /\ stream # NoStream
    /\ stream.call = "attach" /\ stream.state = "sent"
    /\ stream' = IF runs \in Requests
                 THEN [stream EXCEPT !.run = runs, !.state = "open",
                                     !.queue = <<Ev("snapshot", text, "streaming")>>]
                 ELSE [stream EXCEPT !.state = "nothing"]
    /\ UNCHANGED <<server, shown, spin, mounted, fetches, counters, stale>>

\* GET .../{id}: the rows are read first...
ReadMessages(f) ==
    /\ f \in fetches /\ f.step = "sent"
    /\ fetches' = (fetches \ {f}) \cup {[f EXCEPT !.step = "read", !.messages = stored]}
    /\ UNCHANGED <<server, shown, spin, mounted, stream, counters, stale>>

\* ... and the registry is asked when they have come.
ReadRegistry(f) ==
    /\ f \in fetches /\ f.step = "read"
    /\ fetches' = (fetches \ {f}) \cup
                  {[f EXCEPT !.step = "answered", !.streaming = runs \in Requests]}
    /\ UNCHANGED <<server, shown, spin, mounted, stream, counters, stale>>
-----------------------------------------------------------------------------
(* The tab: stores/chat.ts                                                 *)

\* What `start` adds: a regenerate has no user message.
Begun(h, q, asked) ==
    Append(IF asked.kind = "regenerate" THEN h ELSE Append(h, Asks(asked.pivot, q)),
           Replies(q, "streaming", 0))

\* The store's `assistant()`: the last message shown, if it is a reply.
OnLast(h, F(_)) == IF EndsInReply(h) THEN Append(Front(h), F(h[Len(h)])) ELSE h

ReplyPlace(h, q) == {i \in DOMAIN h : h[i].role = "assistant" /\ h[i].id = q}

\* The store's `apply`.
Applied(h, q, ev) ==
    CASE ev.event = "start"    -> Begun(h, q, ev.body)
      [] ev.event = "snapshot" -> OnLast(h, LAMBDA m : [m EXCEPT !.text = ev.text])
      [] ev.event = "content"  -> OnLast(h, LAMBDA m : [m EXCEPT !.text = @ + ev.text])
      [] ev.event = "error"    -> OnLast(h, LAMBDA m : [m EXCEPT !.status = "error"])
      [] ev.event = "done"     ->
            IF ReplyPlace(h, q) = {}
            THEN Append(h, Replies(q, ev.status, ev.text))
            ELSE [i \in DOMAIN h |-> IF i \in ReplyPlace(h, q)
                                     THEN Replies(q, ev.status, ev.text) ELSE h[i]]

\* An event reaches the tab; after `done` the response ends.
Deliver ==
    /\ stream # NoStream
    /\ stream.state = "open" /\ stream.queue # <<>>
    /\ LET ev == Head(stream.queue) IN
          /\ shown' = Applied(shown, stream.run, ev)
          /\ spin' = (spin /\ ev.event \notin {"error", "done"})
          /\ stream' = IF ev.event = "done" THEN NoStream
                       ELSE [stream EXCEPT !.queue = Tail(@), !.began = TRUE]
    /\ UNCHANGED <<server, mounted, fetches, counters, stale>>

Fetch(why) == [why |-> why, step |-> "sent", messages |-> <<>>, streaming |-> FALSE,
               old |-> FALSE]

\* Mutant: openSeq is not bumped.
KeptWaiting == fetches
\* abortStream bumps openSeq: the answers still to come will be dropped.
Awaited == {}

\* Mutant: a reattach that finds nothing is content with what is shown.
UnstreamedKept ==
    /\ stream # NoStream
    /\ stream.state \in {"refused", "nothing"}
    /\ stream' = NoStream
    /\ spin' = FALSE
    /\ fetches' = IF stream.state = "refused" THEN fetches \cup {Fetch("again")} ELSE fetches
    /\ UNCHANGED <<server, shown, mounted, counters, stale>>

\* A response that is not OK, or a 204: `follow` returns 0. A request then
\* shows the server's rows again (`resync`), a reattach what it came too late for.
Unstreamed ==
    /\ stream # NoStream
    /\ stream.state \in {"refused", "nothing"}
    /\ stream' = NoStream
    /\ spin' = FALSE
    /\ fetches' = fetches \cup {Fetch("again")}
    /\ UNCHANGED <<server, shown, mounted, counters, stale>>

\* The rows of an answer hold a reply being written that nobody will follow.
Unfollowed(f) ==
    /\ \E i \in DOMAIN f.messages : f.messages[i].status = "streaming"
    /\ ~ (f.why = "open" /\ f.streaming)

\* getConversation answers; the page that is opened then follows a reply that
\* runs.
Show(f) ==
    /\ f \in fetches /\ f.step = "answered"
    /\ fetches' = fetches \ {f}
    /\ shown' = f.messages
    /\ stale' = (f.old \/ Unfollowed(f))
    /\ IF f.why = "open" /\ f.streaming
       THEN /\ stream' = Call("attach", 0, "sent")
            /\ spin' = TRUE
       ELSE UNCHANGED <<stream, spin>>
    /\ UNCHANGED <<server, mounted, counters>>

\* A connection of the tab breaks: a request that had no event yet shows the
\* server's rows again, everything else shows an error.
Lose ==
    /\ failures < MaxFailures
    /\ failures' = failures + 1
    /\ lost' = TRUE
    /\ \/ /\ stream # NoStream
          /\ stream' = NoStream
          /\ spin' = FALSE
          /\ fetches' = IF stream.call = "post" /\ ~stream.began
                        THEN fetches \cup {Fetch("again")} ELSE fetches
       \/ /\ \E f \in fetches : fetches' = fetches \ {f}
          /\ UNCHANGED <<stream, spin>>
    /\ UNCHANGED <<server, shown, mounted, opens, stale>>

\* The user leaves the page; the reply goes on.
Leave ==
    /\ mounted
    /\ mounted' = FALSE
    /\ stream' = NoStream
    /\ spin' = FALSE
    /\ fetches' = Awaited
    /\ UNCHANGED <<server, shown, counters, stale>>

Open ==
    /\ ~mounted
    /\ opens < MaxOpens
    /\ opens' = opens + 1
    /\ mounted' = TRUE
    /\ fetches' = Awaited \cup {Fetch("open")}
    /\ UNCHANGED <<server, shown, spin, stream, failures, lost, stale>>

\* Requests are made in order.
Made(q) == pc[q] = "idle" /\ \A p \in Requests : p < q => pc[p] # "idle"

Asked(q, k, m) == body' = [body EXCEPT ![q] = [kind |-> k, pivot |-> m]]

\* The composer and the actions of a message are there unless a reply streams;
\* what the request will replace disappears at once. Rows still to come are
\* given up, so what they would have told is not known.
Ask(q) ==
    /\ mounted /\ ~spin
    /\ Made(q)
    /\ \/ /\ Asked(q, "send", q)
          /\ UNCHANGED shown
       \/ \E i \in DOMAIN shown :
             /\ shown[i].role = "user"
             /\ Asked(q, "edit", shown[i].id)
             /\ shown' = SubSeq(shown, 1, i - 1)
       \/ /\ EndsInReply(shown) /\ shown[Len(shown)].status # "streaming"
          /\ Asked(q, "regenerate", 0)
          /\ shown' = Front(shown)
    /\ Goto(q, "sent")
    /\ stream' = Call("post", q, "sent")
    /\ spin' = TRUE
    /\ fetches' = Awaited
    /\ stale' = (stale \/ fetches # {})
    /\ UNCHANGED <<stored, runs, text, outcome, mounted, counters>>

\* A request from elsewhere, about what the conversation holds.
AskElsewhere(q) ==
    /\ Made(q)
    /\ \E k \in KindsElsewhere :
          CASE k = "send" -> Asked(q, k, q)
            [] k = "edit" -> \E i \in DOMAIN stored :
                                stored[i].role = "user" /\ Asked(q, k, stored[i].id)
            [] k = "regenerate" -> EndsInReply(stored) /\ Asked(q, k, 0)
    /\ Goto(q, "sent")
    /\ UNCHANGED <<stored, runs, text, outcome, tab, counters, stale>>

-----------------------------------------------------------------------------
Handler(q) == Reserve(q) \/ Prepare(q) \/ AddReply(q) \/ Start(q)
Task(q) == Save(q) \/ Finish(q)
Model(q) == Delta(q) \/ EndStream(q)
Answer == Subscribe \/ \E f \in fetches : ReadMessages(f) \/ ReadRegistry(f)
Receive == Deliver \/ Unstreamed \/ \E f \in fetches : Show(f)

Next ==
    \/ \E q \in Requests : Handler(q) \/ Fail(q) \/ Task(q) \/ Model(q) \/ Ask(q) \/ AskElsewhere(q)
    \/ Answer \/ Receive \/ Lose \/ Leave \/ Open

\* The server answers what it was asked, the model ends what it writes, and what
\* was answered arrives. Nobody is made to ask, leave or come back.
Fairness ==
    /\ \A q \in Requests : WF_vars(Handler(q)) /\ WF_vars(Task(q)) /\ WF_vars(Model(q))
    /\ WF_vars(Answer) /\ WF_vars(Receive)

Spec == Init /\ [][Next]_vars /\ Fairness

-----------------------------------------------------------------------------
(* Properties                                                              *)

FetchType == [why : {"open", "again"}, step : {"sent", "read", "answered"},
              messages : Seq(Message), streaming : BOOLEAN, old : BOOLEAN]
StreamType == [call : {"post", "attach"}, run : {0} \cup Requests,
               state : {"sent", "open", "refused", "nothing"}, queue : Seq(Event), began : BOOLEAN]
ASSUME StreamAssumption == NoStream \notin StreamType

\* Every variable keeps its type.
TypeOK ==
    /\ stored \in Seq(Message) /\ shown \in Seq(Message)
    /\ runs \in {Absent, Reserved} \cup Requests
    /\ pc \in [Requests -> {"idle", "sent", "over"} \cup Preparing \cup Running]
    /\ body \in [Requests -> Body]
    /\ text \in 0..MaxDeltas
    /\ outcome \in Statuses
    /\ spin \in BOOLEAN /\ mounted \in BOOLEAN /\ stale \in BOOLEAN
    /\ stream = NoStream \/ stream \in StreamType
    /\ fetches \subseteq FetchType
    /\ opens \in 0..MaxOpens /\ failures \in 0..MaxFailures /\ lost \in BOOLEAN

\* "A subscriber either gets `done` or finds no run" (runs.py): whoever follows a
\* run has `done` on its way, or the run is still in the registry and will
\* publish it; and nothing is published to anyone after `done`.
DoneOrNoRun ==
    stream # NoStream /\ stream.state = "open" =>
        \/ runs = stream.run /\ \A i \in DOMAIN stream.queue : stream.queue[i].event # "done"
        \/ /\ stream.queue # <<>>
           /\ stream.queue[Len(stream.queue)].event = "done"

\* The deltas on their way to the tab.
Coming(s) == Cardinality({i \in DOMAIN s : s[i].event = "content"})

\* "No event falls in between" (runs.py): what a tab has put in the message of the
\* run it follows, with the snapshot and the deltas on their way, is the run's
\* text, from the first event on and wherever the subscription came.
NothingMissed ==
    stream # NoStream /\ stream.state = "open" /\ ~stale =>
        LET q == stream.run
            first == stream.queue # <<>> /\ stream.queue[1].event \in {"start", "snapshot"}
            had == IF first THEN stream.queue[1].text ELSE shown[Len(shown)].text
            all == IF runs = q THEN text ELSE stream.queue[Len(stream.queue)].text
        IN  /\ first \/ (EndsInReply(shown) /\ shown[Len(shown)].id = q)
            /\ had + Coming(stream.queue) = all

\* Nothing is under way for this conversation, and the page is displayed.
Quiet ==
    /\ mounted /\ stream = NoStream /\ runs = Absent
    /\ fetches = {}
    /\ \A q \in Requests : pc[q] \in {"idle", "over"}

\* Once all is quiet the page shows what is stored: whatever was trimmed for a
\* request that was refused, followed from the start or from a snapshot, or found
\* ended in between; unless a connection broke, somebody else wrote since the
\* rows were read, or the answer held a reply that was not running (yet).
ShownIsStored == Quiet /\ ~stale /\ ~lost => shown = stored

\* "The streaming assistant message is always the last one" (stores/chat.ts): the
\* events of a run reach its own message.
StreamedIsLast ==
    /\ stream # NoStream /\ stream.state = "open" /\ stream.queue # <<>>
    /\ stream.queue[1].event \in {"snapshot", "content", "error"}
    => EndsInReply(shown) /\ shown[Len(shown)].id = stream.run

\* "Streaming" does not last: whatever the tab follows ends, was refused, or is
\* found ended, whatever breaks.
SpinEnds == spin ~> ~spin
=============================================================================
