--------------------------- MODULE ChatFeedProofs ---------------------------
(***************************************************************************)
(* Theorems about ChatFeed, for every number of requests, deltas, openings *)
(* and failures: types, how the stream of a run ends, that no delta is     *)
(* missed, and that the page shows what is stored once all is quiet.       *)
(*                                                                         *)
(* The last one needs what is shown before all is quiet. ShownInv says it  *)
(* of a tab at rest (IdleInv), of one that waits for the answer to its own *)
(* request (AskedInv) and of one that follows a run (FollowInv).           *)
(***************************************************************************)
EXTENDS ChatFeed, SequenceTheorems, FiniteSetTheorems, TLAPS

USE DEF Preparing, Running, Kinds, Statuses

\* Requests are positive.
LEMMA RequestsNat == Requests \subseteq Nat \ {0}
BY BoundsAssumption DEF Requests

\* What is asked and replied are messages.
LEMMA RowType ==
    /\ \A q \in {0} \cup Requests : \A w \in Nat : Asks(q, w) \in Message
    /\ \A q \in {0} \cup Requests : \A s \in Statuses : \A n \in Nat : Replies(q, s, n) \in Message
BY DEF Asks, Replies, Message

\* A list of messages and one more is a list of messages.
LEMMA AppendType ==
    ASSUME NEW h \in Seq(Message), NEW m \in Message
    PROVE  Append(h, m) \in Seq(Message)
OBVIOUS

\* The messages up to one of them.
LEMMA StretchType ==
    ASSUME NEW h \in Seq(Message), NEW n \in Int, n <= Len(h)
    PROVE  SubSeq(h, 1, n) \in Seq(Message)
<1>1. Len(h) \in Nat /\ DOMAIN h = 1 .. Len(h)
    OBVIOUS
<1>2. \A i \in 1 .. n : h[i] \in Message
    BY <1>1
<1> QED
    BY <1>1, <1>2, SubSeqProperties

\* A list without its last is a list of messages.
LEMMA FrontType ==
    ASSUME NEW h \in Seq(Message)
    PROVE  Front(h) \in Seq(Message)
<1>1. Len(h) \in Nat
    OBVIOUS
<1> QED
    BY <1>1, StretchType DEF Front

\* The last of a list is a message.
LEMMA LastType ==
    ASSUME NEW h \in Seq(Message), h # <<>>
    PROVE  Len(h) \in DOMAIN h /\ h[Len(h)] \in Message
BY EmptySeq

\* New messages for old.
LEMMA RewriteType ==
    ASSUME NEW h \in Seq(Message), NEW f, DOMAIN f = DOMAIN h,
           \A i \in DOMAIN h : f[i] \in Message, f = [i \in DOMAIN h |-> f[i]]
    PROVE  f \in Seq(Message)
<1>1. Len(h) \in Nat /\ DOMAIN h = 1..Len(h)
    OBVIOUS
<1>2. f \in [1..Len(h) -> Message]
    BY <1>1
<1> QED
    BY <1>1, <1>2, SeqDef

\* A place is where the user message stands.
LEMMA PlaceType ==
    ASSUME NEW h \in Seq(Message), NEW m
    PROVE  /\ Place(h, m) \in {0} \cup DOMAIN h
           /\ Place(h, m) # 0 => h[Place(h, m)].role = "user" /\ h[Place(h, m)].id = m
<1>1. 0 \notin DOMAIN h
    OBVIOUS
<1> QED
    BY <1>1 DEF Place

\* The final save rewrites messages.
LEMMA SettledType ==
    ASSUME NEW h \in Seq(Message), NEW q \in Requests, outcome \in Statuses, text \in Nat
    PROVE  Settled(h, q) \in Seq(Message) /\ DOMAIN Settled(h, q) = DOMAIN h
<1> DEFINE f == Settled(h, q)
<1>1. Replies(q, outcome, text) \in Message
    BY RowType
<1>2. DOMAIN f = DOMAIN h /\ f = [i \in DOMAIN h |-> f[i]]
    BY DEF Settled
<1>3. \A i \in DOMAIN h : f[i] \in Message
    BY <1>1 DEF Settled
<1> QED
    BY <1>2, <1>3, RewriteType

\* `start` adds messages.
LEMMA BegunType ==
    ASSUME NEW h \in Seq(Message), NEW q \in {0} \cup Requests, NEW b \in Body
    PROVE  Begun(h, q, b) \in Seq(Message)
<1>1. Asks(b.pivot, q) \in Message /\ Replies(q, "streaming", 0) \in Message
    BY RowType, RequestsNat DEF Body
<1> QED
    BY <1>1, AppendType DEF Begun

\* What a tab makes of an event, one kind at a time.
Says(m, n) == [m EXCEPT !.text = n]
Fails(m) == [m EXCEPT !.status = "error"]
Closed(h, q, ev) == [i \in DOMAIN h |-> IF i \in ReplyPlace(h, q)
                                        THEN Replies(q, ev.status, ev.text) ELSE h[i]]

\* Applying the first line.
LEMMA AppliedStart ==
    ASSUME NEW h, NEW q, NEW ev, ev.event = "start"
    PROVE  Applied(h, q, ev) = Begun(h, q, ev.body)
BY DEF Applied

\* Applying a snapshot or a delta to the reply shown last.
LEMMA AppliedText ==
    ASSUME NEW h, NEW q, NEW ev, ev.event \in {"snapshot", "content"}, EndsInReply(h)
    PROVE  Applied(h, q, ev) =
               Append(Front(h), Says(h[Len(h)], IF ev.event = "snapshot" THEN ev.text
                                                ELSE h[Len(h)].text + ev.text))
<1>1. CASE ev.event = "snapshot"
    BY <1>1 DEF Applied, OnLast, Says
<1>2. CASE ev.event = "content"
    BY <1>2 DEF Applied, OnLast, Says
<1> QED
    BY <1>1, <1>2

\* Applying an error to the reply shown last.
LEMMA AppliedError ==
    ASSUME NEW h, NEW q, NEW ev, ev.event = "error", EndsInReply(h)
    PROVE  Applied(h, q, ev) = Append(Front(h), Fails(h[Len(h)]))
BY DEF Applied, OnLast, Fails

\* Nothing but a reply takes text or an error.
LEMMA AppliedNowhere ==
    ASSUME NEW h, NEW q, NEW ev, ev.event \in {"snapshot", "content", "error"}, ~EndsInReply(h)
    PROVE  Applied(h, q, ev) = h
BY DEF Applied, OnLast

\* Applying `done`.
LEMMA AppliedDone ==
    ASSUME NEW h, NEW q, NEW ev, ev.event = "done"
    PROVE  Applied(h, q, ev) = IF ReplyPlace(h, q) = {}
                               THEN Append(h, Replies(q, ev.status, ev.text))
                               ELSE Closed(h, q, ev)
BY DEF Applied, Closed

\* A reply that is changed is a message.
LEMMA ChangedType ==
    ASSUME NEW m \in Message
    PROVE  /\ Fails(m) \in Message /\ m.text \in Nat
           /\ \A n \in Nat : Says(m, n) \in Message
BY DEF Fails, Says, Message

\* `done` rewrites messages.
LEMMA ClosedType ==
    ASSUME NEW h \in Seq(Message), NEW q \in {0} \cup Requests, NEW ev \in Event
    PROVE  /\ Closed(h, q, ev) \in Seq(Message)
           /\ Replies(q, ev.status, ev.text) \in Message
<1> DEFINE f == Closed(h, q, ev)
           m == Replies(q, ev.status, ev.text)
<1>1. m \in Message
    BY RowType DEF Event
<1> HIDE DEF m
<1>2. \A i \in DOMAIN h : f[i] \in Message
    BY <1>1 DEF Closed, m
<1>3. DOMAIN f = DOMAIN h /\ f = [i \in DOMAIN h |-> f[i]]
    BY DEF Closed
<1> QED
    BY <1>1, <1>2, <1>3, RewriteType DEF m

\* Every event leaves a list of messages.
LEMMA AppliedType ==
    ASSUME NEW h \in Seq(Message), NEW q \in {0} \cup Requests, NEW ev \in Event
    PROVE  Applied(h, q, ev) \in Seq(Message)
<1>1. ev.event \in {"start", "snapshot", "content", "error", "done"}
      /\ ev.text \in Nat /\ ev.body \in Body
    BY DEF Event
<1>2. CASE ev.event = "start"
    BY <1>1, <1>2, AppliedStart, BegunType
<1>3. CASE ev.event \in {"snapshot", "content", "error"} /\ ~EndsInReply(h)
    BY <1>3, AppliedNowhere
<1>4. ASSUME EndsInReply(h)
      PROVE  h[Len(h)] \in Message /\ Front(h) \in Seq(Message)
    BY <1>4, LastType, FrontType DEF EndsInReply
<1>5. CASE ev.event \in {"snapshot", "content"} /\ EndsInReply(h)
  <2> DEFINE n == IF ev.event = "snapshot" THEN ev.text ELSE h[Len(h)].text + ev.text
  <2>1. n \in Nat
      BY <1>1, <1>4, <1>5, ChangedType
  <2>2. Applied(h, q, ev) = Append(Front(h), Says(h[Len(h)], n))
      BY <1>5, AppliedText
  <2> HIDE DEF n
  <2> QED
      BY <1>4, <1>5, <2>1, <2>2, ChangedType, AppendType
<1>6. CASE ev.event = "error" /\ EndsInReply(h)
    BY <1>4, <1>6, AppliedError, ChangedType, AppendType
<1>7. CASE ev.event = "done"
  <2>1. Closed(h, q, ev) \in Seq(Message) /\ Replies(q, ev.status, ev.text) \in Message
      BY ClosedType
  <2>2. Append(h, Replies(q, ev.status, ev.text)) \in Seq(Message)
      BY <2>1, AppendType
  <2> QED
      BY <1>7, <2>1, <2>2, AppliedDone
<1> QED
    BY <1>1, <1>2, <1>3, <1>5, <1>6, <1>7

StreamTyped == stream = NoStream \/ stream \in StreamType

\* Events are events.
LEMMA EvType ==
    /\ \A e \in {"start", "snapshot", "content", "error", "done"} : \A n \in Nat : \A s \in Statuses :
          Ev(e, n, s) \in Event
    /\ \A b \in Body : [Ev("start", 0, "streaming") EXCEPT !.body = b] \in Event
<1>1. NoBody \in Body
    BY DEF NoBody, Body
<1> QED
    BY <1>1 DEF Ev, Event

\* A new call is a stream.
LEMMA CallType ==
    \A c \in {"post", "attach"} : \A q \in {0} \cup Requests :
        \A s \in {"sent", "open", "refused", "nothing"} : Call(c, q, s) \in StreamType
<1>1. <<>> \in Seq(Event)
    BY EmptySeq
<1> QED
    BY <1>1 DEF Call, StreamType

\* Publishing leaves a stream.
LEMMA PublishedType ==
    ASSUME StreamTyped, NEW q \in Requests, NEW ev \in Event
    PROVE  Published(q, ev) = NoStream \/ Published(q, ev) \in StreamType
<1>1. CASE Followed(q) /\ stream.state = "open"
  <2>1. stream \in StreamType
      BY <1>1 DEF Followed, StreamTyped
  <2>2. Append(stream.queue, ev) \in Seq(Event)
      BY <2>1 DEF StreamType
  <2> QED
      BY <1>1, <2>1, <2>2 DEF Published, StreamType
<1>2. CASE ~ (Followed(q) /\ stream.state = "open")
    BY <1>2 DEF Published, StreamTyped
<1> QED
    BY <1>1, <1>2

\* A request for the rows, and the steps of its answer.
LEMMA FetchedType ==
    /\ \A why \in {"open", "again"} : Fetch(why) \in FetchType
    /\ \A f \in FetchType :
          /\ \A b \in BOOLEAN : [f EXCEPT !.old = b] \in FetchType
          /\ \A m \in Seq(Message) : [f EXCEPT !.step = "read", !.messages = m] \in FetchType
          /\ \A b \in BOOLEAN : [f EXCEPT !.step = "answered", !.streaming = b] \in FetchType
<1>1. <<>> \in Seq(Message)
    BY EmptySeq
<1> QED
    BY <1>1 DEF Fetch, FetchType

\* What is written keeps the types.
LEMMA WrittenType ==
    ASSUME NEW q \in Requests, stale \in BOOLEAN, fetches \subseteq FetchType, Written(q)
    PROVE  stale' \in BOOLEAN /\ fetches' \subseteq FetchType
<1>1. CASE Sent(q)
    BY <1>1 DEF Written
<1>2. CASE ~Sent(q)
  <2>1. stale' = TRUE /\ fetches' = {[f EXCEPT !.old = f.step # "sent"] : f \in fetches}
      BY <1>2 DEF Written
  <2>2. \A f \in fetches : [f EXCEPT !.old = (f.step # "sent")] \in FetchType
      BY FetchedType
  <2> QED
      BY <2>1, <2>2
<1> QED
    BY <1>1, <1>2

Labels == {"idle", "sent", "over"} \cup Preparing \cup Running

\* A handler moves alone.
LEMMA GotoType ==
    ASSUME NEW q \in Requests, NEW l \in Labels, pc \in [Requests -> Labels], Goto(q, l)
    PROVE  /\ pc' \in [Requests -> Labels] /\ pc'[q] = l
           /\ \A p \in Requests : p # q => pc'[p] = pc[p]
BY DEF Goto

\* What a handler is asked, and its forgetting.
LEMMA BodyType ==
    ASSUME NEW q \in Requests, body \in [Requests -> Body]
    PROVE  /\ Forgotten(q) => body' \in [Requests -> Body]
                              /\ \A p \in Requests : p # q => body'[p] = body[p]
           /\ \A k \in Kinds : \A m \in {0} \cup Requests : Asked(q, k, m) =>
                 /\ body' \in [Requests -> Body] /\ body'[q] = [kind |-> k, pivot |-> m]
                 /\ \A p \in Requests : p # q => body'[p] = body[p]
<1>1. NoBody \in Body
    BY DEF NoBody, Body
<1>2. \A k \in Kinds : \A m \in {0} \cup Requests : [kind |-> k, pivot |-> m] \in Body
    BY DEF Body
<1> QED
    BY <1>1, <1>2 DEF Forgotten, Asked

\* A refusal keeps the types.
LEMMA RefusedType ==
    ASSUME StreamTyped, NEW q \in Requests, Refused(q),
           pc \in [Requests -> Labels], body \in [Requests -> Body]
    PROVE  /\ (stream' = NoStream \/ stream' \in StreamType)
           /\ pc' \in [Requests -> Labels] /\ body' \in [Requests -> Body]
<1>1. stream' = NoStream \/ stream' \in StreamType
    BY DEF Refused, StreamTyped, Sent, Followed, StreamType
<1>2. pc' \in [Requests -> Labels]
    BY GotoType DEF Refused, Labels
<1> QED
    BY <1>1, <1>2, BodyType DEF Refused

\* `prepare` leaves a list of messages.
LEMMA PreparedType ==
    ASSUME NEW q \in Requests, stored \in Seq(Message), body \in [Requests -> Body]
    PROVE  Prepared(q) \in Seq(Message)
<1>1. body[q].kind \in Kinds /\ body[q].pivot \in {0} \cup Requests
    BY DEF Body
<1>2. Asks(q, q) \in Message /\ Asks(body[q].pivot, q) \in Message
    BY <1>1, RowType, RequestsNat
<1>3. CASE body[q].kind = "send"
    BY <1>2, <1>3, AppendType DEF Prepared
<1>4. CASE body[q].kind = "edit"
  <2> DEFINE n == Place(stored, body[q].pivot) - 1
  <2>1. n \in Int /\ n <= Len(stored)
      BY PlaceType
  <2>2. SubSeq(stored, 1, n) \in Seq(Message)
      BY <2>1, StretchType
  <2>3. Prepared(q) = Append(SubSeq(stored, 1, n), Asks(body[q].pivot, q))
      BY <1>4 DEF Prepared
  <2> HIDE DEF n
  <2> QED
      BY <1>2, <2>2, <2>3, AppendType
<1>5. CASE body[q].kind = "regenerate"
    BY <1>5, FrontType DEF Prepared
<1> QED
    BY <1>1, <1>3, <1>4, <1>5

\* The variables of a conjunction kept.
LEMMA TypeParts == TypeOK <=>
    /\ stored \in Seq(Message) /\ shown \in Seq(Message)
    /\ runs \in {Absent, Reserved} \cup Requests
    /\ pc \in [Requests -> Labels]
    /\ body \in [Requests -> Body]
    /\ text \in 0..MaxDeltas
    /\ outcome \in Statuses
    /\ spin \in BOOLEAN /\ mounted \in BOOLEAN /\ stale \in BOOLEAN
    /\ StreamTyped
    /\ fetches \subseteq FetchType
    /\ opens \in 0..MaxOpens /\ failures \in 0..MaxFailures /\ lost \in BOOLEAN
BY DEF TypeOK, Labels, StreamTyped

\* The types of the next state, one by one.
LEMMA TypeThen ==
    ASSUME stored' \in Seq(Message), shown' \in Seq(Message),
           runs' \in {Absent, Reserved} \cup Requests,
           pc' \in [Requests -> Labels], body' \in [Requests -> Body],
           text' \in 0..MaxDeltas, outcome' \in Statuses,
           spin' \in BOOLEAN, mounted' \in BOOLEAN, stale' \in BOOLEAN,
           StreamTyped', fetches' \subseteq FetchType,
           opens' \in 0..MaxOpens, failures' \in 0..MaxFailures, lost' \in BOOLEAN
    PROVE  TypeOK'
BY DEF TypeOK, Labels, StreamTyped

\* The types hold at the start.
LEMMA TypeInit == Init => TypeOK
<1> SUFFICES ASSUME Init PROVE TypeOK
    OBVIOUS
<1>1. stored \in Seq(Message) /\ shown = stored
    BY RowType, RequestsNat, AppendType, EmptySeq DEF Init
<1>2. NoBody \in Body
    BY DEF NoBody, Body
<1>3. body \in [Requests -> Body] /\ pc \in [Requests -> Labels]
    BY <1>2 DEF Init, Labels
<1>4. text \in 0..MaxDeltas /\ opens \in 0..MaxOpens /\ failures \in 0..MaxFailures
    BY BoundsAssumption DEF Init
<1> QED
    BY <1>1, <1>3, <1>4, TypeParts DEF Init, StreamTyped

\* What becomes of the tab's stream when a run starts.
LEMMA StartedType ==
    ASSUME TypeOK, NEW q \in Requests, Start(q)
    PROVE  StreamTyped'
<1>1. body[q] \in Body /\ StreamTyped
    BY TypeParts
<1> DEFINE e == [Ev("start", 0, "streaming") EXCEPT !.body = body[q]]
<1>2. e \in Event
    BY <1>1, EvType
<1>3. stream' = IF Sent(q) THEN [stream EXCEPT !.state = "open", !.queue = <<e>>] ELSE stream
    BY DEF Start
<1> HIDE DEF e
<1>4. <<e>> \in Seq(Event)
    BY <1>2
<1> QED
    BY <1>1, <1>3, <1>4 DEF StreamTyped, Sent, Followed, StreamType

\* An event that arrives keeps the types.
LEMMA DeliveredType ==
    ASSUME TypeOK, Deliver
    PROVE  StreamTyped' /\ shown' \in Seq(Message) /\ spin' \in BOOLEAN
<1>1. stream \in StreamType /\ stream.queue # <<>> /\ stream.queue \in Seq(Event)
      /\ stream.run \in {0} \cup Requests
    BY DEF TypeOK, Deliver, StreamType
<1>2. Head(stream.queue) \in Event /\ Tail(stream.queue) \in Seq(Event)
    BY <1>1, HeadTailProperties
<1>3. stream' = NoStream \/ stream' = [stream EXCEPT !.queue = Tail(@), !.began = TRUE]
    BY DEF Deliver
<1>4. StreamTyped'
    BY <1>1, <1>2, <1>3 DEF StreamTyped, StreamType
<1>5. shown' = Applied(shown, stream.run, Head(stream.queue)) /\ shown \in Seq(Message)
    BY DEF Deliver, TypeOK
<1>6. shown' \in Seq(Message)
    BY <1>1, <1>2, <1>5, AppliedType
<1>7. spin' \in BOOLEAN
    BY DEF Deliver, TypeOK
<1> QED
    BY <1>4, <1>6, <1>7

\* What a tab keeps, and what it asks.
LEMMA AskedType ==
    ASSUME TypeOK, NEW q \in Requests, Ask(q)
    PROVE  /\ shown' \in Seq(Message) /\ body' \in [Requests -> Body]
           /\ StreamTyped' /\ fetches' \subseteq FetchType
<1>1. shown \in Seq(Message) /\ Len(shown) \in Nat /\ DOMAIN shown = 1..Len(shown)
      /\ body \in [Requests -> Body]
    BY DEF TypeOK
<1>5. StreamTyped' /\ fetches' \subseteq FetchType
    BY CallType DEF Ask, StreamTyped, Awaited
<1> DEFINE Fine == body' \in [Requests -> Body]
<1>b. \A k \in Kinds : \A m \in {0} \cup Requests : Asked(q, k, m) => Fine
    BY <1>1, BodyType
<1>c. Asked(q, "send", q) \/ Asked(q, "regenerate", 0) => Fine
    BY <1>b
<1> HIDE DEF Fine
<1>2. CASE Asked(q, "send", q) /\ UNCHANGED shown
    BY <1>1, <1>2, <1>5, <1>c DEF Fine
<1>3. CASE \E i \in DOMAIN shown :
             /\ shown[i].role = "user"
             /\ Asked(q, "edit", shown[i].id)
             /\ shown' = SubSeq(shown, 1, i - 1)
  <2>1. PICK i \in DOMAIN shown : Asked(q, "edit", shown[i].id) /\ shown' = SubSeq(shown, 1, i - 1)
      BY <1>3
  <2>2. shown[i] \in Message
      BY <1>1
  <2>3. shown[i].id \in {0} \cup Requests
      BY <2>2 DEF Message
  <2>6. Fine
      BY <1>b, <2>1, <2>3
  <2>4. i - 1 \in Int /\ i - 1 <= Len(shown)
      BY <1>1
  <2>5. SubSeq(shown, 1, i - 1) \in Seq(Message)
      BY <1>1, <2>4, StretchType
  <2> QED
      BY <1>5, <2>1, <2>5, <2>6 DEF Fine
<1>4. CASE Asked(q, "regenerate", 0) /\ shown' = Front(shown)
    BY <1>1, <1>4, <1>5, <1>c, FrontType DEF Fine
<1> QED
    BY <1>2, <1>3, <1>4 DEF Ask

\* A request from elsewhere keeps the types.
LEMMA AskedElsewhereType ==
    ASSUME TypeOK, NEW q \in Requests, AskElsewhere(q)
    PROVE  body' \in [Requests -> Body] /\ \A p \in Requests : p # q => body'[p] = body[p]
<1>1. body \in [Requests -> Body] /\ stored \in Seq(Message)
    BY DEF TypeOK
<1>2. PICK k \in KindsElsewhere :
          CASE k = "send" -> Asked(q, k, q)
            [] k = "edit" -> \E i \in DOMAIN stored :
                                stored[i].role = "user" /\ Asked(q, k, stored[i].id)
            [] k = "regenerate" -> EndsInReply(stored) /\ Asked(q, k, 0)
    BY DEF AskElsewhere
<1>3. k \in Kinds
    BY KindsAssumption
<1>4. \A i \in DOMAIN stored : stored[i].id \in {0} \cup Requests
  <2>1. \A i \in DOMAIN stored : stored[i] \in Message
      BY <1>1
  <2> QED
      BY <2>1 DEF Message
<1>5. \E m \in {0} \cup Requests : Asked(q, k, m)
  <2>1. CASE k = "send"
      BY <1>2, <2>1
  <2>2. CASE k = "edit"
      BY <1>2, <1>4, <2>2
  <2>3. CASE k = "regenerate"
      BY <1>2, <2>3
  <2> QED
      BY <1>3, <2>1, <2>2, <2>3
<1> QED
    BY <1>1, <1>3, <1>5, BodyType

\* One step, whoever makes it.
LEMMA TypeStep == TypeOK /\ [Next]_vars => TypeOK'
<1> SUFFICES ASSUME TypeOK, [Next]_vars PROVE TypeOK'
    OBVIOUS
<1>t. /\ stored \in Seq(Message) /\ shown \in Seq(Message)
      /\ runs \in {Absent, Reserved} \cup Requests
      /\ pc \in [Requests -> Labels]
      /\ body \in [Requests -> Body]
      /\ text \in 0..MaxDeltas
      /\ outcome \in Statuses
      /\ spin \in BOOLEAN /\ mounted \in BOOLEAN /\ stale \in BOOLEAN
      /\ StreamTyped
      /\ fetches \subseteq FetchType
      /\ opens \in 0..MaxOpens /\ failures \in 0..MaxFailures /\ lost \in BOOLEAN
    BY TypeParts
<1>b. /\ text \in Nat /\ MaxDeltas \in Nat /\ MaxFailures \in Nat /\ MaxOpens \in Nat
      /\ 0 \in 0..MaxDeltas
    BY <1>t, BoundsAssumption
<1>1. ASSUME NEW q \in Requests, Reserve(q) PROVE TypeOK'
  <2>1. CASE runs = Absent
    <3>1. pc' \in [Requests -> Labels]
        BY <1>1, <1>t, <2>1, GotoType DEF Reserve, Labels
    <3> QED
        BY <1>1, <1>t, <2>1, <3>1, TypeThen DEF Reserve, counters, StreamTyped
  <2>2. CASE runs # Absent
    <3>1. /\ StreamTyped' /\ pc' \in [Requests -> Labels] /\ body' \in [Requests -> Body]
        BY <1>1, <1>t, <2>2, RefusedType DEF Reserve, StreamTyped
    <3> QED
        BY <1>1, <1>t, <2>2, <3>1, TypeThen DEF Reserve, counters
  <2> QED
      BY <2>1, <2>2
<1>2. ASSUME NEW q \in Requests, Prepare(q) PROVE TypeOK'
  <2>1. CASE body[q].kind = "edit" /\ Place(stored, body[q].pivot) = 0
    <3>1. /\ StreamTyped' /\ pc' \in [Requests -> Labels] /\ body' \in [Requests -> Body]
        BY <1>2, <1>t, <2>1, RefusedType DEF Prepare, StreamTyped
    <3> QED
        BY <1>2, <1>t, <2>1, <3>1, TypeThen DEF Prepare, counters
  <2>2. CASE ~ (body[q].kind = "edit" /\ Place(stored, body[q].pivot) = 0)
    <3>1. pc' \in [Requests -> Labels]
        BY <1>2, <1>t, <2>2, GotoType DEF Prepare, Labels
    <3>2. stale' \in BOOLEAN /\ fetches' \subseteq FetchType
        BY <1>2, <1>t, <2>2, WrittenType DEF Prepare
    <3>3. stored' \in Seq(Message)
        BY <1>2, <1>t, <2>2, PreparedType DEF Prepare
    <3> QED
        BY <1>2, <1>t, <2>2, <3>1, <3>2, <3>3, TypeThen DEF Prepare, counters, StreamTyped
  <2> QED
      BY <2>1, <2>2
<1>3. ASSUME NEW q \in Requests, AddReply(q) PROVE TypeOK'
  <2>1. pc' \in [Requests -> Labels]
      BY <1>3, <1>t, GotoType DEF AddReply, Labels
  <2>2. stale' \in BOOLEAN /\ fetches' \subseteq FetchType
      BY <1>3, <1>t, WrittenType DEF AddReply
  <2>3. stored' \in Seq(Message)
      BY <1>3, <1>t, RowType, AppendType DEF AddReply
  <2> QED
      BY <1>3, <1>t, <2>1, <2>2, <2>3, TypeThen DEF AddReply, counters, StreamTyped
<1>4. ASSUME NEW q \in Requests, Fail(q) PROVE TypeOK'
  <2>1. /\ StreamTyped' /\ pc' \in [Requests -> Labels] /\ body' \in [Requests -> Body]
      BY <1>4, <1>t, RefusedType DEF Fail, StreamTyped
  <2>2. failures' \in 0..MaxFailures
      BY <1>4, <1>t, <1>b DEF Fail
  <2> QED
      BY <1>4, <1>t, <2>1, <2>2, TypeThen DEF Fail
<1>5. ASSUME NEW q \in Requests, Start(q) PROVE TypeOK'
  <2>1. pc' \in [Requests -> Labels] /\ body' \in [Requests -> Body]
      BY <1>5, <1>t, GotoType, BodyType DEF Start, Labels
  <2>2. StreamTyped'
      BY <1>5, StartedType
  <2> QED
      BY <1>5, <1>t, <1>b, <2>1, <2>2, TypeThen DEF Start, counters
<1>6. ASSUME NEW q \in Requests, Delta(q) PROVE TypeOK'
  <2>1. StreamTyped'
      BY <1>6, <1>t, EvType, PublishedType DEF Delta, StreamTyped
  <2>2. text' \in 0..MaxDeltas
      BY <1>6, <1>t, <1>b DEF Delta
  <2> QED
      BY <1>6, <1>t, <2>1, <2>2, TypeThen DEF Delta, counters
<1>7. ASSUME NEW q \in Requests, EndStream(q) PROVE TypeOK'
  <2>1. PICK status \in {"complete", "error"} :
          /\ outcome' = status
          /\ stream' = IF status = "error"
                       THEN Published(q, Ev("error", 0, "error")) ELSE stream
      BY <1>7 DEF EndStream
  <2>2. StreamTyped'
      BY <1>t, <2>1, EvType, PublishedType DEF StreamTyped
  <2>3. pc' \in [Requests -> Labels]
      BY <1>7, <1>t, GotoType DEF EndStream, Labels
  <2>4. outcome' \in Statuses
      BY <2>1
  <2> QED
      BY <1>7, <1>t, <2>2, <2>3, <2>4, TypeThen DEF EndStream, counters
<1>8. ASSUME NEW q \in Requests, Save(q) PROVE TypeOK'
  <2>1. pc' \in [Requests -> Labels]
      BY <1>8, <1>t, GotoType DEF Save, Labels
  <2>2. stored' \in Seq(Message)
      BY <1>8, <1>t, <1>b, SettledType DEF Save
  <2> QED
      BY <1>8, <1>t, <2>1, <2>2, TypeThen DEF Save, tab, counters, StreamTyped
<1>9. ASSUME NEW q \in Requests, Finish(q) PROVE TypeOK'
  <2>1. pc' \in [Requests -> Labels]
      BY <1>9, <1>t, GotoType DEF Finish, Labels
  <2>2. Ev("done", text, outcome) \in Event
      BY <1>t, <1>b, EvType
  <2>3. StreamTyped'
      BY <1>9, <1>t, <2>2, PublishedType DEF Finish, StreamTyped
  <2> QED
      BY <1>9, <1>t, <1>b, <2>1, <2>3, TypeThen DEF Finish, counters
<1>10. ASSUME NEW q \in Requests, Ask(q) PROVE TypeOK'
  <2>1. pc' \in [Requests -> Labels]
      BY <1>10, <1>t, GotoType DEF Ask, Labels
  <2>2. /\ shown' \in Seq(Message) /\ body' \in [Requests -> Body]
        /\ StreamTyped' /\ fetches' \subseteq FetchType
      BY <1>10, AskedType
  <2> QED
      BY <1>10, <1>t, <2>1, <2>2, TypeThen DEF Ask, counters
<1>11. ASSUME NEW q \in Requests, AskElsewhere(q) PROVE TypeOK'
  <2>1. pc' \in [Requests -> Labels]
      BY <1>11, <1>t, GotoType DEF AskElsewhere, Labels
  <2>2. body' \in [Requests -> Body]
      BY <1>11, AskedElsewhereType
  <2> QED
      BY <1>11, <1>t, <2>1, <2>2, TypeThen DEF AskElsewhere, tab, counters, StreamTyped
<1>12. CASE Subscribe
  <2>1. stream \in StreamType
      BY <1>12, <1>t DEF Subscribe, StreamTyped
  <2>2. <<Ev("snapshot", text, "streaming")>> \in Seq(Event)
      BY <1>b, EvType
  <2>3. StreamTyped'
      BY <1>12, <1>t, <2>1, <2>2 DEF Subscribe, StreamTyped, StreamType
  <2> QED
      BY <1>12, <1>t, <2>3, TypeThen DEF Subscribe, server, counters
<1>13. ASSUME NEW f \in fetches, ReadMessages(f) PROVE TypeOK'
  <2>1. [f EXCEPT !.step = "read", !.messages = stored] \in FetchType
      BY <1>t, FetchedType
  <2>2. fetches' \subseteq FetchType
      BY <1>13, <1>t, <2>1 DEF ReadMessages
  <2> QED
      BY <1>13, <1>t, <2>2, TypeThen DEF ReadMessages, server, counters, StreamTyped
<1>14. ASSUME NEW f \in fetches, ReadRegistry(f) PROVE TypeOK'
  <2> DEFINE b == runs \in Requests
  <2>1. b \in BOOLEAN
      OBVIOUS
  <2>4. fetches' = (fetches \ {f}) \cup {[f EXCEPT !.step = "answered", !.streaming = b]}
      BY <1>14 DEF ReadRegistry
  <2> HIDE DEF b
  <2>3. [f EXCEPT !.step = "answered", !.streaming = b] \in FetchType
      BY <1>t, <2>1, FetchedType
  <2>2. fetches' \subseteq FetchType
      BY <1>t, <2>3, <2>4
  <2> QED
      BY <1>14, <1>t, <2>2, TypeThen DEF ReadRegistry, server, counters, StreamTyped
<1>15. CASE Deliver
    BY <1>15, <1>t, DeliveredType, TypeThen DEF Deliver, server, counters
<1>16. CASE Unstreamed
    BY <1>16, <1>t, FetchedType, TypeThen DEF Unstreamed, server, counters, StreamTyped
<1>17. ASSUME NEW f \in fetches, Show(f) PROVE TypeOK'
  <2>1. f \in FetchType /\ f.messages \in Seq(Message) /\ f.old \in BOOLEAN
      BY <1>t DEF FetchType
  <2>2. StreamTyped' /\ spin' \in BOOLEAN
      BY <1>17, <1>t, CallType DEF Show, StreamTyped
  <2>3. stale' \in BOOLEAN
      BY <1>17, <2>1 DEF Show, Unfollowed
  <2> QED
      BY <1>17, <1>t, <2>1, <2>2, <2>3, TypeThen DEF Show, server, counters
<1>18. CASE Lose
  <2>1. failures' \in 0..MaxFailures
      BY <1>18, <1>t, <1>b DEF Lose
  <2>2. fetches' \subseteq FetchType /\ spin' \in BOOLEAN /\ StreamTyped'
      BY <1>18, <1>t, FetchedType DEF Lose, StreamTyped
  <2> QED
      BY <1>18, <1>t, <2>1, <2>2, TypeThen DEF Lose, server
<1>19. CASE Leave
    BY <1>19, <1>t, TypeThen DEF Leave, server, counters, StreamTyped, Awaited
<1>20. CASE Open
  <2>1. opens' \in 0..MaxOpens
      BY <1>20, <1>t, <1>b DEF Open
  <2>2. fetches' \subseteq FetchType
      BY <1>20, FetchedType DEF Open, Awaited
  <2> QED
      BY <1>20, <1>t, <2>1, <2>2, TypeThen DEF Open, server, StreamTyped
<1>21. CASE UNCHANGED vars
    BY <1>21, <1>t, TypeThen DEF vars, server, tab, counters, StreamTyped
<1> QED
    BY <1>1, <1>2, <1>3, <1>4, <1>5, <1>6, <1>7, <1>8, <1>9, <1>10, <1>11, <1>12,
       <1>13, <1>14, <1>15, <1>16, <1>17, <1>18, <1>19, <1>20, <1>21
       DEF Next, Handler, Task, Model, Answer, Receive

\* Every variable keeps its type.
THEOREM TypeCorrect == Spec => []TypeOK
BY TypeInit, TypeStep, PTL DEF Spec

-----------------------------------------------------------------------------
(* One request is at work at a time                                        *)

RegistryInv ==
    /\ \A q \in Requests : pc[q] \in Preparing => runs = Reserved
    /\ \A q \in Requests : pc[q] \in Running => runs = q
    /\ \A p, q \in Requests : pc[p] \in Preparing /\ pc[q] \in Preparing => p = q
    /\ runs \in Requests => pc[runs] \in Running

\* A plain message is its own.
BodyInv == \A q \in Requests :
    pc[q] \in {"sent"} \cup Preparing /\ body[q].kind = "send" => body[q].pivot = q

\* The registry's marks are no requests, and neither is 0.
LEMMA Values == Absent # Reserved /\ Absent \notin Requests /\ Reserved \notin Requests
                /\ 0 \notin Requests
BY ValuesAssumption, RequestsNat

\* The steps that leave the server alone.
TabStep == \/ Subscribe \/ Deliver \/ Unstreamed \/ Lose \/ Leave \/ Open
           \/ \E f \in fetches : ReadMessages(f) \/ ReadRegistry(f) \/ Show(f)
           \/ UNCHANGED vars

\* The tab, its answers and its losses write nothing on the server.
LEMMA TabStepServer == TabStep => UNCHANGED <<stored, runs, pc, body, text, outcome>>
BY DEF TabStep, Subscribe, Deliver, Unstreamed, Lose, Leave, Open, ReadMessages, ReadRegistry,
       Show, server, vars

\* Next, by who moves.
LEMMA NextSplit == [Next]_vars =>
    \/ TabStep
    \/ \E q \in Requests : \/ Reserve(q) \/ Prepare(q) \/ AddReply(q) \/ Fail(q) \/ Start(q)
                           \/ Delta(q) \/ EndStream(q) \/ Save(q) \/ Finish(q)
                           \/ Ask(q) \/ AskElsewhere(q)
BY DEF Next, Handler, Task, Model, Answer, Receive, TabStep

\* Every step keeps what the registry tells of the handlers.
LEMMA RegistryStep == TypeOK /\ RegistryInv /\ [Next]_vars => RegistryInv'
<1> SUFFICES ASSUME TypeOK, RegistryInv, [Next]_vars PROVE RegistryInv'
    OBVIOUS
<1>t. pc \in [Requests -> Labels]
    BY TypeParts
<1>1. ASSUME NEW q \in Requests, Reserve(q) PROVE RegistryInv'
    BY <1>1, <1>t, Values DEF Reserve, Refused, Goto, RegistryInv
<1>2. ASSUME NEW q \in Requests, Prepare(q) PROVE RegistryInv'
  <2>1. \/ pc' = [pc EXCEPT ![q] = "over"] /\ runs' = Absent
        \/ pc' = [pc EXCEPT ![q] = "prepared"] /\ runs' = runs
    <3>1. CASE body[q].kind = "edit" /\ Place(stored, body[q].pivot) = 0
      <4>1. Refused(q) /\ runs' = Absent
          BY <1>2, <3>1 DEF Prepare
      <4>2. Goto(q, "over")
          BY <4>1, ZenonT(20) DEF Refused
      <4> QED
          BY <4>1, <4>2 DEF Goto
    <3>2. CASE ~ (body[q].kind = "edit" /\ Place(stored, body[q].pivot) = 0)
        BY <1>2, <3>2 DEF Prepare, Goto
    <3> QED
        BY <3>1, <3>2
  <2> QED
      BY <1>2, <1>t, <2>1, Values DEF Prepare, RegistryInv
<1>3. ASSUME NEW q \in Requests, AddReply(q) PROVE RegistryInv'
    BY <1>3, <1>t, Values DEF AddReply, Goto, RegistryInv
<1>4. ASSUME NEW q \in Requests, Fail(q) PROVE RegistryInv'
    BY <1>4, <1>t, Values DEF Fail, Refused, Goto, RegistryInv
<1>5. ASSUME NEW q \in Requests, Start(q) PROVE RegistryInv'
    BY <1>5, <1>t, Values DEF Start, Goto, RegistryInv
<1>6. ASSUME NEW q \in Requests, Delta(q) \/ EndStream(q) \/ Save(q) \/ Finish(q)
      PROVE  RegistryInv'
    BY <1>6, <1>t, Values DEF Delta, EndStream, Save, Finish, Goto, RegistryInv
<1>7. ASSUME NEW q \in Requests, Ask(q) \/ AskElsewhere(q) PROVE RegistryInv'
  <2>1. pc' = [pc EXCEPT ![q] = "sent"] /\ runs' = runs /\ pc[q] = "idle"
      BY <1>7 DEF Ask, AskElsewhere, Goto, Made
  <2> QED
      BY <1>t, <2>1, Values DEF RegistryInv
<1>8. CASE TabStep
    BY <1>8, TabStepServer DEF RegistryInv
<1> QED
    BY <1>1, <1>2, <1>3, <1>4, <1>5, <1>6, <1>7, <1>8, NextSplit

\* Every step keeps the pivot of a plain message.
LEMMA BodyStep == TypeOK /\ BodyInv /\ [Next]_vars => BodyInv'
<1> SUFFICES ASSUME TypeOK, BodyInv, [Next]_vars PROVE BodyInv'
    OBVIOUS
<1>t. pc \in [Requests -> Labels] /\ body \in [Requests -> Body]
    BY TypeParts
<1> DEFINE Own(q) == pc[q] \in {"sent"} \cup Preparing /\ body[q].kind = "send" => body[q].pivot = q
<1>s. \A q \in Requests : (\A p \in Requests : p # q => Own(p)') /\ Own(q)' => BodyInv'
    BY DEF BodyInv
<1>k. \A q, p \in Requests : p # q /\ pc'[p] = pc[p] /\ body'[p] = body[p] => Own(p)'
    BY DEF BodyInv
<1> HIDE DEF Own
<1>1. ASSUME NEW q \in Requests,
             \/ Reserve(q) \/ Prepare(q) \/ AddReply(q) \/ Fail(q) \/ Start(q)
             \/ Delta(q) \/ EndStream(q) \/ Save(q) \/ Finish(q)
      PROVE  BodyInv'
  <2>1. \/ pc'[q] \notin {"sent"} \cup Preparing
        \/ body'[q] = body[q] /\ pc[q] \in {"sent"} \cup Preparing
    <3>1. CASE Reserve(q) \/ Prepare(q) \/ Fail(q)
        BY <1>t, <3>1 DEF Reserve, Prepare, Fail, Refused, Goto
    <3>2. CASE AddReply(q) \/ Start(q) \/ Delta(q) \/ EndStream(q) \/ Save(q) \/ Finish(q)
        BY <1>t, <3>2 DEF AddReply, Start, Delta, EndStream, Save, Finish, Goto
    <3> QED
        BY <1>1, <3>1, <3>2
  <2>2. \A p \in Requests : p # q => pc'[p] = pc[p] /\ body'[p] = body[p]
    <3>1. CASE Reserve(q) \/ Prepare(q) \/ Fail(q)
        BY <1>t, <3>1, BodyType DEF Reserve, Prepare, Fail, Refused, Goto
    <3>2. CASE AddReply(q) \/ Start(q) \/ Delta(q) \/ EndStream(q) \/ Save(q) \/ Finish(q)
        BY <1>t, <3>2, BodyType DEF AddReply, Start, Delta, EndStream, Save, Finish, Goto
    <3> QED
        BY <1>1, <3>1, <3>2
  <2>3. Own(q)'
      BY <2>1 DEF Own, BodyInv
  <2> QED
      BY <1>k, <1>s, <2>2, <2>3
<1>2. ASSUME NEW q \in Requests, Ask(q) \/ AskElsewhere(q) PROVE BodyInv'
  <2>1. \E k \in Kinds : \E m \in {0} \cup Requests : Asked(q, k, m) /\ (k = "send" => m = q)
    <3>1. CASE Ask(q)
      <4>1. \A i \in DOMAIN shown : shown[i] \in Message
          BY TypeParts
      <4>2. \A i \in DOMAIN shown : shown[i].id \in {0} \cup Requests
          BY <4>1 DEF Message
      <4> QED
          BY <3>1, <4>2 DEF Ask
    <3>2. CASE AskElsewhere(q)
      <4>1. \A i \in DOMAIN stored : stored[i] \in Message
          BY TypeParts
      <4>2. \A i \in DOMAIN stored : stored[i].id \in {0} \cup Requests
          BY <4>1 DEF Message
      <4>3. PICK k \in KindsElsewhere :
          CASE k = "send" -> Asked(q, k, q)
            [] k = "edit" -> \E i \in DOMAIN stored :
                                stored[i].role = "user" /\ Asked(q, k, stored[i].id)
            [] k = "regenerate" -> EndsInReply(stored) /\ Asked(q, k, 0)
          BY <3>2 DEF AskElsewhere
      <4>4. k \in Kinds
          BY KindsAssumption
      <4>5. CASE k = "send"
          BY <4>3, <4>5
      <4>6. CASE k = "edit"
          BY <4>2, <4>3, <4>6
      <4>7. CASE k = "regenerate"
          BY <4>3, <4>7
      <4> QED
          BY <4>4, <4>5, <4>6, <4>7
    <3> QED
        BY <1>2, <3>1, <3>2
  <2>1a. PICK k \in Kinds, m \in {0} \cup Requests : Asked(q, k, m) /\ (k = "send" => m = q)
      BY <2>1
  <2>1b. body' = [body EXCEPT ![q] = [kind |-> k, pivot |-> m]]
      BY <2>1a DEF Asked
  <2>2. Own(q)' /\ \A p \in Requests : p # q => body'[p] = body[p]
      BY <1>t, <2>1a, <2>1b DEF Own
  <2>3. \A p \in Requests : p # q => pc'[p] = pc[p]
      BY <1>2, <1>t DEF Ask, AskElsewhere, Goto
  <2> QED
      BY <1>k, <1>s, <2>2, <2>3
<1>3. CASE TabStep
    BY <1>3, TabStepServer DEF BodyInv
<1> QED
    BY <1>1, <1>2, <1>3, NextSplit

-----------------------------------------------------------------------------
(* Who waits for an answer, and who follows a run                          *)

Opened == stream # NoStream /\ stream.state = "open"
Last(h) == h[Len(h)]
Queued(event) == \E i \in DOMAIN stream.queue : stream.queue[i].event = event

\* The tab follows a stream or waits for one answer, while the page is there.
TabInv ==
    /\ stream # NoStream \/ ~mounted => fetches = {}
    /\ stream # NoStream => mounted
    /\ \A f, g \in fetches : f = g

\* Whoever waits is being answered, and whoever follows a run will get `done`,
\* last of all.
StreamInv ==
    stream # NoStream =>
        /\ stream.call = "post" =>
              /\ stream.run \in Requests /\ stream.state # "nothing"
              /\ stream.state = "sent" => pc[stream.run] \in {"sent"} \cup Preparing
              /\ stream.state = "refused" => pc[stream.run] = "over"
        /\ stream.call = "attach" =>
              IF stream.state = "open" THEN stream.run \in Requests
              ELSE stream.run = 0 /\ stream.state # "refused"
        /\ stream.state = "open" =>
              \/ pc[stream.run] \in Running /\ ~Queued("done")
              \/ pc[stream.run] = "over" /\ stream.queue # <<>> /\ Last(stream.queue).event = "done"

\* Every step keeps the tab to a stream or one answer.
LEMMA TabInvStep == TypeOK /\ TabInv /\ [Next]_vars => TabInv'
<1> SUFFICES ASSUME TypeOK, TabInv, [Next]_vars PROVE TabInv'
    OBVIOUS
<1>1. ASSUME NEW q \in Requests, Written(q)
      PROVE  fetches = {} => fetches' = {}
    BY <1>1 DEF Written
<1>2. ASSUME NEW q \in Requests, Written(q), \A f, g \in fetches : f = g
      PROVE  \A f, g \in fetches' : f = g
    BY <1>2 DEF Written
<1>3. ASSUME NEW q \in Requests, Prepare(q) \/ AddReply(q)
      PROVE  TabInv'
  <2>1. Written(q) \/ UNCHANGED fetches
      BY <1>3 DEF Prepare, AddReply
  <2>2. mounted' = mounted /\ (stream' # NoStream => stream # NoStream)
      BY <1>3 DEF Prepare, AddReply, Refused, Sent, Followed
  <2>3. stream' = NoStream => stream = NoStream \/ fetches' = {}
      BY <1>1, <2>1 DEF TabInv
  <2> QED
      BY <1>1, <1>2, <2>1, <2>2, <2>3 DEF TabInv
<1>4. ASSUME NEW q \in Requests,
             Reserve(q) \/ Fail(q) \/ Start(q) \/ Delta(q) \/ EndStream(q) \/ Save(q) \/ Finish(q)
             \/ AskElsewhere(q)
      PROVE  TabInv'
  <2>1. UNCHANGED <<mounted, fetches>> /\ (stream' # NoStream => stream # NoStream)
    <3>1. CASE Reserve(q) \/ Fail(q) \/ Start(q)
        BY <3>1 DEF Reserve, Fail, Start, Refused, Sent, Followed
    <3>2. CASE Delta(q) \/ EndStream(q) \/ Save(q) \/ Finish(q) \/ AskElsewhere(q)
        BY <3>2 DEF Delta, EndStream, Save, Finish, AskElsewhere, Published, Followed, tab
    <3> QED
        BY <1>4, <3>1, <3>2
  <2> QED
      BY <2>1 DEF TabInv
<1>5. ASSUME NEW q \in Requests, Ask(q) PROVE TabInv'
    BY <1>5 DEF Ask, Awaited, TabInv
<1>6. CASE TabStep
  <2>1. CASE Subscribe \/ Deliver \/ UNCHANGED vars
      BY <2>1 DEF Subscribe, Deliver, vars, tab, TabInv
  <2>2. CASE Unstreamed \/ Lose
      BY <2>2 DEF Unstreamed, Lose, TabInv
  <2>3. CASE Leave \/ Open
      BY <2>3 DEF Leave, Open, Awaited, TabInv
  <2>4. ASSUME NEW f \in fetches, ReadMessages(f) \/ ReadRegistry(f) \/ Show(f)
        PROVE  TabInv'
      BY <2>4 DEF ReadMessages, ReadRegistry, Show, TabInv
  <2> QED
      BY <1>6, <2>1, <2>2, <2>3, <2>4 DEF TabStep
<1> QED
    BY <1>3, <1>4, <1>5, <1>6, NextSplit

-----------------------------------------------------------------------------
(* Queues                                                                  *)

\* A sequence and one more.
LEMMA Appending ==
    ASSUME NEW S, NEW s \in Seq(S), NEW e \in S
    PROVE  /\ Append(s, e) \in Seq(S) /\ Append(s, e) # <<>>
           /\ Len(Append(s, e)) = Len(s) + 1 /\ Len(s) \in Nat
           /\ DOMAIN Append(s, e) = DOMAIN s \cup {Len(s) + 1} /\ Len(s) + 1 \notin DOMAIN s
           /\ \A i \in DOMAIN s : Append(s, e)[i] = s[i]
           /\ Append(s, e)[Len(s) + 1] = e /\ Last(Append(s, e)) = e
BY EmptySeq DEF Last

\* A queue without its head.
LEMMA Taking ==
    ASSUME NEW s \in Seq(Event), s # <<>>
    PROVE  /\ Head(s) = s[1] /\ 1 \in DOMAIN s /\ Len(s) \in DOMAIN s /\ s[1] \in Event
           /\ Tail(s) \in Seq(Event) /\ Len(Tail(s)) = Len(s) - 1
           /\ \A i \in DOMAIN Tail(s) : i + 1 \in DOMAIN s /\ Tail(s)[i] = s[i + 1]
           /\ \A i \in DOMAIN s : i # 1 => i - 1 \in DOMAIN Tail(s) /\ Tail(s)[i - 1] = s[i]
           /\ Tail(s) = <<>> => Len(s) = 1 /\ Last(s) = s[1]
           /\ Tail(s) # <<>> => Last(Tail(s)) = Last(s) /\ Len(s) > 1
<1>1. Len(s) \in Nat /\ Len(s) # 0 /\ DOMAIN s = 1..Len(s)
    BY EmptySeq
<1>2. /\ Head(s) = s[1] /\ Tail(s) \in Seq(Event) /\ Len(Tail(s)) = Len(s) - 1
      /\ \A i \in 1..Len(Tail(s)) : Tail(s)[i] = s[i + 1]
    BY <1>1, HeadTailProperties
<1>3. DOMAIN Tail(s) = 1..Len(s) - 1
    BY <1>2
<1>4. s[1] \in Event
    BY <1>1
<1>5. Tail(s) = <<>> => Len(s) = 1
    BY <1>1, <1>2, EmptySeq
<1>6. Tail(s) # <<>> => Len(Tail(s)) \in 1..Len(Tail(s))
    BY <1>2, EmptySeq
<1> HIDE DEF Last
<1>7. Tail(s) # <<>> => Last(Tail(s)) = Last(s)
    BY <1>1, <1>2, <1>6 DEF Last
<1>8. Tail(s) = <<>> => Last(s) = s[1]
    BY <1>5 DEF Last
<1> QED
    BY <1>1, <1>2, <1>3, <1>4, <1>5, <1>6, <1>7, <1>8

\* A queue of one event.
LEMMA Opening ==
    ASSUME NEW e \in Event
    PROVE  <<e>> \in Seq(Event) /\ <<e>> # <<>> /\ DOMAIN <<e>> = {1} /\ <<e>>[1] = e
           /\ Last(<<e>>) = e /\ Len(<<e>>) = 1
BY DEF Last

\* The events a run publishes.
LEMMA Evs ==
    ASSUME NEW e \in {"start", "snapshot", "content", "error", "done"}, NEW n \in Nat, NEW s \in Statuses
    PROVE  /\ Ev(e, n, s) \in Event /\ Ev(e, n, s).event = e
           /\ Ev(e, n, s).text = n /\ Ev(e, n, s).status = s
BY EvType DEF Ev

First(b) == [Ev("start", 0, "streaming") EXCEPT !.body = b]
\* The fields of the `start` line.
LEMMA Firsts ==
    ASSUME NEW b \in Body
    PROVE  First(b) \in Event /\ First(b).event = "start" /\ First(b).text = 0 /\ First(b).body = b
BY EvType DEF First, Ev

\* The fields of a new call.
LEMMA Calls ==
    ASSUME NEW c, NEW q, NEW s
    PROVE  /\ Call(c, q, s).call = c /\ Call(c, q, s).run = q /\ Call(c, q, s).state = s
           /\ Call(c, q, s).queue = <<>>
BY DEF Call

\* How a run changes the stream of the tab.
LEMMA Publishing ==
    ASSUME StreamTyped, NEW q \in Requests, NEW ev \in Event
    PROVE  /\ ~ (Opened /\ stream.run = q) => Published(q, ev) = stream
           /\ Opened /\ stream.run = q =>
                 /\ Published(q, ev) # NoStream =>
                       Published(q, ev) \in StreamType
                 /\ Published(q, ev).call = stream.call /\ Published(q, ev).run = stream.run
                 /\ Published(q, ev).state = "open" /\ Published(q, ev).began = stream.began
                 /\ Published(q, ev).queue = Append(stream.queue, ev)
<1>1. CASE Opened /\ stream.run = q
    BY <1>1 DEF Published, Followed, Opened, StreamTyped, StreamType
<1>2. CASE ~ (Opened /\ stream.run = q)
    BY <1>2 DEF Published, Followed, Opened
<1> QED
    BY <1>1, <1>2

\* What a start does to the stream of the tab, if it waits for it.
LEMMA Starting ==
    ASSUME StreamTyped, NEW q \in Requests, Start(q)
    PROVE  /\ ~Sent(q) => stream' = stream
           /\ Sent(q) => /\ stream'.call = stream.call /\ stream'.run = q
                         /\ stream'.state = "open" /\ stream'.began = stream.began
                         /\ stream'.queue = <<First(body[q])>>
<1>1. stream' = IF Sent(q) THEN [stream EXCEPT !.state = "open", !.queue = <<First(body[q])>>]
                ELSE stream
    BY DEF Start, First
<1> QED
    BY <1>1 DEF StreamTyped, Sent, Followed, StreamType

\* What a refusal does to the stream of the tab, if it waits for it.
LEMMA Refusing ==
    ASSUME StreamTyped, NEW q \in Requests, Refused(q)
    PROVE  /\ ~Sent(q) => stream' = stream
           /\ Sent(q) => /\ stream'.call = stream.call /\ stream'.run = q
                         /\ stream'.state = "refused" /\ stream'.queue = stream.queue
           /\ Goto(q, "over") /\ Forgotten(q)
<1>1. /\ stream' = IF Sent(q) THEN [stream EXCEPT !.state = "refused"] ELSE stream
      /\ Goto(q, "over") /\ Forgotten(q)
    BY ZenonT(20) DEF Refused
<1> QED
    BY <1>1 DEF StreamTyped, Sent, Followed, StreamType

\* What the answer to a reattach does to its stream.
LEMMA Subscribing ==
    ASSUME StreamTyped, Subscribe
    PROVE  /\ stream \in StreamType
           /\ runs \in Requests => /\ stream'.call = "attach" /\ stream'.run = runs
                                   /\ stream'.state = "open"
                                   /\ stream'.queue = <<Ev("snapshot", text, "streaming")>>
           /\ runs \notin Requests => /\ stream'.call = "attach" /\ stream'.run = stream.run
                                      /\ stream'.state = "nothing"
BY DEF StreamTyped, Subscribe, StreamType

\* What an event that arrives leaves of the stream.
LEMMA Delivering ==
    ASSUME StreamTyped, Deliver
    PROVE  /\ stream \in StreamType /\ stream.queue \in Seq(Event) /\ stream.queue # <<>>
           /\ Head(stream.queue).event = "done" => stream' = NoStream
           /\ Head(stream.queue).event # "done" =>
                 /\ stream'.call = stream.call /\ stream'.run = stream.run
                 /\ stream'.state = "open" /\ stream'.queue = Tail(stream.queue)
           /\ shown' = Applied(shown, stream.run, Head(stream.queue))
           /\ spin' = (spin /\ Head(stream.queue).event \notin {"error", "done"})
<1>1. stream \in StreamType /\ stream.state = "open" /\ stream.queue # <<>>
    BY DEF Deliver, StreamTyped
<1>2. stream' = IF Head(stream.queue).event = "done" THEN NoStream
                ELSE [stream EXCEPT !.queue = Tail(@), !.began = TRUE]
    BY DEF Deliver
<1>3. stream.queue \in Seq(Event)
    BY <1>1 DEF StreamType
<1>4. Head(stream.queue).event # "done" =>
          /\ stream'.call = stream.call /\ stream'.run = stream.run
          /\ stream'.state = "open" /\ stream'.queue = Tail(stream.queue)
    BY <1>1, <1>2 DEF StreamType
<1>5. /\ shown' = Applied(shown, stream.run, Head(stream.queue))
      /\ spin' = (spin /\ Head(stream.queue).event \notin {"error", "done"})
    BY DEF Deliver
<1> QED
    BY <1>1, <1>2, <1>3, <1>4, <1>5

\* Every step keeps who is answered, and that `done` is on its way.
LEMMA StreamStep == TypeOK /\ RegistryInv /\ StreamInv /\ [Next]_vars => StreamInv'
<1> SUFFICES ASSUME TypeOK, RegistryInv, StreamInv, [Next]_vars PROVE StreamInv'
    OBVIOUS
<1>t. pc \in [Requests -> Labels] /\ StreamTyped /\ body \in [Requests -> Body]
      /\ text \in Nat /\ outcome \in Statuses
    BY TypeParts, BoundsAssumption
<1> USE DEF Queued
<1>r. ASSUME NEW q \in Requests, pc[q] \in {"sent"} \cup Preparing, Refused(q) PROVE StreamInv'
  <2>1. /\ pc'[q] = "over" /\ \A p \in Requests : p # q => pc'[p] = pc[p]
      BY <1>r, <1>t, Refusing, GotoType DEF Labels
  <2>2. CASE Sent(q)
    <3>1. stream # NoStream /\ stream.call = "post" /\ stream.run = q
        BY <2>2 DEF Sent, Followed
    <3>2. stream'.call = "post" /\ stream'.run = q /\ stream'.state = "refused"
        BY <1>r, <1>t, <2>2, <3>1, Refusing
    <3> QED
        BY <2>1, <3>2 DEF StreamInv
  <2>3. CASE ~Sent(q)
    <3>1. stream' = stream
        BY <1>r, <1>t, <2>3, Refusing
    <3>2. stream # NoStream => stream.run # q
        BY <1>r, <1>t, <2>3, Values DEF StreamInv, Sent, Followed, StreamTyped, StreamType
    <3> QED
        BY <1>t, <2>1, <3>1, <3>2 DEF StreamInv, StreamTyped, StreamType
  <2> QED
      BY <2>2, <2>3
\* A step of a request that keeps the stream.
<1>k. ASSUME NEW q \in Requests, stream' = stream, NEW l \in Labels, pc' = [pc EXCEPT ![q] = l],
             \/ pc[q] \in {"sent"} \cup Preparing /\ l \in {"sent"} \cup Preparing
             \/ pc[q] \in Running /\ l \in Running
             \/ pc[q] = "idle"
      PROVE  StreamInv'
  <2>1. pc'[q] = l /\ \A p \in Requests : p # q => pc'[p] = pc[p]
      BY <1>k, <1>t
  <2> QED
      BY <1>k, <2>1, <1>t DEF StreamInv, StreamTyped, StreamType
<1>1. ASSUME NEW q \in Requests, Reserve(q) \/ Prepare(q) \/ AddReply(q) \/ Fail(q) PROVE StreamInv'
  <2>1. CASE Refused(q) /\ pc[q] \in {"sent"} \cup Preparing
      BY <1>r, <2>1
  <2>2. CASE /\ stream' = stream /\ pc[q] \in {"sent"} \cup Preparing
             /\ \E l \in Preparing : pc' = [pc EXCEPT ![q] = l]
      BY <1>k, <2>2 DEF Labels
  <2>3. CASE Reserve(q)
      BY <2>1, <2>2, <2>3 DEF Reserve, Goto
  <2>4. CASE Prepare(q)
      BY <2>1, <2>2, <2>4 DEF Prepare, Goto
  <2>5. CASE AddReply(q)
      BY <2>2, <2>5 DEF AddReply, Goto
  <2>6. CASE Fail(q)
      BY <2>1, <2>6 DEF Fail
  <2> QED
      BY <1>1, <2>3, <2>4, <2>5, <2>6
<1>2. ASSUME NEW q \in Requests, Start(q) PROVE StreamInv'
  <2>1. pc'[q] = "running" /\ (\A p \in Requests : p # q => pc'[p] = pc[p]) /\ pc[q] = "added"
      BY <1>2, <1>t DEF Start, Goto
  <2>2. CASE Sent(q)
    <3>1. stream # NoStream /\ stream.call = "post" /\ stream.run = q
        BY <2>2 DEF Sent, Followed
    <3>2. First(body[q]) \in Event /\ First(body[q]).event = "start"
        BY <1>t, Firsts
    <3>3. /\ stream'.call = "post" /\ stream'.run = q /\ stream'.state = "open"
          /\ stream'.queue = <<First(body[q])>>
        BY <1>2, <1>t, <2>2, <3>1, Starting
    <3>4. DOMAIN stream'.queue = {1} /\ stream'.queue[1].event = "start"
        BY <3>2, <3>3, Opening
    <3> QED
        BY <2>1, <3>3, <3>4 DEF StreamInv
  <2>3. CASE ~Sent(q)
    <3>1. stream' = stream
        BY <1>2, <1>t, <2>3, Starting
    <3>2. stream # NoStream => stream.run # q
        BY <2>1, <2>3, <1>t, Values DEF StreamInv, Sent, Followed, StreamTyped, StreamType
    <3> QED
        BY <1>t, <2>1, <3>1, <3>2 DEF StreamInv, StreamTyped, StreamType
  <2> QED
      BY <2>2, <2>3
<1>3. ASSUME NEW q \in Requests, Delta(q) \/ EndStream(q) \/ Save(q) PROVE StreamInv'
  <2>1. /\ pc[q] \in Running /\ pc'[q] \in Running
        /\ \A p \in Requests : p # q => pc'[p] = pc[p]
      BY <1>3, <1>t DEF Delta, EndStream, Save, Goto
  <2>2. \/ stream' = stream
        \/ \E ev \in Event : ev.event # "done" /\ stream' = Published(q, ev)
    <3>1. CASE Delta(q)
      <4>1. Ev("content", 1, "streaming") \in Event /\ Ev("content", 1, "streaming").event # "done"
          BY Evs
      <4> QED
          BY <3>1, <4>1 DEF Delta
    <3>2. CASE EndStream(q)
      <4>1. Ev("error", 0, "error") \in Event /\ Ev("error", 0, "error").event # "done"
          BY Evs
      <4> QED
          BY <3>2, <4>1 DEF EndStream
    <3>3. CASE Save(q)
        BY <3>3 DEF Save, tab
    <3> QED
        BY <1>3, <3>1, <3>2, <3>3
  <2>3. CASE stream' = stream
      BY <1>t, <2>1, <2>3 DEF StreamInv, StreamTyped, StreamType
  <2>4. ASSUME NEW ev \in Event, ev.event # "done", stream' = Published(q, ev) PROVE StreamInv'
    <3>1. CASE ~ (Opened /\ stream.run = q)
        BY <1>t, <2>3, <2>4, <3>1, Publishing
    <3>2. CASE Opened /\ stream.run = q
      <4>1. /\ stream'.call = stream.call /\ stream'.run = q
            /\ stream'.state = "open" /\ stream'.queue = Append(stream.queue, ev)
          BY <1>t, <2>4, <3>2, Publishing
      <4>2. stream \in StreamType /\ stream.queue \in Seq(Event)
          BY <1>t, <3>2 DEF StreamTyped, StreamType, Opened
      <4>3. \A i \in DOMAIN stream.queue : stream.queue[i].event # "done"
          BY <2>1, <3>2 DEF StreamInv, Opened
      <4>4. \A i \in DOMAIN stream'.queue : stream'.queue[i].event # "done"
          BY <2>4, <4>1, <4>2, <4>3, Appending
      <4> QED
          BY <2>1, <4>1, <4>2, <4>4 DEF StreamInv, StreamType
    <3> QED
        BY <3>1, <3>2
  <2> QED
      BY <2>2, <2>3, <2>4
<1>4. ASSUME NEW q \in Requests, Finish(q) PROVE StreamInv'
  <2>1. pc'[q] = "over" /\ (\A p \in Requests : p # q => pc'[p] = pc[p]) /\ pc[q] = "saved"
      BY <1>4, <1>t DEF Finish, Goto
  <2> DEFINE ev == Ev("done", text, outcome)
  <2>2. ev \in Event /\ ev.event = "done" /\ stream' = Published(q, ev)
      BY <1>4, <1>t, Evs DEF Finish
  <2> HIDE DEF ev
  <2>3. CASE ~ (Opened /\ stream.run = q)
    <3>1. stream' = stream
        BY <1>t, <2>2, <2>3, Publishing
    <3>2. stream # NoStream => stream.run # q
        BY <2>1, <2>3, <1>t, Values DEF StreamInv, Opened, StreamTyped, StreamType
    <3> QED
        BY <1>t, <2>1, <3>1, <3>2 DEF StreamInv, StreamTyped, StreamType
  <2>4. CASE Opened /\ stream.run = q
    <3>1. /\ stream'.call = stream.call /\ stream'.run = q
          /\ stream'.state = "open" /\ stream'.queue = Append(stream.queue, ev)
        BY <1>t, <2>2, <2>4, Publishing
    <3>2. stream \in StreamType /\ stream.queue \in Seq(Event)
        BY <1>t, <2>4 DEF StreamTyped, StreamType, Opened
    <3>3. stream'.queue # <<>> /\ Last(stream'.queue).event = "done"
        BY <2>2, <3>1, <3>2, Appending
    <3> QED
        BY <2>1, <3>1, <3>2, <3>3 DEF StreamInv, StreamType
  <2> QED
      BY <2>3, <2>4
<1>5. ASSUME NEW q \in Requests, Ask(q) PROVE StreamInv'
  <2>1. pc'[q] = "sent"
      BY <1>5, <1>t DEF Ask, Goto
  <2>2. stream'.call = "post" /\ stream'.run = q /\ stream'.state = "sent"
      BY <1>5, Calls DEF Ask
  <2> QED
      BY <2>1, <2>2 DEF StreamInv
<1>6. ASSUME NEW q \in Requests, AskElsewhere(q) PROVE StreamInv'
    BY <1>6, <1>k DEF AskElsewhere, Goto, Made, tab, Labels
<1>7. CASE TabStep
  <2>1. UNCHANGED pc
      BY <1>7, TabStepServer
  <2>2. CASE Subscribe
    <3>0. stream # NoStream /\ stream.call = "attach" /\ stream.state = "sent" /\ stream.run = 0
        BY <2>2 DEF Subscribe, StreamInv
    <3>1. CASE runs \in Requests
      <4>1. /\ stream'.call = "attach" /\ stream'.run = runs /\ stream'.state = "open"
            /\ stream'.queue = <<Ev("snapshot", text, "streaming")>>
          BY <1>t, <2>2, <3>1, Subscribing
      <4>2. DOMAIN stream'.queue = {1} /\ stream'.queue[1].event = "snapshot"
          BY <1>t, <4>1, Evs, Opening
      <4>3. pc[runs] \in Running
          BY <3>1 DEF RegistryInv
      <4> QED
          BY <2>1, <3>1, <4>1, <4>2, <4>3 DEF StreamInv
    <3>2. CASE runs \notin Requests
        BY <1>t, <2>1, <2>2, <3>0, <3>2, Subscribing DEF StreamInv
    <3> QED
        BY <3>1, <3>2
  <2>3. CASE Deliver
    <3>1. CASE Head(stream.queue).event = "done"
        BY <1>t, <2>3, <3>1, Delivering DEF StreamInv
    <3>2. CASE Head(stream.queue).event # "done"
      <4>1. /\ stream'.call = stream.call /\ stream'.run = stream.run
            /\ stream'.state = "open" /\ stream'.queue = Tail(stream.queue)
          BY <1>t, <2>3, <3>2, Delivering
      <4>2. stream # NoStream /\ stream.queue \in Seq(Event) /\ stream.queue # <<>>
            /\ stream.state = "open"
          BY <1>t, <2>3, Delivering DEF Deliver
      <4>3. /\ \A i \in DOMAIN Tail(stream.queue) :
                  i + 1 \in DOMAIN stream.queue /\ Tail(stream.queue)[i] = stream.queue[i + 1]
            /\ Tail(stream.queue) = <<>> => Last(stream.queue) = Head(stream.queue)
            /\ Tail(stream.queue) # <<>> => Last(Tail(stream.queue)) = Last(stream.queue)
          BY <4>2, Taking
      <4>4. \/ pc[stream.run] \in Running /\ ~Queued("done")
            \/ pc[stream.run] = "over" /\ Last(stream.queue).event = "done"
          BY <4>2 DEF StreamInv
      <4>5. CASE pc[stream.run] \in Running /\ ~Queued("done")
          BY <2>1, <4>1, <4>2, <4>3, <4>5 DEF StreamInv
      <4>6. CASE pc[stream.run] = "over" /\ Last(stream.queue).event = "done"
          BY <2>1, <3>2, <4>1, <4>2, <4>3, <4>6 DEF StreamInv
      <4> QED
          BY <4>4, <4>5, <4>6
    <3> QED
        BY <3>1, <3>2
  <2>4. CASE stream' = NoStream \/ stream' = stream
      BY <2>1, <2>4 DEF StreamInv
  <2>5. CASE Unstreamed \/ Lose \/ Leave \/ Open \/ UNCHANGED vars
      BY <2>4, <2>5 DEF Unstreamed, Lose, Leave, Open, vars, tab
  <2>6. ASSUME NEW f \in fetches, ReadMessages(f) \/ ReadRegistry(f) \/ Show(f) PROVE StreamInv'
    <3>1. \/ stream' = stream \/ stream' = Call("attach", 0, "sent")
        BY <2>6 DEF ReadMessages, ReadRegistry, Show
    <3>2. CASE stream' = Call("attach", 0, "sent")
        BY <3>2, Calls DEF StreamInv
    <3> QED
        BY <2>4, <3>1, <3>2
  <2> QED
      BY <1>7, <2>2, <2>3, <2>5, <2>6 DEF TabStep
<1> QED
    BY <1>1, <1>2, <1>3, <1>4, <1>5, <1>6, <1>7, NextSplit

FirstInv == TypeOK /\ RegistryInv /\ BodyInv /\ TabInv /\ StreamInv

\* All of it holds at the start.
LEMMA FirstInit == Init => FirstInv
BY TypeInit, Values DEF Init, FirstInv, RegistryInv, BodyInv, TabInv, StreamInv

\* All of it is kept by every step.
LEMMA FirstStep == FirstInv /\ [Next]_vars => FirstInv'
BY TypeStep, RegistryStep, BodyStep, TabInvStep, StreamStep DEF FirstInv

\* Whoever follows a run has `done` on its way, or the run is still in the
\* registry and will publish it; nothing is published after `done`.
THEOREM DoneOrNo == Spec => []DoneOrNoRun
<1>1. FirstInv => DoneOrNoRun
    BY DEF FirstInv, RegistryInv, StreamInv, DoneOrNoRun, Queued, Last, StreamType, TypeOK
<1> QED
    BY <1>1, FirstInit, FirstStep, PTL DEF Spec

-----------------------------------------------------------------------------
(* Messages                                                                *)

\* The positions of a list of messages.
LEMMA Rows ==
    ASSUME NEW h \in Seq(Message)
    PROVE  /\ Len(h) \in Nat /\ DOMAIN h = 1..Len(h)
           /\ \A i \in DOMAIN h : h[i] \in Message
           /\ h # <<>> => Len(h) \in DOMAIN h
BY EmptySeq

\* The first messages of a list.
LEMMA Stretch ==
    ASSUME NEW h \in Seq(Message), NEW n \in Nat, n <= Len(h)
    PROVE  /\ SubSeq(h, 1, n) \in Seq(Message) /\ Len(SubSeq(h, 1, n)) = n
           /\ \A i \in 1..n : SubSeq(h, 1, n)[i] = h[i]
<1>1. \A i \in 1..n : i \in DOMAIN h /\ 1 + i - 1 = i /\ 1 + i = i + 1
    BY Rows
<1>2. SubSeq(h, 1, n) \in Seq(Message)
    BY StretchType
<1> QED
    BY <1>1, <1>2, SubSeqProperties, Rows

\* A list of messages without its last.
LEMMA Fronts ==
    ASSUME NEW h \in Seq(Message), h # <<>>
    PROVE  /\ Front(h) \in Seq(Message) /\ Len(Front(h)) = Len(h) - 1 /\ Len(h) - 1 \in Nat
           /\ \A i \in 1..Len(h) - 1 : Front(h)[i] = h[i]
<1> DEFINE n == Len(h) - 1
<1>1. n \in Nat /\ n <= Len(h) /\ Front(h) = SubSeq(h, 1, n)
    BY Rows DEF Front
<1> HIDE DEF n
<1>2. Front(h) \in Seq(Message) /\ Len(Front(h)) = n /\ \A i \in 1..n : Front(h)[i] = h[i]
    BY <1>1, Stretch
<1> QED
    BY <1>1, <1>2 DEF n

\* A list of messages and one more.
LEMMA AppendRow ==
    ASSUME NEW h \in Seq(Message), NEW m \in Message
    PROVE  /\ Append(h, m) \in Seq(Message) /\ Append(h, m) # <<>>
           /\ Len(Append(h, m)) = Len(h) + 1
           /\ DOMAIN Append(h, m) = DOMAIN h \cup {Len(h) + 1}
           /\ \A i \in DOMAIN h : Append(h, m)[i] = h[i]
           /\ Append(h, m)[Len(h) + 1] = m /\ Last(Append(h, m)) = m
BY Appending

\* The same messages make the same sequence.
LEMMA SameRows ==
    ASSUME NEW g \in Seq(Message), NEW h \in Seq(Message), Len(g) = Len(h),
           \A i \in 1..Len(h) : g[i] = h[i]
    PROVE  g = h
BY SeqEqual

\* The fields of a user's message.
LEMMA AskRow == \A q, w : Asks(q, w).role = "user" /\ Asks(q, w).id = q /\ Asks(q, w).status = "complete"
                          /\ Asks(q, w).text = w
BY DEF Asks

\* The fields of a reply.
LEMMA ReplyRow == \A q, s, n : Replies(q, s, n).role = "assistant" /\ Replies(q, s, n).id = q
                               /\ Replies(q, s, n).status = s /\ Replies(q, s, n).text = n
BY DEF Replies

-----------------------------------------------------------------------------
(* What is stored                                                          *)

Unsettled == {"added", "running", "ending"}

\* No request has two rows of a role.
Once(h) == \A i, j \in DOMAIN h : h[i].role = h[j].role /\ h[i].id = h[j].id => i = j

\* A row is of the first exchange, or of a request that came this far.
Known(m, pcs) ==
    \/ m.id = 0
    \/ /\ m.id \in Requests /\ pcs[m.id] \notin {"idle", "sent", "reserved"}
       /\ m.role # "user" => pcs[m.id] # "prepared"

\* The reply being written is the last row.
StoredInv ==
    /\ \A q \in Requests : pc[q] \in Unsettled =>
          stored # <<>> /\ Last(stored) = Replies(q, "streaming", 0)
    /\ \A q \in Requests : pc[q] = "saved" =>
          stored # <<>> /\ Last(stored) = Replies(q, outcome, text)
    /\ Once(stored)
    /\ \A i \in DOMAIN stored : Known(stored[i], pc)

\* A new message leaves no request with two rows of a role.
LEMMA OnceAppend ==
    ASSUME NEW h \in Seq(Message), NEW m \in Message, Once(h),
           \A i \in DOMAIN h : ~ (h[i].role = m.role /\ h[i].id = m.id)
    PROVE  Once(Append(h, m))
BY Appending DEF Once

\* Neither does dropping the last ones.
LEMMA OnceStretch ==
    ASSUME NEW h \in Seq(Message), NEW n \in Nat, n <= Len(h), Once(h)
    PROVE  Once(SubSeq(h, 1, n))
<1>1. DOMAIN SubSeq(h, 1, n) = 1..n
    BY Stretch, Rows
<1>2. \A i \in 1..n : i \in DOMAIN h /\ SubSeq(h, 1, n)[i] = h[i]
    BY Stretch, Rows
<1> QED
    BY <1>1, <1>2 DEF Once

\* The final save is of the last row alone.
LEMMA SettledRows ==
    ASSUME NEW h \in Seq(Message), Once(h), h # <<>>, NEW q \in Requests,
           Last(h).role = "assistant", Last(h).id = q, outcome \in Statuses, text \in Nat
    PROVE  /\ Settled(h, q) \in Seq(Message) /\ Len(Settled(h, q)) = Len(h)
           /\ Last(Settled(h, q)) = Replies(q, outcome, text)
           /\ \A i \in 1..Len(h) - 1 : Settled(h, q)[i] = h[i]
           /\ Once(Settled(h, q)) /\ Settled(h, q) # <<>>
<1> DEFINE g == Settled(h, q)
<1>1. g \in Seq(Message) /\ DOMAIN g = DOMAIN h
    BY SettledType
<1>2. Len(g) = Len(h)
    BY <1>1, Rows
<1>3. Len(h) \in DOMAIN h /\ DOMAIN h = 1..Len(h) /\ Len(h) \in Nat
    BY Rows
<1>4. g[Len(h)] = Replies(q, outcome, text)
    BY <1>3 DEF Settled, Last
<1>5. ASSUME NEW i \in 1..Len(h) - 1 PROVE g[i] = h[i]
    BY <1>3 DEF Settled, Once, Last
<1>6. \A i \in DOMAIN h : g[i].role = h[i].role /\ g[i].id = h[i].id
    BY ReplyRow DEF Settled
<1> HIDE DEF g
<1>7. Once(g)
    BY <1>1, <1>6 DEF Once
<1>8. g # <<>>
    BY <1>1, <1>3, EmptySeq
<1> QED
    BY <1>1, <1>2, <1>4, <1>5, <1>7, <1>8 DEF Last, g

\* The user side of a request that is prepared.
LEMMA PreparedRows ==
    ASSUME TypeOK, BodyInv, StoredInv, NEW q \in Requests, pc[q] = "reserved",
           ~ (body[q].kind = "edit" /\ Place(stored, body[q].pivot) = 0)
    PROVE  /\ Prepared(q) \in Seq(Message) /\ Once(Prepared(q))
           /\ \A i \in DOMAIN Prepared(q) :
                 Prepared(q)[i].id = q \/ Known(Prepared(q)[i], pc)
           /\ \A i \in DOMAIN Prepared(q) :
                 Prepared(q)[i].id = q => Prepared(q)[i].role = "user"
<1>t. /\ stored \in Seq(Message) /\ body[q] \in Body
      /\ body[q].kind \in Kinds /\ body[q].pivot \in {0} \cup Requests
    BY TypeParts DEF Body
<1>0. \A i \in DOMAIN stored : stored[i].id # q /\ Known(stored[i], pc)
    BY Values DEF StoredInv, Known
<1>m. /\ Asks(q, q) \in Message /\ Asks(body[q].pivot, q) \in Message
    BY <1>t, RowType, RequestsNat
<1>1. CASE body[q].kind = "send"
  <2>1. Prepared(q) = Append(stored, Asks(q, q))
      BY <1>1 DEF Prepared
  <2>2. Once(Prepared(q))
      BY <1>0, <1>m, <1>t, <2>1, AskRow, OnceAppend DEF StoredInv
  <2> QED
      BY <1>0, <1>m, <1>t, <2>1, <2>2, AskRow, Appending
<1>2. CASE body[q].kind = "edit"
  <2> DEFINE n == Place(stored, body[q].pivot) - 1
             h == SubSeq(stored, 1, n)
             m == Asks(body[q].pivot, q)
  <2>1. /\ n \in Nat /\ n <= Len(stored) /\ n + 1 \in DOMAIN stored
        /\ stored[n + 1].role = "user" /\ stored[n + 1].id = body[q].pivot
      BY <1>2, <1>t, Rows, PlaceType
  <2>2. Prepared(q) = Append(h, m)
      BY <1>2 DEF Prepared
  <2>3. Once(stored)
      BY DEF StoredInv
  <2> HIDE DEF n
  <2>4. /\ h \in Seq(Message) /\ Once(h) /\ DOMAIN h = 1..n
        /\ \A i \in DOMAIN h : h[i] = stored[i] /\ i \in DOMAIN stored /\ i < n + 1
      BY <1>t, <2>1, <2>3, Stretch, OnceStretch, Rows
  <2>5. m \in Message /\ m.role = "user" /\ m.id = body[q].pivot
      BY <1>m, AskRow
  <2> HIDE DEF h, m
  <2>6. \A i \in DOMAIN h : ~ (h[i].role = m.role /\ h[i].id = m.id)
      BY <2>1, <2>3, <2>4, <2>5 DEF Once
  <2>7. Once(Append(h, m))
      BY <2>4, <2>5, <2>6, OnceAppend
  <2>8. Known(m, pc) /\ m.id # q
    <3>1. Known(stored[n + 1], pc) /\ stored[n + 1].id # q
        BY <1>0, <2>1
    <3> QED
        BY <2>1, <2>5, <3>1 DEF Known
  <2>a. /\ Append(h, m) \in Seq(Message) /\ DOMAIN Append(h, m) = DOMAIN h \cup {Len(h) + 1}
        /\ \A i \in DOMAIN h : Append(h, m)[i] = h[i]
        /\ Append(h, m)[Len(h) + 1] = m
      BY <2>4, <2>5, AppendRow
  <2>9. /\ Append(h, m) \in Seq(Message)
        /\ \A i \in DOMAIN Append(h, m) : 
                  \/ i \in DOMAIN h /\ Append(h, m)[i] = h[i]
                  \/ Append(h, m)[i] = m
      BY <2>a
  <2>10. \A i \in DOMAIN Append(h, m) : /\ Append(h, m)[i].id # q
                                         /\ Known(Append(h, m)[i], pc)
      BY <1>0, <2>4, <2>8, <2>9
  <2> QED
      BY <2>2, <2>7, <2>9, <2>10
<1>3. CASE body[q].kind = "regenerate"
  <2>1. CASE EndsInReply(stored)
    <3>1. Prepared(q) = Front(stored) /\ stored # <<>>
        BY <1>3, <2>1 DEF Prepared, EndsInReply
    <3>2. Len(stored) - 1 \in Nat /\ Len(stored) - 1 <= Len(stored)
        BY <1>t, <3>1, Fronts, Rows
    <3>3. Once(Front(stored))
        BY <1>t, <3>2, OnceStretch DEF Front, StoredInv
    <3>4. \A i \in DOMAIN Front(stored) : i \in DOMAIN stored /\ Front(stored)[i] = stored[i]
      <4>1. Front(stored) \in Seq(Message) /\ Len(Front(stored)) = Len(stored) - 1
            /\ \A i \in 1..Len(stored) - 1 : Front(stored)[i] = stored[i]
          BY <1>t, <3>1, Fronts
      <4>2. DOMAIN Front(stored) = 1..Len(stored) - 1
          BY <4>1, Rows
      <4> QED
          BY <1>t, <3>2, <4>1, <4>2, Rows
    <3> QED
        BY <1>0, <1>t, <3>1, <3>3, <3>4, Fronts
  <2>2. CASE ~EndsInReply(stored)
    <3>1. Prepared(q) = stored
        BY <1>3, <2>2 DEF Prepared
    <3> QED
        BY <1>0, <1>t, <3>1 DEF StoredInv
  <2> QED
      BY <2>1, <2>2
<1> QED
    BY <1>1, <1>2, <1>3, <1>t

\* Every step keeps what is told of the rows.
LEMMA StoredStep ==
    TypeOK /\ RegistryInv /\ BodyInv /\ StoredInv /\ [Next]_vars => StoredInv'
<1> SUFFICES ASSUME TypeOK, RegistryInv, BodyInv, StoredInv, [Next]_vars PROVE StoredInv'
    OBVIOUS
<1>t. /\ pc \in [Requests -> Labels] /\ stored \in Seq(Message)
      /\ text \in Nat /\ outcome \in Statuses
    BY TypeParts, BoundsAssumption
<1>v. \A q \in Requests : q # runs => pc[q] \notin Running
    BY DEF RegistryInv
\* A step of a request that writes nothing.
<1>k. ASSUME NEW q \in Requests, NEW l \in Labels, pc' = [pc EXCEPT ![q] = l], stored' = stored,
             l \notin {"idle", "sent", "reserved", "prepared"} \/ pc[q] \in {"idle", "sent"},
             l \in Unsettled => pc[q] \in Unsettled,
             l # "saved",
             \A p \in Requests : p # q /\ pc[p] = "saved" => outcome' = outcome /\ text' = text
      PROVE  StoredInv'
  <2>1. pc'[q] = l /\ \A p \in Requests : p # q => pc'[p] = pc[p]
      BY <1>k, <1>t
  <2>2. \A m : Known(m, pc) => Known(m, pc')
      BY <1>k, <2>1 DEF Known
  <2>3. \A p \in Requests : pc'[p] \in Unsettled => pc[p] \in Unsettled
      BY <1>k, <2>1
  <2>4. \A p \in Requests : pc'[p] = "saved" => pc[p] = "saved" /\ outcome' = outcome /\ text' = text
      BY <1>k, <2>1
  <2>5. \A p \in Requests : pc'[p] \in Unsettled =>
            stored' # <<>> /\ Last(stored') = Replies(p, "streaming", 0)
      BY <1>k, <2>3 DEF StoredInv
  <2>6. \A p \in Requests : pc'[p] = "saved" =>
            stored' # <<>> /\ Last(stored') = Replies(p, outcome', text')
      BY <1>k, <2>4 DEF StoredInv
  <2>7. Once(stored') /\ \A i \in DOMAIN stored' : Known(stored'[i], pc')
      BY <1>k, <2>2 DEF StoredInv
  <2> QED
      BY <2>5, <2>6, <2>7 DEF StoredInv
<1>1. ASSUME NEW q \in Requests, Reserve(q) \/ Fail(q) \/ AskElsewhere(q) \/ Ask(q) PROVE StoredInv'
  <2>1. PICK l \in {"reserved", "sent", "over"} :
              /\ pc' = [pc EXCEPT ![q] = l] /\ UNCHANGED <<stored, outcome, text>>
              /\ l \in {"reserved", "sent"} => pc[q] \in {"idle", "sent"}
    <3>1. CASE Reserve(q)
        BY <1>t, <3>1, Refusing DEF Reserve, Goto, Refused
    <3>2. CASE Fail(q)
        BY <1>t, <3>2 DEF Fail, Goto, Refused
    <3>3. CASE AskElsewhere(q) \/ Ask(q)
        BY <3>3 DEF AskElsewhere, Ask, Made, Goto
    <3> QED
        BY <1>1, <3>1, <3>2, <3>3
  <2> QED
      BY <1>k, <2>1 DEF Labels, Unsettled
<1>2. ASSUME NEW q \in Requests, Start(q) \/ Delta(q) \/ EndStream(q) \/ Finish(q) PROVE StoredInv'
  <2>1. \A p \in Requests : p # q => pc[p] # "saved"
      BY <1>2, <1>v, Values DEF RegistryInv, Start, Delta, EndStream, Finish
  <2>2. CASE Start(q)
    <3>1. pc' = [pc EXCEPT ![q] = "running"] /\ stored' = stored /\ pc[q] = "added"
          /\ outcome' = outcome
        BY <2>2 DEF Start, Goto
    <3>2. \A p \in Requests : p # q /\ pc[p] = "saved" => outcome' = outcome /\ text' = text
        BY <2>1
    <3> QED
        BY <1>k, <3>1, <3>2 DEF Unsettled, Labels
  <2>3. CASE Delta(q)
    <3>1. pc' = [pc EXCEPT ![q] = "running"] /\ stored' = stored /\ pc[q] = "running" /\ runs = q
        BY <1>t, <2>3 DEF Delta, RegistryInv
    <3> QED
        BY <1>k, <2>1, <3>1 DEF Unsettled, Labels
  <2>4. CASE EndStream(q)
      BY <1>k, <2>1, <2>4 DEF EndStream, Goto, Unsettled, Labels, RegistryInv
  <2>5. CASE Finish(q)
      BY <1>k, <2>1, <2>5 DEF Finish, Goto, Unsettled, Labels, RegistryInv
  <2> QED
      BY <1>2, <2>2, <2>3, <2>4, <2>5
<1>3. ASSUME NEW q \in Requests, Prepare(q) PROVE StoredInv'
  <2>1. CASE body[q].kind = "edit" /\ Place(stored, body[q].pivot) = 0
    <3>1. /\ pc' = [pc EXCEPT ![q] = "over"] /\ UNCHANGED <<stored, outcome, text>>
      <4>1. Refused(q) /\ UNCHANGED <<stored, outcome, text>>
          BY <1>3, <2>1 DEF Prepare
      <4> QED
          BY <1>t, <4>1, Refusing, TypeParts DEF Goto
    <3> QED
        BY <1>k, <3>1 DEF Labels, Unsettled
  <2>2. CASE ~ (body[q].kind = "edit" /\ Place(stored, body[q].pivot) = 0)
    <3>1. pc[q] = "reserved" /\ stored' = Prepared(q) /\ pc' = [pc EXCEPT ![q] = "prepared"]
        BY <1>3, <2>2 DEF Prepare, Goto
    <3>2. \A p \in Requests : p # q => pc[p] \notin Unsettled \cup {"saved"} /\ pc'[p] = pc[p]
        BY <1>t, <3>1, Values DEF RegistryInv, Unsettled
    <3>3. pc'[q] = "prepared"
        BY <1>t, <3>1
    <3>4. /\ Once(Prepared(q))
          /\ \A i \in DOMAIN Prepared(q) : Prepared(q)[i].id = q \/ Known(Prepared(q)[i], pc)
          /\ \A i \in DOMAIN Prepared(q) : Prepared(q)[i].id = q => Prepared(q)[i].role = "user"
        BY <2>2, <3>1, PreparedRows
    <3>5. \A i \in DOMAIN Prepared(q) : Known(Prepared(q)[i], pc')
        BY <3>2, <3>3, <3>4 DEF Known
    <3> QED
        BY <3>1, <3>2, <3>3, <3>4, <3>5 DEF StoredInv, Unsettled
  <2> QED
      BY <2>1, <2>2
<1>4. ASSUME NEW q \in Requests, AddReply(q) PROVE StoredInv'
  <2> DEFINE m == Replies(q, "streaming", 0)
  <2>1. /\ pc[q] = "prepared" /\ stored' = Append(stored, m) /\ pc'[q] = "added"
        /\ \A p \in Requests : p # q => pc'[p] = pc[p]
      BY <1>4, <1>t DEF AddReply, Goto
  <2>2. \A p \in Requests : p # q => pc[p] \notin Unsettled \cup {"saved"}
    <3>1. pc[q] \in Preparing
        BY <2>1
    <3>2. runs = Reserved
        BY <3>1 DEF RegistryInv
    <3>3. \A p \in Requests : pc[p] \notin Running
        BY <3>2, Values DEF RegistryInv
    <3>4. \A p \in Requests : p # q => pc[p] # "added"
        BY <3>1 DEF RegistryInv
    <3> QED
        BY <3>3, <3>4 DEF Unsettled
  <2>3. m \in Message /\ m.role = "assistant" /\ m.id = q
    <3>1. m \in Message
        BY RowType
    <3> QED
        BY <3>1, ReplyRow
  <2>m. m = Replies(q, "streaming", 0)
      OBVIOUS
  <2> HIDE DEF m
  <2>4. \A i \in DOMAIN stored : ~ (stored[i].role = m.role /\ stored[i].id = m.id)
      BY <2>1, <2>3, Values DEF StoredInv, Known
  <2>5. Once(Append(stored, m))
      BY <1>t, <2>3, <2>4, OnceAppend DEF StoredInv
  <2>6. Known(m, pc') /\ \A x : Known(x, pc) => Known(x, pc')
      BY <2>1, <2>3 DEF Known
  <2>7. \A i \in DOMAIN stored' : Known(stored'[i], pc')
      BY <1>t, <2>1, <2>3, <2>6, Appending DEF StoredInv
  <2>8. stored' # <<>> /\ Last(stored') = m
      BY <1>t, <2>1, <2>3, Appending
  <2>9. \A p \in Requests : pc'[p] \in Unsettled \cup {"saved"} => p = q /\ pc'[p] = "added"
      BY <2>1, <2>2
  <2> QED
      BY <2>1, <2>m, <2>5, <2>7, <2>8, <2>9 DEF StoredInv, Unsettled
<1>5. ASSUME NEW q \in Requests, Save(q) PROVE StoredInv'
  <2>1. /\ pc[q] = "ending" /\ stored' = Settled(stored, q) /\ pc'[q] = "saved"
        /\ (\A p \in Requests : p # q => pc'[p] = pc[p]) /\ outcome' = outcome /\ text' = text
      BY <1>5, <1>t DEF Save, Goto
  <2>2. stored # <<>> /\ Last(stored) = Replies(q, "streaming", 0) /\ Once(stored)
      BY <2>1 DEF StoredInv, Unsettled
  <2>3. /\ Last(stored') = Replies(q, outcome, text) /\ Once(stored') /\ stored' # <<>>
      BY <1>t, <2>1, <2>2, ReplyRow, SettledRows
  <2>4. DOMAIN stored' = DOMAIN stored
      BY <1>t, <2>1, SettledType
  <2>5. \A i \in DOMAIN stored : stored'[i].role = stored[i].role /\ stored'[i].id = stored[i].id
      BY <2>1, ReplyRow DEF Settled
  <2>6. \A x, y : Known(x, pc) /\ x.role = y.role /\ x.id = y.id => Known(y, pc')
      BY <2>1 DEF Known
  <2>7. \A i \in DOMAIN stored' : Known(stored'[i], pc')
      BY <2>4, <2>5, <2>6 DEF StoredInv
  <2>8. \A p \in Requests : pc'[p] \in Unsettled \cup {"saved"} => p = q /\ pc'[p] = "saved"
      BY <2>1, Values DEF RegistryInv, Unsettled
  <2> QED
      BY <2>1, <2>3, <2>7, <2>8 DEF StoredInv, Unsettled
<1>6. CASE TabStep
    BY <1>6, TabStepServer DEF StoredInv
<1> QED
    BY <1>1, <1>2, <1>3, <1>4, <1>5, <1>6, NextSplit

\* The first exchange is stored at the start.
LEMMA StoredInit == Init => StoredInv
<1> SUFFICES ASSUME Init PROVE StoredInv
    OBVIOUS
<1>1. \A q \in Requests : pc[q] = "idle"
    BY DEF Init
<1>2. stored = <<Asks(0, 0), Replies(0, "complete", 1)>>
    BY DEF Init
<1>3. Asks(0, 0) \in Message /\ Replies(0, "complete", 1) \in Message
    BY RowType
<1>4. /\ DOMAIN stored = 1..2 /\ stored[1].id = 0 /\ stored[2].id = 0
      /\ stored[1].role = "user" /\ stored[2].role = "assistant"
    BY <1>2, AskRow, ReplyRow
<1> QED
    BY <1>1, <1>4 DEF StoredInv, Once, Known, Unsettled

-----------------------------------------------------------------------------
(* What was read                                                           *)

\* h is stored but for what its last reply says.
Like(h, rows) ==
    /\ Len(h) = Len(rows)
    /\ \A i \in 1 .. Len(h) - 1 : h[i] = rows[i]
    /\ h # <<>> => Last(h).role = Last(rows).role /\ Last(h).id = Last(rows).id

\* h was read, and nothing came since but what the run at work writes.
AsRead(h, rows, pcs) ==
    /\ Like(h, rows)
    /\ h # rows => EndsInReply(h) /\ Last(h).status = "streaming"
    /\ (\A i \in DOMAIN h : h[i].status # "streaming") =>
           \A q \in Requests : pcs[q] \notin Unsettled

FetchInv == \A f \in fetches : f.step # "sent" /\ ~f.old => AsRead(f.messages, stored, pc)

AttachInv == ~stale /\ stream # NoStream /\ stream.call = "attach" /\ stream.state = "sent" =>
    AsRead(shown, stored, pc)

\* The run at work writes the last row only.
LEMMA SavedRows ==
    ASSUME TypeOK, StoredInv, NEW q \in Requests, Save(q)
    PROVE  /\ stored # <<>> /\ Last(stored) = Replies(q, "streaming", 0)
           /\ stored' \in Seq(Message) /\ Len(stored') = Len(stored)
           /\ Last(stored') = Replies(q, outcome, text)
           /\ \A i \in 1..Len(stored) - 1 : stored'[i] = stored[i]
<1>1. /\ pc[q] = "ending" /\ stored' = Settled(stored, q) /\ stored \in Seq(Message)
      /\ outcome \in Statuses /\ text \in Nat
    BY TypeParts, BoundsAssumption DEF Save
<1>2. stored # <<>> /\ Last(stored) = Replies(q, "streaming", 0) /\ Once(stored)
    BY <1>1 DEF StoredInv, Unsettled
<1> QED
    BY <1>1, <1>2, ReplyRow, SettledRows

\* The final save leaves what was read as good as it was.
LEMMA AsReadSaved ==
    ASSUME TypeOK, StoredInv, NEW q \in Requests, Save(q),
           NEW h \in Seq(Message), AsRead(h, stored, pc)
    PROVE  AsRead(h, stored', pc')
<1>1. /\ stored # <<>> /\ Last(stored) = Replies(q, "streaming", 0)
      /\ stored' \in Seq(Message) /\ Len(stored') = Len(stored)
      /\ Last(stored') = Replies(q, outcome, text)
      /\ \A i \in 1..Len(stored) - 1 : stored'[i] = stored[i]
    BY SavedRows
<1>2. /\ Last(stored).role = "assistant" /\ Last(stored).id = q /\ Last(stored).status = "streaming"
      /\ Last(stored').role = "assistant" /\ Last(stored').id = q
    BY <1>1, ReplyRow
<1>3. stored \in Seq(Message) /\ Len(h) = Len(stored) /\ pc \in [Requests -> Labels]
    BY TypeParts DEF AsRead, Like
<1>4. Like(h, stored')
    BY <1>1, <1>2, <1>3 DEF Like, AsRead
<1>5. EndsInReply(h) /\ Last(h).status = "streaming"
    BY <1>1, <1>2, <1>3 DEF AsRead, EndsInReply, Last
<1>6. \A p \in Requests : pc'[p] \in Unsettled => pc[p] \in Unsettled
    BY <1>3 DEF Save, Goto, Unsettled
<1> QED
    BY <1>4, <1>5, <1>6 DEF AsRead

\* What is stored is as good as read now.
LEMMA AsReadStored ==
    ASSUME TypeOK, StoredInv
    PROVE  AsRead(stored, stored, pc)
<1>1. stored \in Seq(Message)
    BY TypeParts
<1>2. ASSUME NEW q \in Requests, pc[q] \in Unsettled
      PROVE  \E i \in DOMAIN stored : stored[i].status = "streaming"
    BY <1>1, <1>2, Rows, ReplyRow DEF StoredInv, Last
<1> QED
    BY <1>2 DEF AsRead, Like

\* The steps of requests that write no row and settle none.
Quietly == /\ stored' = stored
           /\ \A q \in Requests : pc'[q] \in Unsettled => pc[q] \in Unsettled

\* The steps of a request that write no row and add no unsettled reply.
LEMMA QuietSteps ==
    ASSUME TypeOK, NEW q \in Requests,
           \/ Reserve(q) \/ Fail(q) \/ Start(q) \/ Delta(q) \/ EndStream(q) \/ Finish(q)
           \/ AskElsewhere(q) \/ Ask(q)
    PROVE  Quietly
<1>t. pc \in [Requests -> Labels]
    BY TypeParts
<1>1. CASE Reserve(q)
    BY <1>1, <1>t DEF Reserve, Refused, Goto, Quietly, Unsettled
<1>2. CASE Fail(q)
    BY <1>2, <1>t DEF Fail, Refused, Goto, Quietly, Unsettled
<1>3. CASE Start(q)
    BY <1>3, <1>t DEF Start, Goto, Quietly, Unsettled
<1>4. CASE Delta(q) \/ EndStream(q) \/ Finish(q)
    BY <1>4, <1>t DEF Delta, EndStream, Finish, Goto, Quietly, Unsettled
<1>5. CASE AskElsewhere(q) \/ Ask(q)
    BY <1>5, <1>t DEF AskElsewhere, Ask, Goto, Quietly, Unsettled
<1> QED
    BY <1>1, <1>2, <1>3, <1>4, <1>5

\* A handler that prepares writes rows, or refuses.
LEMMA PrepareSteps ==
    ASSUME TypeOK, NEW q \in Requests, Prepare(q)
    PROVE  \/ /\ Refused(q) /\ Quietly /\ UNCHANGED <<stored, fetches, stale, shown>>
              /\ runs' = Absent
              /\ body[q].kind = "edit" /\ Place(stored, body[q].pivot) = 0
           \/ /\ Written(q) /\ UNCHANGED <<stream, shown, runs, body>>
              /\ stored' = Prepared(q) /\ pc' = [pc EXCEPT ![q] = "prepared"]
              /\ ~ (body[q].kind = "edit" /\ Place(stored, body[q].pivot) = 0)
<1>t. pc \in [Requests -> Labels] /\ StreamTyped
    BY TypeParts
<1>1. CASE body[q].kind = "edit" /\ Place(stored, body[q].pivot) = 0
  <2>1. Refused(q) /\ UNCHANGED <<stored, fetches, stale, shown>> /\ runs' = Absent
      BY <1>1 DEF Prepare
  <2>2. pc' = [pc EXCEPT ![q] = "over"]
      BY <1>t, <2>1, Refusing DEF Goto
  <2>3. Quietly
      BY <1>t, <2>1, <2>2 DEF Quietly, Unsettled
  <2> QED
      BY <1>1, <2>1, <2>3
<1>2. CASE ~ (body[q].kind = "edit" /\ Place(stored, body[q].pivot) = 0)
    BY <1>2 DEF Prepare, Goto
<1> QED
    BY <1>1, <1>2

\* What was written is known to the tab, or makes every answer old.
LEMMA WrittenFetches ==
    ASSUME TypeOK, NEW q \in Requests, Written(q)
    PROVE  \/ Sent(q) /\ UNCHANGED <<stale, fetches>>
           \/ /\ ~Sent(q) /\ stale' = TRUE
              /\ \A f \in fetches' : f.step # "sent" => f.old
<1>1. CASE ~Sent(q)
  <2>1. stale' = TRUE /\ fetches' = {[f EXCEPT !.old = f.step # "sent"] : f \in fetches}
      BY <1>1 DEF Written
  <2>2. fetches \subseteq FetchType
      BY TypeParts
  <2>3. \A f \in FetchType : LET g == [f EXCEPT !.old = f.step # "sent"] IN
            g.step # "sent" => g.old
      BY DEF FetchType
  <2> QED
      BY <1>1, <2>1, <2>2, <2>3
<1> QED
    BY <1>1 DEF Written

\* Every step keeps what an answer that is not old holds.
LEMMA FetchStep ==
    TypeOK /\ TabInv /\ StoredInv /\ FetchInv /\ [Next]_vars => FetchInv'
<1> SUFFICES ASSUME TypeOK, TabInv, StoredInv, FetchInv, [Next]_vars PROVE FetchInv'
    OBVIOUS
<1>t. fetches \subseteq FetchType /\ \A f \in fetches : f.messages \in Seq(Message)
    BY TypeParts DEF FetchType
<1>1. CASE Quietly /\ fetches' \subseteq fetches
    BY <1>1 DEF FetchInv, AsRead, Quietly
<1>2. ASSUME NEW q \in Requests, Prepare(q) \/ AddReply(q) PROVE FetchInv'
  <2>1. CASE Written(q)
    <3>1. CASE Sent(q)
        BY <2>1, <3>1, WrittenFetches DEF Sent, Followed, TabInv, FetchInv
    <3> QED
        BY <2>1, <3>1, WrittenFetches DEF FetchInv
  <2> QED
      BY <1>1, <1>2, <2>1, PrepareSteps DEF AddReply
<1>3. ASSUME NEW q \in Requests,
             \/ Reserve(q) \/ Fail(q) \/ Start(q) \/ Delta(q) \/ EndStream(q) \/ Finish(q)
             \/ AskElsewhere(q) \/ Ask(q)
      PROVE  FetchInv'
  <2>1. fetches' \subseteq fetches
      BY <1>3 DEF Reserve, Fail, Start, Delta, EndStream, Finish, AskElsewhere, Ask, tab, Awaited
  <2> QED
      BY <1>1, <1>3, <2>1, QuietSteps
<1>4. ASSUME NEW q \in Requests, Save(q) PROVE FetchInv'
  <2>1. fetches' = fetches
      BY <1>4 DEF Save, tab
  <2> QED
      BY <1>4, <1>t, <2>1, AsReadSaved DEF FetchInv
<1>5. CASE TabStep
  <2>1. Quietly /\ UNCHANGED <<stored, pc>>
      BY <1>5, TabStepServer DEF Quietly
  <2>2. ASSUME NEW w \in {"open", "again"}, fetches' \subseteq fetches \cup {Fetch(w)}
        PROVE  FetchInv'
    <3>1. Fetch(w).step = "sent"
        BY DEF Fetch
    <3> QED
        BY <2>1, <2>2, <3>1 DEF FetchInv
  <2>3. CASE Subscribe \/ Deliver \/ Leave \/ UNCHANGED vars
      BY <1>1, <2>1, <2>3 DEF Subscribe, Deliver, Leave, Awaited, vars, tab
  <2>4. CASE Unstreamed \/ Lose \/ Open
      BY <2>2, <2>4 DEF Unstreamed, Lose, Open, Awaited
  <2>5. ASSUME NEW f \in fetches, ReadMessages(f) PROVE FetchInv'
    <3> DEFINE g == [f EXCEPT !.step = "read", !.messages = stored]
    <3>1. fetches' \subseteq fetches \cup {g} /\ f \in FetchType
        BY <1>t, <2>5 DEF ReadMessages
    <3>2. g.messages = stored
        BY <3>1 DEF FetchType
    <3>3. AsRead(g.messages, stored, pc)
        BY <3>2, AsReadStored
    <3> HIDE DEF g
    <3> QED
        BY <2>1, <3>1, <3>3 DEF FetchInv
  <2>6. ASSUME NEW f \in fetches, ReadRegistry(f) PROVE FetchInv'
    <3> DEFINE s == runs \in Requests
               g == [f EXCEPT !.step = "answered", !.streaming = s]
    <3> HIDE DEF s
    <3>1. fetches' \subseteq fetches \cup {g} /\ f \in FetchType /\ f.step = "read"
        BY <1>t, <2>6 DEF ReadRegistry, s
    <3>2. g.messages = f.messages /\ g.old = f.old
        BY <3>1 DEF FetchType
    <3>3. ~g.old => AsRead(g.messages, stored, pc)
        BY <3>1, <3>2 DEF FetchInv
    <3> HIDE DEF g
    <3> QED
        BY <2>1, <3>1, <3>3 DEF FetchInv
  <2>7. ASSUME NEW f \in fetches, Show(f) PROVE FetchInv'
      BY <1>1, <2>1, <2>7 DEF Show
  <2> QED
      BY <1>5, <2>3, <2>4, <2>5, <2>6, <2>7 DEF TabStep
<1> QED
    BY <1>2, <1>3, <1>4, <1>5, NextSplit

\* Every step keeps what a tab that reattaches shows.
LEMMA AttachStep ==
    TypeOK /\ TabInv /\ StoredInv /\ FetchInv /\ AttachInv /\ [Next]_vars => AttachInv'
<1> SUFFICES ASSUME TypeOK, TabInv, StoredInv, FetchInv, AttachInv, [Next]_vars PROVE AttachInv'
    OBVIOUS
<1>t. StreamTyped /\ shown \in Seq(Message) /\ text \in Nat /\ outcome \in Statuses
      /\ body \in [Requests -> Body]
    BY TypeParts, BoundsAssumption
<1> DEFINE Waits == stream # NoStream /\ stream.call = "attach" /\ stream.state = "sent"
<1>1. CASE Quietly /\ (Waits' => Waits) /\ shown' = shown /\ (stale => stale')
    BY <1>1 DEF AttachInv, AsRead, Quietly
<1>2. ASSUME NEW q \in Requests, Refused(q) PROVE Waits' => Waits
    BY <1>2, <1>t, Refusing DEF Sent, Followed
<1>3. ASSUME NEW q \in Requests, Prepare(q) \/ AddReply(q) PROVE AttachInv'
  <2>1. CASE Written(q) /\ stream' = stream
      BY <2>1, WrittenFetches DEF Sent, Followed, AttachInv
  <2> QED
      BY <1>1, <1>2, <1>3, <2>1, PrepareSteps DEF AddReply
<1>4. ASSUME NEW q \in Requests, NEW ev \in Event, stream' = stream \/ stream' = Published(q, ev)
      PROVE  Waits' => Waits
    BY <1>t, <1>4, Publishing DEF Opened
<1>5. ASSUME NEW q \in Requests,
             Reserve(q) \/ Fail(q) \/ Start(q) \/ Delta(q) \/ EndStream(q) \/ Finish(q) \/ AskElsewhere(q)
      PROVE  AttachInv'
  <2>1. Waits' => Waits
    <3>1. CASE Reserve(q) \/ Fail(q)
        BY <1>2, <3>1 DEF Reserve, Fail
    <3>2. CASE Start(q)
        BY <1>t, <3>2, Starting DEF Sent, Followed
    <3>3. CASE Delta(q) \/ EndStream(q) \/ Finish(q)
        BY <1>4, <1>t, <3>3, Evs DEF Delta, EndStream, Finish
    <3>4. CASE AskElsewhere(q)
        BY <3>4 DEF AskElsewhere, tab
    <3> QED
        BY <1>5, <3>1, <3>2, <3>3, <3>4
  <2>2. shown' = shown /\ stale' = stale
      BY <1>5 DEF Reserve, Fail, Start, Delta, EndStream, Finish, AskElsewhere, tab
  <2> QED
      BY <1>1, <1>5, <2>1, <2>2, QuietSteps
<1>6. ASSUME NEW q \in Requests, Save(q) PROVE AttachInv'
  <2>1. PICK h \in Seq(Message) : h = shown
      BY <1>t
  <2>2. UNCHANGED <<stream, shown, stale>>
      BY <1>6 DEF Save, tab
  <2>3. AsRead(h, stored, pc) => AsRead(h, stored', pc')
      BY <1>6, AsReadSaved
  <2> QED
      BY <2>1, <2>2, <2>3 DEF AttachInv
<1>7. ASSUME NEW q \in Requests, Ask(q) PROVE AttachInv'
    BY <1>7, Calls DEF Ask, AttachInv
<1>8. CASE TabStep
  <2>1. Quietly /\ UNCHANGED <<stored, pc>>
      BY <1>8, TabStepServer DEF Quietly
  <2>2. CASE Subscribe
      BY <1>t, <2>2, Subscribing DEF AttachInv
  <2>3. CASE Deliver
      BY <1>t, <2>3, Delivering DEF AttachInv
  <2>4. CASE Unstreamed \/ Lose \/ Leave \/ Open \/ UNCHANGED vars
      BY <1>1, <2>1, <2>4 DEF Unstreamed, Lose, Leave, Open, vars, tab, AttachInv
  <2>5. ASSUME NEW f \in fetches, ReadMessages(f) \/ ReadRegistry(f) PROVE AttachInv'
      BY <1>1, <2>1, <2>5 DEF ReadMessages, ReadRegistry
  <2>6. ASSUME NEW f \in fetches, Show(f) PROVE AttachInv'
    <3>1. f.step = "answered" /\ shown' = f.messages /\ (f.old => stale')
        BY <2>6 DEF Show
    <3>2. ~f.old => AsRead(f.messages, stored, pc)
        BY <3>1 DEF FetchInv
    <3> QED
        BY <2>1, <3>1, <3>2 DEF AttachInv
  <2> QED
      BY <1>8, <2>2, <2>3, <2>4, <2>5, <2>6 DEF TabStep
<1> QED
    BY <1>3, <1>5, <1>6, <1>7, <1>8, NextSplit

-----------------------------------------------------------------------------
(* The deltas on their way                                                 *)

Deltas(s) == {i \in DOMAIN s : s[i].event = "content"}

\* The deltas in a queue can be counted.
LEMMA ComingFinite ==
    ASSUME NEW s \in Seq(Event)
    PROVE  IsFiniteSet(Deltas(s)) /\ Coming(s) = Cardinality(Deltas(s)) /\ Coming(s) \in Nat
<1>1. Deltas(s) \subseteq 1..Len(s) /\ Len(s) \in Nat
    BY DEF Deltas
<1>2. IsFiniteSet(1..Len(s))
    BY <1>1, FS_Interval
<1>3. IsFiniteSet(Deltas(s))
    BY <1>1, <1>2, FS_Subset
<1> QED
    BY <1>3, FS_CardinalityType DEF Coming, Deltas

\* A queue of one event.
LEMMA ComingOne ==
    ASSUME NEW e \in Event
    PROVE  Coming(<<e>>) = IF e.event = "content" THEN 1 ELSE 0
<1>1. Deltas(<<e>>) = IF e.event = "content" THEN {1} ELSE {}
    BY Opening DEF Deltas
<1>2. Coming(<<e>>) = Cardinality(Deltas(<<e>>))
    BY Opening, ComingFinite
<1> QED
    BY <1>1, <1>2, FS_EmptySet, FS_Singleton

\* A delta counts once it is published...
LEMMA ComingAppend ==
    ASSUME NEW s \in Seq(Event), NEW e \in Event
    PROVE  Coming(Append(s, e)) = Coming(s) + (IF e.event = "content" THEN 1 ELSE 0)
<1> DEFINE t == Append(s, e)
           n == Len(s) + 1
<1>1. /\ t \in Seq(Event) /\ DOMAIN t = DOMAIN s \cup {n} /\ n \notin DOMAIN s
      /\ \A i \in DOMAIN s : t[i] = s[i]
      /\ t[n] = e
    BY Appending
<1>2. /\ IsFiniteSet(Deltas(s)) /\ Coming(s) = Cardinality(Deltas(s)) /\ Coming(s) \in Nat
      /\ Coming(t) = Cardinality(Deltas(t))
    BY <1>1, ComingFinite
<1> HIDE DEF t, n
<1>3. CASE e.event = "content"
  <2>1. Deltas(t) = Deltas(s) \cup {n} /\ n \notin Deltas(s)
      BY <1>1, <1>3 DEF Deltas
  <2>2. Cardinality(Deltas(s) \cup {n}) = Cardinality(Deltas(s)) + 1
      BY <1>2, <2>1, FS_AddElement
  <2> QED
      BY <1>2, <1>3, <2>1, <2>2 DEF t
<1>4. CASE e.event # "content"
  <2>1. Deltas(t) = Deltas(s)
      BY <1>1, <1>4 DEF Deltas
  <2> QED
      BY <1>2, <1>4, <2>1 DEF t
<1> QED
    BY <1>3, <1>4

\* ... until it is delivered.
LEMMA ComingTail ==
    ASSUME NEW s \in Seq(Event), s # <<>>
    PROVE  Coming(s) = Coming(Tail(s)) + (IF Head(s).event = "content" THEN 1 ELSE 0)
<1> DEFINE t == Tail(s)
           D == Deltas(s) \ {1}
           f == [i \in Deltas(t) |-> i + 1]
<1>1. /\ Head(s) = s[1] /\ 1 \in DOMAIN s
      /\ t \in Seq(Event)
      /\ \A i \in DOMAIN t : i + 1 \in DOMAIN s /\ t[i] = s[i + 1]
      /\ \A i \in DOMAIN s : i # 1 => i - 1 \in DOMAIN t /\ t[i - 1] = s[i]
    BY Taking
<1>2. /\ IsFiniteSet(Deltas(s)) /\ Coming(s) = Cardinality(Deltas(s)) /\ Coming(s) \in Nat
      /\ IsFiniteSet(Deltas(t)) /\ Coming(t) = Cardinality(Deltas(t)) /\ Coming(t) \in Nat
    BY <1>1, ComingFinite
<1>3. DOMAIN s \subseteq Nat \ {0} /\ DOMAIN t \subseteq Nat \ {0}
    BY <1>1
<1> HIDE DEF t
<1>4. \A i \in Deltas(t) : i + 1 \in D
    BY <1>1, <1>3 DEF Deltas
<1>5. ASSUME NEW j \in D PROVE j - 1 \in Deltas(t) /\ j = (j - 1) + 1
  <2>1. j \in DOMAIN s /\ j # 1 /\ s[j].event = "content"
      BY DEF Deltas
  <2>2. j - 1 \in DOMAIN t /\ t[j - 1] = s[j]
      BY <1>1, <2>1
  <2>3. j = (j - 1) + 1
      BY <1>3, <2>1
  <2> QED
      BY <2>1, <2>2, <2>3 DEF Deltas
<1>6. \A i \in Deltas(t) : i \in Nat
    BY <1>3 DEF Deltas
<1> HIDE DEF D
<1>7. f \in [Deltas(t) -> D]
    BY <1>4
<1>8. \A a, b \in Deltas(t) : f[a] = f[b] => a = b
    BY <1>6
<1>9. \A j \in D : \E i \in Deltas(t) : f[i] = j
    BY <1>5
<1>10. ExistsBijection(Deltas(t), D)
    BY <1>7, <1>8, <1>9 DEF ExistsBijection, Bijection, Injection, Surjection, IsInjective
<1>11. Cardinality(D) = Coming(t) /\ IsFiniteSet(D)
    BY <1>2, <1>10, FS_Bijection
<1>12. CASE Head(s).event = "content"
  <2>1. Deltas(s) = D \cup {1} /\ 1 \notin D
      BY <1>1, <1>12 DEF Deltas, D
  <2>2. Cardinality(D \cup {1}) = Cardinality(D) + 1
      BY <1>11, <2>1, FS_AddElement
  <2> QED
      BY <1>2, <1>11, <1>12, <2>1, <2>2 DEF t
<1>13. CASE Head(s).event # "content"
  <2>1. Deltas(s) = D
      BY <1>1, <1>13 DEF Deltas, D
  <2> QED
      BY <1>2, <1>11, <1>13, <2>1 DEF t
<1> QED
    BY <1>12, <1>13

-----------------------------------------------------------------------------
(* What the tab has had, and what is coming                                *)

\* The first event tells where the run stands, the others what is new.
Ordered(s) == \A i \in DOMAIN s :
    /\ s[i].event \in {"start", "snapshot"} => i = 1
    /\ s[i].event = "start" => s[i].text = 0
    /\ s[i].event = "content" => s[i].text = 1

EventsInv == Opened => Ordered(stream.queue)

\* Publishing keeps the events in order.
LEMMA OrderedAppend ==
    ASSUME NEW s \in Seq(Event), Ordered(s), NEW e \in Event, e.event \notin {"start", "snapshot"},
           e.event = "content" => e.text = 1
    PROVE  Ordered(Append(s, e))
BY Appending DEF Ordered

\* So does delivering.
LEMMA OrderedTail ==
    ASSUME NEW s \in Seq(Event), s # <<>>, Ordered(s)
    PROVE  /\ Ordered(Tail(s))
           /\ \A i \in DOMAIN Tail(s) : Tail(s)[i].event \notin {"start", "snapshot"}
<1>1. /\ \A i \in DOMAIN Tail(s) : i + 1 \in DOMAIN s /\ Tail(s)[i] = s[i + 1]
      /\ DOMAIN Tail(s) \subseteq Nat \ {0} /\ DOMAIN s \subseteq Nat \ {0}
    BY Taking
<1>2. \A i \in DOMAIN Tail(s) : Tail(s)[i].event \notin {"start", "snapshot"}
    BY <1>1 DEF Ordered
<1> QED
    BY <1>1, <1>2 DEF Ordered

\* What the steps of a request make of the tab's stream.
LEMMA RequestStreams ==
    ASSUME TypeOK, NEW q \in Requests,
           \/ Delta(q) \/ EndStream(q) \/ Finish(q)
    PROVE  \/ stream' = stream
           \/ \E ev \in Event : /\ ev.event \notin {"start", "snapshot"}
                                /\ ev.event = "content" => ev.text = 1
                                /\ stream' = Published(q, ev)
<1>t. text \in Nat /\ outcome \in Statuses
    BY TypeParts, BoundsAssumption
<1>1. CASE Delta(q)
  <2>1. /\ Ev("content", 1, "streaming") \in Event /\ Ev("content", 1, "streaming").event = "content"
        /\ Ev("content", 1, "streaming").text = 1
      BY Evs
  <2> QED
      BY <1>1, <2>1 DEF Delta
<1>2. CASE EndStream(q)
  <2>1. Ev("error", 0, "error") \in Event /\ Ev("error", 0, "error").event = "error"
      BY Evs
  <2> QED
      BY <1>2, <2>1 DEF EndStream
<1>3. CASE Finish(q)
  <2>1. Ev("done", text, outcome) \in Event /\ Ev("done", text, outcome).event = "done"
      BY <1>t, Evs
  <2> QED
      BY <1>3, <2>1 DEF Finish
<1> QED
    BY <1>1, <1>2, <1>3

\* Every step keeps the events in order.
LEMMA EventsStep == TypeOK /\ EventsInv /\ [Next]_vars => EventsInv'
<1> SUFFICES ASSUME TypeOK, EventsInv, [Next]_vars PROVE EventsInv'
    OBVIOUS
<1>t. StreamTyped /\ body \in [Requests -> Body] /\ text \in Nat
    BY TypeParts, BoundsAssumption
<1>o. Opened => stream.queue \in Seq(Event)
    BY <1>t DEF StreamTyped, Opened, StreamType
<1>0. CASE stream' = stream \/ stream' = NoStream \/ stream'.state # "open"
    BY <1>0 DEF EventsInv, Opened
<1>1. ASSUME NEW q \in Requests, Refused(q) PROVE EventsInv'
  <2>1. stream' = stream \/ stream'.state # "open"
      BY <1>1, <1>t, Refusing
  <2> QED
      BY <1>0, <2>1
<1>2. ASSUME NEW q \in Requests, Prepare(q) PROVE EventsInv'
    BY <1>0, <1>1, <1>2, PrepareSteps
<1>3. ASSUME NEW q \in Requests, Reserve(q) \/ AddReply(q) \/ Fail(q) PROVE EventsInv'
  <2>1. stream' = stream \/ Refused(q)
      BY <1>3 DEF Reserve, AddReply, Fail
  <2> QED
      BY <1>0, <1>1, <2>1
<1>4. ASSUME NEW q \in Requests, Start(q) PROVE EventsInv'
  <2>1. CASE Sent(q)
    <3>1. First(body[q]) \in Event /\ First(body[q]).event = "start" /\ First(body[q]).text = 0
        BY <1>t, Firsts
    <3>2. stream'.queue = <<First(body[q])>>
        BY <1>4, <1>t, <2>1, Starting
    <3>3. DOMAIN stream'.queue = {1} /\ stream'.queue[1] = First(body[q])
        BY <3>1, <3>2, Opening
    <3> QED
        BY <3>1, <3>3 DEF EventsInv, Ordered
  <2> QED
      BY <1>0, <1>4, <1>t, <2>1, Starting
<1>5. ASSUME NEW q \in Requests, Delta(q) \/ EndStream(q) \/ Finish(q) PROVE EventsInv'
  <2>1. ASSUME NEW ev \in Event, ev.event \notin {"start", "snapshot"},
               ev.event = "content" => ev.text = 1, stream' = Published(q, ev)
        PROVE  EventsInv'
    <3>1. CASE Opened /\ stream.run = q
      <4>1. stream'.queue = Append(stream.queue, ev)
          BY <1>t, <2>1, <3>1, Publishing
      <4>2. Ordered(Append(stream.queue, ev))
          BY <1>o, <2>1, <3>1, OrderedAppend DEF EventsInv
      <4> QED
          BY <4>1, <4>2 DEF EventsInv
    <3> QED
        BY <1>0, <1>t, <2>1, <3>1, Publishing
  <2> QED
      BY <1>0, <1>5, <2>1, RequestStreams
<1>6. ASSUME NEW q \in Requests, Save(q) \/ AskElsewhere(q) PROVE EventsInv'
    BY <1>0, <1>6 DEF Save, AskElsewhere, tab
<1>7. ASSUME NEW q \in Requests, Ask(q) PROVE EventsInv'
    BY <1>0, <1>7, Calls DEF Ask
<1>8. CASE TabStep
  <2>1. CASE Subscribe
    <3>1. CASE runs \in Requests
      <4>1. stream'.queue = <<Ev("snapshot", text, "streaming")>>
          BY <1>t, <2>1, <3>1, Subscribing
      <4>2. DOMAIN stream'.queue = {1} /\ stream'.queue[1].event = "snapshot"
          BY <1>t, <4>1, Evs, Opening
      <4> QED
          BY <4>2 DEF EventsInv, Ordered
    <3> QED
        BY <1>0, <1>t, <2>1, <3>1, Subscribing
  <2>2. CASE Deliver
    <3>1. CASE Head(stream.queue).event # "done"
      <4>1. stream'.queue = Tail(stream.queue) /\ stream.queue \in Seq(Event)
            /\ stream.queue # <<>> /\ Opened
          BY <1>t, <2>2, <3>1, Delivering DEF Deliver, Opened
      <4>2. Ordered(Tail(stream.queue))
          BY <4>1, OrderedTail DEF EventsInv
      <4> QED
          BY <4>1, <4>2 DEF EventsInv
    <3> QED
        BY <1>0, <1>t, <2>2, <3>1, Delivering
  <2>3. CASE Unstreamed \/ Lose \/ Leave \/ Open \/ UNCHANGED vars
      BY <1>0, <2>3 DEF Unstreamed, Lose, Leave, Open, vars, tab
  <2>4. ASSUME NEW f \in fetches, ReadMessages(f) \/ ReadRegistry(f) \/ Show(f) PROVE EventsInv'
      BY <1>0, <2>4, Calls DEF ReadMessages, ReadRegistry, Show
  <2> QED
      BY <1>8, <2>1, <2>2, <2>3, <2>4 DEF TabStep
<1> QED
    BY <1>2, <1>3, <1>4, <1>5, <1>6, <1>7, <1>8, NextSplit

EndsWith(h, q) == EndsInReply(h) /\ Last(h).id = q
Begins(s) == s # <<>> /\ s[1].event \in {"start", "snapshot"}
Had(s, h) == IF Begins(s) THEN s[1].text ELSE Last(h).text
All(s, q) == IF runs = q THEN text ELSE Last(s).text

\* The text the tab has had, and the deltas on their way, are those of the run.
FlowInv == Opened /\ ~stale =>
    /\ (Begins(stream.queue) /\ stream.queue[1].event = "start") \/ EndsWith(shown, stream.run)
    /\ Had(stream.queue, shown) + Coming(stream.queue) = All(stream.queue, stream.run)

\* Publishing leaves the first event first.
LEMMA BeginsAppend ==
    ASSUME NEW s \in Seq(Event), NEW e \in Event, e.event \notin {"start", "snapshot"}
    PROVE  /\ Begins(Append(s, e)) <=> Begins(s)
           /\ Begins(s) => Append(s, e)[1] = s[1]
<1>1. CASE s = <<>>
  <2>1. Append(s, e)[1] = e
      BY <1>1
  <2> QED
      BY <1>1, <2>1 DEF Begins
<1>2. CASE s # <<>>
  <2>1. 1 \in DOMAIN s /\ Append(s, e)[1] = s[1] /\ Append(s, e) # <<>>
      BY <1>2, Taking, Appending
  <2> QED
      BY <1>2, <2>1 DEF Begins
<1> QED
    BY <1>1, <1>2

\* Delivering leaves no first event.
LEMMA BeginsTail ==
    ASSUME NEW s \in Seq(Event), s # <<>>, Ordered(s)
    PROVE  ~Begins(Tail(s))
<1>1. ASSUME Tail(s) # <<>> PROVE 1 \in DOMAIN Tail(s)
    BY <1>1, Taking
<1> QED
    BY <1>1, OrderedTail DEF Begins

\* The reply on which the events are applied.
LEMMA OnLastRows ==
    ASSUME NEW h \in Seq(Message), NEW q, EndsWith(h, q), NEW m \in Message,
           m.role = "assistant", m.id = q
    PROVE  /\ EndsWith(Append(Front(h), m), q) /\ Last(Append(Front(h), m)) = m
           /\ Append(Front(h), m) \in Seq(Message) /\ Len(Append(Front(h), m)) = Len(h)
           /\ \A i \in 1..Len(h) - 1 : Append(Front(h), m)[i] = h[i]
<1>1. h # <<>>
    BY DEF EndsWith, EndsInReply
<1>2. /\ Front(h) \in Seq(Message) /\ Len(Front(h)) = Len(h) - 1 /\ Len(h) - 1 \in Nat
      /\ \A i \in 1..Len(h) - 1 : Front(h)[i] = h[i]
    BY <1>1, Fronts
<1>3. DOMAIN Front(h) = 1..Len(h) - 1
    BY <1>2, Rows
<1> DEFINE g == Append(Front(h), m)
<1>4. /\ g \in Seq(Message) /\ g # <<>> /\ Len(g) = Len(h) /\ Last(g) = m
      /\ \A i \in 1..Len(h) - 1 : g[i] = h[i]
    BY <1>2, <1>3, AppendRow
<1> HIDE DEF g
<1>5. EndsWith(g, q)
    BY <1>4 DEF EndsWith, EndsInReply, Last
<1> QED
    BY <1>4, <1>5 DEF g

\* What events change in a reply.
LEMMA Changes ==
    ASSUME NEW m \in Message
    PROVE  /\ \A n \in Nat : /\ Says(m, n) \in Message /\ Says(m, n).role = m.role
                             /\ Says(m, n).id = m.id /\ Says(m, n).status = m.status
                             /\ Says(m, n).text = n
           /\ Fails(m) \in Message /\ Fails(m).role = m.role /\ Fails(m).id = m.id
           /\ Fails(m).status = "error" /\ Fails(m).text = m.text /\ m.text \in Nat
BY DEF Says, Fails, Message

\* `start` ends the list with the reply.
LEMMA BegunRows ==
    ASSUME NEW h \in Seq(Message), NEW q \in Requests, NEW b \in Body
    PROVE  /\ Begun(h, q, b) \in Seq(Message) /\ EndsWith(Begun(h, q, b), q)
           /\ Last(Begun(h, q, b)) = Replies(q, "streaming", 0)
<1> DEFINE g == IF b.kind = "regenerate" THEN h ELSE Append(h, Asks(b.pivot, q))
<1>1. Asks(b.pivot, q) \in Message /\ Replies(q, "streaming", 0) \in Message
    BY RowType, RequestsNat DEF Body
<1>2. g \in Seq(Message)
    BY <1>1, AppendType
<1>3. Begun(h, q, b) = Append(g, Replies(q, "streaming", 0))
    BY DEF Begun
<1> HIDE DEF g
<1>4. /\ Begun(h, q, b) \in Seq(Message) /\ Begun(h, q, b) # <<>>
      /\ Last(Begun(h, q, b)) = Replies(q, "streaming", 0)
    BY <1>1, <1>2, <1>3, AppendRow
<1> QED
    BY <1>4, ReplyRow DEF EndsWith, EndsInReply, Last

\* The run that a request is, or was, is the one registered.
LEMMA RunOf ==
    ASSUME TypeOK, RegistryInv, StreamInv, Opened
    PROVE  /\ stream.run \in Requests /\ stream.queue \in Seq(Event) /\ stream \in StreamType
           /\ runs = stream.run <=> pc[stream.run] \in Running
           /\ runs # stream.run => pc[stream.run] = "over" /\ stream.queue # <<>>
                                   /\ Last(stream.queue).event = "done"
<1>1. stream \in StreamType /\ stream # NoStream /\ stream.state = "open"
    BY TypeParts DEF Opened, StreamTyped
<1>2. stream.call \in {"post", "attach"} /\ stream.queue \in Seq(Event)
    BY <1>1 DEF StreamType
<1>3. stream.run \in Requests
    BY <1>1, <1>2 DEF StreamInv
<1>4. runs = stream.run <=> pc[stream.run] \in Running
    BY <1>3 DEF RegistryInv
<1> QED
    BY <1>1, <1>2, <1>3, <1>4 DEF StreamInv

\* An event of the run reaches the tab.
LEMMA DeliverFlow ==
    ASSUME TypeOK, RegistryInv, StreamInv, EventsInv, FlowInv, Deliver
    PROVE  FlowInv'
<1>t. StreamTyped /\ shown \in Seq(Message)
    BY TypeParts
<1> DEFINE s == stream.queue
           q == stream.run
           e == Head(s)
<1>1. UNCHANGED <<runs, text, stale>>
    BY DEF Deliver, server
<1> SUFFICES ASSUME Opened', ~stale' PROVE FlowInv'
    BY DEF FlowInv
<1>2. CASE e.event = "done"
    BY <1>t, <1>2, Delivering DEF Opened
<1>3. CASE e.event # "done"
  <2>1. /\ stream'.run = q /\ stream'.queue = Tail(s) /\ s \in Seq(Event) /\ s # <<>>
        /\ shown' = Applied(shown, q, e) /\ Opened
      BY <1>t, <1>3, Delivering DEF Opened, Deliver
  <2>2. /\ e = s[1] /\ s[1] \in Event /\ Tail(s) \in Seq(Event) /\ Ordered(s) /\ 1 \in DOMAIN s
        /\ Tail(s) = <<>> => Last(s) = e
        /\ Tail(s) # <<>> => Last(Tail(s)) = Last(s)
      BY <2>1, Taking DEF EventsInv
  <2>3. ~Begins(Tail(s))
      BY <2>1, <2>2, BeginsTail
  <2>4. q \in Requests /\ (runs # q => Last(s).event = "done")
      BY <2>1, RunOf
  <2>6. /\ (Begins(s) /\ s[1].event = "start") \/ EndsWith(shown, q)
        /\ Had(s, shown) + Coming(s) = All(s, q)
      BY <1>1, <2>1 DEF FlowInv
  <2>7. /\ Coming(s) = Coming(Tail(s)) + (IF e.event = "content" THEN 1 ELSE 0)
        /\ Coming(Tail(s)) \in Nat
      BY <2>1, <2>2, ComingTail, ComingFinite
  <2>8. /\ e.event \in {"start", "snapshot", "content", "error"} /\ e.text \in Nat /\ e.body \in Body
        /\ e.event = "start" => e.text = 0
        /\ e.event = "content" => e.text = 1
      BY <1>3, <2>1, <2>2 DEF Event, Ordered
  <2> SUFFICES EndsWith(shown', q) /\ Last(shown').text + Coming(Tail(s)) = All(s, q)
    <3>1. ASSUME EndsWith(shown', q) /\ Last(shown').text + Coming(Tail(s)) = All(s, q)
          PROVE  FlowInv'
      <4>1. Had(Tail(s), shown') = Last(shown').text
          BY <2>3 DEF Had
      <4>2. /\ EndsWith(shown', stream'.run)
            /\ Had(stream'.queue, shown') + Coming(stream'.queue) = All(s, q)
          BY <2>1, <3>1, <4>1
      <4>3. All(s, q) = IF runs' = stream'.run THEN text' ELSE Last(stream'.queue).text
          BY <1>1, <1>3, <2>1, <2>2, <2>4 DEF All
      <4> HIDE DEF s, q, e
      <4> QED
          BY <4>2, <4>3 DEF FlowInv, All
    <3> QED
        BY <3>1
  <2> HIDE DEF s, q, e
  <2>9. CASE e.event = "start"
    <3>1. shown' = Begun(shown, q, e.body)
        BY <2>1, <2>9, AppliedStart
    <3>2. EndsWith(shown', q) /\ Last(shown') = Replies(q, "streaming", 0)
        BY <1>t, <2>4, <2>8, <3>1, BegunRows
    <3>3. Last(shown').text = 0
        BY <3>2, ReplyRow
    <3>4. Had(s, shown) = 0
        BY <2>1, <2>2, <2>8, <2>9 DEF Had, Begins
    <3> QED
        BY <2>6, <2>7, <2>9, <3>2, <3>3, <3>4
  <2>10. CASE e.event # "start"
    <3>1. EndsWith(shown, q) /\ EndsInReply(shown)
        BY <2>2, <2>6, <2>10 DEF EndsWith
    <3> DEFINE m == Last(shown)
    <3>2. m \in Message /\ m.role = "assistant" /\ m.id = q /\ m.text \in Nat /\ shown[Len(shown)] = m
        BY <1>t, <3>1, Rows, Changes DEF EndsWith, EndsInReply, Last
    <3> HIDE DEF m
    <3>3. CASE e.event = "error"
      <4>1. shown' = Append(Front(shown), Fails(m))
          BY <2>1, <3>1, <3>2, <3>3, AppliedError
      <4>2. Fails(m) \in Message /\ Fails(m).role = "assistant" /\ Fails(m).id = q /\ Fails(m).text = m.text
          BY <3>2, Changes
      <4>3. EndsWith(shown', q) /\ Last(shown') = Fails(m)
          BY <1>t, <3>1, <4>1, <4>2, OnLastRows
      <4>4. Had(s, shown) = m.text
          BY <2>2, <3>3 DEF Had, Begins, m
      <4> QED
          BY <2>6, <2>7, <3>3, <4>2, <4>3, <4>4
    <3>4. CASE e.event \in {"snapshot", "content"}
      <4> DEFINE n == IF e.event = "snapshot" THEN e.text ELSE m.text + e.text
      <4>1. n \in Nat /\ shown' = Append(Front(shown), Says(m, n))
          BY <2>1, <2>8, <3>1, <3>2, <3>4, AppliedText
      <4>2. CASE e.event = "snapshot"
        <5>1. n = e.text /\ Had(s, shown) = e.text
            BY <2>1, <2>2, <4>2 DEF Had, Begins
        <5> HIDE DEF n
        <5>2. Says(m, n) \in Message /\ Says(m, n).role = "assistant" /\ Says(m, n).id = q
              /\ Says(m, n).text = n
            BY <3>2, <4>1, Changes
        <5>3. EndsWith(shown', q) /\ Last(shown') = Says(m, n)
            BY <1>t, <3>1, <4>1, <5>2, OnLastRows
        <5> QED
            BY <2>6, <2>7, <4>2, <5>1, <5>2, <5>3
      <4>3. CASE e.event = "content"
        <5>1. n = m.text + 1 /\ Had(s, shown) = m.text
            BY <2>2, <2>8, <4>3 DEF Had, Begins, m
        <5> HIDE DEF n
        <5>2. Says(m, n) \in Message /\ Says(m, n).role = "assistant" /\ Says(m, n).id = q
              /\ Says(m, n).text = n
            BY <3>2, <4>1, Changes
        <5>3. EndsWith(shown', q) /\ Last(shown') = Says(m, n)
            BY <1>t, <3>1, <4>1, <5>2, OnLastRows
        <5> QED
            BY <2>6, <2>7, <3>2, <4>3, <5>1, <5>2, <5>3
      <4> QED
          BY <3>4, <4>2, <4>3
    <3> QED
        BY <2>8, <2>10, <3>3, <3>4
  <2> QED
      BY <2>9, <2>10
<1> QED
    BY <1>2, <1>3

\* An event is published to the tab.
LEMMA PublishFlow ==
    ASSUME TypeOK, RegistryInv, StreamInv, FlowInv, Opened, UNCHANGED <<shown, stale>>,
           NEW ev \in Event, ev.event \notin {"start", "snapshot"},
           stream' = Published(stream.run, ev), runs = stream.run,
           \/ runs' = runs /\ text' = text + (IF ev.event = "content" THEN 1 ELSE 0)
           \/ runs' # runs /\ ev.text = text /\ ev.event = "done"
    PROVE  FlowInv'
<1>t. StreamTyped /\ text \in Nat
    BY TypeParts, BoundsAssumption
<1> DEFINE s == stream.queue
           q == stream.run
<1>1. q \in Requests /\ s \in Seq(Event)
    BY RunOf
<1>2. stream'.run = q /\ stream'.queue = Append(s, ev)
    BY <1>t, <1>1, Publishing
<1>3. /\ Last(Append(s, ev)) = ev
      /\ Begins(Append(s, ev)) <=> Begins(s)
      /\ Begins(s) => Append(s, ev)[1] = s[1]
    BY <1>1, Appending, BeginsAppend
<1>4. /\ Coming(Append(s, ev)) = Coming(s) + (IF ev.event = "content" THEN 1 ELSE 0)
      /\ Coming(s) \in Nat
    BY <1>1, ComingAppend, ComingFinite
<1> SUFFICES ASSUME ~stale' PROVE FlowInv'
    BY DEF FlowInv
<1>5. /\ (Begins(s) /\ s[1].event = "start") \/ EndsWith(shown, q)
      /\ Had(s, shown) + Coming(s) = text
    BY DEF FlowInv, All
<1>6. Had(Append(s, ev), shown) = Had(s, shown)
    BY <1>3 DEF Had
<1>a. Had(s, shown) \in Int
  <2>1. CASE Begins(s)
    <3>1. s[1] \in Event /\ Had(s, shown) = s[1].text
        BY <1>1, <2>1, Taking DEF Had, Begins
    <3> QED
        BY <3>1 DEF Event
  <2>2. CASE ~Begins(s)
    <3>1. EndsInReply(shown) /\ shown \in Seq(Message)
        BY <1>5, <2>2, TypeParts DEF EndsWith
    <3>2. Last(shown) \in Message
        BY <3>1, Rows DEF EndsInReply, Last
    <3> QED
        BY <2>2, <3>2, Changes DEF Had
  <2> QED
      BY <2>1, <2>2
<1>n. Had(s, shown) + Coming(s) + (IF ev.event = "content" THEN 1 ELSE 0) =
          IF runs' = q THEN text' ELSE ev.text
    BY <1>4, <1>5, <1>a
<1>7. Had(Append(s, ev), shown) + Coming(Append(s, ev)) = IF runs' = q THEN text' ELSE ev.text
    BY <1>4, <1>6, <1>n, <1>a
<1>8. (Begins(Append(s, ev)) /\ Append(s, ev)[1].event = "start") \/ EndsWith(shown, q)
    BY <1>3, <1>5
<1> HIDE DEF s, q
<1>9. shown' = shown
    OBVIOUS
<1> QED
    BY <1>2, <1>3, <1>7, <1>8, <1>9 DEF FlowInv, All

\* Every step keeps the account of the deltas.
LEMMA FlowStep ==
    /\ TypeOK /\ RegistryInv /\ TabInv /\ StreamInv /\ StoredInv /\ AttachInv /\ EventsInv /\ FlowInv
    /\ [Next]_vars
    => FlowInv'
<1> SUFFICES ASSUME TypeOK, RegistryInv, TabInv, StreamInv, StoredInv, AttachInv, EventsInv, FlowInv,
                    [Next]_vars
             PROVE  FlowInv'
    OBVIOUS
<1>t. StreamTyped /\ shown \in Seq(Message) /\ text \in Nat /\ stored \in Seq(Message)
      /\ body \in [Requests -> Body] /\ pc \in [Requests -> Labels] /\ outcome \in Statuses
    BY TypeParts, BoundsAssumption
<1>0. CASE stream' = NoStream \/ stream'.state # "open" \/ stale'
    BY <1>0 DEF FlowInv, Opened
<1>1. CASE /\ stream' = stream /\ shown' = shown /\ stale' = stale
           /\ Opened => (runs = stream.run <=> runs' = stream.run)
           /\ Opened /\ runs = stream.run => text' = text
    BY <1>1 DEF FlowInv, Opened, All, Had
\* The registry's entry is not, and does not become, the run that is followed.
<1>k. ASSUME NEW q \in Requests, pc[q] \in {"sent"} \cup Preparing,
             stream' = stream \/ (stream' # NoStream => stream'.state # "open"),
             shown' = shown, stale' \/ stale' = stale,
             runs' = runs \/ runs' = q \/ runs' \notin Requests,
             runs \in Requests => runs' = runs /\ text' = text
      PROVE  FlowInv'
  <2>1. Opened => stream.run # q /\ stream.run \in Requests
      BY <1>k, RunOf
  <2> QED
      BY <1>0, <1>1, <1>k, <2>1
<1>2. ASSUME NEW q \in Requests, Reserve(q) \/ Prepare(q) \/ AddReply(q) \/ Fail(q) PROVE FlowInv'
  <2>1. ASSUME Refused(q) PROVE stream' = stream \/ (stream' # NoStream => stream'.state # "open")
      BY <1>t, <2>1, Refusing
  <2>2. /\ pc[q] \in {"sent"} \cup Preparing /\ shown' = shown
        /\ text' = text
      BY <1>2 DEF Reserve, Prepare, AddReply, Fail
  <2>3. pc[q] \in Preparing => runs \notin Requests
      BY Values DEF RegistryInv
  <2>4. CASE Reserve(q)
      BY <1>k, <2>1, <2>2, <2>4, Values DEF Reserve
  <2>5. CASE Prepare(q)
    <3>1. pc[q] = "reserved"
        BY <2>5 DEF Prepare
    <3>2. CASE Refused(q) /\ stale' = stale /\ runs' = Absent
        BY <1>k, <2>1, <2>2, <2>3, <3>1, <3>2, Values
    <3>3. CASE Written(q) /\ UNCHANGED <<stream, runs>>
      <4>1. stale' \/ stale' = stale
          BY <3>3, WrittenFetches
      <4> QED
          BY <1>k, <2>2, <2>3, <3>1, <3>3, <4>1
    <3> QED
        BY <2>5, <3>2, <3>3, PrepareSteps
  <2>6. CASE AddReply(q)
    <3>1. pc[q] = "prepared" /\ Written(q) /\ UNCHANGED <<stream, runs>>
        BY <2>6 DEF AddReply
    <3>2. stale' \/ stale' = stale
        BY <3>1, WrittenFetches
    <3> QED
        BY <1>k, <2>2, <2>3, <3>1, <3>2
  <2>7. CASE Fail(q)
    <3>1. pc[q] \in Preparing /\ Refused(q) /\ stale' = stale /\ runs' = Absent
        BY <2>7 DEF Fail
    <3> QED
        BY <1>k, <2>1, <2>2, <2>3, <3>1, Values
  <2> QED
      BY <1>2, <2>4, <2>5, <2>6, <2>7
<1>3. ASSUME NEW q \in Requests, Start(q) PROVE FlowInv'
  <2>1. pc[q] = "added" /\ runs' = q /\ text' = 0 /\ UNCHANGED <<shown, stale>>
      BY <1>3 DEF Start
  <2>2. runs \notin Requests
      BY <2>1, Values DEF RegistryInv
  <2>3. CASE Sent(q)
    <3>1. /\ First(body[q]) \in Event /\ First(body[q]).event = "start" /\ First(body[q]).text = 0
        BY <1>t, Firsts
    <3>2. stream'.run = q /\ stream'.queue = <<First(body[q])>>
        BY <1>3, <1>t, <2>3, Starting
    <3>3. stream'.queue # <<>> /\ stream'.queue[1].event = "start" /\ stream'.queue[1].text = 0
          /\ Coming(stream'.queue) = 0
        BY <3>1, <3>2, Opening, ComingOne
    <3> QED
        BY <2>1, <3>2, <3>3 DEF FlowInv, Had, All, Begins
  <2>4. CASE ~Sent(q)
    <3>1. stream' = stream /\ pc[q] \in {"sent"} \cup Preparing
        BY <1>3, <1>t, <2>1, <2>4, Starting
    <3>2. /\ shown' = shown /\ stale' = stale
          /\ runs' = runs \/ runs' = q \/ runs' \notin Requests
          /\ runs \in Requests => runs' = runs /\ text' = text
        BY <2>1, <2>2
    <3> QED
        BY <1>k, <3>1, <3>2
  <2> QED
      BY <2>3, <2>4
<1>4. ASSUME NEW q \in Requests, Delta(q) \/ EndStream(q) \/ Finish(q) PROVE FlowInv'
  <2>1. /\ pc[q] \in Running /\ runs = q /\ UNCHANGED <<shown, stale>>
        /\ runs' = runs \/ runs' = Absent
    <3>1. pc[q] \in Running /\ UNCHANGED <<shown, stale>> /\ (runs' = runs \/ runs' = Absent)
        BY <1>4 DEF Delta, EndStream, Finish
    <3> QED
        BY <3>1 DEF RegistryInv
  <2>2. CASE ~ (Opened /\ stream.run = q)
    <3>1. stream' = stream
        BY <1>4, <1>t, <2>2, RequestStreams, Publishing
    <3>2. Opened => runs # stream.run /\ runs' # stream.run
        BY <2>1, <2>2, RunOf, Values
    <3> QED
        BY <1>1, <2>1, <3>1, <3>2
  <2>3. CASE Opened /\ stream.run = q
    <3>1. CASE Delta(q)
      <4> DEFINE ev == Ev("content", 1, "streaming")
      <4>1. /\ ev \in Event /\ ev.event = "content"
          BY Evs
      <4>2. stream' = Published(q, ev) /\ text' = text + 1 /\ runs' = runs
          BY <3>1 DEF Delta
      <4> HIDE DEF ev
      <4> QED
          BY <2>1, <2>3, <4>1, <4>2, PublishFlow
    <3>2. CASE EndStream(q)
      <4> DEFINE ev == Ev("error", 0, "error")
      <4>1. /\ ev \in Event /\ ev.event = "error"
          BY Evs
      <4>2. /\ stream' = Published(q, ev) \/ stream' = stream
            /\ text' = text /\ runs' = runs
          BY <3>2 DEF EndStream
      <4> HIDE DEF ev
      <4>3. CASE stream' = stream
          BY <1>1, <2>1, <4>2, <4>3
      <4>4. CASE stream' = Published(q, ev)
        <5>1. text' = text + (IF ev.event = "content" THEN 1 ELSE 0)
            BY <1>t, <4>1, <4>2
        <5> QED
            BY <2>1, <2>3, <4>1, <4>2, <4>4, <5>1, PublishFlow
      <4> QED
          BY <4>2, <4>3, <4>4
    <3>3. CASE Finish(q)
      <4> DEFINE ev == Ev("done", text, outcome)
      <4>1. /\ ev \in Event /\ ev.event = "done" /\ ev.text = text
          BY <1>t, Evs
      <4>2. stream' = Published(q, ev) /\ runs' = Absent
          BY <3>3 DEF Finish
      <4> HIDE DEF ev
      <4>3. runs' # runs
          BY <2>1, <4>2, Values
      <4> QED
          BY <2>1, <2>3, <4>1, <4>2, <4>3, PublishFlow
    <3> QED
        BY <1>4, <3>1, <3>2, <3>3
  <2> QED
      BY <2>2, <2>3
<1>5. ASSUME NEW q \in Requests, Save(q) \/ AskElsewhere(q) PROVE FlowInv'
    BY <1>1, <1>5 DEF Save, AskElsewhere, tab
<1>6. ASSUME NEW q \in Requests, Ask(q) PROVE FlowInv'
    BY <1>0, <1>6, Calls DEF Ask
<1>7. CASE TabStep
  <2>0. UNCHANGED <<stored, runs, pc, text>>
      BY <1>7, TabStepServer
  <2>1. CASE Subscribe
    <3>1. CASE runs \in Requests /\ ~stale
      <4> DEFINE ev == Ev("snapshot", text, "streaming")
      <4>1. ev \in Event /\ ev.event = "snapshot" /\ ev.text = text
          BY <1>t, Evs
      <4>2. stream'.run = runs /\ stream'.queue = <<ev>>
          BY <1>t, <2>1, <3>1, Subscribing
      <4> HIDE DEF ev
      <4>3. stream'.queue # <<>> /\ stream'.queue[1] = ev /\ Coming(stream'.queue) = 0
          BY <4>1, <4>2, Opening, ComingOne
      <4>4. Begins(stream'.queue) /\ Had(stream'.queue, shown') = text
          BY <4>1, <4>3 DEF Begins, Had
      <4>5. shown' = shown
          BY <2>1 DEF Subscribe
      <4>6. Like(shown, stored)
          BY <2>1, <3>1 DEF Subscribe, AttachInv, AsRead
      <4>7. pc[runs] \in Running
          BY <3>1 DEF RegistryInv
      <4>8. \E st, n : stored # <<>> /\ Last(stored) = Replies(runs, st, n)
          BY <3>1, <4>7 DEF StoredInv, Unsettled
      <4>9. Last(stored).role = "assistant" /\ Last(stored).id = runs /\ stored # <<>>
          BY <4>8, ReplyRow
      <4>10. shown # <<>>
          BY <1>t, <4>6, <4>9, EmptySeq DEF Like
      <4>11. EndsWith(shown, runs)
          BY <4>6, <4>9, <4>10 DEF Like, EndsWith, EndsInReply, Last
      <4>12. EndsWith(shown', runs)
          BY <4>5, <4>11
      <4>13. Had(stream'.queue, shown') + Coming(stream'.queue) = text
          BY <1>t, <4>3, <4>4
      <4>14. runs' = stream'.run /\ text' = text
          BY <2>0, <4>2
      <4> QED
          BY <4>2, <4>12, <4>13, <4>14 DEF FlowInv, All
    <3>2. CASE runs \notin Requests \/ stale
      <4>1. stale' = stale
          BY <2>1 DEF Subscribe
      <4> QED
          BY <1>0, <1>t, <2>1, <3>2, <4>1, Subscribing
    <3> QED
        BY <3>1, <3>2
  <2>2. CASE Deliver
      BY <2>2, DeliverFlow
  <2>3. CASE Unstreamed \/ Lose \/ Leave \/ Open \/ UNCHANGED vars
      BY <1>0, <1>1, <2>0, <2>3 DEF Unstreamed, Lose, Leave, Open, vars, tab
  <2>4. ASSUME NEW f \in fetches, ReadMessages(f) \/ ReadRegistry(f) PROVE FlowInv'
      BY <1>1, <2>0, <2>4 DEF ReadMessages, ReadRegistry
  <2>5. ASSUME NEW f \in fetches, Show(f) PROVE FlowInv'
    <3>1. stream = NoStream
        BY <2>5 DEF TabInv
    <3>2. stream' = stream \/ stream' = Call("attach", 0, "sent")
        BY <2>5 DEF Show
    <3> QED
        BY <1>0, <3>1, <3>2, Calls
  <2> QED
      BY <1>7, <2>1, <2>2, <2>3, <2>4, <2>5 DEF TabStep
<1> QED
    BY <1>2, <1>3, <1>4, <1>5, <1>6, <1>7, NextSplit

SecondInv == FirstInv /\ StoredInv /\ FetchInv /\ AttachInv /\ EventsInv /\ FlowInv

\* Nothing is fetched or followed at the start.
LEMMA SecondInit == Init => SecondInv
BY FirstInit, StoredInit DEF SecondInv, FetchInv, AttachInv, EventsInv, FlowInv, Opened, Init

\* All of it is kept by every step.
LEMMA SecondStep == SecondInv /\ [Next]_vars => SecondInv'
BY FirstStep, StoredStep, FetchStep, AttachStep, EventsStep, FlowStep DEF SecondInv, FirstInv

\* What a tab has put in the message of the run it follows, with the snapshot and
\* the deltas on their way, is the run's text, wherever the subscription came.
THEOREM Nothing == Spec => []NothingMissed
<1>1. SecondInv => NothingMissed
    BY DEF SecondInv, FlowInv, Opened, NothingMissed, Begins, Had, All, EndsWith, Last
<1> QED
    BY <1>1, SecondInit, SecondStep, PTL DEF Spec

-----------------------------------------------------------------------------
(* How a stream ends                                                       *)

\* `done` comes last, and nothing but `done` after an error.
Ending(s) == \A i \in DOMAIN s :
    /\ s[i].event = "done" => i = Len(s)
    /\ s[i].event = "error" => \A j \in DOMAIN s : j > i => s[j].event = "done"

\* The run of an error that is on its way, or has come, has failed.
Failed == /\ pc[stream.run] # "running"
          /\ pc[stream.run] \in Running => outcome = "error"
          /\ pc[stream.run] = "over" => Last(stream.queue).status = "error"

EndInv ==
    /\ stream # NoStream /\ stream.state # "open" => spin
    /\ Opened => /\ Ending(stream.queue)
                 /\ Queued("error") => Failed
                 /\ ~spin => Failed /\ \A i \in DOMAIN stream.queue : stream.queue[i].event = "done"

\* Publishing keeps `done` last.
LEMMA EndingAppend ==
    ASSUME NEW s \in Seq(Event), NEW e \in Event, \A i \in DOMAIN s : s[i].event # "done",
           \/ \A i \in DOMAIN s : s[i].event # "error"
           \/ Ending(s) /\ e.event = "done"
    PROVE  Ending(Append(s, e))
<1>1. /\ Len(Append(s, e)) = Len(s) + 1 /\ Len(s) \in Nat /\ DOMAIN s = 1..Len(s)
      /\ DOMAIN Append(s, e) = DOMAIN s \cup {Len(s) + 1}
      /\ \A i \in DOMAIN s : Append(s, e)[i] = s[i]
      /\ Append(s, e)[Len(s) + 1] = e
    BY Appending
<1> DEFINE t == Append(s, e)
           n == Len(s) + 1
<1> HIDE DEF t, n
<1>2. /\ Len(t) = n /\ DOMAIN t = DOMAIN s \cup {n} /\ t[n] = e
      /\ \A i \in DOMAIN s : t[i] = s[i] /\ i < n /\ i \in Nat
      /\ n \in Nat
    BY <1>1 DEF t, n
<1> QED
    BY <1>2 DEF Ending, t

\* So does delivering.
LEMMA EndingTail ==
    ASSUME NEW s \in Seq(Event), s # <<>>, Ending(s)
    PROVE  Ending(Tail(s))
<1>1. /\ \A i \in DOMAIN Tail(s) : i + 1 \in DOMAIN s /\ Tail(s)[i] = s[i + 1]
      /\ DOMAIN Tail(s) \subseteq Nat \ {0} /\ DOMAIN s \subseteq Nat \ {0}
      /\ Len(Tail(s)) = Len(s) - 1 /\ Len(s) \in Nat
    BY Taking
<1> QED
    BY <1>1 DEF Ending

\* Every step keeps how a stream ends.
LEMMA EndStep == TypeOK /\ RegistryInv /\ StreamInv /\ EndInv /\ [Next]_vars => EndInv'
<1> SUFFICES ASSUME TypeOK, RegistryInv, StreamInv, EndInv, [Next]_vars PROVE EndInv'
    OBVIOUS
<1>t. /\ StreamTyped /\ text \in Nat /\ outcome \in Statuses /\ body \in [Requests -> Body]
      /\ pc \in [Requests -> Labels]
    BY TypeParts, BoundsAssumption
<1> USE DEF Queued
\* The stream stays, and the run it follows.
<1>1. CASE /\ stream' = stream /\ spin' = spin
           /\ Opened => /\ pc'[stream.run] = pc[stream.run]
                        /\ pc[stream.run] \in Running => outcome' = outcome
    BY <1>1 DEF EndInv, Opened, Failed
<1>0. CASE stream' = NoStream
    BY <1>0 DEF EndInv, Opened
<1>2. CASE stream'.state # "open" /\ spin'
    BY <1>2 DEF EndInv, Opened
\* A request that is not the run followed.
<1>3. ASSUME NEW q \in Requests, Opened => q # stream.run, stream' = stream, spin' = spin,
             NEW l \in Labels, pc' = [pc EXCEPT ![q] = l], outcome' = outcome \/ pc[q] \in Running
      PROVE  EndInv'
  <2>1. ASSUME Opened PROVE pc'[stream.run] = pc[stream.run]
      BY <1>3, <1>t, <2>1, RunOf
  <2>2. ASSUME Opened, pc[stream.run] \in Running PROVE outcome' = outcome
      BY <1>3, <2>2, RunOf DEF RegistryInv
  <2> QED
      BY <1>1, <1>3, <2>1, <2>2
<1>4. ASSUME NEW q \in Requests, pc[q] \in {"sent"} \cup Preparing
      PROVE  Opened => q # stream.run
    BY <1>4, RunOf DEF StreamInv, Opened
<1>5. ASSUME NEW q \in Requests, pc[q] \in {"sent"} \cup Preparing, Refused(q),
             spin' = spin, outcome' = outcome
      PROVE  EndInv'
  <2>1. pc' = [pc EXCEPT ![q] = "over"]
      BY <1>5, <1>t, Refusing DEF Goto
  <2>2. CASE Sent(q)
    <3>1. stream # NoStream /\ stream.state # "open"
        BY <1>4, <1>5, <2>2 DEF Sent, Followed, Opened
    <3>2. stream'.state = "refused" /\ spin
        BY <1>5, <1>t, <2>2, <3>1, Refusing DEF EndInv
    <3> QED
        BY <1>2, <1>5, <3>2
  <2>3. CASE ~Sent(q)
    <3>1. stream' = stream
        BY <1>5, <1>t, <2>3, Refusing
    <3> QED
        BY <1>3, <1>4, <1>5, <2>1, <3>1 DEF Labels
  <2> QED
      BY <2>2, <2>3
<1>6. ASSUME NEW q \in Requests, Reserve(q) \/ Prepare(q) \/ AddReply(q) \/ Fail(q) PROVE EndInv'
  <2>1. pc[q] \in {"sent"} \cup Preparing /\ spin' = spin /\ outcome' = outcome
      BY <1>6 DEF Reserve, Prepare, AddReply, Fail
  <2>2. \/ Refused(q)
        \/ stream' = stream /\ \E l \in Labels : pc' = [pc EXCEPT ![q] = l]
    <3>1. CASE Reserve(q) \/ AddReply(q) \/ Fail(q)
        BY <3>1 DEF Reserve, AddReply, Fail, Goto, Labels
    <3>2. CASE Prepare(q)
        BY <3>2, PrepareSteps DEF Labels
    <3> QED
        BY <1>6, <3>1, <3>2
  <2> QED
      BY <1>3, <1>4, <1>5, <2>1, <2>2
<1>7. ASSUME NEW q \in Requests, Start(q) PROVE EndInv'
  <2>1. /\ pc[q] = "added" /\ pc' = [pc EXCEPT ![q] = "running"] /\ spin' = spin
        /\ outcome' = outcome
      BY <1>7 DEF Start, Goto
  <2>2. Opened => q # stream.run
      BY <1>4, <2>1
  <2>3. CASE Sent(q)
    <3>1. stream # NoStream /\ stream.state # "open" /\ spin
        BY <2>2, <2>3 DEF Sent, Followed, Opened, EndInv
    <3>2. First(body[q]) \in Event /\ First(body[q]).event = "start"
        BY <1>t, Firsts
    <3>3. stream'.queue = <<First(body[q])>> /\ stream'.state = "open"
        BY <1>7, <1>t, <2>3, Starting
    <3>4. DOMAIN stream'.queue = {1} /\ stream'.queue[1].event = "start"
        BY <3>2, <3>3, Opening
    <3>5. Ending(stream'.queue)
        BY <3>4 DEF Ending
    <3> QED
        BY <2>1, <3>1, <3>3, <3>4, <3>5 DEF EndInv
  <2>4. CASE ~Sent(q)
    <3>1. stream' = stream
        BY <1>7, <1>t, <2>4, Starting
    <3> QED
        BY <1>3, <2>1, <2>2, <3>1 DEF Labels
  <2> QED
      BY <2>3, <2>4
<1>8. ASSUME NEW q \in Requests, Delta(q) \/ EndStream(q) \/ Save(q) \/ Finish(q) PROVE EndInv'
  <2>1. /\ pc[q] \in Running /\ spin' = spin
        /\ \E l \in Labels : pc' = [pc EXCEPT ![q] = l] /\ (l = pc[q] \/ l \in {"ending", "saved", "over"})
      <3>1. CASE Delta(q)
          BY <1>t, <3>1 DEF Delta
      <3>2. CASE EndStream(q) \/ Save(q) \/ Finish(q)
          BY <3>2 DEF EndStream, Save, Finish, Goto, tab, Labels
      <3> QED
          BY <1>8, <3>1, <3>2
  <2>2. PICK l \in Labels : pc' = [pc EXCEPT ![q] = l]
      BY <2>1
  <2>p. pc'[q] = l
      BY <1>t, <2>2
  <2>3. CASE ~ (Opened /\ stream.run = q)
    <3>1. stream' = stream
      <4>1. CASE Save(q)
          BY <4>1 DEF Save, tab
      <4> QED
          BY <1>8, <1>t, <2>3, <4>1, RequestStreams, Publishing
    <3> QED
        BY <1>3, <2>1, <2>2, <2>3, <3>1
  <2>4. CASE Opened /\ stream.run = q
    <3>1. /\ stream.queue \in Seq(Event) /\ ~Queued("done") /\ Ending(stream.queue)
          /\ stream.state = "open"
        BY <2>1, <2>4, RunOf DEF StreamInv, EndInv, Opened
    <3>2. ASSUME NEW ev \in Event
          PROVE  /\ Published(q, ev).run = q /\ Published(q, ev).state = "open"
                 /\ Published(q, ev).queue = Append(stream.queue, ev)
        BY <1>t, <2>4, Publishing
    <3>3. CASE Delta(q)
      <4> DEFINE ev == Ev("content", 1, "streaming")
      <4>1. /\ ev \in Event /\ ev.event = "content"
          BY Evs
      <4>2. stream' = Published(q, ev) /\ pc[q] = "running" /\ UNCHANGED <<pc, outcome>>
          BY <3>3 DEF Delta
      <4> HIDE DEF ev
      <4>3. ~Queued("error") /\ spin
          BY <2>4, <4>2 DEF EndInv, Failed
      <4>4. stream'.queue = Append(stream.queue, ev) /\ stream'.state = "open"
          BY <3>2, <4>1, <4>2
      <4>5. \A i \in DOMAIN stream'.queue : stream'.queue[i].event # "error"
          BY <3>1, <4>1, <4>3, <4>4, Appending
      <4>6. Ending(stream'.queue)
          BY <3>1, <4>1, <4>3, <4>4, EndingAppend
      <4> QED
          BY <2>1, <4>3, <4>4, <4>5, <4>6 DEF EndInv
    <3>4. CASE EndStream(q)
      <4>1. pc[q] = "running" /\ pc'[q] = "ending"
          BY <1>t, <3>4 DEF EndStream, Goto
      <4>2. ~Queued("error") /\ spin
          BY <2>4, <4>1 DEF EndInv, Failed
      <4>3. CASE stream' = stream
          BY <2>1, <3>1, <4>2, <4>3 DEF EndInv
      <4>4. CASE stream' = Published(q, Ev("error", 0, "error")) /\ outcome' = "error"
        <5> DEFINE ev == Ev("error", 0, "error")
        <5>1. /\ ev \in Event /\ ev.event = "error"
            BY Evs
        <5> HIDE DEF ev
        <5>2. stream'.queue = Append(stream.queue, ev) /\ stream'.state = "open" /\ stream'.run = q
            BY <3>2, <4>4, <5>1 DEF ev
        <5>3. Ending(stream'.queue)
            BY <3>1, <4>2, <5>1, <5>2, EndingAppend
        <5>4. Failed'
            BY <4>1, <4>4, <5>2 DEF Failed
        <5> QED
            BY <2>1, <4>2, <5>2, <5>3, <5>4 DEF EndInv
      <4> QED
          BY <3>4, <4>3, <4>4 DEF EndStream
    <3>5. CASE Save(q)
      <4>1. pc[q] = "ending" /\ pc'[q] = "saved" /\ stream' = stream /\ outcome' = outcome
          BY <1>t, <3>5 DEF Save, Goto, tab
      <4>2. Failed => Failed'
          BY <2>4, <4>1 DEF Failed
      <4> QED
          BY <2>1, <2>4, <4>1, <4>2 DEF EndInv, Opened
    <3>6. CASE Finish(q)
      <4> DEFINE ev == Ev("done", text, outcome)
      <4>1. /\ ev \in Event /\ ev.event = "done" /\ ev.status = outcome
          BY <1>t, Evs
      <4>2. stream' = Published(q, ev) /\ pc'[q] = "over" /\ pc[q] = "saved"
          BY <1>t, <3>6 DEF Finish, Goto
      <4> HIDE DEF ev
      <4>3. stream'.queue = Append(stream.queue, ev) /\ stream'.state = "open" /\ stream'.run = q
          BY <3>2, <4>1, <4>2
      <4>4. /\ DOMAIN stream'.queue = DOMAIN stream.queue \cup {Len(stream.queue) + 1}
            /\ \A i \in DOMAIN stream.queue : stream'.queue[i] = stream.queue[i]
            /\ stream'.queue[Len(stream.queue) + 1] = ev /\ Last(stream'.queue) = ev
          BY <3>1, <4>1, <4>3, Appending
      <4>5. Ending(stream'.queue)
          BY <3>1, <4>1, <4>3, EndingAppend
      <4>6. Failed => Failed'
          BY <2>4, <4>1, <4>2, <4>3, <4>4 DEF Failed
      <4>7. Queued("error")' => Queued("error")
          BY <4>1, <4>4
      <4>8. (\A i \in DOMAIN stream.queue : stream.queue[i].event = "done") =>
                \A i \in DOMAIN stream'.queue : stream'.queue[i].event = "done"
          BY <4>1, <4>4
      <4> QED
          BY <2>1, <2>4, <4>3, <4>5, <4>6, <4>7, <4>8 DEF EndInv
    <3> QED
        BY <1>8, <3>3, <3>4, <3>5, <3>6
  <2> QED
      BY <2>3, <2>4
<1>9. ASSUME NEW q \in Requests, Ask(q) PROVE EndInv'
    BY <1>2, <1>9, Calls DEF Ask
<1>10. ASSUME NEW q \in Requests, AskElsewhere(q) PROVE EndInv'
  <2>1. Opened => q # stream.run
      BY <1>10, RunOf DEF AskElsewhere, Made
  <2> QED
      BY <1>3, <1>10, <2>1 DEF AskElsewhere, Goto, tab, Labels
<1>11. CASE TabStep
  <2>0. UNCHANGED <<pc, outcome>>
      BY <1>11, TabStepServer
  <2>1. CASE Subscribe
    <3>1. spin' = spin /\ spin
        BY <2>1 DEF Subscribe, EndInv
    <3>2. CASE runs \in Requests
      <4>1. stream'.queue = <<Ev("snapshot", text, "streaming")>> /\ stream'.state = "open"
          BY <1>t, <2>1, <3>2, Subscribing
      <4>2. DOMAIN stream'.queue = {1} /\ stream'.queue[1].event = "snapshot"
          BY <1>t, <4>1, Evs, Opening
      <4>3. Ending(stream'.queue)
          BY <4>2 DEF Ending
      <4> QED
          BY <3>1, <4>1, <4>2, <4>3 DEF EndInv
    <3> QED
        BY <1>2, <1>t, <2>1, <3>1, <3>2, Subscribing
  <2>2. CASE Deliver
    <3>1. CASE Head(stream.queue).event # "done"
      <4>1. /\ stream'.run = stream.run /\ stream'.state = "open"
            /\ stream'.queue = Tail(stream.queue)
            /\ stream.queue \in Seq(Event) /\ stream.queue # <<>> /\ Opened
            /\ spin' = (spin /\ Head(stream.queue).event \notin {"error", "done"})
          BY <1>t, <2>2, <3>1, Delivering DEF Deliver, Opened
      <4>2. /\ Head(stream.queue) = stream.queue[1] /\ 1 \in DOMAIN stream.queue
            /\ \A i \in DOMAIN Tail(stream.queue) :
                  i + 1 \in DOMAIN stream.queue /\ Tail(stream.queue)[i] = stream.queue[i + 1]
            /\ DOMAIN Tail(stream.queue) \subseteq Nat \ {0}
            /\ Tail(stream.queue) = <<>> => Last(stream.queue) = stream.queue[1]
            /\ Tail(stream.queue) # <<>> => Last(Tail(stream.queue)) = Last(stream.queue)
          BY <4>1, Taking
      <4>3. Ending(Tail(stream.queue)) /\ Ending(stream.queue)
          BY <4>1, EndingTail DEF EndInv
      <4>4. Queued("error")' => Queued("error")
          BY <4>1, <4>2
      <4>5. Failed => Failed'
          BY <2>0, <3>1, <4>1, <4>2, RunOf DEF Failed, StreamInv, Opened
      <4>6. ASSUME ~spin' PROVE Failed' /\ \A i \in DOMAIN stream'.queue : stream'.queue[i].event = "done"
        <5>1. CASE ~spin
            BY <4>1, <4>2, <4>5, <5>1 DEF EndInv
        <5>2. CASE Head(stream.queue).event = "error"
          <6>1. Failed'
              BY <4>1, <4>2, <4>5, <5>2 DEF EndInv
          <6>2. \A j \in DOMAIN stream.queue : j > 1 => stream.queue[j].event = "done"
              BY <4>2, <4>3, <5>2 DEF Ending
          <6> QED
              BY <4>1, <4>2, <6>1, <6>2
        <5> QED
            BY <3>1, <4>1, <4>6, <5>1, <5>2
      <4> QED
          BY <4>1, <4>3, <4>4, <4>5, <4>6 DEF EndInv
    <3> QED
        BY <1>0, <1>t, <2>2, <3>1, Delivering
  <2>3. CASE Unstreamed \/ Lose \/ Leave \/ Open \/ UNCHANGED vars
      BY <1>0, <1>1, <2>0, <2>3 DEF Unstreamed, Lose, Leave, Open, vars, tab
  <2>4. ASSUME NEW f \in fetches, ReadMessages(f) \/ ReadRegistry(f) \/ Show(f) PROVE EndInv'
      BY <1>1, <1>2, <2>0, <2>4, Calls DEF ReadMessages, ReadRegistry, Show
  <2> QED
      BY <1>11, <2>1, <2>2, <2>3, <2>4 DEF TabStep
<1> QED
    BY <1>6, <1>7, <1>8, <1>9, <1>10, <1>11, NextSplit

\* A reply that has failed is shown failed.
ErrorInv == Opened /\ ~stale /\ ~spin => EndsWith(shown, stream.run) /\ Last(shown).status = "error"

\* A step of a request changes neither the spinner nor what is shown.
LEMMA SpinKept ==
    ASSUME TypeOK, [Next]_vars, ~spin', Opened', NEW q \in Requests,
           \/ Reserve(q) \/ Prepare(q) \/ AddReply(q) \/ Fail(q) \/ Start(q)
           \/ Delta(q) \/ EndStream(q) \/ Save(q) \/ Finish(q) \/ AskElsewhere(q)
    PROVE  ~spin /\ shown' = shown /\ (stale' = stale \/ stale')
<1>1. spin' = spin /\ shown' = shown
    BY DEF Reserve, Prepare, AddReply, Fail, Start, Delta, EndStream, Save, Finish, AskElsewhere, tab
<1>2. CASE Prepare(q) \/ AddReply(q)
    BY <1>1, <1>2, PrepareSteps, WrittenFetches DEF AddReply
<1>3. CASE \/ Reserve(q) \/ Fail(q) \/ Start(q) \/ Delta(q) \/ EndStream(q) \/ Save(q) \/ Finish(q)
           \/ AskElsewhere(q)
    BY <1>1, <1>3 DEF Reserve, Fail, Start, Delta, EndStream, Save, Finish, AskElsewhere, tab
<1> QED
    BY <1>1, <1>2, <1>3

\* A step of a request keeps the run that is followed once its error has come.
LEMMA RunKept ==
    ASSUME TypeOK, RegistryInv, StreamInv, EndInv, ~spin, Opened', NEW q \in Requests,
           \/ Reserve(q) \/ Prepare(q) \/ AddReply(q) \/ Fail(q) \/ Start(q)
           \/ Delta(q) \/ EndStream(q) \/ Save(q) \/ Finish(q) \/ AskElsewhere(q)
    PROVE  Opened /\ stream'.run = stream.run
<1>t. StreamTyped /\ body \in [Requests -> Body] /\ pc \in [Requests -> Labels]
    BY TypeParts
<1>s. stream # NoStream => Opened
    BY DEF EndInv, Opened
<1>0. CASE stream' = stream
    BY <1>0 DEF Opened
<1>1. ASSUME pc[q] \in {"sent"} \cup Preparing PROVE ~Sent(q)
    BY <1>1, <1>s, RunOf DEF Sent, Followed
<1>2. ASSUME pc[q] \in {"sent"} \cup Preparing, Refused(q) PROVE stream' = stream
    BY <1>1, <1>2, <1>t, Refusing
<1>3. CASE Reserve(q) \/ Fail(q) \/ AddReply(q)
    BY <1>0, <1>2, <1>3 DEF Reserve, Fail, AddReply
<1>4. CASE Prepare(q)
  <2>1. pc[q] = "reserved"
      BY <1>4 DEF Prepare
  <2> QED
      BY <1>0, <1>2, <1>4, <2>1, PrepareSteps
<1>5. CASE Start(q)
  <2>1. pc[q] = "added"
      BY <1>5 DEF Start
  <2> QED
      BY <1>0, <1>1, <1>5, <1>t, <2>1, Starting
<1>6. CASE Delta(q) \/ EndStream(q) \/ Finish(q)
  <2>1. stream' = stream \/ \E ev \in Event : stream' = Published(q, ev)
      BY <1>6, RequestStreams
  <2>2. stream' = stream \/ (Opened /\ stream.run = q /\ stream'.run = stream.run)
      BY <1>t, <2>1, Publishing
  <2> QED
      BY <1>0, <2>2
<1>7. CASE Save(q) \/ AskElsewhere(q)
    BY <1>0, <1>7 DEF Save, AskElsewhere, tab
<1> QED
    BY <1>3, <1>4, <1>5, <1>6, <1>7

\* Every step keeps a failed reply shown failed.
LEMMA ErrorStep ==
    /\ TypeOK /\ RegistryInv /\ TabInv /\ StreamInv /\ EventsInv /\ FlowInv /\ EndInv /\ ErrorInv
    /\ [Next]_vars
    => ErrorInv'
<1> SUFFICES ASSUME TypeOK, RegistryInv, TabInv, StreamInv, EventsInv, FlowInv, EndInv, ErrorInv,
                    [Next]_vars, Opened', ~stale', ~spin'
             PROVE  EndsWith(shown', stream'.run) /\ Last(shown').status = "error"
    BY DEF ErrorInv
<1>t. StreamTyped /\ shown \in Seq(Message)
    BY TypeParts
<1>0. CASE Opened /\ ~spin /\ shown' = shown /\ stale' = stale /\ stream'.run = stream.run
    BY <1>0 DEF ErrorInv
<1>1. ASSUME NEW q \in Requests,
             \/ Reserve(q) \/ Prepare(q) \/ AddReply(q) \/ Fail(q) \/ Start(q)
             \/ Delta(q) \/ EndStream(q) \/ Save(q) \/ Finish(q) \/ AskElsewhere(q)
      PROVE  EndsWith(shown', stream'.run) /\ Last(shown').status = "error"
  <2>1. ~spin /\ shown' = shown /\ (stale' = stale \/ stale')
      BY <1>1, SpinKept
  <2>2. Opened /\ stream'.run = stream.run
      BY <1>1, <2>1, RunKept
  <2> QED
      BY <1>0, <2>1, <2>2
<1>2. ASSUME NEW q \in Requests, Ask(q)
      PROVE  EndsWith(shown', stream'.run) /\ Last(shown').status = "error"
    BY <1>2 DEF Ask
<1>3. CASE TabStep
  <2>1. CASE Subscribe
      BY <2>1 DEF Subscribe, EndInv
  <2>2. CASE Deliver
    <3> DEFINE e == Head(stream.queue)
    <3>1. /\ stream'.run = stream.run /\ shown' = Applied(shown, stream.run, e)
          /\ stream.queue \in Seq(Event) /\ stream.queue # <<>> /\ Opened
          /\ spin' = (spin /\ e.event \notin {"error", "done"})
          /\ e.event = "done" => stream' = NoStream
        BY <1>t, <2>2, Delivering DEF Deliver, Opened
    <3>2. e = stream.queue[1] /\ 1 \in DOMAIN stream.queue /\ stale' = stale
        BY <2>2, <3>1, Taking DEF Deliver
    <3> HIDE DEF e
    <3>3. e.event # "done"
        BY <3>1 DEF Opened
    <3>4. spin /\ e.event = "error"
      <4>1. CASE ~spin
          BY <3>1, <3>2, <3>3, <4>1 DEF EndInv
      <4> QED
          BY <3>1, <3>3, <4>1
    <3>5. EndsWith(shown, stream.run) /\ EndsInReply(shown)
        BY <3>1, <3>2, <3>4 DEF FlowInv, EndsWith
    <3> DEFINE m == Last(shown)
    <3>6. m \in Message /\ m.role = "assistant" /\ m.id = stream.run /\ shown[Len(shown)] = m
        BY <1>t, <3>5, Rows DEF EndsWith, EndsInReply, Last
    <3> HIDE DEF m
    <3>7. shown' = Append(Front(shown), Fails(m))
        BY <3>1, <3>4, <3>5, <3>6, AppliedError
    <3>8. /\ Fails(m) \in Message /\ Fails(m).role = "assistant" /\ Fails(m).id = stream.run
          /\ Fails(m).status = "error"
        BY <3>6, Changes
    <3>9. EndsWith(shown', stream.run) /\ Last(shown') = Fails(m)
        BY <1>t, <3>5, <3>7, <3>8, OnLastRows
    <3> QED
        BY <3>1, <3>8, <3>9
  <2>3. CASE Unstreamed \/ Leave
      BY <2>3 DEF Unstreamed, Leave, Opened
  <2>4. CASE Open \/ UNCHANGED vars
      BY <1>0, <2>4 DEF Open, Opened, vars, tab
  <2>5. CASE Lose
      BY <1>0, <2>5 DEF Lose, Opened
  <2>6. ASSUME NEW f \in fetches, ReadMessages(f) \/ ReadRegistry(f) \/ Show(f)
        PROVE  EndsWith(shown', stream'.run) /\ Last(shown').status = "error"
    <3>1. stream = NoStream
        BY <2>6 DEF TabInv
    <3>2. stream' = stream \/ stream' = Call("attach", 0, "sent")
        BY <2>6 DEF ReadMessages, ReadRegistry, Show
    <3> QED
        BY <3>1, <3>2, Calls DEF Opened
  <2> QED
      BY <1>3, <2>1, <2>2, <2>3, <2>4, <2>5, <2>6 DEF TabStep
<1> QED
    BY <1>1, <1>2, <1>3, NextSplit

-----------------------------------------------------------------------------
(* What is shown                                                           *)

\* What the run that has ended its stream will have saved.
Final == IF runs \in Requests /\ pc[runs] = "ending" THEN Settled(stored, runs) ELSE stored

\* What the tab keeps of h when it asks.
Trimmed(h, asked) ==
    CASE asked.kind = "send" -> h
      [] asked.kind = "edit" -> SubSeq(h, 1, Place(h, asked.pivot) - 1)
      [] asked.kind = "regenerate" -> Front(h)

WithAsk(h, q, asked) ==
    IF asked.kind = "regenerate" THEN h ELSE Append(h, Asks(asked.pivot, q))

\* What was asked can be done.
Doable(h, asked) ==
    /\ asked.kind = "edit" => Place(h, asked.pivot) # 0
    /\ asked.kind = "regenerate" => EndsInReply(h)

\* Nothing is followed or fetched: all is there.
IdleInv == mounted /\ stream = NoStream /\ fetches = {} =>
    shown = stored /\ \A q \in Requests : pc[q] \notin Unsettled

\* The tab's request p is being answered.
Answered(p) ==
    /\ \A q \in Requests : q # p => pc[q] \notin {"added", "running"}
    /\ pc[p] \in {"sent", "reserved"} => shown = Trimmed(Final, body[p]) /\ Doable(Final, body[p])
    /\ pc[p] = "prepared" => stored = WithAsk(shown, p, body[p])
    /\ pc[p] = "added" => stored = Begun(shown, p, body[p])

AskedInv == stream # NoStream /\ stream.call = "post" /\ stream.state = "sent" => Answered(stream.run)

\* What is shown once `start` is applied.
Becoming(s, h, q) == IF Begins(s) /\ s[1].event = "start" THEN Begun(h, q, s[1].body) ELSE h

\* The tab follows a run: its rows are stored, and its reply will be what `done` tells.
FollowInv == Opened =>
    /\ Like(Becoming(stream.queue, shown, stream.run), stored)
    /\ EndsWith(Becoming(stream.queue, shown, stream.run), stream.run)
    /\ \A q \in Requests : q # stream.run => pc[q] \notin Unsettled
    /\ pc[stream.run] = "over" =>
          Last(stored) = Replies(stream.run, Last(stream.queue).status, Last(stream.queue).text)

Sound == ~stale /\ ~lost

ShownInv == Sound => IdleInv /\ AskedInv /\ FollowInv

\* A reply is its request, its status and its text.
LEMMA ReplyIs ==
    ASSUME NEW m \in Message, m.role = "assistant"
    PROVE  m = Replies(m.id, m.status, m.text)
BY DEF Message, Replies

\* A tab whose reply has failed shows what will be stored.
LEMMA FailedShown ==
    ASSUME TypeOK, RegistryInv, StreamInv, StoredInv, EventsInv, FlowInv, EndInv, ErrorInv, FollowInv,
           ~stale, Opened, ~spin
    PROVE  /\ shown = Final /\ Once(shown)
           /\ \A q \in Requests : pc[q] \notin {"added", "running"}
<1> DEFINE s == stream.queue
           q == stream.run
<1>t. shown \in Seq(Message) /\ stored \in Seq(Message) /\ text \in Nat /\ outcome \in Statuses
    BY TypeParts, BoundsAssumption
<1>1. /\ q \in Requests /\ s \in Seq(Event)
      /\ runs = q <=> pc[q] \in Running
      /\ runs # q => pc[q] = "over" /\ s # <<>>
    BY RunOf
<1>2. Failed /\ \A i \in DOMAIN s : s[i].event = "done"
    BY DEF EndInv
<1>3. ~Begins(s)
    BY <1>1, <1>2, Taking DEF Begins
<1>4. Coming(s) = 0
  <2>1. Deltas(s) = {}
      BY <1>2 DEF Deltas
  <2> QED
      BY <1>1, <2>1, ComingFinite, FS_EmptySet
<1>5. EndsWith(shown, q) /\ Last(shown).status = "error"
    BY DEF ErrorInv
<1> DEFINE m == Last(shown)
<1>6. m \in Message /\ m.role = "assistant" /\ m.id = q /\ m.status = "error" /\ m.text \in Nat
      /\ shown # <<>>
    BY <1>t, <1>5, Rows, Changes DEF EndsWith, EndsInReply, Last
<1>7. m.text + Coming(s) = All(s, q)
    BY <1>3 DEF FlowInv, Had
<1>8. /\ Like(shown, stored)
      /\ \A p \in Requests : p # q => pc[p] \notin Unsettled
      /\ pc[q] = "over" => Last(stored) = Replies(q, Last(s).status, Last(s).text)
    BY <1>3 DEF FollowInv, Becoming
<1>f. /\ pc[q] # "running"
      /\ pc[q] \in Running => outcome = "error"
      /\ pc[q] = "over" => Last(s).status = "error"
    BY <1>2 DEF Failed
<1> HIDE DEF s, q, m
<1>9. m = Replies(q, "error", All(s, q))
    BY <1>4, <1>6, <1>7, ReplyIs
<1>10. /\ Len(shown) = Len(stored) /\ Len(stored) \in Nat /\ stored # <<>> /\ Len(stored) \in 1..Len(stored)
       /\ \A i \in 1..Len(stored) - 1 : shown[i] = stored[i]
       /\ Last(stored).role = "assistant" /\ Last(stored).id = q
       /\ shown[Len(stored)] = m
    BY <1>t, <1>6, <1>8, Rows, EmptySeq DEF Like, Last, m
<1>11. ASSUME NEW h \in Seq(Message), Len(h) = Len(stored), Last(h) = m,
              \A i \in 1..Len(stored) - 1 : h[i] = stored[i]
       PROVE  shown = h
  <2>1. \A i \in 1..Len(h) : shown[i] = h[i]
    <3>1. \A i \in 1..Len(h) : i \in 1..Len(stored) - 1 \/ i = Len(stored)
        BY <1>10, <1>11
    <3> QED
        BY <1>10, <1>11, <3>1 DEF Last
  <2> QED
      BY <1>t, <1>10, <1>11, <2>1, SameRows
<1>12. \A p \in Requests : pc[p] \notin {"added", "running"}
    BY <1>1, <1>8, <1>f DEF Unsettled
<1>13. CASE runs = q /\ pc[q] = "ending"
  <2>1. /\ Settled(stored, q) \in Seq(Message) /\ Len(Settled(stored, q)) = Len(stored)
        /\ Last(Settled(stored, q)) = Replies(q, outcome, text)
        /\ \A i \in 1..Len(stored) - 1 : Settled(stored, q)[i] = stored[i]
        /\ Once(Settled(stored, q))
      BY <1>1, <1>10, <1>t, SettledRows DEF StoredInv
  <2>2. Replies(q, outcome, text) = m
      BY <1>9, <1>13, <1>f DEF All
  <2>3. Final = Settled(stored, q)
      BY <1>1, <1>13 DEF Final
  <2>4. shown = Settled(stored, q)
      BY <1>11, <2>1, <2>2
  <2> QED
      BY <1>12, <2>1, <2>3, <2>4
<1>14. CASE ~ (runs = q /\ pc[q] = "ending")
  <2>1. Final = stored
    <3>1. ~ (runs \in Requests /\ pc[runs] = "ending")
        BY <1>8, <1>14 DEF Unsettled
    <3> QED
        BY <3>1 DEF Final
  <2>2. Last(stored) = m
    <3>1. CASE runs = q
      <4>1. pc[q] = "saved"
          BY <1>1, <1>14, <1>f, <3>1
      <4> QED
          BY <1>1, <1>9, <1>f, <3>1, <4>1 DEF StoredInv, All
    <3>2. CASE runs # q
        BY <1>1, <1>8, <1>9, <1>f, <3>2 DEF All
    <3> QED
        BY <3>1, <3>2
  <2>3. shown = stored
      BY <1>11, <1>t, <2>2
  <2> QED
      BY <1>12, <2>1, <2>3 DEF StoredInv
<1> QED
    BY <1>13, <1>14

\* The last of a queue is what was published last.
LEMMA LastAppended ==
    ASSUME NEW s \in Seq(Event), NEW e \in Event
    PROVE  Last(Append(s, e)) = e
BY DEF Last

\* A stream is not the absence of one.
LEMMA StreamIs == \A x \in StreamType : x # NoStream
BY StreamAssumption

\* What is lost stays lost, and only an answer that is shown makes up for staleness.
LEMMA SoundKept == [Next]_vars /\ Sound' => Sound \/ \E f \in fetches : Show(f)
<1> SUFFICES ASSUME [Next]_vars, Sound', ~ \E f \in fetches : Show(f) PROVE Sound
    OBVIOUS
<1>1. ASSUME NEW q \in Requests,
             \/ Reserve(q) \/ Prepare(q) \/ AddReply(q) \/ Fail(q) \/ Start(q)
             \/ Delta(q) \/ EndStream(q) \/ Save(q) \/ Finish(q) \/ Ask(q) \/ AskElsewhere(q)
      PROVE  Sound
  <2>1. CASE Prepare(q) \/ AddReply(q)
    <3>1. lost' = lost
        BY <2>1 DEF Prepare, AddReply, counters
    <3>2. stale' = stale \/ stale'
        BY <2>1 DEF Prepare, AddReply, Written
    <3> QED
        BY <3>1, <3>2 DEF Sound
  <2>2. CASE Reserve(q) \/ Fail(q) \/ Start(q)
      BY <2>2 DEF Reserve, Fail, Start, counters, Sound
  <2>3. CASE Delta(q) \/ EndStream(q)
      BY <2>3 DEF Delta, EndStream, counters, Sound
  <2>4. CASE Save(q) \/ Finish(q)
      BY <2>4 DEF Save, Finish, counters, Sound
  <2>5. CASE Ask(q)
      BY <2>5 DEF Ask, counters, Sound
  <2>6. CASE AskElsewhere(q)
      BY <2>6 DEF AskElsewhere, counters, Sound
  <2> QED
      BY <1>1, <2>1, <2>2, <2>3, <2>4, <2>5, <2>6
<1>2. CASE TabStep
  <2>1. CASE Subscribe \/ Deliver \/ Unstreamed \/ Lose \/ Leave \/ Open \/ UNCHANGED vars
      BY <2>1 DEF Subscribe, Deliver, Unstreamed, Lose, Leave, Open, vars, counters, Sound
  <2>2. ASSUME NEW f \in fetches, ReadMessages(f) \/ ReadRegistry(f) PROVE Sound
      BY <2>2 DEF ReadMessages, ReadRegistry, counters, Sound
  <2> QED
      BY <1>2, <2>1, <2>2 DEF TabStep
<1> QED
    BY <1>1, <1>2, NextSplit

\* A handler's step while a run is followed: it writes nothing, or the tab learns
\* that it shows less than is stored.
LEMMA HandlerFollowed ==
    ASSUME TypeOK, RegistryInv, StreamInv, NEW q \in Requests, Opened', ~stale',
           Reserve(q) \/ Prepare(q) \/ AddReply(q) \/ Fail(q)
    PROVE  Opened /\ stream' = stream /\ q # stream.run /\ Quietly
<1>t. StreamTyped /\ body \in [Requests -> Body] /\ pc \in [Requests -> Labels]
    BY TypeParts
<1>1. pc[q] \in {"sent"} \cup Preparing
    BY DEF Reserve, Prepare, AddReply, Fail
<1>2. Opened => q # stream.run /\ ~Sent(q)
    BY <1>1, RunOf DEF Sent, Followed
<1>3. ASSUME Refused(q) PROVE stream' = stream
    BY <1>3, <1>t, Refusing DEF Opened
<1>4. ASSUME Written(q), stream' = stream PROVE FALSE
    BY <1>2, <1>4, WrittenFetches DEF Opened
<1>5. CASE Reserve(q) \/ Fail(q)
  <2>1. stream' = stream
      BY <1>3, <1>5 DEF Reserve, Fail
  <2> QED
      BY <1>2, <1>5, <2>1, QuietSteps DEF Opened
<1>6. CASE Prepare(q) \/ AddReply(q)
  <2>1. stream' = stream /\ Quietly
      BY <1>3, <1>4, <1>6, PrepareSteps DEF AddReply
  <2> QED
      BY <1>2, <2>1 DEF Opened
<1> QED
    BY <1>5, <1>6

\* What an event makes of what will be shown.
LEMMA BecomingAppend ==
    ASSUME NEW s \in Seq(Event), NEW e \in Event, e.event \notin {"start", "snapshot"}, NEW h, NEW q
    PROVE  Becoming(Append(s, e), h, q) = Becoming(s, h, q)
BY BeginsAppend DEF Becoming

\* Another last reply of the same request.
LEMMA LikeOther ==
    ASSUME NEW g \in Seq(Message), NEW h \in Seq(Message), NEW rows \in Seq(Message), NEW q,
           Like(h, rows), EndsWith(h, q), EndsWith(g, q), Len(g) = Len(h),
           \A i \in 1..Len(h) - 1 : g[i] = h[i]
    PROVE  Like(g, rows)
<1>1. h # <<>>
    BY DEF EndsWith, EndsInReply
<1> QED
    BY <1>1 DEF Like, EndsWith, EndsInReply, Last

\* Every list is like itself.
LEMMA LikeItself == \A h : Like(h, h)
BY DEF Like

\* The message the tab follows, when an event of its run has come.
LEMMA DeliverFollow ==
    ASSUME TypeOK, RegistryInv, StreamInv, EventsInv, FlowInv, FollowInv, ~stale, Deliver,
           Head(stream.queue).event # "done"
    PROVE  FollowInv'
<1>t. StreamTyped /\ shown \in Seq(Message) /\ stored \in Seq(Message)
    BY TypeParts
<1>u. UNCHANGED <<stored, pc>>
    BY DEF Deliver, server
<1> DEFINE s == stream.queue
           q == stream.run
           e == Head(s)
<1>1. /\ stream'.run = q /\ stream'.queue = Tail(s) /\ s \in Seq(Event) /\ s # <<>>
      /\ shown' = Applied(shown, q, e) /\ Opened
    BY <1>t, Delivering DEF Opened, Deliver
<1>2. /\ e = s[1] /\ s[1] \in Event /\ Ordered(s) /\ 1 \in DOMAIN s
      /\ Tail(s) = <<>> => Last(s) = e
      /\ Tail(s) # <<>> => Last(Tail(s)) = Last(s)
    BY <1>1, Taking DEF EventsInv
<1>3. ~Begins(Tail(s))
    BY <1>1, <1>2, BeginsTail
<1>4. q \in Requests /\ (pc[q] = "over" => Last(s).event = "done")
    BY <1>1, RunOf
<1>5. /\ Like(Becoming(s, shown, q), stored)
      /\ EndsWith(Becoming(s, shown, q), q)
      /\ \A p \in Requests : p # q => pc[p] \notin Unsettled
      /\ pc[q] = "over" => Last(stored) = Replies(q, Last(s).status, Last(s).text)
    BY <1>1 DEF FollowInv
<1>6. /\ e.event \in {"start", "snapshot", "content", "error"} /\ e.text \in Nat /\ e.body \in Body
    BY <1>1, <1>2 DEF Event
<1>7. (Begins(s) /\ s[1].event = "start") \/ EndsWith(shown, q)
    BY <1>1 DEF FlowInv
<1>8. e.event # "done"
    OBVIOUS
<1> SUFFICES EndsWith(shown', q) /\ Like(shown', stored)
  <2>1. ASSUME EndsWith(shown', q) /\ Like(shown', stored) PROVE FollowInv'
    <3>1. Becoming(Tail(s), shown', q) = shown'
        BY <1>3 DEF Becoming
    <3>2. pc[q] = "over" => Last(Tail(s)) = Last(s)
        BY <1>2, <1>4, <1>8
    <3>3. /\ Becoming(stream'.queue, shown', stream'.run) = shown'
          /\ stream'.run = q /\ Last(stream'.queue) = Last(Tail(s))
        BY <1>1, <3>1
    <3> HIDE DEF s, q, e
    <3>4. /\ Like(shown', stored') /\ EndsWith(shown', stream'.run)
        BY <1>u, <2>1, <3>3
    <3>5. \A p \in Requests : p # stream'.run => pc'[p] \notin Unsettled
        BY <1>u, <1>5, <3>3
    <3>6. pc'[stream'.run] = "over" =>
              Last(stored') = Replies(stream'.run, Last(stream'.queue).status, Last(stream'.queue).text)
        BY <1>u, <1>5, <3>2, <3>3
    <3> QED
        BY <3>3, <3>4, <3>5, <3>6 DEF FollowInv
  <2> QED
      BY <2>1
<1> HIDE DEF s, q, e
<1>9. CASE e.event = "start"
  <2>1. shown' = Begun(shown, q, e.body)
      BY <1>1, <1>9, AppliedStart
  <2>2. Becoming(s, shown, q) = Begun(shown, q, e.body)
      BY <1>1, <1>2, <1>9 DEF Becoming, Begins
  <2> QED
      BY <1>5, <2>1, <2>2
<1>10. CASE e.event # "start"
  <2>1. EndsWith(shown, q) /\ EndsInReply(shown)
      BY <1>2, <1>7, <1>10 DEF EndsWith
  <2>2. Like(shown, stored)
      BY <1>2, <1>5, <1>10 DEF Becoming
  <2> DEFINE m == Last(shown)
  <2>3. m \in Message /\ m.role = "assistant" /\ m.id = q /\ m.text \in Nat /\ shown[Len(shown)] = m
      BY <1>t, <2>1, Rows, Changes DEF EndsWith, EndsInReply, Last
  <2> HIDE DEF m
  <2>4. ASSUME NEW n \in Message, n.role = "assistant", n.id = q, shown' = Append(Front(shown), n)
        PROVE  EndsWith(shown', q) /\ Like(shown', stored)
    <3> DEFINE g == Append(Front(shown), n)
    <3>1. /\ EndsWith(g, q) /\ g \in Seq(Message) /\ Len(g) = Len(shown)
          /\ \A i \in 1..Len(shown) - 1 : g[i] = shown[i]
        BY <1>t, <2>1, <2>4, OnLastRows
    <3> HIDE DEF g
    <3>2. Like(g, stored)
        BY <1>t, <2>1, <2>2, <3>1, LikeOther
    <3> QED
        BY <2>4, <3>1, <3>2 DEF g
  <2>5. CASE e.event = "error"
    <3>1. shown' = Append(Front(shown), Fails(m))
        BY <1>1, <2>1, <2>3, <2>5, AppliedError
    <3>2. Fails(m) \in Message /\ Fails(m).role = "assistant" /\ Fails(m).id = q
        BY <2>3, Changes
    <3> QED
        BY <2>4, <3>1, <3>2
  <2>6. CASE e.event \in {"snapshot", "content"}
    <3> DEFINE n == IF e.event = "snapshot" THEN e.text ELSE m.text + e.text
    <3>1. n \in Nat /\ shown' = Append(Front(shown), Says(m, n))
        BY <1>1, <1>6, <2>1, <2>3, <2>6, AppliedText
    <3> HIDE DEF n
    <3>2. Says(m, n) \in Message /\ Says(m, n).role = "assistant" /\ Says(m, n).id = q
        BY <2>3, <3>1, Changes
    <3> QED
        BY <2>4, <3>1, <3>2
  <2> QED
      BY <1>6, <1>10, <2>5, <2>6
<1> QED
    BY <1>9, <1>10

\* Every step keeps what the tab that follows a run shows.
LEMMA FollowStep ==
    ASSUME SecondInv, EndInv, ErrorInv, ShownInv, [Next]_vars, Sound'
    PROVE  FollowInv'
<1> SUFFICES ASSUME Opened' PROVE FollowInv'
    BY DEF FollowInv
<1>i. /\ TypeOK /\ RegistryInv /\ BodyInv /\ TabInv /\ StreamInv /\ StoredInv /\ FetchInv /\ AttachInv
      /\ EventsInv /\ FlowInv
    BY DEF SecondInv, FirstInv
<1>t. /\ StreamTyped /\ shown \in Seq(Message) /\ stored \in Seq(Message) /\ text \in Nat
      /\ outcome \in Statuses /\ body \in [Requests -> Body] /\ pc \in [Requests -> Labels]
    BY <1>i, TypeParts, BoundsAssumption
<1>s. CASE \E f \in fetches : Show(f)
  <2>1. stream = NoStream /\ (stream' = stream \/ stream' = Call("attach", 0, "sent"))
      BY <1>i, <1>s DEF Show, TabInv
  <2> QED
      BY <2>1, Calls DEF Opened
<1> SUFFICES ASSUME Sound, ~ \E f \in fetches : Show(f) PROVE FollowInv'
    BY <1>s, SoundKept
<1>f. AskedInv /\ FollowInv /\ ~stale /\ ~stale'
    BY DEF ShownInv, Sound
\* Nothing is written, the run followed stays.
<1>1. CASE /\ stream' = stream /\ shown' = shown /\ Quietly
           /\ pc'[stream.run] = "over" => pc[stream.run] = "over"
  <2>1. Opened
      BY <1>1 DEF Opened
  <2> QED
      BY <1>1, <1>f, <2>1 DEF FollowInv, Quietly
<1>2. ASSUME NEW q \in Requests, Reserve(q) \/ Prepare(q) \/ AddReply(q) \/ Fail(q) PROVE FollowInv'
  <2>1. Opened /\ stream' = stream /\ q # stream.run /\ Quietly
      BY <1>2, <1>f, <1>i, HandlerFollowed
  <2>2. shown' = shown
      BY <1>2 DEF Reserve, Prepare, AddReply, Fail
  <2>3. \A p \in Requests : p # q => pc'[p] = pc[p]
    <3>1. CASE Refused(q)
        BY <1>t, <3>1, Refusing DEF Goto
    <3>2. CASE \E l : Goto(q, l)
        BY <1>t, <3>2 DEF Goto
    <3> QED
        BY <1>2, <1>i, <3>1, <3>2, PrepareSteps DEF Reserve, AddReply, Fail, Goto
  <2>4. pc'[stream.run] = pc[stream.run]
      BY <1>i, <2>1, <2>3, RunOf
  <2> QED
      BY <1>1, <2>1, <2>2, <2>4
<1>3. ASSUME NEW q \in Requests, Start(q) PROVE FollowInv'
  <2>1. /\ pc[q] = "added" /\ pc'[q] = "running" /\ (\A p \in Requests : p # q => pc'[p] = pc[p])
        /\ UNCHANGED <<shown, stored>>
      BY <1>3, <1>t DEF Start, Goto
  <2>2. CASE Sent(q)
    <3>1. stream # NoStream /\ stream.call = "post" /\ stream.run = q /\ stream.state = "sent"
      <4>1. stream # NoStream /\ stream.call = "post" /\ stream.run = q
          BY <2>2 DEF Sent, Followed
      <4>2. stream \in StreamType
          BY <1>t, <4>1 DEF StreamTyped
      <4> QED
          BY <1>i, <2>1, <4>1, <4>2 DEF StreamInv, StreamType
    <3>2. Answered(q)
        BY <1>f, <3>1 DEF AskedInv
    <3>3. stored = Begun(shown, q, body[q])
        BY <2>1, <3>2 DEF Answered
    <3>4. First(body[q]) \in Event /\ First(body[q]).event = "start" /\ First(body[q]).body = body[q]
          /\ body[q] \in Body
        BY <1>t, Firsts
    <3>5. stream'.queue = <<First(body[q])>> /\ stream'.run = q
        BY <1>3, <1>t, <2>2, Starting
    <3>6. stream'.queue # <<>> /\ stream'.queue[1] = First(body[q])
        BY <3>4, <3>5, Opening
    <3>7. Becoming(stream'.queue, shown', stream'.run) = stored'
        BY <2>1, <3>3, <3>4, <3>5, <3>6 DEF Becoming, Begins
    <3>8. EndsWith(stored', q)
        BY <1>t, <2>1, <3>3, <3>4, BegunRows
    <3>9. \A p \in Requests : p # q => pc'[p] \notin Unsettled
      <4>1. \A p \in Requests : pc[p] # "ending"
          BY <1>i, <2>1, Values DEF RegistryInv
      <4> QED
          BY <2>1, <3>2, <4>1 DEF Answered, Unsettled
    <3> QED
        BY <2>1, <3>5, <3>7, <3>8, <3>9, LikeItself DEF FollowInv
  <2>3. CASE ~Sent(q)
    <3>1. stream' = stream
        BY <1>3, <1>t, <2>3, Starting
    <3>2. Opened
        BY <3>1 DEF Opened
    <3>3. q # stream.run
        BY <1>i, <2>1, <3>2, RunOf
    <3> QED
        BY <1>f, <2>1, <3>2, <3>3 DEF FollowInv, Unsettled
  <2> QED
      BY <2>2, <2>3
<1>4. ASSUME NEW q \in Requests, Delta(q) \/ EndStream(q) \/ Finish(q) PROVE FollowInv'
  <2>1. /\ pc[q] \in Running /\ UNCHANGED <<shown, stored>> /\ Quietly
        /\ \A p \in Requests : p # q => pc'[p] = pc[p]
    <3>1. pc[q] \in Running /\ UNCHANGED <<shown, stored>>
        BY <1>4 DEF Delta, EndStream, Finish
    <3>2. \A p \in Requests : p # q => pc'[p] = pc[p]
        BY <1>4, <1>t DEF Delta, EndStream, Finish, Goto
    <3> QED
        BY <1>4, <1>i, <3>1, <3>2, QuietSteps
  <2>2. CASE Opened /\ stream.run = q
    <3>1. /\ stream.queue \in Seq(Event)
          /\ \A ev \in Event : /\ Published(q, ev).run = q
                               /\ Published(q, ev).queue = Append(stream.queue, ev)
        BY <1>i, <1>t, <2>2, RunOf, Publishing
    <3>2. /\ Like(Becoming(stream.queue, shown, q), stored)
          /\ EndsWith(Becoming(stream.queue, shown, q), q)
          /\ \A p \in Requests : p # q => pc[p] \notin Unsettled
        BY <1>f, <2>2 DEF FollowInv
    <3>3. \A p \in Requests : p # q => pc'[p] \notin Unsettled
        BY <2>1, <3>2
    <3>4. ASSUME stream' = stream, pc'[q] # "over" PROVE FollowInv'
        BY <2>1, <2>2, <3>2, <3>3, <3>4 DEF FollowInv
    <3>5. ASSUME NEW ev \in Event, ev.event \notin {"start", "snapshot"}, stream' = Published(q, ev),
                 pc'[q] = "over" => Last(stored) = Replies(q, ev.status, ev.text)
          PROVE  FollowInv'
      <4>0. stream'.run = q /\ stream'.queue = Append(stream.queue, ev)
          BY <3>1, <3>5
      <4>1. stream'.run = q /\ stream'.queue = Append(stream.queue, ev) /\ Last(stream'.queue) = ev
          BY <3>1, <3>5, <4>0, LastAppended
      <4>2. Becoming(stream'.queue, shown, q) = Becoming(stream.queue, shown, q)
          BY <3>1, <3>5, <4>1, BecomingAppend
      <4> QED
          BY <2>1, <3>2, <3>3, <3>5, <4>1, <4>2 DEF FollowInv
    <3>6. CASE Delta(q)
      <4>1. Ev("content", 1, "streaming") \in Event /\ Ev("content", 1, "streaming").event = "content"
          BY Evs
      <4> QED
          BY <3>5, <3>6, <4>1 DEF Delta
    <3>7. CASE EndStream(q)
      <4>1. Ev("error", 0, "error") \in Event /\ Ev("error", 0, "error").event = "error"
          BY Evs
      <4>2. pc'[q] = "ending"
          BY <1>t, <3>7 DEF EndStream, Goto
      <4> QED
          BY <3>4, <3>5, <3>7, <4>1, <4>2 DEF EndStream
    <3>8. CASE Finish(q)
      <4> DEFINE ev == Ev("done", text, outcome)
      <4>1. ev \in Event /\ ev.event = "done" /\ ev.text = text /\ ev.status = outcome
          BY <1>t, Evs
      <4>2. Last(stored) = Replies(q, outcome, text) /\ stream' = Published(q, ev)
          BY <1>i, <3>8 DEF Finish, StoredInv
      <4> HIDE DEF ev
      <4> QED
          BY <3>5, <4>1, <4>2
    <3> QED
        BY <1>4, <3>6, <3>7, <3>8
  <2>3. CASE ~ (Opened /\ stream.run = q)
    <3>1. stream' = stream
        BY <1>4, <1>i, <1>t, <2>3, RequestStreams, Publishing
    <3>2. pc'[stream.run] = pc[stream.run]
        BY <1>i, <2>1, <2>3, <3>1, RunOf DEF Opened
    <3> QED
        BY <1>1, <2>1, <3>1, <3>2
  <2> QED
      BY <2>2, <2>3
<1>5. ASSUME NEW q \in Requests, Save(q) PROVE FollowInv'
  <2>1. /\ pc[q] = "ending" /\ pc'[q] = "saved" /\ (\A p \in Requests : p # q => pc'[p] = pc[p])
        /\ UNCHANGED <<shown, stream>>
      BY <1>5, <1>t DEF Save, Goto, tab
  <2>2. Opened
      BY <2>1 DEF Opened
  <2>3. stream.run = q
      BY <1>f, <2>1, <2>2 DEF FollowInv, Unsettled
  <2>4. /\ stored # <<>> /\ Last(stored) = Replies(q, "streaming", 0)
        /\ stored' \in Seq(Message) /\ Len(stored') = Len(stored)
        /\ Last(stored') = Replies(q, outcome, text)
        /\ \A i \in 1..Len(stored) - 1 : stored'[i] = stored[i]
      BY <1>5, <1>i, SavedRows
  <2>5. \A h : Like(h, stored) => Like(h, stored')
      BY <2>4, ReplyRow DEF Like
  <2> QED
      BY <1>f, <2>1, <2>2, <2>3, <2>5 DEF FollowInv, Unsettled
<1>6. ASSUME NEW q \in Requests, Ask(q) PROVE FollowInv'
    BY <1>6, Calls DEF Ask, Opened
<1>7. ASSUME NEW q \in Requests, AskElsewhere(q) PROVE FollowInv'
  <2>1. stream' = stream /\ shown' = shown /\ pc' = [pc EXCEPT ![q] = "sent"] /\ pc[q] = "idle"
      BY <1>7 DEF AskElsewhere, Goto, tab, Made
  <2>2. pc'[stream.run] = "over" => pc[stream.run] = "over"
      BY <1>i, <1>t, <2>1, RunOf DEF Opened
  <2> QED
      BY <1>1, <1>7, <1>i, <2>1, <2>2, QuietSteps
<1>8. CASE TabStep
  <2>0. UNCHANGED <<stored, pc, runs>> /\ Quietly
      BY <1>8, TabStepServer DEF Quietly
  <2>1. CASE Subscribe
    <3>1. runs \in Requests
        BY <1>t, <2>1, Subscribing DEF Opened
    <3> DEFINE ev == Ev("snapshot", text, "streaming")
    <3>2. ev \in Event /\ ev.event = "snapshot"
        BY <1>t, Evs
    <3>3. stream'.run = runs /\ stream'.queue = <<ev>>
        BY <1>t, <2>1, <3>1, Subscribing
    <3> HIDE DEF ev
    <3>4. stream'.queue[1] = ev
        BY <3>2, <3>3, Opening
    <3>5. shown' = shown /\ Like(shown, stored)
        BY <1>f, <1>i, <2>1 DEF Subscribe, AttachInv, AsRead
    <3>6. Becoming(stream'.queue, shown', stream'.run) = shown
        BY <3>2, <3>4, <3>5 DEF Becoming
    <3>7. pc[runs] \in Running /\ \A p \in Requests : p # runs => pc[p] \notin Unsettled
        BY <1>i, <3>1, Values DEF RegistryInv, Unsettled
    <3>8. \E st, n : stored # <<>> /\ Last(stored) = Replies(runs, st, n)
        BY <1>i, <3>1, <3>7 DEF StoredInv, Unsettled
    <3>9. Last(stored).role = "assistant" /\ Last(stored).id = runs /\ stored # <<>>
        BY <3>8, ReplyRow
    <3>10. shown # <<>>
        BY <1>t, <3>5, <3>9, EmptySeq DEF Like
    <3>11. EndsWith(shown, runs)
        BY <3>5, <3>9, <3>10 DEF Like, EndsWith, EndsInReply, Last
    <3> QED
        BY <2>0, <3>3, <3>5, <3>6, <3>7, <3>11 DEF FollowInv
  <2>2. CASE Deliver
      BY <1>f, <1>i, <1>t, <2>2, Delivering, DeliverFollow DEF Opened
  <2>3. CASE Unstreamed \/ Leave
      BY <2>3 DEF Unstreamed, Leave, Opened
  <2>4. CASE Lose
      BY <2>4 DEF Lose, Sound
  <2>5. CASE Open \/ UNCHANGED vars
      BY <1>1, <2>0, <2>5 DEF Open, vars, tab
  <2>6. ASSUME NEW f \in fetches, ReadMessages(f) \/ ReadRegistry(f) PROVE FollowInv'
      BY <1>1, <2>0, <2>6 DEF ReadMessages, ReadRegistry
  <2> QED
      BY <1>8, <2>1, <2>2, <2>3, <2>4, <2>5, <2>6 DEF TabStep
<1> QED
    BY <1>2, <1>3, <1>4, <1>5, <1>6, <1>7, <1>8, NextSplit

\* What is stored is final unless a run is about to save.
LEMMA FinalStored ==
    ASSUME \A q \in Requests : ~ (runs = q /\ pc[q] = "ending")
    PROVE  Final = stored
BY DEF Final

\* What will be saved does not change while the run at its end stays.
LEMMA FinalKept ==
    ASSUME UNCHANGED <<stored, text, outcome>>,
           \A q \in Requests : runs' = q /\ pc'[q] = "ending" <=> runs = q /\ pc[q] = "ending"
    PROVE  Final' = Final
<1>1. \A h, q : Settled(h, q)' = Settled(h', q)
    BY DEF Settled, Replies
<1>2. CASE runs \in Requests /\ pc[runs] = "ending"
  <2>1. runs' = runs /\ pc'[runs] = "ending"
      BY <1>2
  <2>2. Final = Settled(stored, runs) /\ Final' = Settled(stored, runs)'
      BY <1>2, <2>1 DEF Final
  <2> QED
      BY <2>1, <2>2 DEF Settled, Replies
<1>3. CASE ~ (runs \in Requests /\ pc[runs] = "ending")
  <2>1. ~ (runs' \in Requests /\ pc'[runs'] = "ending")
      BY <1>3
  <2> QED
      BY <1>3, <2>1 DEF Final
<1> QED
    BY <1>2, <1>3

\* What it takes for a request to be answered.
LEMMA AnsweredThen ==
    ASSUME NEW p, stream'.run = p,
           \A q \in Requests : q # p => pc'[q] \notin {"added", "running"},
           pc'[p] \in {"sent", "reserved"} =>
               shown' = Trimmed(Final', body'[p]) /\ Doable(Final', body'[p]),
           pc'[p] = "prepared" => stored' = WithAsk(shown', p, body'[p]),
           pc'[p] = "added" => stored' = Begun(shown', p, body'[p])
    PROVE  AskedInv'
BY DEF AskedInv, Answered

\* A step that leaves what a request relies on leaves it answered.
LEMMA AnsweredKept ==
    ASSUME NEW p \in Requests, stream'.run = p, Answered(p), UNCHANGED shown, Final' = Final,
           pc'[p] = pc[p], body'[p] = body[p],
           stored' = stored \/ pc[p] \notin {"prepared", "added"},
           \A q \in Requests : q # p /\ pc'[q] \in {"added", "running"} => pc[q] \in {"added", "running"}
    PROVE  AskedInv'
<1>1. \A q \in Requests : q # p => pc'[q] \notin {"added", "running"}
    BY DEF Answered
<1>2. pc'[p] \in {"sent", "reserved"} =>
          shown' = Trimmed(Final', body'[p]) /\ Doable(Final', body'[p])
    BY DEF Answered
<1>3. pc'[p] = "prepared" => stored' = WithAsk(shown', p, body'[p])
    BY DEF Answered
<1>4. pc'[p] = "added" => stored' = Begun(shown', p, body'[p])
    BY DEF Answered
<1> QED
    BY <1>1, <1>2, <1>3, <1>4, AnsweredThen

\* The tab still waits for the answer it waited for, unless it has just asked.
LEMMA WaitKept ==
    ASSUME TypeOK, TabInv, [Next]_vars, Sound',
           stream' # NoStream, stream'.call = "post", stream'.state = "sent",
           ~ \E q \in Requests : Ask(q)
    PROVE  stream' = stream /\ shown' = shown
<1>t. StreamTyped /\ body \in [Requests -> Body] /\ pc \in [Requests -> Labels]
    BY TypeParts
<1>1. ASSUME NEW q \in Requests,
             \/ Reserve(q) \/ Prepare(q) \/ AddReply(q) \/ Fail(q) \/ Start(q)
             \/ Delta(q) \/ EndStream(q) \/ Save(q) \/ Finish(q) \/ AskElsewhere(q)
      PROVE  stream' = stream /\ shown' = shown
  <2>1. shown' = shown
      BY <1>1 DEF Reserve, Prepare, AddReply, Fail, Start, Delta, EndStream, Save, Finish,
                  AskElsewhere, tab
  <2>2. ASSUME Refused(q) PROVE stream' = stream
      BY <1>t, <2>2, Refusing
  <2>3. CASE Reserve(q) \/ Fail(q) \/ AddReply(q)
      BY <2>1, <2>2, <2>3 DEF Reserve, Fail, AddReply
  <2>4. CASE Prepare(q)
      BY <2>1, <2>2, <2>4, PrepareSteps
  <2>5. CASE Start(q)
      BY <1>t, <2>1, <2>5, Starting
  <2>6. CASE Delta(q) \/ EndStream(q) \/ Finish(q)
    <3>1. stream' = stream \/ \E ev \in Event : stream' = Published(q, ev)
        BY <2>6, RequestStreams
    <3> QED
        BY <1>t, <2>1, <3>1, Publishing
  <2>7. CASE Save(q) \/ AskElsewhere(q)
      BY <2>7 DEF Save, AskElsewhere, tab
  <2> QED
      BY <1>1, <2>3, <2>4, <2>5, <2>6, <2>7
<1>2. CASE TabStep
  <2>1. CASE Subscribe
      BY <1>t, <2>1, Subscribing
  <2>2. CASE Deliver
      BY <1>t, <2>2, Delivering
  <2>3. CASE Unstreamed \/ Leave
      BY <2>3 DEF Unstreamed, Leave
  <2>4. CASE Lose
      BY <2>4 DEF Lose, Sound
  <2>5. CASE Open \/ UNCHANGED vars
      BY <2>5 DEF Open, vars, tab
  <2>6. ASSUME NEW f \in fetches, ReadMessages(f) \/ ReadRegistry(f)
        PROVE  stream' = stream /\ shown' = shown
      BY <2>6 DEF ReadMessages, ReadRegistry
  <2>7. ASSUME NEW f \in fetches, Show(f) PROVE FALSE
    <3>1. stream = NoStream /\ (stream' = stream \/ stream' = Call("attach", 0, "sent"))
        BY <2>7 DEF TabInv, Show
    <3> QED
        BY <3>1, Calls
  <2> QED
      BY <1>2, <2>1, <2>2, <2>3, <2>4, <2>5, <2>6, <2>7 DEF TabStep
<1> QED
    BY <1>1, <1>2, NextSplit

\* The request the tab waits for takes its own steps.
LEMMA AskedOwn ==
    ASSUME TypeOK, RegistryInv, BodyInv, StreamInv, NEW p \in Requests, Answered(p),
           UNCHANGED <<stream, shown>>, stream # NoStream, stream.call = "post", stream.run = p,
           stream.state = "sent",
           \/ Reserve(p) \/ Prepare(p) \/ AddReply(p) \/ Fail(p) \/ Start(p)
           \/ Delta(p) \/ EndStream(p) \/ Save(p) \/ Finish(p) \/ AskElsewhere(p)
    PROVE  AskedInv'
<1>t. StreamTyped /\ body \in [Requests -> Body] /\ pc \in [Requests -> Labels]
      /\ shown \in Seq(Message) /\ stored \in Seq(Message)
    BY TypeParts
<1>1. pc[p] \in {"sent"} \cup Preparing /\ Sent(p)
    BY DEF StreamInv, Sent, Followed
<1>2. ~Refused(p)
    BY <1>1, <1>t, Refusing
<1>3. ASSUME NEW l \in Labels, Goto(p, l)
      PROVE  pc'[p] = l /\ \A q \in Requests : q # p => pc'[q] = pc[q]
    BY <1>3, <1>t, GotoType
<1>4. CASE Reserve(p)
  <2>1. pc[p] = "sent" /\ runs = Absent /\ runs' = Reserved /\ Goto(p, "reserved")
        /\ UNCHANGED <<body, stored, text, outcome>>
      BY <1>2, <1>4 DEF Reserve
  <2>2. pc'[p] = "reserved" /\ \A q \in Requests : q # p => pc'[q] = pc[q]
      BY <1>3, <2>1 DEF Labels
  <2>3. Final' = Final
      BY <2>1, Values, FinalKept
  <2>4. shown = Trimmed(Final, body[p]) /\ Doable(Final, body[p])
      BY <2>1 DEF Answered
  <2>5. \A q \in Requests : q # p => pc'[q] \notin {"added", "running"}
      BY <2>2 DEF Answered
  <2> QED
      BY <2>1, <2>2, <2>3, <2>4, <2>5, AnsweredThen
<1>5. CASE Prepare(p)
  <2>1. pc[p] = "reserved"
      BY <1>5 DEF Prepare
  <2>2. /\ stored' = Prepared(p) /\ pc' = [pc EXCEPT ![p] = "prepared"] /\ UNCHANGED body
      BY <1>2, <1>5, PrepareSteps
  <2>3. pc'[p] = "prepared" /\ \A q \in Requests : q # p => pc'[q] = pc[q]
      BY <1>t, <2>2
  <2>4. \A q \in Requests : q # p => pc'[q] \notin {"added", "running"}
      BY <2>3 DEF Answered
  <2>5. Final = stored
      BY <2>1, FinalStored, Values DEF RegistryInv
  <2>6. shown = Trimmed(stored, body[p]) /\ Doable(stored, body[p])
      BY <2>1, <2>5 DEF Answered
  <2>7. body[p] \in Body /\ body[p].kind \in {"send", "edit", "regenerate"}
      BY <1>t DEF Body
  <2>8. body[p].kind = "send" => body[p].pivot = p
      BY <2>1 DEF BodyInv
  <2>9. Prepared(p) = WithAsk(shown, p, body[p])
    <3>1. CASE body[p].kind = "send"
        BY <2>6, <2>8, <3>1 DEF Prepared, WithAsk, Trimmed
    <3>2. CASE body[p].kind = "edit"
        BY <2>6, <3>2 DEF Prepared, WithAsk, Trimmed
    <3>3. CASE body[p].kind = "regenerate"
        BY <2>6, <3>3 DEF Prepared, WithAsk, Trimmed, Doable
    <3> QED
        BY <2>7, <3>1, <3>2, <3>3
  <2> QED
      BY <2>2, <2>3, <2>4, <2>9, AnsweredThen
<1>6. CASE AddReply(p)
  <2>1. /\ pc[p] = "prepared" /\ stored' = Append(stored, Replies(p, "streaming", 0))
        /\ Goto(p, "added") /\ UNCHANGED body
      BY <1>6 DEF AddReply
  <2>2. pc'[p] = "added" /\ \A q \in Requests : q # p => pc'[q] = pc[q]
      BY <1>3, <2>1 DEF Labels
  <2>3. \A q \in Requests : q # p => pc'[q] \notin {"added", "running"}
      BY <2>2 DEF Answered
  <2>4. stored = WithAsk(shown, p, body[p])
      BY <2>1 DEF Answered
  <2>5. stored' = Begun(shown, p, body[p])
      BY <2>1, <2>4 DEF WithAsk, Begun
  <2> QED
      BY <2>1, <2>2, <2>3, <2>5, AnsweredThen
<1>7. ~Fail(p)
    BY <1>2 DEF Fail
<1>8. ~Start(p)
    BY <1>1, <1>t, Starting
<1>9. ~ (Delta(p) \/ EndStream(p) \/ Save(p) \/ Finish(p))
    BY <1>1 DEF Delta, EndStream, Save, Finish
<1>10. ~AskElsewhere(p)
    BY <1>1 DEF AskElsewhere, Made
<1> QED
    BY <1>4, <1>5, <1>6, <1>7, <1>8, <1>9, <1>10

\* Nobody else's step comes in between.
LEMMA AskedOthers ==
    ASSUME TypeOK, RegistryInv, StreamInv, NEW p \in Requests, Answered(p),
           UNCHANGED <<stream, shown>>, stream # NoStream, stream.call = "post", stream.run = p,
           stream.state = "sent", ~stale', NEW q \in Requests, q # p,
           \/ Reserve(q) \/ Prepare(q) \/ AddReply(q) \/ Fail(q) \/ Start(q)
           \/ Delta(q) \/ EndStream(q) \/ Save(q) \/ Finish(q) \/ AskElsewhere(q)
    PROVE  AskedInv'
<1>t. StreamTyped /\ body \in [Requests -> Body] /\ pc \in [Requests -> Labels]
      /\ shown \in Seq(Message) /\ stored \in Seq(Message)
    BY TypeParts
<1>1. pc[p] \in {"sent"} \cup Preparing /\ ~Sent(q)
    BY DEF StreamInv, Sent, Followed
<1>2. ~Written(q)
    BY <1>1 DEF Written
<1>3. ASSUME NEW l \in Labels, Goto(q, l)
      PROVE  pc'[q] = l /\ \A r \in Requests : r # q => pc'[r] = pc[r]
    BY <1>3, <1>t, GotoType
<1>4. ASSUME Forgotten(q) \/ body' = body PROVE body'[p] = body[p]
    BY <1>4, <1>t, BodyType
\* A step that writes nothing, and starts nothing.
<1>5. ASSUME NEW l \in Labels, Goto(q, l), l \notin {"added", "running", "ending"}, pc[q] # "ending",
             body'[p] = body[p], UNCHANGED <<stored, text, outcome>>,
             runs' = runs \/ (runs \notin Requests /\ runs' \notin Requests)
      PROVE  AskedInv'
  <2>1. pc'[q] = l /\ \A r \in Requests : r # q => pc'[r] = pc[r]
      BY <1>3, <1>5
  <2>2. Final' = Final
      BY <1>5, <2>1, FinalKept
  <2> QED
      BY <1>5, <2>1, <2>2, AnsweredKept
<1>6. CASE Reserve(q)
  <2>1. pc[q] = "sent" /\ UNCHANGED <<stored, text, outcome>>
        /\ (runs' = runs \/ (runs = Absent /\ runs' = Reserved))
        /\ ((Goto(q, "reserved") /\ body' = body) \/ (Goto(q, "over") /\ Forgotten(q)))
    <3>1. CASE runs = Absent
        BY <1>6, <3>1 DEF Reserve
    <3>2. CASE runs # Absent
        BY <1>6, <3>2 DEF Reserve, Refused
    <3> QED
        BY <3>1, <3>2
  <2> QED
      BY <1>4, <1>5, <2>1, Values DEF Labels
<1>7. CASE Prepare(q)
  <2>1. pc[q] = "reserved" /\ UNCHANGED <<text, outcome>>
      BY <1>7 DEF Prepare
  <2>2. Refused(q) /\ runs' = Absent /\ UNCHANGED stored
      BY <1>2, <1>7, PrepareSteps
  <2>3. Goto(q, "over") /\ Forgotten(q)
      BY <2>2 DEF Refused
  <2>4. runs = Reserved
      BY <2>1 DEF RegistryInv
  <2> QED
      BY <1>4, <1>5, <2>1, <2>2, <2>3, <2>4, Values DEF Labels
<1>8. ~AddReply(q)
    BY <1>2 DEF AddReply
<1>9. CASE Fail(q)
  <2>1. pc[q] \in {"prepared", "added"} /\ UNCHANGED <<stored, text, outcome>> /\ runs' = Absent
        /\ Goto(q, "over") /\ Forgotten(q)
      BY <1>9 DEF Fail, Refused
  <2>2. runs = Reserved
      BY <2>1 DEF RegistryInv
  <2> QED
      BY <1>4, <1>5, <2>1, <2>2, Values DEF Labels
<1>10. ~ (Start(q) \/ Delta(q) \/ EndStream(q))
    BY DEF Answered, Start, Delta, EndStream
<1>11. CASE Save(q)
  <2>1. /\ pc[q] = "ending" /\ Goto(q, "saved") /\ stored' = Settled(stored, q)
        /\ UNCHANGED <<runs, body>>
      BY <1>11 DEF Save
  <2>2. runs = q
      BY <2>1 DEF RegistryInv
  <2>3. pc'[q] = "saved" /\ \A r \in Requests : r # q => pc'[r] = pc[r]
      BY <1>3, <2>1 DEF Labels
  <2>4. Final = stored'
      BY <2>1, <2>2 DEF Final
  <2>5. Final' = stored'
      BY <2>1, <2>2, <2>3 DEF Final
  <2>6. pc[p] \notin {"prepared", "added"}
      BY <2>2, Values DEF RegistryInv
  <2> QED
      BY <2>1, <2>3, <2>4, <2>5, <2>6, AnsweredKept
<1>12. CASE Finish(q)
  <2>1. /\ pc[q] = "saved" /\ Goto(q, "over") /\ runs' = Absent /\ UNCHANGED <<stored, body>>
      BY <1>12 DEF Finish
  <2>2. runs = q
      BY <2>1 DEF RegistryInv
  <2>3. pc'[q] = "over" /\ \A r \in Requests : r # q => pc'[r] = pc[r]
      BY <1>3, <2>1 DEF Labels
  <2>4. Final = stored
      BY <2>1, <2>2 DEF Final
  <2>5. Final' = stored'
      BY <2>1, Values DEF Final
  <2> QED
      BY <2>1, <2>3, <2>4, <2>5, AnsweredKept
<1>13. CASE AskElsewhere(q)
  <2>1. pc[q] = "idle" /\ Goto(q, "sent") /\ UNCHANGED <<stored, runs, text, outcome>>
      BY <1>13 DEF AskElsewhere, Made
  <2>2. body'[p] = body[p]
      BY <1>13, AskedElsewhereType
  <2>3. "sent" \in Labels
      BY DEF Labels
  <2> QED
      BY <1>5, <2>1, <2>2, <2>3
<1> QED
    BY <1>6, <1>7, <1>8, <1>9, <1>10, <1>11, <1>12, <1>13

\* A new request trims what will be stored.
LEMMA AskedNow ==
    ASSUME SecondInv, EndInv, ErrorInv, ShownInv, Sound, Sound', NEW q \in Requests, Ask(q)
    PROVE  AskedInv'
<1>i. /\ TypeOK /\ RegistryInv /\ BodyInv /\ TabInv /\ StreamInv /\ StoredInv /\ FetchInv /\ AttachInv
      /\ EventsInv /\ FlowInv
    BY DEF SecondInv, FirstInv
<1>t. /\ StreamTyped /\ shown \in Seq(Message) /\ stored \in Seq(Message)
      /\ body \in [Requests -> Body] /\ pc \in [Requests -> Labels]
    BY <1>i, TypeParts
<1>1. /\ mounted /\ ~spin /\ pc[q] = "idle" /\ Goto(q, "sent") /\ stream' = Call("post", q, "sent")
      /\ stale' = (stale \/ fetches # {}) /\ UNCHANGED <<stored, runs, text, outcome>>
    BY DEF Ask, Made
<1>2. fetches = {} /\ ~stale
    BY <1>1 DEF Sound
<1>3. /\ shown = Final /\ Once(shown)
      /\ \A r \in Requests : pc[r] \notin {"added", "running"}
  <2>1. CASE stream = NoStream
    <3>1. shown = stored /\ \A r \in Requests : pc[r] \notin Unsettled
        BY <1>1, <1>2, <2>1 DEF ShownInv, IdleInv
    <3>2. Final = stored
        BY <3>1, FinalStored DEF Unsettled
    <3> QED
        BY <1>i, <3>1, <3>2 DEF StoredInv, Unsettled
  <2>2. CASE stream # NoStream
    <3>1. Opened
        BY <1>1, <2>2 DEF EndInv, Opened
    <3> QED
        BY <1>i, <1>1, <1>2, <3>1, FailedShown DEF ShownInv
  <2> QED
      BY <2>1, <2>2
<1>4. pc'[q] = "sent" /\ \A r \in Requests : r # q => pc'[r] = pc[r]
    BY <1>t, <1>1, GotoType DEF Labels
<1>5. Final' = Final
    BY <1>1, <1>4, FinalKept
<1>6. shown' = Trimmed(shown, body'[q]) /\ Doable(shown, body'[q])
  <2>1. CASE Asked(q, "send", q) /\ UNCHANGED shown
    <3>1. body'[q].kind = "send"
        BY <1>t, <2>1 DEF Asked
    <3> QED
        BY <2>1, <3>1 DEF Trimmed, Doable
  <2>3. ASSUME NEW i \in DOMAIN shown, shown[i].role = "user", Asked(q, "edit", shown[i].id),
               shown' = SubSeq(shown, 1, i - 1)
        PROVE  shown' = Trimmed(shown, body'[q]) /\ Doable(shown, body'[q])
    <3>1. body'[q].kind = "edit" /\ body'[q].pivot = shown[i].id
        BY <1>t, <2>3 DEF Asked
    <3>2. Place(shown, shown[i].id) = i
      <4>1. \A j \in DOMAIN shown : shown[j].role = "user" /\ shown[j].id = shown[i].id => j = i
          BY <1>3, <2>3 DEF Once
      <4> QED
          BY <2>3, <4>1 DEF Place
    <3>3. i # 0
        BY <1>t, <2>3, Rows
    <3> QED
        BY <2>3, <3>1, <3>2, <3>3 DEF Trimmed, Doable
  <2>4. CASE EndsInReply(shown) /\ Asked(q, "regenerate", 0) /\ shown' = Front(shown)
    <3>1. body'[q].kind = "regenerate"
        BY <1>t, <2>4 DEF Asked
    <3> QED
        BY <2>4, <3>1 DEF Trimmed, Doable
  <2> QED
      BY <2>1, <2>3, <2>4 DEF Ask
<1>7. stream'.run = q
    BY <1>1, Calls
<1>8. \A r \in Requests : r # q => pc'[r] \notin {"added", "running"}
    BY <1>3, <1>4
<1> QED
    BY <1>3, <1>4, <1>5, <1>6, <1>7, <1>8, AnsweredThen

\* Every step keeps what the tab that waits for an answer shows.
LEMMA AskedStep ==
    ASSUME SecondInv, EndInv, ErrorInv, ShownInv, [Next]_vars, Sound'
    PROVE  AskedInv'
<1>i. /\ TypeOK /\ RegistryInv /\ BodyInv /\ TabInv /\ StreamInv
    BY DEF SecondInv, FirstInv
<1> SUFFICES ASSUME stream' # NoStream, stream'.call = "post", stream'.state = "sent" PROVE AskedInv'
    BY DEF AskedInv
<1>1. CASE \E f \in fetches : Show(f)
  <2>1. stream = NoStream /\ (stream' = stream \/ stream' = Call("attach", 0, "sent"))
      BY <1>i, <1>1 DEF Show, TabInv
  <2> QED
      BY <2>1, Calls
<1> SUFFICES ASSUME Sound, ~ \E f \in fetches : Show(f) PROVE AskedInv'
    BY <1>1, SoundKept
<1>2. CASE \E q \in Requests : Ask(q)
    BY <1>2, AskedNow
<1>3. CASE ~ \E q \in Requests : Ask(q)
  <2>1. stream' = stream /\ shown' = shown
      BY <1>3, <1>i, WaitKept
  <2>2. stream # NoStream /\ stream.call = "post" /\ stream.state = "sent" /\ stream.run \in Requests
        /\ Answered(stream.run)
      BY <1>i, <2>1 DEF ShownInv, AskedInv, StreamInv
  <2>3. ASSUME NEW q \in Requests,
               \/ Reserve(q) \/ Prepare(q) \/ AddReply(q) \/ Fail(q) \/ Start(q)
               \/ Delta(q) \/ EndStream(q) \/ Save(q) \/ Finish(q) \/ AskElsewhere(q)
        PROVE  AskedInv'
    <3>1. CASE q = stream.run
        BY <1>i, <2>1, <2>2, <2>3, <3>1, AskedOwn
    <3>2. CASE q # stream.run
        BY <1>i, <2>1, <2>2, <2>3, <3>2, AskedOthers DEF Sound
    <3> QED
        BY <3>1, <3>2
  <2>4. CASE TabStep
    <3>1. UNCHANGED <<stored, runs, pc, body, text, outcome>>
        BY <2>4, TabStepServer
    <3>2. Final' = Final
        BY <3>1, FinalKept
    <3> QED
        BY <2>1, <2>2, <3>1, <3>2, AnsweredKept
  <2> QED
      BY <1>3, <2>3, <2>4, NextSplit
<1> QED
    BY <1>2, <1>3

\* A stream that changes is still a stream.
LEMMA SomeStream ==
    ASSUME StreamTyped, stream # NoStream
    PROVE  /\ \A s \in {"sent", "open", "refused", "nothing"} : \A b \in Seq(Event) :
                 /\ [stream EXCEPT !.state = s] # NoStream
                 /\ [stream EXCEPT !.state = s, !.queue = b] # NoStream
                 /\ [stream EXCEPT !.queue = b, !.began = TRUE] # NoStream
                 /\ \A q \in Requests : [stream EXCEPT !.run = q, !.state = s, !.queue = b] # NoStream
<1>1. stream \in StreamType
    BY DEF StreamTyped
<1> QED
    BY <1>1, StreamIs DEF StreamType

\* Only the tab ends what it follows.
LEMMA StreamStays ==
    ASSUME TypeOK, stream # NoStream, NEW q \in Requests,
           \/ Reserve(q) \/ Prepare(q) \/ AddReply(q) \/ Fail(q) \/ Start(q)
           \/ Delta(q) \/ EndStream(q) \/ Save(q) \/ Finish(q) \/ AskElsewhere(q)
    PROVE  stream' # NoStream
<1>t. StreamTyped /\ body \in [Requests -> Body] /\ stream \in StreamType
    BY TypeParts DEF StreamTyped
<1>1. ASSUME Refused(q) PROVE stream' # NoStream
  <2>1. [stream EXCEPT !.state = "refused"] # NoStream
      BY <1>t, SomeStream, EmptySeq
  <2> QED
      BY <1>1, <2>1 DEF Refused
<1>2. CASE Reserve(q) \/ Fail(q)
    BY <1>1, <1>2 DEF Reserve, Fail
<1>3. CASE Prepare(q)
    BY <1>1, <1>3, PrepareSteps
<1>4. CASE Start(q)
  <2>1. <<First(body[q])>> \in Seq(Event)
      BY <1>t, Firsts, Opening
  <2>2. [stream EXCEPT !.state = "open", !.queue = <<First(body[q])>>] # NoStream
      BY <1>t, <2>1, SomeStream
  <2> QED
      BY <1>4, <2>2 DEF Start, First
<1>5. CASE Delta(q) \/ EndStream(q) \/ Finish(q)
  <2>1. ASSUME NEW ev \in Event PROVE Published(q, ev) # NoStream
    <3>1. Append(stream.queue, ev) \in Seq(Event)
        BY <1>t DEF StreamType
    <3>2. [stream EXCEPT !.queue = Append(stream.queue, ev)] \in StreamType
        BY <1>t, <3>1 DEF StreamType
    <3> QED
        BY <3>2, StreamIs DEF Published
  <2> QED
      BY <1>5, <2>1, RequestStreams
<1>6. CASE AddReply(q) \/ Save(q) \/ AskElsewhere(q)
    BY <1>6 DEF AddReply, Save, AskElsewhere, tab
<1> QED
    BY <1>2, <1>3, <1>4, <1>5, <1>6

\* `done` makes the message what its row is.
LEMMA DoneShown ==
    ASSUME TypeOK, RegistryInv, StreamInv, StoredInv, EndInv, FollowInv, Deliver,
           Head(stream.queue).event = "done"
    PROVE  shown' = stored /\ \A q \in Requests : pc[q] \notin Unsettled
<1>t. StreamTyped /\ shown \in Seq(Message) /\ stored \in Seq(Message)
    BY TypeParts
<1> DEFINE s == stream.queue
           q == stream.run
           e == Head(s)
<1>1. Opened /\ s \in Seq(Event) /\ s # <<>> /\ shown' = Applied(shown, q, e)
    BY <1>t, Delivering DEF Opened, Deliver
<1>2. e = s[1] /\ 1 \in DOMAIN s /\ e \in Event
    BY <1>1, Taking
<1>3. Last(s) = e
    BY <1>1, <1>2 DEF EndInv, Ending, Last
<1>4. q \in Requests /\ pc[q] = "over"
    BY <1>1, <1>2, RunOf DEF StreamInv, Opened, Queued
<1>5. /\ Like(shown, stored) /\ EndsWith(shown, q)
      /\ \A p \in Requests : p # q => pc[p] \notin Unsettled
      /\ Last(stored) = Replies(q, e.status, e.text)
    BY <1>1, <1>2, <1>3, <1>4 DEF FollowInv, Becoming
<1> HIDE DEF s, e, q
<1>6. /\ Len(shown) \in DOMAIN shown /\ Len(shown) \in ReplyPlace(shown, q)
      /\ DOMAIN shown = 1..Len(shown) /\ DOMAIN stored = 1..Len(stored)
      /\ Len(stored) \in Nat /\ Len(shown) = Len(stored) /\ Len(stored) # 0
    BY <1>t, <1>5, Rows DEF EndsWith, EndsInReply, Last, ReplyPlace, Like
<1>7. shown' = Closed(shown, q, e) /\ Closed(shown, q, e) \in Seq(Message)
  <2>1. e.event = "done"
      BY DEF e, s
  <2> QED
      BY <1>1, <1>2, <1>4, <1>6, <1>t, <2>1, AppliedDone, ClosedType
<1>8. DOMAIN Closed(shown, q, e) = DOMAIN shown
    BY DEF Closed
<1>9. ASSUME NEW i \in 1..Len(stored) PROVE Closed(shown, q, e)[i] = stored[i]
  <2>1. CASE i = Len(stored)
      BY <1>5, <1>6, <2>1 DEF Closed, Last
  <2>2. CASE i # Len(stored)
    <3>1. i \in 1..Len(shown) - 1 /\ i \in DOMAIN shown /\ i \in DOMAIN stored
          /\ Len(stored) \in DOMAIN stored
      <4>1. i \in 1..Len(stored) - 1 /\ Len(stored) \in 1..Len(stored)
        <5>1. \A n \in Nat : n # 0 /\ i \in 1..n /\ i # n => i \in 1..n - 1 /\ n \in 1..n
            OBVIOUS
        <5> QED
            BY <1>6, <1>9, <2>2, <5>1
      <4> QED
          BY <1>6, <4>1
    <3>2. shown[i] = stored[i]
        BY <1>5, <3>1 DEF Like
    <3>3. stored[Len(stored)].role = "assistant" /\ stored[Len(stored)].id = q
        BY <1>5, ReplyRow DEF Last
    <3>4. i \notin ReplyPlace(shown, q)
        BY <2>2, <3>1, <3>2, <3>3 DEF StoredInv, Once, ReplyPlace
    <3> QED
        BY <3>1, <3>2, <3>4 DEF Closed
  <2> QED
      BY <2>1, <2>2
<1>10. Len(Closed(shown, q, e)) = Len(stored)
    BY <1>6, <1>7, <1>8, Rows
<1>11. shown' = stored
    BY <1>7, <1>9, <1>10, <1>t, SameRows
<1> QED
    BY <1>4, <1>5, <1>11 DEF Unsettled

\* Every step keeps what the tab at rest shows.
LEMMA IdleStep ==
    ASSUME SecondInv, EndInv, ErrorInv, ShownInv, [Next]_vars, Sound'
    PROVE  IdleInv'
<1>i. /\ TypeOK /\ RegistryInv /\ BodyInv /\ TabInv /\ StreamInv /\ StoredInv /\ FetchInv /\ AttachInv
      /\ EventsInv /\ FlowInv
    BY DEF SecondInv, FirstInv
<1>t. /\ StreamTyped /\ shown \in Seq(Message) /\ stored \in Seq(Message) /\ text \in Nat
      /\ outcome \in Statuses
    BY <1>i, TypeParts, BoundsAssumption
<1> SUFFICES ASSUME mounted', stream' = NoStream, fetches' = {}
             PROVE  shown' = stored' /\ \A q \in Requests : pc'[q] \notin Unsettled
    BY DEF IdleInv
<1>1. ASSUME NEW f \in fetches, Show(f)
      PROVE  shown' = stored' /\ \A q \in Requests : pc'[q] \notin Unsettled
  <2>1. /\ f.step = "answered" /\ shown' = f.messages /\ UNCHANGED <<stored, pc>>
        /\ ~f.old /\ ~Unfollowed(f)
      BY <1>1 DEF Show, Sound, server
  <2>2. ~ (f.why = "open" /\ f.streaming)
    <3>1. Call("attach", 0, "sent") # NoStream
        BY CallType, StreamIs
    <3> QED
        BY <1>1, <3>1 DEF Show
  <2>3. \A i \in DOMAIN f.messages : f.messages[i].status # "streaming"
      BY <2>1, <2>2 DEF Unfollowed
  <2>4. AsRead(f.messages, stored, pc)
      BY <1>i, <2>1 DEF FetchInv
  <2>5. f.messages \in Seq(Message)
      BY <1>i, TypeParts DEF FetchType
  <2>6. f.messages = stored
    <3>1. CASE f.messages # stored
      <4>1. EndsInReply(f.messages) /\ Last(f.messages).status = "streaming"
          BY <2>4, <3>1 DEF AsRead
      <4>2. Len(f.messages) \in DOMAIN f.messages
          BY <2>5, <4>1, Rows DEF EndsInReply
      <4> QED
          BY <2>3, <4>1, <4>2 DEF Last
    <3> QED
        BY <3>1
  <2> QED
      BY <2>1, <2>3, <2>4, <2>6 DEF AsRead
<1> SUFFICES ASSUME Sound, ~ \E f \in fetches : Show(f)
             PROVE  shown' = stored' /\ \A q \in Requests : pc'[q] \notin Unsettled
    BY <1>1, SoundKept
\* Idle it was.
<1>2. CASE mounted /\ stream = NoStream /\ fetches = {} /\ shown' = shown /\ Quietly
  <2>1. shown = stored /\ \A q \in Requests : pc[q] \notin Unsettled
      BY <1>2 DEF ShownInv, IdleInv
  <2> QED
      BY <1>2, <2>1 DEF Quietly
<1>3. ASSUME NEW q \in Requests,
             \/ Reserve(q) \/ Prepare(q) \/ AddReply(q) \/ Fail(q) \/ Start(q)
             \/ Delta(q) \/ EndStream(q) \/ Save(q) \/ Finish(q) \/ AskElsewhere(q)
      PROVE  shown' = stored' /\ \A p \in Requests : pc'[p] \notin Unsettled
  <2>1. stream = NoStream
      BY <1>3, <1>i, StreamStays
  <2>2. mounted' = mounted /\ shown' = shown
      BY <1>3 DEF Reserve, Prepare, AddReply, Fail, Start, Delta, EndStream, Save, Finish,
                  AskElsewhere, tab
  <2>3. ~Sent(q)
      BY <2>1 DEF Sent, Followed
  <2>4. ~Written(q)
      BY <2>3 DEF Written, Sound
  <2>5. CASE Reserve(q) \/ Fail(q) \/ Start(q)
    <3>1. fetches' = fetches
        BY <2>5 DEF Reserve, Fail, Start
    <3> QED
        BY <1>2, <1>i, <2>1, <2>2, <2>5, <3>1, QuietSteps
  <2>6. CASE Delta(q) \/ EndStream(q) \/ Finish(q) \/ AskElsewhere(q)
    <3>1. fetches' = fetches
        BY <2>6 DEF Delta, EndStream, Finish, AskElsewhere, tab
    <3> QED
        BY <1>2, <1>i, <2>1, <2>2, <2>6, <3>1, QuietSteps
  <2>7. CASE Prepare(q)
      BY <1>2, <1>i, <2>1, <2>2, <2>4, <2>7, PrepareSteps
  <2>8. ~AddReply(q)
      BY <2>4 DEF AddReply
  <2>9. ~Save(q)
    <3>1. ASSUME Save(q) PROVE FALSE
      <4>1. pc[q] = "ending" /\ fetches' = fetches
          BY <3>1 DEF Save, tab
      <4> QED
          BY <2>1, <2>2, <4>1 DEF ShownInv, IdleInv, Unsettled
    <3> QED
        BY <3>1
  <2> QED
      BY <1>3, <2>5, <2>6, <2>7, <2>8, <2>9
<1>4. ASSUME NEW q \in Requests, Ask(q) PROVE FALSE
  <2>1. Call("post", q, "sent") # NoStream
      BY CallType, StreamIs
  <2> QED
      BY <1>4, <2>1 DEF Ask
<1>5. CASE TabStep
  <2>0. UNCHANGED <<stored, pc>> /\ Quietly
      BY <1>5, TabStepServer DEF Quietly
  <2>1. ~Subscribe
    <3>1. ASSUME Subscribe PROVE FALSE
      <4>1. stream # NoStream
          BY <3>1 DEF Subscribe
      <4>2. <<Ev("snapshot", text, "streaming")>> \in Seq(Event)
        <5>1. Ev("snapshot", text, "streaming") \in Event
            BY <1>t, Evs
        <5> QED
            BY <5>1, Opening
      <4>3. [stream EXCEPT !.state = "nothing"] # NoStream
          BY <1>t, <4>1, <4>2, SomeStream
      <4>4. ASSUME runs \in Requests
            PROVE  [stream EXCEPT !.run = runs, !.state = "open",
                                  !.queue = <<Ev("snapshot", text, "streaming")>>] # NoStream
          BY <1>t, <4>1, <4>2, <4>4, SomeStream
      <4> QED
          BY <3>1, <4>3, <4>4 DEF Subscribe
    <3> QED
        BY <3>1
  <2>2. CASE Deliver
    <3>1. /\ stream # NoStream /\ stream.queue \in Seq(Event) /\ stream.queue # <<>>
          /\ Tail(stream.queue) \in Seq(Event)
        BY <1>t, <2>2, Delivering, Taking DEF Deliver
    <3>2. [stream EXCEPT !.queue = Tail(stream.queue), !.began = TRUE] # NoStream
        BY <1>t, <3>1, SomeStream
    <3>3. Head(stream.queue).event = "done"
        BY <2>2, <3>2 DEF Deliver
    <3> QED
        BY <1>i, <2>0, <2>2, <3>3, DoneShown DEF ShownInv
  <2>3. ~Unstreamed /\ ~Open /\ ~Lose /\ ~Leave
      BY DEF Unstreamed, Open, Lose, Leave, Sound
  <2>4. ~ \E f \in fetches : ReadMessages(f) \/ ReadRegistry(f)
      BY DEF ReadMessages, ReadRegistry
  <2>5. CASE UNCHANGED vars
      BY <1>2, <2>0, <2>5 DEF vars, tab
  <2> QED
      BY <1>5, <2>1, <2>2, <2>3, <2>4, <2>5 DEF TabStep
<1> QED
    BY <1>3, <1>4, <1>5, NextSplit

\* What is shown, with all it rests on.
ThirdInv == SecondInv /\ EndInv /\ ErrorInv /\ ShownInv

\* All is shown at the start.
LEMMA ThirdInit == Init => ThirdInv
<1> SUFFICES ASSUME Init PROVE ThirdInv
    OBVIOUS
<1>1. SecondInv
    BY SecondInit
<1>2. stream = NoStream /\ shown = stored /\ \A q \in Requests : pc[q] = "idle"
    BY DEF Init
<1>3. EndInv /\ ErrorInv
    BY <1>2 DEF EndInv, ErrorInv, Opened
<1>4. IdleInv /\ AskedInv /\ FollowInv
    BY <1>2 DEF IdleInv, AskedInv, FollowInv, Opened, Unsettled
<1> QED
    BY <1>1, <1>3, <1>4 DEF ThirdInv, ShownInv

\* All of it is kept by every step.
LEMMA ThirdStep == ThirdInv /\ [Next]_vars => ThirdInv'
<1> SUFFICES ASSUME ThirdInv, [Next]_vars PROVE ThirdInv'
    OBVIOUS
<1>i. SecondInv /\ EndInv /\ ErrorInv /\ ShownInv
    BY DEF ThirdInv
<1>p. TypeOK /\ RegistryInv /\ TabInv /\ StreamInv /\ EventsInv /\ FlowInv
    BY <1>i DEF SecondInv, FirstInv
<1>1. SecondInv'
    BY <1>i, SecondStep
<1>2. EndInv'
    BY <1>i, <1>p, EndStep
<1>3. ErrorInv'
    BY <1>i, <1>p, ErrorStep
<1>4. ASSUME Sound' PROVE IdleInv' /\ AskedInv' /\ FollowInv'
    BY <1>4, <1>i, IdleStep, AskedStep, FollowStep
<1> QED
    BY <1>1, <1>2, <1>3, <1>4 DEF ThirdInv, ShownInv

\* Once all is quiet the page shows what is stored, unless a connection broke or
\* the tab was told of no more.
THEOREM Shown == Spec => []ShownIsStored
<1>1. ThirdInv => ShownIsStored
    BY DEF ThirdInv, ShownInv, IdleInv, Sound, ShownIsStored, Quiet
<1> QED
    BY <1>1, ThirdInit, ThirdStep, PTL DEF Spec
=============================================================================
