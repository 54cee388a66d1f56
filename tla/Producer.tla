------------------------------ MODULE Producer ------------------------------
(***************************************************************************)
(* The AIS producer, ingestion/ais_producer/producer.py: one websocket     *)
(* subscription that is opened again whenever it ends, a handler that      *)
(* routes every frame to a Kafka topic, the Kafka client's local queue     *)
(* with its delivery reports, and the signal handler that flushes it.      *)
(*                                                                         *)
(* Frames are numbered as they are received.  The frames after the first   *)
(* nread of them wait in the websocket's buffer; those that were handed to *)
(* the Kafka client wait in the queue of their topic, a single partition,  *)
(* until they are delivered or given up, and their reports wait until the  *)
(* next poll.                                                              *)
(***************************************************************************)
EXTENDS Naturals, Sequences, FiniteSets

CONSTANTS
  FeedKinds,    \* what the feed sends here: some of Kinds
  MAX_BACKOFF,  \* longest pause between two connection attempts (60 s)
  QueueLimit,   \* messages the Kafka client holds, delivery reports included
  MaxFrames,    \* bound on the frames received
  MaxAttempts,  \* bound on the failed connection attempts in a row
  MaxRestarts   \* bound on the restarts of the process

\* A frame is JSON of a type that is subscribed to, of another type, or not
\* JSON; the schema of its topic refuses a misfit.
Kinds == {"PositionReport", "ShipStaticData", "OtherType", "NotJSON", "Misfit"}

ASSUME ProducerAssumption ==
  /\ FeedKinds \subseteq Kinds
  /\ MAX_BACKOFF \in Nat \ {0} /\ QueueLimit \in Nat \ {0}
  /\ MaxFrames \in Nat /\ MaxAttempts \in Nat /\ MaxRestarts \in Nat

DEADLETTER == "ais.deadletter"
Topics == {"ais.raw.positions", "ais.raw.static", DEADLETTER}

VARIABLES
  frames,    \* kinds of the frames received
  nread,     \* how many of them were taken from the buffer, or lost in it
  conn,      \* the connection: "connecting", "opened", "subscribed", "sleeping"
  closed,    \* how the server closed it: "no", "normally", "abnormally"
  backoff,   \* seconds to sleep before the next attempt
  process,   \* "running", or "flushing" in the signal handler
  queue,     \* frames in the Kafka client, not yet settled, by topic
  reports,   \* settled frames whose delivery report was not served yet
  topics,    \* the Kafka topics: frames by topic
  failed,    \* frames whose failed delivery was logged (_on_delivery)
  refused,   \* frames that made handle_message raise
  attempts,  \* history: connection attempts since the last subscription
  elapsed,   \* history: seconds slept since then
  first,     \* history: first frame of this process
  restarts   \* restarts so far

link == <<conn, closed, backoff>>
client == <<queue, reports, topics, failed>>
pacing == <<attempts, elapsed>>
life == <<process, first, restarts>>
vars == <<frames, nread, link, refused, client, pacing, life>>

Received == 1 .. Len(frames)
Unread == (nread + 1) .. Len(frames)
InQueue(i) == \E t \in Topics : \E n \in DOMAIN queue[t] : queue[t][n] = i
Delivered(i) == \E t \in Topics : \E n \in DOMAIN topics[t] : topics[t][n] = i

Init ==
  /\ frames = <<>> /\ nread = 0
  /\ conn = "connecting" /\ closed = "no" /\ backoff = 1
  /\ process = "running"
  /\ queue = [t \in Topics |-> <<>>] /\ reports = {}
  /\ topics = [t \in Topics |-> <<>>]
  /\ failed = {} /\ refused = {}
  /\ attempts = 0 /\ elapsed = 0
  /\ first = 1 /\ restarts = 0

-----------------------------------------------------------------------------
(* The connection.                                                         *)

\* websockets.connect succeeds, or raises.
ConnectOk ==
  /\ process = "running" /\ conn = "connecting"
  /\ conn' = "opened"
  /\ attempts' = attempts + 1
  /\ UNCHANGED <<frames, nread, closed, backoff, refused, client, elapsed, life>>

ConnectFails ==
  /\ process = "running" /\ conn = "connecting"
  /\ attempts < MaxAttempts
  /\ conn' = "sleeping"
  /\ attempts' = attempts + 1
  /\ UNCHANGED <<frames, nread, closed, backoff, refused, client, elapsed, life>>

\* ws.send of the subscription; it raises when the connection is closed.
Subscribe ==
  /\ process = "running" /\ conn = "opened" /\ closed = "no"
  /\ conn' = "subscribed"
  /\ backoff' = 1
  /\ attempts' = 0 /\ elapsed' = 0
  /\ UNCHANGED <<frames, nread, closed, refused, client, life>>

SubscribeFails ==
  /\ process = "running" /\ conn = "opened" /\ closed # "no"
  /\ conn' = "sleeping" /\ closed' = "no"
  /\ UNCHANGED <<frames, nread, backoff, refused, client, pacing, life>>

\* Variant: the pause never grows.
WakeEager ==
  /\ process = "running" /\ conn = "sleeping"
  /\ conn' = "connecting"
  /\ elapsed' = elapsed + backoff
  /\ UNCHANGED <<frames, nread, closed, backoff, refused, client, attempts, life>>

\* asyncio.sleep(backoff) ends, and the next pause is twice as long.
Wake ==
  /\ process = "running" /\ conn = "sleeping"
  /\ conn' = "connecting"
  /\ elapsed' = elapsed + backoff
  /\ backoff' = IF 2 * backoff < MAX_BACKOFF THEN 2 * backoff ELSE MAX_BACKOFF
  /\ UNCHANGED <<frames, nread, closed, refused, client, attempts, life>>

\* The server, or the network, ends the connection.
ServerCloses(how) ==
  /\ conn \in {"opened", "subscribed"} /\ closed = "no"
  /\ conn = "opened" => attempts < MaxAttempts
  /\ closed' = how
  /\ UNCHANGED <<frames, nread, conn, backoff, refused, client, pacing, life>>

Receive(k) ==
  /\ conn = "subscribed" /\ closed = "no"
  /\ Len(frames) < MaxFrames
  /\ frames' = Append(frames, k)
  /\ UNCHANGED <<nread, link, refused, client, pacing, life>>

-----------------------------------------------------------------------------
(* The loop over the frames of a subscription.                             *)

\* TOPIC_MAP, with the dead letter topic for whatever is not in it.
TopicOf(k) ==
  IF k \in {"PositionReport", "Misfit"} THEN "ais.raw.positions"
  ELSE IF k = "ShipStaticData" THEN "ais.raw.static"
  ELSE DEADLETTER

\* produce raises for a value that the serializer refuses, and when the client
\* is full: a message is held until its report is served.
Held == reports \cup {i \in Received : InQueue(i)}
Full == Cardinality(Held) >= QueueLimit
Raises(i) == frames[i] = "Misfit" \/ Full

\* Variant: the loop is left when the server closes, whatever is in the buffer.
HandleWhileOpen ==
  /\ process = "running" /\ conn = "subscribed" /\ closed = "no"
  /\ Unread # {} /\ ~Raises(nread + 1)
  /\ nread' = nread + 1
  /\ queue' = [queue EXCEPT ![TopicOf(frames[nread + 1])] = Append(@, nread + 1)]
  /\ failed' = failed \cup {i \in reports : ~Delivered(i)}
  /\ reports' = {}
  /\ UNCHANGED <<frames, link, refused, topics, pacing, life>>

\* handle_message hands the frame to the client; poll(0) serves the reports.
Handle ==
  /\ process = "running" /\ conn = "subscribed"
  /\ Unread # {} /\ ~Raises(nread + 1)
  /\ nread' = nread + 1
  /\ queue' = [queue EXCEPT ![TopicOf(frames[nread + 1])] = Append(@, nread + 1)]
  /\ failed' = failed \cup {i \in reports : ~Delivered(i)}
  /\ reports' = {}
  /\ UNCHANGED <<frames, link, refused, topics, pacing, life>>

\* handle_message raises: nothing is polled, leaving "async with" closes the
\* connection, and the frames that wait in its buffer are lost with it.
HandleRaises ==
  /\ process = "running" /\ conn = "subscribed"
  /\ Unread # {} /\ Raises(nread + 1)
  /\ refused' = refused \cup {nread + 1}
  /\ nread' = Len(frames)
  /\ conn' = "sleeping" /\ closed' = "no"
  /\ UNCHANGED <<frames, backoff, client, pacing, life>>

\* Variants: the buffer is not read to its end; the producer is done when the
\* server ends the stream normally.
LoopCut ==
  /\ process = "running" /\ conn = "subscribed" /\ closed = "normally"
  /\ conn' = "connecting" /\ closed' = "no"
  /\ nread' = Len(frames)
  /\ UNCHANGED <<frames, backoff, refused, client, pacing, life>>
LoopReturns == FALSE

\* "async for" drains the buffer first.  After a normal close it just ends, and
\* the next attempt follows at once; after an abnormal one it raises.
LoopEnds ==
  /\ process = "running" /\ conn = "subscribed" /\ closed = "normally"
  /\ Unread = {}
  /\ conn' = "connecting" /\ closed' = "no"
  /\ UNCHANGED <<frames, nread, backoff, refused, client, pacing, life>>

LoopRaises ==
  /\ process = "running" /\ conn = "subscribed" /\ closed = "abnormally"
  /\ Unread = {}
  /\ conn' = "sleeping" /\ closed' = "no"
  /\ UNCHANGED <<frames, nread, backoff, refused, client, pacing, life>>

-----------------------------------------------------------------------------
(* The Kafka client's background thread, and the end of the process.       *)

\* Variant: retries that overtake each other, without the idempotent producer.
DeliverAny(t) ==
  \E n \in DOMAIN queue[t] :
    /\ topics' = [topics EXCEPT ![t] = Append(@, queue[t][n])]
    /\ queue' = [queue EXCEPT ![t] = SubSeq(@, 1, n - 1) \o SubSeq(@, n + 1, Len(@))]
    /\ reports' = reports \cup {queue[t][n]}
    /\ UNCHANGED <<frames, nread, link, refused, failed, pacing, life>>

\* In the order of each partition and once: enable.idempotence, acks=all.
Deliver(t) ==
  /\ queue[t] # <<>>
  /\ topics' = [topics EXCEPT ![t] = Append(@, Head(queue[t]))]
  /\ queue' = [queue EXCEPT ![t] = Tail(@)]
  /\ reports' = reports \cup {Head(queue[t])}
  /\ UNCHANGED <<frames, nread, link, refused, failed, pacing, life>>

\* A message that is not delivered in time fails; its report says so.
GiveUp(t) ==
  /\ queue[t] # <<>>
  /\ queue' = [queue EXCEPT ![t] = Tail(@)]
  /\ reports' = reports \cup {Head(queue[t])}
  /\ UNCHANGED <<frames, nread, link, refused, topics, failed, pacing, life>>

\* SIGTERM or SIGINT: shutdown runs in the middle of whatever the loop does.
Signal ==
  /\ process = "running" /\ restarts < MaxRestarts
  /\ process' = "flushing"
  /\ UNCHANGED <<frames, nread, link, refused, client, pacing, first, restarts>>

\* The process is gone and the service manager starts it again: what was not
\* delivered or not read is lost.
Restart ==
  /\ process' = "running"
  /\ restarts' = restarts + 1
  /\ conn' = "connecting" /\ closed' = "no" /\ backoff' = 1
  /\ queue' = [t \in Topics |-> <<>>] /\ reports' = {}
  /\ nread' = Len(frames) /\ first' = Len(frames) + 1
  /\ attempts' = 0 /\ elapsed' = 0
  /\ UNCHANGED <<frames, topics, refused>>

\* flush(10) serves the reports as it goes; it returns with an empty queue or
\* after ten seconds.  Then SystemExit, which the loop does not catch.
FlushEnds ==
  /\ process = "flushing"
  /\ failed' = failed \cup {i \in reports : ~Delivered(i)}
  /\ Restart

\* The process is killed, or the machine goes down.
Crash ==
  /\ restarts < MaxRestarts
  /\ Restart
  /\ UNCHANGED failed

Next ==
  \/ ConnectOk \/ ConnectFails
  \/ Subscribe \/ SubscribeFails
  \/ Wake
  \/ \E how \in {"normally", "abnormally"} : ServerCloses(how)
  \/ \E k \in FeedKinds : Receive(k)
  \/ Handle \/ HandleRaises
  \/ LoopEnds \/ LoopRaises
  \/ \E t \in Topics : Deliver(t) \/ GiveUp(t)
  \/ Signal \/ FlushEnds \/ Crash

Spec == Init /\ [][Next]_vars

\* The process runs; the server lets it in again some time; every message is
\* delivered or times out.
Fairness ==
  /\ WF_vars(ConnectOk) /\ WF_vars(Subscribe) /\ WF_vars(SubscribeFails)
  /\ WF_vars(Wake)
  /\ WF_vars(Handle) /\ WF_vars(HandleRaises)
  /\ WF_vars(LoopEnds) /\ WF_vars(LoopRaises)
  /\ \A t \in Topics : WF_vars(Deliver(t) \/ GiveUp(t))
  /\ WF_vars(FlushEnds)

LiveSpec == Spec /\ Fairness

-----------------------------------------------------------------------------
\* The frames of a topic are in the order they were received in and there is
\* none twice, over reconnections, failed deliveries and restarts: the streaming
\* jobs see one vessel's reports in order (producer.py:52-59, 93-98).
TopicsInOrder ==
  \A t \in Topics : \A m, n \in DOMAIN topics[t] :
    m < n => topics[t][m] < topics[t][n]

\* n attempts in a row without a subscription take at least 1 + 2 + 4 + ...
\* seconds, the first being free: a server that is down is not hammered
\* (producer.py:100, 116-117).
Doubled[n \in Nat] == IF n = 0 THEN 1 ELSE 2 * Doubled[n - 1]
Pause(n) == IF Doubled[n] < MAX_BACKOFF THEN Doubled[n] ELSE MAX_BACKOFF
Pauses[n \in Nat] == IF n <= 1 THEN 0 ELSE Pauses[n - 1] + Pause(n - 2)

AttemptsArePaced == elapsed >= Pauses[attempts]

\* A frame of this process is lost without a log line only together with the
\* buffer behind a frame that made handle_message raise: reconnections, full
\* buffers at a close and failed deliveries lose none silently
\* (producer.py:61-63, 111-115).
Silent(i) ==
  /\ i >= first /\ i <= nread
  /\ ~InQueue(i) /\ ~Delivered(i)
  /\ i \notin reports \cup failed \cup refused

SilentLossIsBehindRefusal ==
  \A i \in Received : Silent(i) =>
    \E j \in refused : j < i /\ \A h \in (j + 1) .. i : Silent(h)

\* No frame stays in the buffer or in the queue for ever, whenever the server
\* closes and whatever the broker does.
FramesSettle ==
  \A i \in 1 .. MaxFrames :
    (i \in Unread \/ InQueue(i)) ~> (i \notin Unread /\ ~InQueue(i))

\* The producer comes back: after every close, refusal, signal and crash it
\* subscribes again (producer.py:101-117).
KeepsSubscribing ==
  []<>(process = "running" /\ conn = "subscribed" /\ closed = "no")
=============================================================================
