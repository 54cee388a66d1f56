--------------------------- MODULE ProducerProofs ---------------------------
(***************************************************************************)
(* Theorems about Producer, for every feed, every limit of the client's    *)
(* queue, every bound on frames, attempts and restarts.                    *)
(***************************************************************************)
EXTENDS Producer, SequenceTheorems, WellFoundedInduction, TLAPS

USE ProducerAssumption

-----------------------------------------------------------------------------
(* The inductive invariant.                                                *)

\* The client holds and has settled frames that were read, and no others.
TypeInv ==
  /\ frames \in Seq(FeedKinds) /\ nread \in 0 .. Len(frames)
  /\ queue \in [Topics -> Seq(1 .. nread)]
  /\ topics \in [Topics -> Seq(1 .. nread)]
  /\ reports \in SUBSET (1 .. nread) /\ failed \in SUBSET (1 .. nread)
  /\ refused \in SUBSET (1 .. nread)
  /\ first \in 1 .. (nread + 1)

\* The queue of a topic is in order, and behind every frame of the topic.
QueueInOrder ==
  \A t \in Topics :
    /\ \A m, n \in 1 .. Len(queue[t]) : m < n => queue[t][m] < queue[t][n]
    /\ \A m \in 1 .. Len(topics[t]), n \in 1 .. Len(queue[t]) : topics[t][m] < queue[t][n]

Inv == TypeInv /\ QueueInOrder /\ TopicsInOrder /\ SilentLossIsBehindRefusal

-----------------------------------------------------------------------------
LEMMA Types ==
  ASSUME TypeInv
  PROVE  /\ Len(frames) \in Nat /\ nread \in Nat /\ first \in Nat
         /\ \A t \in Topics :
              /\ queue[t] \in Seq(1 .. nread) /\ Len(queue[t]) \in Nat
              /\ DOMAIN queue[t] = 1 .. Len(queue[t])
              /\ \A n \in 1 .. Len(queue[t]) : queue[t][n] \in 1 .. nread
         /\ \A t \in Topics :
              /\ topics[t] \in Seq(1 .. nread) /\ Len(topics[t]) \in Nat
              /\ DOMAIN topics[t] = 1 .. Len(topics[t])
              /\ \A n \in 1 .. Len(topics[t]) : topics[t][n] \in 1 .. nread
<1>1. Len(frames) \in Nat /\ nread \in Nat /\ first \in Nat
  BY LenProperties DEF TypeInv
<1>2. ASSUME NEW f \in [Topics -> Seq(1 .. nread)], NEW t \in Topics
      PROVE  /\ f[t] \in Seq(1 .. nread) /\ Len(f[t]) \in Nat
             /\ DOMAIN f[t] = 1 .. Len(f[t])
             /\ \A n \in 1 .. Len(f[t]) : f[t][n] \in 1 .. nread
  <2>1. f[t] \in Seq(1 .. nread)
    OBVIOUS
  <2> QED
    BY <2>1, LenProperties, ElementOfSeq
<1> QED
  BY <1>1, <1>2 DEF TypeInv

\* The steps that touch neither the client nor what was read.
Elsewhere ==
  \/ ConnectOk \/ ConnectFails \/ Subscribe \/ SubscribeFails \/ Wake
  \/ \E how \in {"normally", "abnormally"} : ServerCloses(how)
  \/ LoopEnds \/ LoopRaises \/ Signal \/ UNCHANGED vars

LEMMA ElsewhereKeeps ==
  ASSUME Elsewhere
  PROVE  UNCHANGED <<frames, nread, client, refused, first>>
BY DEF Elsewhere, ConnectOk, ConnectFails, Subscribe, SubscribeFails, Wake, ServerCloses, LoopEnds,
       LoopRaises, Signal, client, life, vars

LEMMA ReceiveAdds ==
  ASSUME TypeInv, NEW k \in FeedKinds, Receive(k)
  PROVE  /\ frames' \in Seq(FeedKinds) /\ Len(frames') = Len(frames) + 1
         /\ UNCHANGED <<nread, client, refused, first>>
BY AppendProperties DEF TypeInv, Receive, life

\* The head of a queue goes to its topic, or is given up; the rest moves up.
LEMMA QueueServed ==
  ASSUME TypeInv, NEW t \in Topics, Deliver(t) \/ GiveUp(t)
  PROVE  /\ Len(queue[t]) >= 1 /\ Head(queue[t]) = queue[t][1] /\ queue[t][1] \in 1 .. nread
         /\ queue' \in [Topics -> Seq(1 .. nread)] /\ Len(queue'[t]) = Len(queue[t]) - 1
         /\ \A n \in 1 .. Len(queue'[t]) : queue'[t][n] = queue[t][n + 1]
         /\ \A u \in Topics \ {t} : queue'[u] = queue[u]
         /\ reports' = reports \cup {queue[t][1]}
         /\ UNCHANGED <<frames, nread, refused, failed, first>>
<1>1. /\ queue[t] # <<>> /\ queue[t] \in Seq(1 .. nread) /\ queue \in [Topics -> Seq(1 .. nread)]
      /\ queue' = [queue EXCEPT ![t] = Tail(queue[t])]
  BY Types DEF TypeInv, Deliver, GiveUp
<1>2. Len(queue[t]) \in Nat /\ Len(queue[t]) # 0
  BY <1>1, EmptySeq, LenProperties
<1>3. /\ Head(queue[t]) \in 1 .. nread /\ Tail(queue[t]) \in Seq(1 .. nread)
      /\ Len(Tail(queue[t])) = Len(queue[t]) - 1
      /\ \A n \in 1 .. Len(Tail(queue[t])) : Tail(queue[t])[n] = queue[t][n + 1]
  BY <1>1, HeadTailProperties
<1>4. Head(queue[t]) = queue[t][1]
  BY <1>1
<1>5. /\ queue' \in [Topics -> Seq(1 .. nread)] /\ queue'[t] = Tail(queue[t])
      /\ \A u \in Topics \ {t} : queue'[u] = queue[u]
  BY <1>1, <1>3
<1> QED
  BY <1>2, <1>3, <1>4, <1>5 DEF Deliver, GiveUp, life

LEMMA DeliverAppends ==
  ASSUME TypeInv, NEW t \in Topics, Deliver(t)
  PROVE  /\ topics' \in [Topics -> Seq(1 .. nread)]
         /\ topics'[t] \in Seq(1 .. nread) /\ Len(topics'[t]) = Len(topics[t]) + 1
         /\ \A n \in 1 .. Len(topics[t]) : topics'[t][n] = topics[t][n]
         /\ topics'[t][Len(topics[t]) + 1] = queue[t][1]
         /\ \A u \in Topics \ {t} : topics'[u] = topics[u]
<1>1. Head(queue[t]) = queue[t][1] /\ queue[t][1] \in 1 .. nread
  BY QueueServed
<1>2. /\ topics' = [topics EXCEPT ![t] = Append(topics[t], queue[t][1])]
      /\ topics \in [Topics -> Seq(1 .. nread)]
  BY <1>1 DEF Deliver, TypeInv
<1>3. topics'[t] = Append(topics[t], queue[t][1]) /\ \A u \in Topics \ {t} : topics'[u] = topics[u]
  BY <1>2
<1>4. /\ topics'[t] \in Seq(1 .. nread) /\ Len(topics'[t]) = Len(topics[t]) + 1
      /\ \A n \in 1 .. Len(topics[t]) : topics'[t][n] = topics[t][n]
      /\ topics'[t][Len(topics[t]) + 1] = queue[t][1]
  BY <1>1, <1>2, <1>3, AppendProperties
<1>5. topics' \in [Topics -> Seq(1 .. nread)]
  BY <1>2, <1>3, <1>4
<1> QED
  BY <1>3, <1>4, <1>5

\* The frame that is handled is the last in the queue of its topic.
LEMMA HandleQueues ==
  ASSUME TypeInv, Handle
  PROVE  /\ nread' = nread + 1 /\ nread + 1 \in 1 .. Len(frames)
         /\ queue' \in [Topics -> Seq(1 .. nread')]
         /\ \E t \in Topics :
              /\ Len(queue'[t]) = Len(queue[t]) + 1
              /\ \A n \in 1 .. Len(queue[t]) : queue'[t][n] = queue[t][n]
              /\ queue'[t][Len(queue[t]) + 1] = nread + 1
              /\ \A u \in Topics \ {t} : queue'[u] = queue[u]
<1> DEFINE t == TopicOf(frames[nread + 1])
<1>1. Len(frames) \in Nat /\ nread \in 0 .. Len(frames)
  BY Types DEF TypeInv
<1>2. nread + 1 \in 1 .. Len(frames) /\ t \in Topics
  BY <1>1 DEF Handle, Unread, TopicOf, Topics, DEADLETTER
<1>3. nread' = nread + 1 /\ queue' = [queue EXCEPT ![t] = Append(queue[t], nread + 1)]
  BY DEF Handle
<1> HIDE DEF t
<1>4. 1 .. nread \subseteq 1 .. (nread + 1) /\ nread + 1 \in 1 .. (nread + 1)
  BY <1>1
<1>5. queue \in [Topics -> Seq(1 .. (nread + 1))]
  <2>1. Seq(1 .. nread) \subseteq Seq(1 .. (nread + 1))
    BY <1>4, SeqMonotonic
  <2> QED
    BY <2>1 DEF TypeInv
<1>6. queue'[t] = Append(queue[t], nread + 1) /\ \A u \in Topics \ {t} : queue'[u] = queue[u]
  BY <1>2, <1>3, <1>5
<1>7. /\ queue'[t] \in Seq(1 .. (nread + 1)) /\ Len(queue'[t]) = Len(queue[t]) + 1
      /\ \A n \in 1 .. Len(queue[t]) : queue'[t][n] = queue[t][n]
      /\ queue'[t][Len(queue[t]) + 1] = nread + 1
  BY <1>2, <1>4, <1>5, <1>6, AppendProperties
<1>8. queue' \in [Topics -> Seq(1 .. (nread + 1))]
  BY <1>3, <1>5, <1>6, <1>7
<1> QED
  BY <1>2, <1>3, <1>6, <1>7, <1>8

LEMMA RaisesLoses ==
  ASSUME TypeInv, HandleRaises
  PROVE  /\ nread + 1 \in 1 .. Len(frames) /\ nread' = Len(frames)
         /\ refused' = refused \cup {nread + 1}
         /\ UNCHANGED <<frames, client, first>>
<1>1. Len(frames) \in Nat /\ nread \in 0 .. Len(frames)
  BY Types DEF TypeInv
<1> QED
  BY <1>1 DEF HandleRaises, Unread, life

LEMMA RestartForgets ==
  ASSUME TypeInv, FlushEnds \/ Crash
  PROVE  /\ queue' = [t \in Topics |-> <<>>] /\ reports' = {}
         /\ nread' = Len(frames) /\ first' = Len(frames) + 1
         /\ UNCHANGED <<frames, topics, refused>>
         /\ failed' \in SUBSET (1 .. nread)
BY DEF FlushEnds, Crash, Restart, TypeInv

LEMMA StepTypes ==
  ASSUME Inv, [Next]_vars
  PROVE  TypeInv'
<1>1. TypeInv /\ Len(frames) \in Nat /\ nread \in 0 .. Len(frames)
  BY Types DEF Inv, TypeInv
<1>2. ASSUME NEW n \in Nat, nread <= n
      PROVE  /\ topics \in [Topics -> Seq(1 .. n)] /\ queue \in [Topics -> Seq(1 .. n)]
             /\ reports \in SUBSET (1 .. n) /\ failed \in SUBSET (1 .. n)
             /\ refused \in SUBSET (1 .. n)
  <2>1. 1 .. nread \subseteq 1 .. n
    BY <1>1, <1>2
  <2>2. Seq(1 .. nread) \subseteq Seq(1 .. n)
    BY <2>1, SeqMonotonic
  <2> QED
    BY <1>1, <2>1, <2>2 DEF TypeInv
<1>3. CASE Elsewhere
  BY <1>1, <1>3, ElsewhereKeeps DEF TypeInv, client
<1>4. ASSUME NEW k \in FeedKinds, Receive(k) PROVE TypeInv'
  <2>1. /\ frames' \in Seq(FeedKinds) /\ Len(frames') = Len(frames) + 1
        /\ UNCHANGED <<nread, client, refused, first>>
    BY <1>1, <1>4, ReceiveAdds
  <2>2. nread \in 0 .. (Len(frames) + 1)
    BY <1>1
  <2>3. nread' \in 0 .. Len(frames')
    BY <2>1, <2>2
  <2> QED
    BY <1>1, <2>1, <2>3 DEF TypeInv, client
<1>5. CASE Handle
  <2>1. nread' = nread + 1 /\ nread' \in 0 .. Len(frames) /\ queue' \in [Topics -> Seq(1 .. nread')]
    BY <1>1, <1>5, HandleQueues
  <2>2. UNCHANGED <<frames, topics, refused, first>> /\ reports' = {}
    BY <1>5 DEF Handle, life
  <2>3. failed' \in SUBSET (1 .. nread')
    <3>1. failed' \in SUBSET (1 .. nread)
      BY <1>1, <1>5 DEF Handle, TypeInv
    <3>2. 1 .. nread \subseteq 1 .. (nread + 1)
      BY <1>1
    <3> QED
      BY <2>1, <3>1, <3>2
  <2>4. nread' \in Nat /\ nread <= nread'
    BY <1>1, <2>1
  <2>5. first \in 1 .. (nread' + 1)
    BY <1>1, <2>1 DEF TypeInv
  <2> QED
    BY <1>1, <1>2, <2>1, <2>2, <2>3, <2>4, <2>5 DEF TypeInv
<1>6. CASE HandleRaises
  <2>1. nread + 1 \in 1 .. Len(frames) /\ nread' = Len(frames)
        /\ refused' = refused \cup {nread + 1} /\ UNCHANGED <<frames, client, first>>
    BY <1>1, <1>6, RaisesLoses
  <2>2. refused' \in SUBSET (1 .. Len(frames)) /\ first \in 1 .. (Len(frames) + 1)
    BY <1>1, <1>2, <2>1 DEF TypeInv
  <2>3. nread <= Len(frames)
    BY <1>1
  <2> QED
    BY <1>1, <1>2, <2>1, <2>2, <2>3 DEF TypeInv, client
<1>7. ASSUME NEW t \in Topics, Deliver(t) \/ GiveUp(t) PROVE TypeInv'
  <2>1. /\ queue[t][1] \in 1 .. nread /\ queue' \in [Topics -> Seq(1 .. nread)]
        /\ reports' = reports \cup {queue[t][1]}
        /\ UNCHANGED <<frames, nread, refused, failed, first>>
    BY <1>1, <1>7, QueueServed
  <2>2. topics' \in [Topics -> Seq(1 .. nread)]
    <3>1. GiveUp(t) => topics' = topics
      BY DEF GiveUp
    <3> QED
      BY <1>1, <1>7, <3>1, DeliverAppends DEF TypeInv
  <2>3. reports' \in SUBSET (1 .. nread)
    BY <1>1, <2>1 DEF TypeInv
  <2> QED
    BY <1>1, <2>1, <2>2, <2>3 DEF TypeInv
<1>8. CASE FlushEnds \/ Crash
  <2>1. /\ queue' = [t \in Topics |-> <<>>] /\ reports' = {}
        /\ nread' = Len(frames) /\ first' = Len(frames) + 1
        /\ UNCHANGED <<frames, topics, refused>> /\ failed' \in SUBSET (1 .. nread)
    BY <1>1, <1>8, RestartForgets
  <2>2. nread <= Len(frames) /\ failed' \in SUBSET (1 .. Len(frames))
    BY <1>1, <2>1
  <2> QED
    BY <1>1, <1>2, <2>1, <2>2, EmptySeq DEF TypeInv
<1> QED
  BY <1>3, <1>4, <1>5, <1>6, <1>7, <1>8 DEF Next, Elsewhere

-----------------------------------------------------------------------------
(* Order: what is read joins the queue behind everything else, and what is *)
(* delivered leaves it at the front.                                       *)

LEMMA StepQueue ==
  ASSUME Inv, [Next]_vars
  PROVE  QueueInOrder'
<1>1. TypeInv /\ QueueInOrder
  BY DEF Inv
<1>2. ASSUME UNCHANGED <<queue, topics>> PROVE QueueInOrder'
  BY <1>1, <1>2 DEF QueueInOrder
<1>3. CASE Elsewhere
  BY <1>2, <1>3, ElsewhereKeeps DEF client
<1>4. ASSUME NEW k \in FeedKinds, Receive(k) PROVE QueueInOrder'
  BY <1>1, <1>2, <1>4, ReceiveAdds DEF client
<1>5. CASE Handle
  <2>1. PICK t \in Topics :
          /\ Len(queue'[t]) = Len(queue[t]) + 1
          /\ \A n \in 1 .. Len(queue[t]) : queue'[t][n] = queue[t][n]
          /\ queue'[t][Len(queue[t]) + 1] = nread + 1
          /\ \A u \in Topics \ {t} : queue'[u] = queue[u]
    BY <1>1, <1>5, HandleQueues
  <2>2. /\ Len(queue[t]) \in Nat /\ nread \in Nat /\ topics' = topics
        /\ \A n \in 1 .. Len(queue[t]) : queue[t][n] \in 1 .. nread
    BY <1>1, <1>5, Types DEF Handle
  <2>3. ASSUME NEW m \in 1 .. Len(queue'[t]), NEW n \in 1 .. Len(queue'[t]), m < n
        PROVE  queue'[t][m] < queue'[t][n]
    <3>1. m \in 1 .. Len(queue[t]) /\ (n \in 1 .. Len(queue[t]) \/ n = Len(queue[t]) + 1)
      BY <2>1, <2>2, <2>3
    <3>2. queue'[t][m] = queue[t][m] /\ queue[t][m] < nread + 1
      BY <2>1, <2>2, <3>1
    <3>3. n \in 1 .. Len(queue[t]) => queue'[t][n] = queue[t][n] /\ queue[t][m] < queue[t][n]
      BY <1>1, <2>1, <2>3, <3>1 DEF QueueInOrder
    <3> QED
      BY <2>1, <3>1, <3>2, <3>3
  <2>4. ASSUME NEW m \in 1 .. Len(topics'[t]), NEW n \in 1 .. Len(queue'[t])
        PROVE  topics'[t][m] < queue'[t][n]
    <3>1. m \in 1 .. Len(topics[t]) /\ topics'[t][m] = topics[t][m]
      BY <2>2
    <3>2. topics[t][m] < nread + 1
      BY <1>1, <2>2, <3>1, Types
    <3>3. n \in 1 .. Len(queue[t]) \/ n = Len(queue[t]) + 1
      BY <2>1, <2>2
    <3>4. n \in 1 .. Len(queue[t]) => queue'[t][n] = queue[t][n] /\ topics[t][m] < queue[t][n]
      BY <1>1, <2>1, <3>1 DEF QueueInOrder
    <3> QED
      BY <2>1, <3>1, <3>2, <3>3, <3>4
  <2> QED
    BY <1>1, <2>1, <2>2, <2>3, <2>4 DEF QueueInOrder
<1>6. CASE HandleRaises
  BY <1>1, <1>2, <1>6, RaisesLoses DEF client
<1>7. ASSUME NEW t \in Topics, Deliver(t) \/ GiveUp(t)
      PROVE  /\ \A m, n \in 1 .. Len(queue'[t]) : m < n => queue'[t][m] < queue'[t][n]
             /\ \A m \in 1 .. Len(topics[t]), n \in 1 .. Len(queue'[t]) :
                  topics[t][m] < queue'[t][n]
             /\ \A n \in 1 .. Len(queue'[t]) : queue[t][1] < queue'[t][n]
             /\ \A u \in Topics \ {t} : queue'[u] = queue[u]
  <2>1. /\ Len(queue[t]) \in Nat /\ Len(queue[t]) >= 1 /\ Len(queue'[t]) = Len(queue[t]) - 1
        /\ \A n \in 1 .. Len(queue'[t]) : queue'[t][n] = queue[t][n + 1]
        /\ \A u \in Topics \ {t} : queue'[u] = queue[u]
    BY <1>1, <1>7, QueueServed, Types
  <2>2. 1 \in 1 .. Len(queue[t])
        /\ \A n \in 1 .. Len(queue'[t]) : n + 1 \in 1 .. Len(queue[t]) /\ 1 < n + 1
    BY <2>1
  <2>3. ASSUME NEW m \in 1 .. Len(queue'[t]), NEW n \in 1 .. Len(queue'[t]), m < n
        PROVE  queue'[t][m] < queue'[t][n]
    BY <1>1, <2>1, <2>2, <2>3, m + 1 < n + 1 DEF QueueInOrder
  <2>4. ASSUME NEW n \in 1 .. Len(queue'[t])
        PROVE  /\ queue[t][1] < queue'[t][n]
               /\ \A m \in 1 .. Len(topics[t]) : topics[t][m] < queue'[t][n]
    BY <1>1, <2>1, <2>2 DEF QueueInOrder
  <2> QED
    BY <2>1, <2>3, <2>4
<1>8. ASSUME NEW t \in Topics, Deliver(t) PROVE QueueInOrder'
  <2>1. /\ Len(topics'[t]) = Len(topics[t]) + 1 /\ topics'[t][Len(topics[t]) + 1] = queue[t][1]
        /\ \A n \in 1 .. Len(topics[t]) : topics'[t][n] = topics[t][n]
        /\ \A u \in Topics \ {t} : topics'[u] = topics[u]
        /\ Len(topics[t]) \in Nat
    BY <1>1, <1>8, DeliverAppends, Types
  <2>2. ASSUME NEW m \in 1 .. Len(topics'[t]), NEW n \in 1 .. Len(queue'[t])
        PROVE  topics'[t][m] < queue'[t][n]
    <3>1. m \in 1 .. Len(topics[t]) \/ m = Len(topics[t]) + 1
      BY <2>1
    <3> QED
      BY <1>7, <1>8, <2>1, <3>1
  <2> QED
    BY <1>1, <1>7, <1>8, <2>1, <2>2 DEF QueueInOrder
<1>9. ASSUME NEW t \in Topics, GiveUp(t) PROVE QueueInOrder'
  <2>1. topics' = topics
    BY <1>9 DEF GiveUp
  <2> QED
    BY <1>1, <1>7, <1>9, <2>1 DEF QueueInOrder
<1>10. CASE FlushEnds \/ Crash
  <2>1. \A t \in Topics : Len(queue'[t]) = 0
    BY <1>1, <1>10, RestartForgets, EmptySeq
  <2> QED
    BY <2>1 DEF QueueInOrder
<1> QED
  BY <1>3, <1>4, <1>5, <1>6, <1>8, <1>9, <1>10 DEF Next, Elsewhere

LEMMA StepOrder ==
  ASSUME Inv, [Next]_vars
  PROVE  TopicsInOrder'
<1>1. TypeInv /\ QueueInOrder /\ TopicsInOrder
  BY DEF Inv
<1>2. ASSUME UNCHANGED topics PROVE TopicsInOrder'
  BY <1>1, <1>2 DEF TopicsInOrder
<1>3. CASE Elsewhere
  BY <1>2, <1>3, ElsewhereKeeps DEF client
<1>4. ASSUME NEW k \in FeedKinds, Receive(k) PROVE TopicsInOrder'
  BY <1>1, <1>2, <1>4, ReceiveAdds DEF client
<1>5. CASE Handle \/ HandleRaises \/ (\E t \in Topics : GiveUp(t)) \/ FlushEnds \/ Crash
  BY <1>1, <1>2, <1>5, RaisesLoses, RestartForgets DEF Handle, GiveUp, client
<1>6. ASSUME NEW t \in Topics, Deliver(t) PROVE TopicsInOrder'
  <2>1. /\ topics'[t] \in Seq(1 .. nread)
        /\ Len(topics'[t]) = Len(topics[t]) + 1 /\ topics'[t][Len(topics[t]) + 1] = queue[t][1]
        /\ \A n \in 1 .. Len(topics[t]) : topics'[t][n] = topics[t][n]
        /\ \A u \in Topics \ {t} : topics'[u] = topics[u]
    BY <1>1, <1>6, DeliverAppends
  <2>2. /\ Len(topics[t]) \in Nat /\ DOMAIN topics[t] = 1 .. Len(topics[t])
        /\ DOMAIN topics'[t] = 1 .. (Len(topics[t]) + 1)
    BY <1>1, <2>1, Types, LenProperties
  <2>3. 1 \in 1 .. Len(queue[t])
    BY <1>1, <1>6, QueueServed, Types
  <2>4. \A m \in 1 .. Len(topics[t]) : topics[t][m] < queue[t][1]
    BY <1>1, <2>3 DEF QueueInOrder
  <2>5. ASSUME NEW m \in DOMAIN topics'[t], NEW n \in DOMAIN topics'[t], m < n
        PROVE  topics'[t][m] < topics'[t][n]
    <3>1. m \in 1 .. Len(topics[t]) /\ (n \in 1 .. Len(topics[t]) \/ n = Len(topics[t]) + 1)
      BY <2>2, <2>5
    <3>2. n \in 1 .. Len(topics[t]) => topics[t][m] < topics[t][n]
      BY <1>1, <2>2, <2>5, <3>1 DEF TopicsInOrder
    <3> QED
      BY <2>1, <2>4, <3>1, <3>2
  <2>6. ASSUME NEW u \in Topics \ {t}, NEW m \in DOMAIN topics'[u], NEW n \in DOMAIN topics'[u],
               m < n
        PROVE  topics'[u][m] < topics'[u][n]
    BY <1>1, <2>1, <2>6 DEF TopicsInOrder
  <2> QED
    BY <2>5, <2>6 DEF TopicsInOrder
<1> QED
  BY <1>3, <1>4, <1>5, <1>6 DEF Next, Elsewhere

-----------------------------------------------------------------------------
(* Losses.  Until the process ends, what became of the frames that were    *)
(* read stays what it is: a silent loss stays silent, and nothing else     *)
(* becomes one.                                                            *)

Working ==
  \/ Elsewhere \/ \E k \in FeedKinds : Receive(k)
  \/ Handle \/ HandleRaises \/ \E t \in Topics : Deliver(t) \/ GiveUp(t)

LEMMA InQueueTypes ==
  ASSUME TypeInv, NEW i, InQueue(i) \/ Delivered(i)
  PROVE  i \in 1 .. nread
BY Types DEF InQueue, Delivered

LEMMA HandleKeeps ==
  ASSUME TypeInv, Handle, NEW i \in 1 .. nread
  PROVE  Silent(i)' <=> Silent(i)
<1>1. /\ nread \in Nat /\ first \in Nat /\ nread' = nread + 1 /\ first' = first
      /\ topics' = topics /\ refused' = refused /\ reports' = {}
      /\ failed' = failed \cup {h \in reports : ~Delivered(h)}
  BY Types, HandleQueues DEF Handle, life
<1>2. PICK t \in Topics :
        /\ Len(queue'[t]) = Len(queue[t]) + 1
        /\ \A n \in 1 .. Len(queue[t]) : queue'[t][n] = queue[t][n]
        /\ queue'[t][Len(queue[t]) + 1] = nread + 1
        /\ \A u \in Topics \ {t} : queue'[u] = queue[u]
  BY HandleQueues
<1>3. i # nread + 1 /\ i <= nread /\ i <= nread'
  BY <1>1
<1>4. InQueue(i)' <=> InQueue(i)
  <2>1. /\ Len(queue[t]) \in Nat /\ DOMAIN queue[t] = 1 .. Len(queue[t])
        /\ DOMAIN queue'[t] = 1 .. (Len(queue[t]) + 1)
    <3>1. queue'[t] \in Seq(1 .. nread')
      BY HandleQueues
    <3> QED
      BY <1>2, <3>1, Types, LenProperties
  <2>2. /\ \A n \in 1 .. (Len(queue[t]) + 1) : n \in 1 .. Len(queue[t]) \/ n = Len(queue[t]) + 1
        /\ 1 .. Len(queue[t]) \subseteq 1 .. (Len(queue[t]) + 1)
    BY <2>1
  <2>3. (\E n \in DOMAIN queue'[t] : queue'[t][n] = i)
        <=> (\E n \in DOMAIN queue[t] : queue[t][n] = i)
    BY <1>2, <1>3, <2>1, <2>2
  <2>4. ASSUME NEW u \in Topics
        PROVE  (\E n \in DOMAIN queue'[u] : queue'[u][n] = i)
               <=> (\E n \in DOMAIN queue[u] : queue[u][n] = i)
    BY <1>2, <2>3
  <2> QED
    BY <2>4 DEF InQueue
<1>5. Delivered(i)' <=> Delivered(i)
  BY <1>1 DEF Delivered
<1>6. i \in reports \cup failed \cup refused => i \in (reports \cup failed \cup refused)' \/ Delivered(i)
  BY <1>1
<1>7. i \in (reports \cup failed \cup refused)' => i \in reports \cup failed \cup refused
  BY <1>1
<1> QED
  BY <1>1, <1>3, <1>4, <1>5, <1>6, <1>7 DEF Silent

LEMMA ServedKeeps ==
  ASSUME TypeInv, NEW t \in Topics, Deliver(t) \/ GiveUp(t), NEW i \in 1 .. nread
  PROVE  Silent(i)' <=> Silent(i)
<1>1. /\ reports' = reports \cup {queue[t][1]}
      /\ UNCHANGED <<frames, nread, refused, failed, first>>
      /\ Len(queue[t]) >= 1 /\ Len(queue[t]) \in Nat /\ DOMAIN queue[t] = 1 .. Len(queue[t])
      /\ DOMAIN queue'[t] = 1 .. (Len(queue[t]) - 1)
      /\ \A n \in 1 .. (Len(queue[t]) - 1) : queue'[t][n] = queue[t][n + 1]
      /\ \A u \in Topics \ {t} : queue'[u] = queue[u]
  <2>1. queue'[t] \in Seq(1 .. nread)
    BY QueueServed
  <2> QED
    BY <2>1, QueueServed, Types, LenProperties
<1>2. InQueue(i) <=> i = queue[t][1] \/ InQueue(i)'
  <2>1. ASSUME NEW n \in 1 .. Len(queue[t]), queue[t][n] = i
        PROVE  i = queue[t][1] \/ \E m \in DOMAIN queue'[t] : queue'[t][m] = i
    <3>1. n = 1 \/ (n - 1 \in 1 .. (Len(queue[t]) - 1) /\ (n - 1) + 1 = n)
      BY <1>1
    <3> QED
      BY <1>1, <2>1, <3>1
  <2>2. ASSUME NEW n \in 1 .. (Len(queue[t]) - 1), queue'[t][n] = i
        PROVE  \E m \in DOMAIN queue[t] : queue[t][m] = i
    <3>1. n + 1 \in 1 .. Len(queue[t])
      BY <1>1
    <3> QED
      BY <1>1, <2>2, <3>1
  <2>3. 1 \in DOMAIN queue[t]
    BY <1>1
  <2>4. ASSUME NEW u \in Topics, NEW n \in DOMAIN queue[u], queue[u][n] = i
        PROVE  i = queue[t][1] \/ InQueue(i)'
    <3>1. CASE u = t
      BY <1>1, <2>1, <2>4, <3>1 DEF InQueue
    <3>2. CASE u # t
      BY <1>1, <2>4, <3>2 DEF InQueue
    <3> QED
      BY <3>1, <3>2
  <2>5. ASSUME NEW u \in Topics, NEW n \in DOMAIN queue'[u], queue'[u][n] = i
        PROVE  InQueue(i)
    <3>1. CASE u = t
      BY <1>1, <2>2, <2>5, <3>1 DEF InQueue
    <3>2. CASE u # t
      BY <1>1, <2>5, <3>2 DEF InQueue
    <3> QED
      BY <3>1, <3>2
  <2>6. InQueue(i)' => InQueue(i)
    BY <2>5 DEF InQueue
  <2>7. InQueue(i) => i = queue[t][1] \/ InQueue(i)'
    BY <2>4 DEF InQueue
  <2> QED
    BY <2>3, <2>6, <2>7 DEF InQueue
<1>3. /\ Delivered(i) => Delivered(i)'
      /\ Delivered(i)' => Delivered(i) \/ i = queue[t][1]
  <2>1. CASE GiveUp(t)
    BY <2>1 DEF GiveUp, Delivered
  <2>2. CASE Deliver(t)
    <3>1. /\ topics'[t] \in Seq(1 .. nread)
          /\ Len(topics'[t]) = Len(topics[t]) + 1 /\ topics'[t][Len(topics[t]) + 1] = queue[t][1]
          /\ \A n \in 1 .. Len(topics[t]) : topics'[t][n] = topics[t][n]
          /\ \A u \in Topics \ {t} : topics'[u] = topics[u]
      BY <2>2, DeliverAppends
    <3>2. /\ Len(topics[t]) \in Nat /\ DOMAIN topics[t] = 1 .. Len(topics[t])
          /\ DOMAIN topics'[t] = 1 .. (Len(topics[t]) + 1)
      BY <3>1, Types, LenProperties
    <3>3. /\ \A n \in 1 .. (Len(topics[t]) + 1) : n \in 1 .. Len(topics[t]) \/ n = Len(topics[t]) + 1
          /\ 1 .. Len(topics[t]) \subseteq 1 .. (Len(topics[t]) + 1)
      BY <3>2
    <3>4. ASSUME NEW u \in Topics, NEW n \in DOMAIN topics[u], topics[u][n] = i
          PROVE  n \in DOMAIN topics'[u] /\ topics'[u][n] = i
      BY <3>1, <3>2, <3>3, <3>4
    <3>5. ASSUME NEW u \in Topics, NEW n \in DOMAIN topics'[u], topics'[u][n] = i
          PROVE  i = queue[t][1] \/ (n \in DOMAIN topics[u] /\ topics[u][n] = i)
      BY <3>1, <3>2, <3>3, <3>5
    <3> QED
      BY <3>4, <3>5 DEF Delivered
  <2> QED
    BY <2>1, <2>2
<1> QED
  BY <1>1, <1>2, <1>3 DEF Silent

LEMMA LossesLast ==
  ASSUME TypeInv, Working, NEW i \in 1 .. nread
  PROVE  Silent(i)' <=> Silent(i)
<1>1. ASSUME UNCHANGED <<nread, client, refused, first>> PROVE Silent(i)' <=> Silent(i)
  BY <1>1 DEF Silent, InQueue, Delivered, client
<1>2. CASE Elsewhere
  BY <1>1, <1>2, ElsewhereKeeps
<1>3. ASSUME NEW k \in FeedKinds, Receive(k) PROVE Silent(i)' <=> Silent(i)
  BY <1>1, <1>3, ReceiveAdds
<1>4. CASE HandleRaises
  <2>1. /\ nread + 1 \in 1 .. Len(frames) /\ nread' = Len(frames)
        /\ refused' = refused \cup {nread + 1} /\ UNCHANGED <<frames, client, first>>
    BY <1>4, RaisesLoses
  <2>2. i <= nread /\ i <= nread' /\ i # nread + 1
    BY <2>1, Types DEF TypeInv
  <2> QED
    BY <2>1, <2>2 DEF Silent, InQueue, Delivered, client
<1> QED
  BY <1>2, <1>3, <1>4, HandleKeeps, ServedKeeps DEF Working

LEMMA StepSilent ==
  ASSUME Inv, [Next]_vars
  PROVE  SilentLossIsBehindRefusal'
<1>1. TypeInv /\ SilentLossIsBehindRefusal /\ nread \in Nat /\ first \in 1 .. (nread + 1)
      /\ nread \in 0 .. Len(frames) /\ Len(frames) \in Nat
  BY Types DEF Inv, TypeInv
<1>2. CASE FlushEnds \/ Crash
  <2>1. nread' = Len(frames) /\ first' = Len(frames) + 1
    BY <1>1, <1>2, RestartForgets
  <2>2. \A i \in Received' : ~(i >= Len(frames) + 1 /\ i <= Len(frames))
    BY <1>1 DEF Received
  <2>3. \A i \in Received' : ~Silent(i)'
    BY <2>1, <2>2 DEF Silent
  <2> QED
    BY <2>3 DEF SilentLossIsBehindRefusal
<1>3. CASE Working
  <2>1. ASSUME NEW i \in Received', Silent(i)', i <= nread
        PROVE  \E j \in refused' : j < i /\ \A h \in (j + 1) .. i : Silent(h)'
    <3>1. i \in 1 .. nread /\ i \in Received
      BY <1>1, <2>1 DEF Received
    <3>2. Silent(i)
      BY <1>1, <1>3, <2>1, <3>1, LossesLast
    <3>3. PICK j \in refused : j < i /\ \A h \in (j + 1) .. i : Silent(h)
      BY <1>1, <3>1, <3>2 DEF SilentLossIsBehindRefusal
    <3>4. j \in Nat /\ \A h \in (j + 1) .. i : h \in 1 .. nread
      BY <1>1, <3>1, <3>3 DEF TypeInv
    <3>5. \A h \in (j + 1) .. i : Silent(h)'
      BY <1>1, <1>3, <3>3, <3>4, LossesLast
    <3>6. refused \subseteq refused'
      BY <1>1, <1>3, ElsewhereKeeps, ReceiveAdds, RaisesLoses, QueueServed DEF Working, Handle
    <3> QED
      BY <3>3, <3>5, <3>6
  <2>2. ASSUME NEW i \in Received', Silent(i)', ~(i <= nread)
        PROVE  \E j \in refused' : j < i /\ \A h \in (j + 1) .. i : Silent(h)'
    <3>1. i <= nread' /\ i \in Nat /\ i > nread
      BY <1>1, <2>2 DEF Silent, Received
    <3>2. ~Handle
      <4> SUFFICES ASSUME Handle PROVE FALSE
        OBVIOUS
      <4>1. PICK t \in Topics :
              Len(queue'[t]) = Len(queue[t]) + 1 /\ queue'[t][Len(queue[t]) + 1] = nread + 1
        BY <1>1, HandleQueues
      <4>2. /\ nread' = nread + 1 /\ Len(queue[t]) \in Nat
            /\ DOMAIN queue'[t] = 1 .. (Len(queue[t]) + 1)
        <5>1. nread' = nread + 1 /\ queue'[t] \in Seq(1 .. nread')
          BY <1>1, HandleQueues
        <5> QED
          BY <1>1, <4>1, <5>1, Types, LenProperties
      <4>3. InQueue(i)'
        <5>1. i = nread + 1 /\ Len(queue[t]) + 1 \in DOMAIN queue'[t]
          BY <1>1, <3>1, <4>2
        <5> QED
          BY <4>1, <5>1 DEF InQueue
      <4> QED
        BY <2>2, <4>3 DEF Silent
    <3>3. HandleRaises
      <4>1. nread' # nread
        BY <1>1, <3>1
      <4> QED
        BY <1>1, <1>3, <3>2, <4>1, ElsewhereKeeps, ReceiveAdds, QueueServed DEF Working
    <3>4. /\ nread + 1 \in 1 .. Len(frames) /\ nread' = Len(frames)
          /\ refused' = refused \cup {nread + 1} /\ UNCHANGED <<frames, client, first>>
      BY <1>1, <3>3, RaisesLoses
    <3>5. i # nread + 1
      BY <2>2, <3>4 DEF Silent
    <3>6. nread + 1 < i
      BY <1>1, <3>1, <3>5
    <3>7. ASSUME NEW h \in (nread + 2) .. i
          PROVE  Silent(h)'
      <4>1. h \in Nat /\ h >= first /\ h <= nread' /\ h \notin 1 .. nread /\ h # nread + 1
        <5>1. i <= Len(frames) /\ nread' = Len(frames)
          BY <3>1, <3>4
        <5>2. h \in Nat /\ h >= nread + 2 /\ h <= Len(frames)
          BY <1>1, <3>1, <5>1
        <5>3. h >= first
          BY <1>1, <5>2
        <5> QED
          BY <1>1, <5>1, <5>2, <5>3
      <4>2. ~InQueue(h) /\ ~Delivered(h)
        BY <1>1, <4>1, InQueueTypes
      <4>3. h \notin reports \cup failed \cup refused
        BY <1>1, <4>1 DEF TypeInv
      <4>4. ~InQueue(h)' /\ ~Delivered(h)'
        BY <3>4, <4>2 DEF InQueue, Delivered, client
      <4> QED
        BY <3>4, <4>1, <4>3, <4>4 DEF Silent, client
    <3>8. (nread + 1) + 1 = nread + 2 /\ nread + 1 \in refused'
      BY <1>1, <3>4
    <3> QED
      BY <3>6, <3>7, <3>8
  <2> QED
    BY <2>1, <2>2 DEF SilentLossIsBehindRefusal
<1> QED
  BY <1>2, <1>3 DEF Next, Working, Elsewhere

-----------------------------------------------------------------------------
(* Functions that are defined by recursion over the numbers.               *)

LEMMA SetInduction ==
  ASSUME NEW S \in SUBSET Nat, 0 \in S, \A n \in S : n + 1 \in S
  PROVE  S = Nat
<1> DEFINE R == OpToRel(<, Nat)
           T == Nat \ S
<1>1. IsWellFoundedOn(R, Nat)
  BY NatLessThanWellFounded, Zenon
<1>2. R = {p \in Nat \X Nat : p[1] < p[2]}
  BY DEF OpToRel
<1>3. SUFFICES ASSUME T # {} PROVE FALSE
  OBVIOUS
<1>4. PICK m \in T : \A k \in T : <<k, m>> \notin R
  <2> HIDE DEF R
  <2> QED
    BY <1>1, <1>3, WFMin
<1>5. m - 1 \in Nat /\ m - 1 < m /\ (m - 1) + 1 = m
  OBVIOUS
<1>6. <<m - 1, m>> \in R
  BY <1>2, <1>5
<1> QED
  BY <1>4, <1>5, <1>6

LEMMA RecursionExists ==
  ASSUME NEW s0 \in Nat, NEW step \in [Nat -> [Nat -> Nat]]
  PROVE  \E g \in [Nat -> Nat] : g[0] = s0 /\ \A n \in Nat : g[n + 1] = step[n][g[n]]
<1> DEFINE S == Nat
<1> SUFFICES \E g \in [Nat -> S] : g[0] = s0 /\ \A n \in Nat : g[n + 1] = step[n][g[n]]
  OBVIOUS
<1>0. s0 \in S /\ step \in [Nat -> [S -> S]]
  OBVIOUS
<1> HIDE DEF S
<1> DEFINE Upto(n) == {h \in [Nat -> S] : /\ h[0] = s0
                                          /\ \A i \in Nat : i < n => h[i + 1] = step[i][h[i]]}
           N == {n \in Nat : Upto(n) # {}}
           U == {i \in Nat : \A m, n \in Nat : \A h \in Upto(m), k \in Upto(n) :
                               i <= m /\ i <= n => h[i] = k[i]}
<1>1. N = Nat
  <2>1. 0 \in N
    <3>1. [i \in Nat |-> s0] \in Upto(0)
      BY <1>0
    <3> QED
      BY <3>1
  <2>2. ASSUME NEW n \in N PROVE n + 1 \in N
    <3>1. PICK h \in [Nat -> S] : h[0] = s0 /\ \A i \in Nat : i < n => h[i + 1] = step[i][h[i]]
      OBVIOUS
    <3> DEFINE k == [i \in Nat |-> IF i = n + 1 THEN step[n][h[n]] ELSE h[i]]
    <3>2. n \in Nat /\ step[n][h[n]] \in S
      BY <1>0, <3>1
    <3>3. k \in [Nat -> S] /\ k[0] = s0
      <4>1. \A i \in Nat : h[i] \in S
        BY <3>1
      <4>2. 0 # n + 1
        BY <3>2
      <4> QED
        BY <3>1, <3>2, <4>1, <4>2
    <3>4. ASSUME NEW i \in Nat, i < n + 1 PROVE k[i + 1] = step[i][k[i]]
      <4>1. k[i] = h[i]
        BY <3>2, <3>4
      <4>2. CASE i = n
        BY <3>2, <4>1, <4>2
      <4>3. CASE i # n
        <5>1. i < n /\ i + 1 # n + 1
          BY <3>2, <3>4, <4>3
        <5>2. k[i + 1] = h[i + 1]
          BY <5>1
        <5>3. h[i + 1] = step[i][h[i]]
          BY <3>1, <5>1
        <5> QED
          BY <4>1, <5>2, <5>3
      <4> QED
        BY <4>2, <4>3
    <3> HIDE DEF k
    <3>5. k \in Upto(n + 1)
      BY <3>3, <3>4
    <3> HIDE DEF Upto
    <3> QED
      BY <3>2, <3>5
  <2> HIDE DEF N
  <2>3. N \in SUBSET Nat
    BY DEF N
  <2> QED
    BY <2>1, <2>2, <2>3, SetInduction
<1>2. U = Nat
  <2>1. 0 \in U
    BY <1>0
  <2>2. ASSUME NEW j \in U PROVE j + 1 \in U
    <3>1. ASSUME NEW m \in Nat, NEW n \in Nat, NEW h \in Upto(m), NEW k \in Upto(n),
                 j + 1 <= m, j + 1 <= n
          PROVE  h[j + 1] = k[j + 1]
      <4>1. j \in Nat /\ j < m /\ j < n /\ j <= m /\ j <= n
        BY <3>1
      <4>2. h[j] = k[j]
        <5>1. \A a, b \in Nat : \A c \in Upto(a), d \in Upto(b) : j <= a /\ j <= b => c[j] = d[j]
          BY DEF U
        <5> HIDE DEF Upto
        <5> QED
          BY <3>1, <4>1, <5>1
      <4>3. h[j + 1] = step[j][h[j]] /\ k[j + 1] = step[j][k[j]]
        BY <3>1, <4>1
      <4> QED
        BY <4>2, <4>3
    <3>2. j + 1 \in Nat
      OBVIOUS
    <3> HIDE DEF Upto
    <3> QED
      BY <3>1, <3>2
  <2> HIDE DEF U
  <2>3. U \in SUBSET Nat
    BY DEF U
  <2> QED
    BY <2>1, <2>2, <2>3, SetInduction
<1> DEFINE H == [n \in Nat |-> CHOOSE h \in Upto(n) : TRUE]
           g == [n \in Nat |-> H[n][n]]
<1>3. ASSUME NEW n \in Nat PROVE H[n] \in Upto(n)
  <2> HIDE DEF Upto
  <2> QED
    BY <1>1
<1>4. ASSUME NEW n \in Nat
      PROVE  H[n] \in [Nat -> S] /\ H[n][0] = s0
             /\ \A i \in Nat : i < n => H[n][i + 1] = step[i][H[n][i]]
  <2> HIDE DEF H
  <2> QED
    BY <1>3
<1>5. ASSUME NEW n \in Nat PROVE H[n + 1][n] = H[n][n]
  <2>1. n + 1 \in Nat /\ n <= n + 1 /\ n <= n
    OBVIOUS
  <2>2. \A m, l \in Nat : \A h \in Upto(m), k \in Upto(l) : n <= m /\ n <= l => h[n] = k[n]
    BY <1>2
  <2> HIDE DEF Upto, H
  <2> QED
    BY <1>3, <2>1, <2>2
<1> HIDE DEF H
<1>6. g \in [Nat -> S] /\ g[0] = s0
  <2>1. ASSUME NEW n \in Nat PROVE H[n][n] \in S
    BY <1>4
  <2>2. H[0][0] = s0
    BY <1>4
  <2> QED
    BY <2>1, <2>2
<1>7. ASSUME NEW n \in Nat PROVE g[n + 1] = step[n][g[n]]
  <2>1. n + 1 \in Nat /\ n < n + 1
    OBVIOUS
  <2>2. H[n + 1][n + 1] = step[n][H[n + 1][n]]
    BY <1>4, <2>1
  <2> QED
    BY <1>5, <2>1, <2>2
<1> QED
  BY <1>6, <1>7

LEMMA DoubledDef ==
  /\ Doubled \in [Nat -> Nat] /\ Doubled[0] = 1
  /\ \A n \in Nat : Doubled[n + 1] = 2 * Doubled[n]
<1> DEFINE IsDoubled(f) == f = [n \in Nat |-> IF n = 0 THEN 1 ELSE 2 * f[n - 1]]
           step == [n \in Nat |-> [x \in Nat |-> 2 * x]]
<1>1. PICK g \in [Nat -> Nat] : g[0] = 1 /\ \A n \in Nat : g[n + 1] = step[n][g[n]]
  <2>1. step \in [Nat -> [Nat -> Nat]] /\ 1 \in Nat
    OBVIOUS
  <2> HIDE DEF step
  <2> QED
    BY <2>1, RecursionExists
<1>2. \A n \in Nat : g[n + 1] = 2 * g[n]
  BY <1>1
<1>3. \A n \in Nat : g[n] = IF n = 0 THEN 1 ELSE 2 * g[n - 1]
  <2>1. ASSUME NEW n \in Nat, n # 0 PROVE g[n] = 2 * g[n - 1]
    <3>1. n - 1 \in Nat /\ (n - 1) + 1 = n
      BY <2>1
    <3> QED
      BY <1>2, <3>1
  <2> QED
    BY <1>1, <2>1
<1>4. IsDoubled(g)
  BY <1>3
<1>5. IsDoubled(Doubled)
  <2>1. Doubled = CHOOSE f : IsDoubled(f)
    BY DEF Doubled
  <2> HIDE DEF IsDoubled
  <2> QED
    BY <1>4, <2>1
<1>6. Doubled = [n \in Nat |-> IF n = 0 THEN 1 ELSE 2 * Doubled[n - 1]]
  BY <1>5
<1>7. Doubled[0] = 1 /\ \A n \in Nat : n # 0 => Doubled[n] = 2 * Doubled[n - 1]
  BY <1>6
<1>8. \A n \in Nat : Doubled[n + 1] = 2 * Doubled[n]
  <2>1. \A n \in Nat : n + 1 \in Nat /\ n + 1 # 0 /\ (n + 1) - 1 = n
    OBVIOUS
  <2> QED
    BY <1>7, <2>1
<1>9. \A n \in Nat : Doubled[n] \in Nat
  <2> DEFINE N == {n \in Nat : Doubled[n] \in Nat}
  <2>1. N \in SUBSET Nat /\ 0 \in N /\ \A n \in N : n + 1 \in N
    BY <1>7, <1>8
  <2>2. N = Nat
    <3> HIDE DEF N
    <3> QED
      BY <2>1, SetInduction
  <2> QED
    BY <2>2
<1> QED
  BY <1>6, <1>7, <1>8, <1>9

LEMMA PauseType == \A n \in Nat : Pause(n) \in Nat /\ Pause(n) >= 1
<1> DEFINE N == {n \in Nat : Doubled[n] >= 1}
<1>1. N \in SUBSET Nat /\ 0 \in N /\ \A n \in N : n + 1 \in N
  BY DoubledDef
<1>2. N = Nat
  <2> HIDE DEF N
  <2> QED
    BY <1>1, SetInduction
<1>3. \A n \in Nat : Doubled[n] \in Nat /\ Doubled[n] >= 1
  BY <1>2, DoubledDef
<1> QED
  BY <1>3 DEF Pause

LEMMA PausesDef ==
  /\ Pauses[0] = 0 /\ Pauses[1] = 0
  /\ \A n \in Nat : Pauses[n] \in Nat
  /\ \A n \in Nat : Pauses[n + 2] = Pauses[n + 1] + Pause(n)
<1> DEFINE IsPauses(f) == f = [n \in Nat |-> IF n <= 1 THEN 0 ELSE f[n - 1] + Pause(n - 2)]
           step == [n \in Nat |-> [x \in Nat |-> IF n = 0 THEN 0 ELSE x + Pause(n - 1)]]
<1>1. PICK g \in [Nat -> Nat] : g[0] = 0 /\ \A n \in Nat : g[n + 1] = step[n][g[n]]
  <2>1. \A n \in Nat : n # 0 => n - 1 \in Nat /\ Pause(n - 1) \in Nat
    BY PauseType
  <2>2. step \in [Nat -> [Nat -> Nat]] /\ 0 \in Nat
    BY <2>1
  <2> HIDE DEF step
  <2> QED
    BY <2>2, RecursionExists
<1>2. \A n \in Nat : g[n + 1] = IF n = 0 THEN 0 ELSE g[n] + Pause(n - 1)
  BY <1>1
<1>3. \A n \in Nat : g[n] = IF n <= 1 THEN 0 ELSE g[n - 1] + Pause(n - 2)
  <2>1. ASSUME NEW n \in Nat, ~(n <= 1) PROVE g[n] = g[n - 1] + Pause(n - 2)
    <3>1. n - 1 \in Nat /\ (n - 1) + 1 = n /\ n - 1 # 0 /\ (n - 1) - 1 = n - 2
      BY <2>1
    <3> QED
      BY <1>2, <3>1
  <2>2. g[1] = 0
    BY <1>2, 0 + 1 = 1
  <2>3. \A n \in Nat : n <= 1 => n = 0 \/ n = 1
    OBVIOUS
  <2> QED
    BY <1>1, <2>1, <2>2, <2>3
<1>4. IsPauses(g)
  BY <1>3
<1>5. IsPauses(Pauses)
  <2>1. Pauses = CHOOSE f : IsPauses(f)
    BY DEF Pauses
  <2> HIDE DEF IsPauses
  <2> QED
    BY <1>4, <2>1
<1> HIDE DEF step
<1>6. \A n \in Nat : Pauses[n] = IF n <= 1 THEN 0 ELSE Pauses[n - 1] + Pause(n - 2)
  <2>1. Pauses = [n \in Nat |-> IF n <= 1 THEN 0 ELSE Pauses[n - 1] + Pause(n - 2)]
    BY <1>5
  <2> QED
    BY <2>1
<1>7. Pauses[0] = 0 /\ Pauses[1] = 0
  BY <1>6
<1>8. \A n \in Nat : Pauses[n + 2] = Pauses[n + 1] + Pause(n)
  <2>1. \A n \in Nat : n + 2 \in Nat /\ ~(n + 2 <= 1) /\ (n + 2) - 1 = n + 1 /\ (n + 2) - 2 = n
    OBVIOUS
  <2> QED
    BY <1>6, <2>1
<1>9. \A n \in Nat : Pauses[n] \in Nat
  <2> DEFINE N == {n \in Nat : Pauses[n] \in Nat /\ Pauses[n + 1] \in Nat}
  <2>1. N \in SUBSET Nat /\ 0 \in N
    BY <1>7, 0 + 1 = 1
  <2>2. ASSUME NEW n \in N PROVE n + 1 \in N
    BY <1>8, PauseType, (n + 1) + 1 = n + 2
  <2>3. N = Nat
    <3> HIDE DEF N
    <3> QED
      BY <2>1, <2>2, SetInduction
  <2> QED
    BY <2>3
<1> QED
  BY <1>7, <1>8, <1>9

-----------------------------------------------------------------------------
(* Pacing.  Every attempt but the first of a row follows a pause, and the  *)
(* pause is at least as long as so many doublings make it.                 *)

PacingInv ==
  /\ attempts \in Nat /\ elapsed \in Nat /\ backoff \in Nat /\ backoff >= 1
  /\ conn \in {"connecting", "opened", "subscribed", "sleeping"}
  /\ conn = "subscribed" => attempts = 0
  /\ conn = "connecting" => elapsed >= Pauses[attempts + 1] /\ backoff >= Pause(attempts)
  /\ conn # "connecting" =>
       /\ elapsed >= Pauses[attempts]
       /\ attempts >= 1 => backoff >= Pause(attempts - 1)

LEMMA PausesGrow == \A n \in Nat : Pauses[n] <= Pauses[n + 1]
<1> SUFFICES ASSUME NEW n \in Nat PROVE Pauses[n] <= Pauses[n + 1]
  OBVIOUS
<1>1. CASE n = 0
  BY <1>1, PausesDef, 0 + 1 = 1
<1>2. CASE n # 0
  <2>1. n - 1 \in Nat /\ (n - 1) + 2 = n + 1 /\ (n - 1) + 1 = n
    BY <1>2
  <2>2. Pauses[n + 1] = Pauses[n] + Pause(n - 1)
    BY <2>1, PausesDef
  <2> QED
    BY <2>1, <2>2, PausesDef, PauseType
<1> QED
  BY <1>1, <1>2

LEMMA PauseDoubles ==
  ASSUME NEW n \in Nat, NEW b \in Nat, b >= Pause(n)
  PROVE  (IF 2 * b < MAX_BACKOFF THEN 2 * b ELSE MAX_BACKOFF) >= Pause(n + 1)
<1>1. Doubled[n] \in Nat /\ Doubled[n + 1] = 2 * Doubled[n]
  BY DoubledDef
<1> QED
  BY <1>1 DEF Pause

LEMMA PacingStart ==
  ASSUME conn = "connecting", attempts = 0, elapsed = 0, backoff = 1
  PROVE  PacingInv
<1>1. Pauses[1] = 0 /\ attempts + 1 = 1
  BY PausesDef
<1>2. Pauses[attempts + 1] = 0
  BY <1>1
<1>3. Pause(attempts) = 1
  BY DoubledDef DEF Pause
<1> QED
  BY <1>2, <1>3 DEF PacingInv

LEMMA PacingStep ==
  ASSUME PacingInv, [Next]_vars
  PROVE  PacingInv'
<1>1. /\ attempts \in Nat /\ elapsed \in Nat /\ backoff \in Nat /\ backoff >= 1
      /\ MAX_BACKOFF \in Nat /\ MAX_BACKOFF >= 1
      /\ Pauses[0] = 0 /\ Pauses[1] = 0 /\ 0 + 1 = 1 /\ Pause(0) = 1
      /\ \A n \in Nat : Pauses[n] \in Nat /\ Pause(n) \in Nat /\ Pauses[n] <= Pauses[n + 1]
  BY PausesDef, PausesGrow, PauseType, DoubledDef DEF PacingInv, Pause
<1>2. CASE ConnectOk \/ ConnectFails
  <2>1. /\ conn = "connecting" /\ conn' \in {"opened", "sleeping"} /\ attempts' = attempts + 1
        /\ UNCHANGED <<elapsed, backoff>>
    BY <1>2 DEF ConnectOk, ConnectFails
  <2>2. elapsed >= Pauses[attempts + 1] /\ backoff >= Pause(attempts)
    BY <2>1 DEF PacingInv
  <2>3. (attempts + 1) - 1 = attempts /\ attempts + 1 \in Nat
    BY <1>1
  <2> QED
    BY <1>1, <2>1, <2>2, <2>3 DEF PacingInv
<1>3. CASE Subscribe
  BY <1>1, <1>3 DEF Subscribe, PacingInv
<1>4. CASE Wake
  <2>1. /\ conn = "sleeping" /\ conn' = "connecting" /\ elapsed' = elapsed + backoff
        /\ backoff' = IF 2 * backoff < MAX_BACKOFF THEN 2 * backoff ELSE MAX_BACKOFF
        /\ attempts' = attempts
    BY <1>4 DEF Wake
  <2>2. elapsed' \in Nat /\ backoff' \in Nat /\ backoff' >= 1
    BY <1>1, <2>1
  <2>3. CASE attempts = 0
    <3>1. elapsed' >= Pauses[attempts' + 1] /\ backoff' >= Pause(attempts')
      BY <1>1, <2>1, <2>2, <2>3
    <3> QED
      BY <1>1, <2>1, <2>2, <3>1 DEF PacingInv
  <2>4. CASE attempts # 0
    <3> DEFINE n == attempts - 1
    <3>1. n \in Nat /\ n + 1 = attempts /\ n + 2 = attempts + 1 /\ attempts >= 1
      BY <1>1, <2>4
    <3>2. elapsed >= Pauses[attempts] /\ backoff >= Pause(n)
      BY <2>1, <3>1 DEF PacingInv
    <3> HIDE DEF n
    <3>3. backoff' >= Pause(attempts)
      BY <1>1, <2>1, <3>1, <3>2, PauseDoubles
    <3>4. Pauses[attempts + 1] = Pauses[attempts] + Pause(n)
      BY <3>1, PausesDef
    <3>5. elapsed + backoff >= Pauses[attempts + 1]
      BY <1>1, <3>1, <3>2, <3>4
    <3> QED
      BY <1>1, <2>1, <2>2, <3>3, <3>5 DEF PacingInv
  <2> QED
    BY <2>3, <2>4
<1>5. CASE FlushEnds \/ Crash
  <2>1. conn' = "connecting" /\ attempts' = 0 /\ elapsed' = 0 /\ backoff' = 1
    BY <1>5 DEF FlushEnds, Crash, Restart
  <2>2. attempts' + 1 = 1 /\ Pauses[attempts' + 1] = 0 /\ Pause(attempts') = 1
    BY <1>1, <2>1
  <2> QED
    BY <2>1, <2>2 DEF PacingInv
<1>6. CASE SubscribeFails \/ HandleRaises \/ LoopRaises
  <2>1. /\ conn \in {"opened", "subscribed"} /\ conn' = "sleeping"
        /\ UNCHANGED <<attempts, elapsed, backoff>>
    BY <1>6 DEF SubscribeFails, HandleRaises, LoopRaises, pacing
  <2> QED
    BY <2>1 DEF PacingInv
<1>7. CASE LoopEnds
  <2>1. /\ conn = "subscribed" /\ conn' = "connecting" /\ UNCHANGED <<attempts, elapsed, backoff>>
    BY <1>7 DEF LoopEnds, pacing
  <2> QED
    BY <1>1, <2>1 DEF PacingInv
<1>8. CASE UNCHANGED <<conn, attempts, elapsed, backoff>>
  BY <1>8 DEF PacingInv
<1> QED
  BY <1>2, <1>3, <1>4, <1>5, <1>6, <1>7, <1>8
  DEF Next, ServerCloses, Receive, Handle, Deliver, GiveUp, Signal, vars, link, pacing

-----------------------------------------------------------------------------
LEMMA InitInv == Init => Inv
<1> SUFFICES ASSUME Init PROVE Inv
  OBVIOUS
<1>1. /\ Len(frames) = 0 /\ nread = 0 /\ first = 1
      /\ \A t \in Topics : queue[t] = <<>> /\ Len(queue[t]) = 0
      /\ reports = {} /\ failed = {} /\ refused = {}
      /\ \A t \in Topics : topics[t] = <<>> /\ Len(topics[t]) = 0 /\ DOMAIN topics[t] = {}
  BY EmptySeq DEF Init
<1>2. TypeInv
  BY <1>1, EmptySeq DEF Init, TypeInv
<1>3. QueueInOrder
  BY <1>1 DEF QueueInOrder
<1>4. TopicsInOrder
  BY <1>1 DEF TopicsInOrder
<1>5. SilentLossIsBehindRefusal
  BY <1>1 DEF SilentLossIsBehindRefusal, Received
<1> QED
  BY <1>2, <1>3, <1>4, <1>5 DEF Inv

LEMMA StepInv == Inv /\ [Next]_vars => Inv'
BY StepTypes, StepQueue, StepOrder, StepSilent DEF Inv

\* Inv holds in every reachable state.
LEMMA Invariance == Spec => []Inv
BY InitInv, StepInv, PTL DEF Spec

\* Whatever the feed, the server, the broker and the signals do, a topic never
\* holds a frame twice or behind a later one (producer.py:52-59, 93-98).
THEOREM FramesInOrder == Spec => []TopicsInOrder
<1>1. Inv => TopicsInOrder
  BY DEF Inv
<1> QED
  BY <1>1, Invariance, PTL

\* However full the client and however often the connection ends, a frame that
\* is lost without a trace was in the buffer behind one that was refused
\* (producer.py:61-63, 111-115).
THEOREM LossesAreBehindRefusals == Spec => []SilentLossIsBehindRefusal
<1>1. Inv => SilentLossIsBehindRefusal
  BY DEF Inv
<1> QED
  BY <1>1, Invariance, PTL

\* A server that is down is asked again only after pauses that double up to
\* MAX_BACKOFF, whatever ends the connections in between (producer.py:100,
\* 116-117).
THEOREM BackoffPacesAttempts == Spec => []AttemptsArePaced
<1>1. Init => PacingInv
  BY PacingStart DEF Init
<1>2. PacingInv /\ [Next]_vars => PacingInv'
  BY PacingStep
<1>3. PacingInv => AttemptsArePaced
  <2> SUFFICES ASSUME PacingInv PROVE elapsed >= Pauses[attempts]
    BY DEF AttemptsArePaced
  <2>1. attempts \in Nat /\ elapsed \in Nat
        /\ Pauses[attempts] \in Nat /\ Pauses[attempts + 1] \in Nat
        /\ Pauses[attempts] <= Pauses[attempts + 1]
    BY PausesDef, PausesGrow DEF PacingInv
  <2> QED
    BY <2>1 DEF PacingInv
<1> QED
  BY <1>1, <1>2, <1>3, PTL DEF Spec
=============================================================================
