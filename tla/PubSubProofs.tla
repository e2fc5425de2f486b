---------------------------- MODULE PubSubProofs ----------------------------
(***************************************************************************)
(* Proofs about the broker, for every set of streams, Subscribers and      *)
(* subscriptions, every capacity of the queues and every number of         *)
(* messages.                                                               *)
(*                                                                         *)
(* LockInv says who holds which mutex; what a deadlock takes follows from  *)
(* it without a further induction.  MessageInv follows each message from   *)
(* the goroutine of the stream to the readers.                             *)
(***************************************************************************)
EXTENDS PubSub, SequenceTheorems, TLAPS

(* The agents and Free all differ. *)
LEMMA AgentsDiffer ==
  /\ Closer # Free
  /\ \A v \in Pairs : Call(v) # Free /\ Call(v) # Closer
  /\ \A s \in Streams : Process(s) # Free /\ Process(s) # Closer
  /\ \A v, w \in Pairs : Call(v) = Call(w) => v = w
  /\ \A r, s \in Streams : Process(r) = Process(s) => r = s
  /\ \A v \in Pairs : \A s \in Streams : Call(v) # Process(s)
BY DEF Free, Closer, Call, Process

LEMMA PairIs ==
  ASSUME NEW w \in Pairs
  PROVE  w[1] \in Subs /\ w[2] \in Streams /\ <<w[1], w[2]>> = w
BY DEF Pairs

LEMMA PairsDiffer ==
  ASSUME NEW v \in Pairs, NEW w \in Pairs, v[1] = w[1], v[2] = w[2]
  PROVE  v = w
<1>1. v = <<v[1], v[2]>> /\ w = <<w[1], w[2]>>
  BY PairIs
<1>2. <<v[1], v[2]>> = <<w[1], w[2]>>
  OBVIOUS
<1> QED
  BY <1>1, <1>2, Zenon

(* The calls of a subscription, with the pair as it is. *)
SubscribeAs(w) ==
  /\ reader[w] = "new" /\ subLock[w[1]] = Free
  /\ subLock' = [subLock EXCEPT ![w[1]] = Call(w)]
  /\ entries' = entries \cup {w} /\ reader' = [reader EXCEPT ![w] = "subscribe"]
  /\ UNCHANGED <<channelLock, streamLock, announced, closed, closedStreams, closer, queue>>
  /\ UNCHANGED <<process, rest, accepted, members, since, received, dropped>>

SubscribeInChannelAs(w) ==
  /\ reader[w] = "subscribe" /\ channelLock = Free
  /\ \/ /\ channelLock' = Call(w)
        /\ reader' = [reader EXCEPT ![w] = "subscribe stream"]
        /\ subLock' = subLock /\ entries' = entries
     \/ /\ subLock' = [subLock EXCEPT ![w[1]] = Free]
        /\ entries' = entries \ {w}
        /\ reader' = [reader EXCEPT ![w] = "new"]
        /\ channelLock' = channelLock
  /\ UNCHANGED <<streamLock, announced, closed, closedStreams, closer, queue>>
  /\ UNCHANGED <<process, rest, accepted, members, since, received, dropped>>

SubscribeInStreamAs(w) ==
  /\ reader[w] = "subscribe stream" /\ streamLock[w[2]] = Free
  /\ members' = [members EXCEPT ![w[2]] = @ \cup {w[1]}] /\ channelLock' = Free
  /\ subLock' = [subLock EXCEPT ![w[1]] = Free]
  /\ reader' = [reader EXCEPT ![w] = "reading"]
  /\ since' = [since EXCEPT ![w] = HandedOut(w[2])]
  /\ UNCHANGED <<streamLock, announced, closed, closedStreams, closer, queue, entries>>
  /\ UNCHANGED <<process, rest, accepted, received, dropped>>

UnsubscribeInStreamAs(w) ==
  /\ reader[w] = "unsubscribe stream" /\ streamLock[w[2]] = Free
  /\ members' = [members EXCEPT ![w[2]] = @ \ {w[1]}] /\ channelLock' = Free
  /\ reader' = [reader EXCEPT ![w] = "stopped"]
  /\ UNCHANGED <<streamLock, subLock, announced, closed, closedStreams, closer, queue>>
  /\ UNCHANGED <<process, rest, accepted, entries, since, received, dropped>>

LEMMA SubscribeIs ==
  ASSUME NEW w \in Pairs, Subscribe(w[1], w[2])
  PROVE  SubscribeAs(w)
BY PairIs DEF SubscribeAs, Subscribe, streamVars, historyVars

LEMMA SubscribeInChannelIs ==
  ASSUME NEW w \in Pairs, SubscribeInChannel(w[1], w[2])
  PROVE  SubscribeInChannelAs(w)
BY PairIs DEF SubscribeInChannelAs, SubscribeInChannel, streamVars, historyVars

LEMMA SubscribeInStreamIs ==
  ASSUME NEW w \in Pairs, SubscribeInStream(w[1], w[2])
  PROVE  SubscribeInStreamAs(w)
BY PairIs DEF SubscribeInStreamAs, SubscribeInStream, Registered

LEMMA UnsubscribeInStreamIs ==
  ASSUME NEW w \in Pairs, UnsubscribeInStream(w[1], w[2])
  PROVE  UnsubscribeInStreamAs(w)
BY PairIs DEF UnsubscribeInStreamAs, UnsubscribeInStream, historyVars

Types ==
  /\ wanted \subseteq Pairs
  /\ announced \subseteq Streams /\ closed \in BOOLEAN /\ closedStreams \subseteq announced
  /\ process \in [Streams -> {"none", "select", "locking", "fanout", "done"}]
  /\ rest \in [Streams -> SUBSET Subs] /\ members \in [Streams -> SUBSET Subs]
  /\ entries \subseteq wanted
  /\ closer \in {"idle", "closing", "returned"}
  /\ reader \in [Pairs -> {"new", "subscribe", "subscribe stream", "reading", "unsubscribe",
                           "unsubscribe stream", "stopped"}]
  /\ streamLock \in [Streams -> {Free} \cup {Process(s) : s \in Streams}]
  /\ subLock \in [Subs -> {Free} \cup {Call(w) : w \in wanted}]
  /\ channelLock \in {Free, Closer} \cup {Call(w) : w \in wanted}

(* A stream is locked by its goroutine, during fanout, and by nobody else  *)
(* between two steps; a Subscriber by the call that subscribes it; and the *)
(* Channel by Close, or by a call that is about to lock the stream.        *)
StreamLocks ==
  \A s \in Streams :
    /\ streamLock[s] = IF process[s] = "fanout" THEN Process(s) ELSE Free
    /\ s \notin announced => process[s] = "none"
SubLocks ==
  /\ \A w \in wanted : subLock[w[1]] = Call(w) <=> reader[w] \in {"subscribe", "subscribe stream"}
  /\ \A u \in Subs : \A w \in wanted : subLock[u] = Call(w) => w[1] = u
ChannelLock ==
  /\ \A w \in wanted :
       channelLock = Call(w) <=> reader[w] \in {"subscribe stream", "unsubscribe stream"}
  /\ channelLock = Closer <=> closer = "closing"

(* A member of a stream is a reader that has not unsubscribed yet.  Only   *)
(* members are served, and none comes or goes during a fanout.             *)
Membership ==
  /\ \A s \in Streams : rest[s] \subseteq members[s] /\ (process[s] # "fanout" => rest[s] = {})
  /\ \A s \in Streams : \A u \in members[s] :
       <<u, s>> \in entries /\ reader[<<u, s>>] \in {"reading", "unsubscribe", "unsubscribe stream"}
  /\ \A w \in wanted : reader[w] = "reading" => w[1] \in members[w[2]]
  /\ \A w \in wanted : reader[w] # "new" => w \in entries

LockInv == Types /\ StreamLocks /\ SubLocks /\ ChannelLock /\ Membership

LEMMA TypesStep ==
  ASSUME Types, [Next]_<<wanted, vars>>
  PROVE  Types'
<1> USE DEF Types, lockVars, streamVars, historyVars
<1>1. ASSUME NEW s \in Streams, Announce(s), wanted' = wanted
      PROVE  Types'
  BY <1>1 DEF Announce
<1>2. ASSUME NEW s \in Streams, Publish(s), wanted' = wanted
      PROVE  Types'
  BY <1>2 DEF Publish
<1>3. ASSUME NEW s \in Streams, FanoutStarts(s), wanted' = wanted
      PROVE  Types'
  BY <1>3 DEF FanoutStarts
<1>4. ASSUME NEW s \in Streams, NEW u \in Subs, Receive(s, u), wanted' = wanted
      PROVE  Types'
  BY <1>4 DEF Receive
<1>5. ASSUME NEW s \in Streams, FanoutEnds(s), wanted' = wanted
      PROVE  Types'
  BY <1>5 DEF FanoutEnds
<1>6. ASSUME NEW s \in Streams, ProcessReturns(s), wanted' = wanted
      PROVE  Types'
  BY <1>6 DEF ProcessReturns
<1>7. ASSUME NEW w \in wanted, Subscribe(w[1], w[2]), wanted' = wanted
      PROVE  Types'
  <2>1. w \in Pairs /\ w[1] \in Subs /\ w[2] \in Streams
    BY PairIs
  <2>2. SubscribeAs(w)
    BY <1>7, <2>1, SubscribeIs
  <2> QED
    BY <1>7, <2>1, <2>2, PairIs DEF SubscribeAs
<1>8. ASSUME NEW w \in wanted, SubscribeInChannel(w[1], w[2]), wanted' = wanted
      PROVE  Types'
  <2>1. w \in Pairs /\ w[1] \in Subs /\ w[2] \in Streams
    BY PairIs
  <2>2. SubscribeInChannelAs(w)
    BY <1>8, <2>1, SubscribeInChannelIs
  <2> QED
    BY <1>8, <2>1, <2>2, PairIs DEF SubscribeInChannelAs
<1>9. ASSUME NEW w \in wanted, SubscribeInStream(w[1], w[2]), wanted' = wanted
      PROVE  Types'
  <2>1. w \in Pairs /\ w[1] \in Subs /\ w[2] \in Streams
    BY PairIs
  <2>2. SubscribeInStreamAs(w)
    BY <1>9, <2>1, SubscribeInStreamIs
  <2> QED
    BY <1>9, <2>1, <2>2, PairIs DEF SubscribeInStreamAs
<1>10. ASSUME NEW w \in wanted, Read(w), wanted' = wanted
       PROVE  Types'
  BY <1>10, PairIs DEF Read
<1>11. ASSUME NEW w \in wanted, Stops(w), wanted' = wanted
       PROVE  Types'
  BY <1>11, PairIs DEF Stops
<1>12. ASSUME NEW w \in wanted, Unsubscribe(w), wanted' = wanted
       PROVE  Types'
  BY <1>12, PairIs DEF Unsubscribe
<1>13. ASSUME NEW w \in wanted, UnsubscribeInStream(w[1], w[2]), wanted' = wanted
       PROVE  Types'
  <2>1. w \in Pairs /\ w[1] \in Subs /\ w[2] \in Streams
    BY PairIs
  <2>2. UnsubscribeInStreamAs(w)
    BY <1>13, <2>1, UnsubscribeInStreamIs
  <2> QED
    BY <1>13, <2>1, <2>2, PairIs DEF UnsubscribeInStreamAs
<1>14. ASSUME Close, wanted' = wanted
       PROVE  Types'
  BY <1>14 DEF Close
<1>15. ASSUME NEW s \in Streams, CloseStream(s), wanted' = wanted
       PROVE  Types'
  BY <1>15 DEF CloseStream
<1>16. ASSUME CloseReturns, wanted' = wanted
       PROVE  Types'
  BY <1>16 DEF CloseReturns
<1>17. CASE UNCHANGED <<wanted, vars>>
  BY <1>17 DEF vars
<1> QED
  BY <1>1, <1>2, <1>3, <1>4, <1>5, <1>6, <1>7, <1>8, <1>9, <1>10, <1>11, <1>12, <1>13, <1>14, <1>15, <1>16, <1>17
  DEF Next, StreamStep, SubscriberStep, CloseStep

LEMMA StreamLocksStep ==
  ASSUME Types, StreamLocks, [Next]_<<wanted, vars>>
  PROVE  StreamLocks'
<1> USE AgentsDiffer DEF Types, StreamLocks, lockVars, streamVars, historyVars
<1>1. ASSUME NEW s \in Streams, Announce(s), wanted' = wanted
      PROVE  StreamLocks'
  BY <1>1 DEF Announce
<1>2. ASSUME NEW s \in Streams, Publish(s), wanted' = wanted
      PROVE  StreamLocks'
  BY <1>2 DEF Publish
<1>3. ASSUME NEW s \in Streams, FanoutStarts(s), wanted' = wanted
      PROVE  StreamLocks'
  BY <1>3 DEF FanoutStarts
<1>4. ASSUME NEW s \in Streams, NEW u \in Subs, Receive(s, u), wanted' = wanted
      PROVE  StreamLocks'
  BY <1>4 DEF Receive
<1>5. ASSUME NEW s \in Streams, FanoutEnds(s), wanted' = wanted
      PROVE  StreamLocks'
  BY <1>5 DEF FanoutEnds
<1>6. ASSUME NEW s \in Streams, ProcessReturns(s), wanted' = wanted
      PROVE  StreamLocks'
  BY <1>6 DEF ProcessReturns
<1>7. ASSUME NEW w \in wanted, Subscribe(w[1], w[2]), wanted' = wanted
      PROVE  StreamLocks'
  BY <1>7, PairIs DEF Subscribe
<1>8. ASSUME NEW w \in wanted, SubscribeInChannel(w[1], w[2]), wanted' = wanted
      PROVE  StreamLocks'
  BY <1>8, PairIs DEF SubscribeInChannel
<1>9. ASSUME NEW w \in wanted, SubscribeInStream(w[1], w[2]), wanted' = wanted
      PROVE  StreamLocks'
  BY <1>9, PairIs DEF SubscribeInStream, Registered
<1>10. ASSUME NEW w \in wanted, Read(w), wanted' = wanted
       PROVE  StreamLocks'
  BY <1>10, PairIs DEF Read
<1>11. ASSUME NEW w \in wanted, Stops(w), wanted' = wanted
       PROVE  StreamLocks'
  BY <1>11, PairIs DEF Stops
<1>12. ASSUME NEW w \in wanted, Unsubscribe(w), wanted' = wanted
       PROVE  StreamLocks'
  BY <1>12, PairIs DEF Unsubscribe
<1>13. ASSUME NEW w \in wanted, UnsubscribeInStream(w[1], w[2]), wanted' = wanted
       PROVE  StreamLocks'
  BY <1>13, PairIs DEF UnsubscribeInStream
<1>14. ASSUME Close, wanted' = wanted
       PROVE  StreamLocks'
  BY <1>14 DEF Close
<1>15. ASSUME NEW s \in Streams, CloseStream(s), wanted' = wanted
       PROVE  StreamLocks'
  BY <1>15 DEF CloseStream
<1>16. ASSUME CloseReturns, wanted' = wanted
       PROVE  StreamLocks'
  BY <1>16 DEF CloseReturns
<1>17. CASE UNCHANGED <<wanted, vars>>
  BY <1>17 DEF vars
<1> QED
  BY <1>1, <1>2, <1>3, <1>4, <1>5, <1>6, <1>7, <1>8, <1>9, <1>10, <1>11, <1>12, <1>13, <1>14, <1>15, <1>16, <1>17
  DEF Next, StreamStep, SubscriberStep, CloseStep

LEMMA SubLocksStep ==
  ASSUME Types, SubLocks, [Next]_<<wanted, vars>>
  PROVE  SubLocks'
<1> USE AgentsDiffer DEF Types, SubLocks, lockVars, streamVars, historyVars
<1>1. ASSUME NEW s \in Streams, Announce(s), wanted' = wanted
      PROVE  SubLocks'
  BY <1>1 DEF Announce
<1>2. ASSUME NEW s \in Streams, Publish(s), wanted' = wanted
      PROVE  SubLocks'
  BY <1>2 DEF Publish
<1>3. ASSUME NEW s \in Streams, FanoutStarts(s), wanted' = wanted
      PROVE  SubLocks'
  BY <1>3 DEF FanoutStarts
<1>4. ASSUME NEW s \in Streams, NEW u \in Subs, Receive(s, u), wanted' = wanted
      PROVE  SubLocks'
  BY <1>4 DEF Receive
<1>5. ASSUME NEW s \in Streams, FanoutEnds(s), wanted' = wanted
      PROVE  SubLocks'
  BY <1>5 DEF FanoutEnds
<1>6. ASSUME NEW s \in Streams, ProcessReturns(s), wanted' = wanted
      PROVE  SubLocks'
  BY <1>6 DEF ProcessReturns
<1>7. ASSUME NEW w \in wanted, Subscribe(w[1], w[2]), wanted' = wanted
      PROVE  SubLocks'
  <2>1. w \in Pairs /\ w[1] \in Subs /\ w[2] \in Streams
    BY PairIs
  <2>2. SubscribeAs(w)
    BY <1>7, <2>1, SubscribeIs
  <2> QED
    BY <1>7, <2>1, <2>2, PairIs DEF SubscribeAs
<1>8. ASSUME NEW w \in wanted, SubscribeInChannel(w[1], w[2]), wanted' = wanted
      PROVE  SubLocks'
  <2>1. w \in Pairs /\ w[1] \in Subs /\ w[2] \in Streams
    BY PairIs
  <2>2. SubscribeInChannelAs(w)
    BY <1>8, <2>1, SubscribeInChannelIs
  <2>3. subLock[w[1]] = Call(w)
    BY <2>2 DEF SubscribeInChannelAs
  <2>4. ASSUME NEW v \in wanted
        PROVE  subLock'[v[1]] = Call(v) <=> reader'[v] \in {"subscribe", "subscribe stream"}
    <3>1. v \in Pairs /\ v[1] \in Subs
      BY PairIs
    <3>2. CASE subLock' = subLock /\ reader' = [reader EXCEPT ![w] = "subscribe stream"]
      BY <2>1, <2>2, <3>1, <3>2 DEF SubscribeInChannelAs
    <3>3. CASE subLock' = [subLock EXCEPT ![w[1]] = Free] /\ reader' = [reader EXCEPT ![w] = "new"]
      <4>1. subLock'[v[1]] = Call(v) <=> v # w /\ subLock[v[1]] = Call(v)
        BY <2>1, <2>3, <3>1, <3>3
      <4>2. reader'[v] = IF v = w THEN "new" ELSE reader[v]
        BY <2>1, <3>1, <3>3
      <4> QED
        BY <4>1, <4>2
    <3> QED
      BY <2>2, <3>2, <3>3 DEF SubscribeInChannelAs
  <2>5. ASSUME NEW u \in Subs, NEW v \in wanted, subLock'[u] = Call(v) PROVE v[1] = u
    <3>1. subLock'[u] \in {subLock[u], Free}
      BY <2>1, <2>2 DEF SubscribeInChannelAs
    <3>2. Call(v) # Free
      BY PairIs
    <3> QED
      BY <2>5, <3>1, <3>2
  <2> QED
    BY <1>8, <2>4, <2>5
<1>9. ASSUME NEW w \in wanted, SubscribeInStream(w[1], w[2]), wanted' = wanted
      PROVE  SubLocks'
  <2>1. w \in Pairs /\ w[1] \in Subs /\ w[2] \in Streams
    BY PairIs
  <2>2. SubscribeInStreamAs(w)
    BY <1>9, <2>1, SubscribeInStreamIs
  <2>3. subLock[w[1]] = Call(w)
    BY <2>2 DEF SubscribeInStreamAs
  <2>4. ASSUME NEW v \in wanted
        PROVE  subLock'[v[1]] = Call(v) <=> reader'[v] \in {"subscribe", "subscribe stream"}
    <3>1. v \in Pairs /\ v[1] \in Subs
      BY PairIs
    <3>2. subLock'[v[1]] = Call(v) <=> v # w /\ subLock[v[1]] = Call(v)
      BY <2>1, <2>2, <2>3, <3>1 DEF SubscribeInStreamAs
    <3>3. reader'[v] = IF v = w THEN "reading" ELSE reader[v]
      BY <2>1, <2>2, <3>1 DEF SubscribeInStreamAs
    <3> QED
      BY <3>2, <3>3
  <2>5. ASSUME NEW u \in Subs, NEW v \in wanted, subLock'[u] = Call(v) PROVE v[1] = u
    BY <2>1, <2>2, <2>5 DEF SubscribeInStreamAs
  <2> QED
    BY <1>9, <2>4, <2>5
<1>10. ASSUME NEW w \in wanted, Read(w), wanted' = wanted
       PROVE  SubLocks'
  BY <1>10, PairIs DEF Read
<1>11. ASSUME NEW w \in wanted, Stops(w), wanted' = wanted
       PROVE  SubLocks'
  BY <1>11, PairIs DEF Stops
<1>12. ASSUME NEW w \in wanted, Unsubscribe(w), wanted' = wanted
       PROVE  SubLocks'
  BY <1>12, PairIs DEF Unsubscribe
<1>13. ASSUME NEW w \in wanted, UnsubscribeInStream(w[1], w[2]), wanted' = wanted
       PROVE  SubLocks'
  <2>1. w \in Pairs /\ w[1] \in Subs /\ w[2] \in Streams
    BY PairIs
  <2>2. UnsubscribeInStreamAs(w)
    BY <1>13, <2>1, UnsubscribeInStreamIs
  <2> QED
    BY <1>13, <2>1, <2>2, PairIs DEF UnsubscribeInStreamAs
<1>14. ASSUME Close, wanted' = wanted
       PROVE  SubLocks'
  BY <1>14 DEF Close
<1>15. ASSUME NEW s \in Streams, CloseStream(s), wanted' = wanted
       PROVE  SubLocks'
  BY <1>15 DEF CloseStream
<1>16. ASSUME CloseReturns, wanted' = wanted
       PROVE  SubLocks'
  BY <1>16 DEF CloseReturns
<1>17. CASE UNCHANGED <<wanted, vars>>
  BY <1>17 DEF vars
<1> QED
  BY <1>1, <1>2, <1>3, <1>4, <1>5, <1>6, <1>7, <1>8, <1>9, <1>10, <1>11, <1>12, <1>13, <1>14, <1>15, <1>16, <1>17
  DEF Next, StreamStep, SubscriberStep, CloseStep

LEMMA ChannelLockStep ==
  ASSUME Types, ChannelLock, [Next]_<<wanted, vars>>
  PROVE  ChannelLock'
<1> USE AgentsDiffer DEF Types, ChannelLock, lockVars, streamVars, historyVars
<1>1. ASSUME NEW s \in Streams, Announce(s), wanted' = wanted
      PROVE  ChannelLock'
  BY <1>1 DEF Announce
<1>2. ASSUME NEW s \in Streams, Publish(s), wanted' = wanted
      PROVE  ChannelLock'
  BY <1>2 DEF Publish
<1>3. ASSUME NEW s \in Streams, FanoutStarts(s), wanted' = wanted
      PROVE  ChannelLock'
  BY <1>3 DEF FanoutStarts
<1>4. ASSUME NEW s \in Streams, NEW u \in Subs, Receive(s, u), wanted' = wanted
      PROVE  ChannelLock'
  BY <1>4 DEF Receive
<1>5. ASSUME NEW s \in Streams, FanoutEnds(s), wanted' = wanted
      PROVE  ChannelLock'
  BY <1>5 DEF FanoutEnds
<1>6. ASSUME NEW s \in Streams, ProcessReturns(s), wanted' = wanted
      PROVE  ChannelLock'
  BY <1>6 DEF ProcessReturns
<1>7. ASSUME NEW w \in wanted, Subscribe(w[1], w[2]), wanted' = wanted
      PROVE  ChannelLock'
  <2>1. w \in Pairs /\ w[1] \in Subs /\ w[2] \in Streams
    BY PairIs
  <2>2. SubscribeAs(w)
    BY <1>7, <2>1, SubscribeIs
  <2> QED
    BY <1>7, <2>1, <2>2, PairIs DEF SubscribeAs
<1>8. ASSUME NEW w \in wanted, SubscribeInChannel(w[1], w[2]), wanted' = wanted
      PROVE  ChannelLock'
  <2>1. w \in Pairs /\ w[1] \in Subs /\ w[2] \in Streams
    BY PairIs
  <2>2. SubscribeInChannelAs(w)
    BY <1>8, <2>1, SubscribeInChannelIs
  <2> QED
    BY <1>8, <2>1, <2>2, PairIs DEF SubscribeInChannelAs
<1>9. ASSUME NEW w \in wanted, SubscribeInStream(w[1], w[2]), wanted' = wanted
      PROVE  ChannelLock'
  <2>1. w \in Pairs /\ w[1] \in Subs /\ w[2] \in Streams
    BY PairIs
  <2>2. SubscribeInStreamAs(w)
    BY <1>9, <2>1, SubscribeInStreamIs
  <2> QED
    BY <1>9, <2>1, <2>2, PairIs DEF SubscribeInStreamAs
<1>10. ASSUME NEW w \in wanted, Read(w), wanted' = wanted
       PROVE  ChannelLock'
  BY <1>10, PairIs DEF Read
<1>11. ASSUME NEW w \in wanted, Stops(w), wanted' = wanted
       PROVE  ChannelLock'
  BY <1>11, PairIs DEF Stops
<1>12. ASSUME NEW w \in wanted, Unsubscribe(w), wanted' = wanted
       PROVE  ChannelLock'
  BY <1>12, PairIs DEF Unsubscribe
<1>13. ASSUME NEW w \in wanted, UnsubscribeInStream(w[1], w[2]), wanted' = wanted
       PROVE  ChannelLock'
  <2>1. w \in Pairs /\ w[1] \in Subs /\ w[2] \in Streams
    BY PairIs
  <2>2. UnsubscribeInStreamAs(w)
    BY <1>13, <2>1, UnsubscribeInStreamIs
  <2> QED
    BY <1>13, <2>1, <2>2, PairIs DEF UnsubscribeInStreamAs
<1>14. ASSUME Close, wanted' = wanted
       PROVE  ChannelLock'
  BY <1>14 DEF Close
<1>15. ASSUME NEW s \in Streams, CloseStream(s), wanted' = wanted
       PROVE  ChannelLock'
  BY <1>15 DEF CloseStream
<1>16. ASSUME CloseReturns, wanted' = wanted
       PROVE  ChannelLock'
  BY <1>16 DEF CloseReturns
<1>17. CASE UNCHANGED <<wanted, vars>>
  BY <1>17 DEF vars
<1> QED
  BY <1>1, <1>2, <1>3, <1>4, <1>5, <1>6, <1>7, <1>8, <1>9, <1>10, <1>11, <1>12, <1>13, <1>14, <1>15, <1>16, <1>17
  DEF Next, StreamStep, SubscriberStep, CloseStep

LEMMA MembershipStep ==
  ASSUME LockInv, [Next]_<<wanted, vars>>
  PROVE  Membership'
<1> USE AgentsDiffer DEF LockInv, Types, StreamLocks, Membership, lockVars, streamVars, historyVars
<1>1. ASSUME NEW s \in Streams, Announce(s), wanted' = wanted
      PROVE  Membership'
  BY <1>1 DEF Announce
<1>2. ASSUME NEW s \in Streams, Publish(s), wanted' = wanted
      PROVE  Membership'
  BY <1>2 DEF Publish
<1>3. ASSUME NEW s \in Streams, FanoutStarts(s), wanted' = wanted
      PROVE  Membership'
  BY <1>3 DEF FanoutStarts
<1>4. ASSUME NEW s \in Streams, NEW u \in Subs, Receive(s, u), wanted' = wanted
      PROVE  Membership'
  BY <1>4 DEF Receive
<1>5. ASSUME NEW s \in Streams, FanoutEnds(s), wanted' = wanted
      PROVE  Membership'
  BY <1>5 DEF FanoutEnds
<1>6. ASSUME NEW s \in Streams, ProcessReturns(s), wanted' = wanted
      PROVE  Membership'
  BY <1>6 DEF ProcessReturns
<1>7. ASSUME NEW w \in wanted, Subscribe(w[1], w[2]), wanted' = wanted
      PROVE  Membership'
  <2>1. w \in Pairs /\ w[1] \in Subs /\ w[2] \in Streams
    BY PairIs
  <2>2. SubscribeAs(w)
    BY <1>7, <2>1, SubscribeIs
  <2> QED
    BY <1>7, <2>1, <2>2, PairIs DEF SubscribeAs
<1>8. ASSUME NEW w \in wanted, SubscribeInChannel(w[1], w[2]), wanted' = wanted
      PROVE  Membership'
  <2>1. w \in Pairs /\ w[1] \in Subs /\ w[2] \in Streams
    BY PairIs
  <2>2. SubscribeInChannelAs(w)
    BY <1>8, <2>1, SubscribeInChannelIs
  <2> QED
    BY <1>8, <2>1, <2>2, PairIs DEF SubscribeInChannelAs
<1>9. ASSUME NEW w \in wanted, SubscribeInStream(w[1], w[2]), wanted' = wanted
      PROVE  Membership'
  <2>1. w \in Pairs /\ w[1] \in Subs /\ w[2] \in Streams
    BY PairIs
  <2>2. SubscribeInStreamAs(w)
    BY <1>9, <2>1, SubscribeInStreamIs
  <2>3. process[w[2]] # "fanout"
    BY <2>1, <2>2 DEF SubscribeInStreamAs
  <2>4. \A s \in Streams : rest'[s] \subseteq members'[s] /\ (process'[s] # "fanout" => rest'[s] = {})
    BY <2>1, <2>2, <2>3 DEF SubscribeInStreamAs
  <2>5. ASSUME NEW s \in Streams, NEW u \in members'[s]
        PROVE  /\ <<u, s>> \in entries'
               /\ reader'[<<u, s>>] \in {"reading", "unsubscribe", "unsubscribe stream"}
    <3>1. u \in Subs /\ <<u, s>> \in Pairs
      BY <1>9, TypesStep DEF Pairs
    <3>2. CASE <<u, s>> = w
      BY <2>1, <2>2, <2>5, <3>1, <3>2 DEF SubscribeInStreamAs
    <3>3. CASE <<u, s>> # w
      <4>1. u \in members[s]
        BY <2>1, <2>2, <2>5, <3>1, <3>3, PairIs DEF SubscribeInStreamAs
      <4> QED
        BY <2>1, <2>2, <3>1, <3>3, <4>1 DEF SubscribeInStreamAs
    <3> QED
      BY <3>2, <3>3
  <2>6. ASSUME NEW v \in wanted
        PROVE  /\ reader'[v] = "reading" => v[1] \in members'[v[2]]
               /\ reader'[v] # "new" => v \in entries'
    <3>1. v \in Pairs /\ v[1] \in Subs /\ v[2] \in Streams
      BY PairIs
    <3>2. CASE v = w
      BY <2>1, <2>2, <3>1, <3>2 DEF SubscribeInStreamAs
    <3>3. CASE v # w
      <4>1. reader'[v] = reader[v] /\ (v[1] \in members[v[2]] => v[1] \in members'[v[2]])
        <5>1. v[1] # w[1] \/ v[2] # w[2]
          BY <2>1, <3>1, <3>3, PairsDiffer
        <5> QED
          BY <2>1, <2>2, <3>1, <3>3, <5>1 DEF SubscribeInStreamAs
      <4> QED
        BY <2>2, <4>1 DEF SubscribeInStreamAs
    <3> QED
      BY <3>2, <3>3
  <2> QED
    BY <1>9, <2>4, <2>5, <2>6
<1>10. ASSUME NEW w \in wanted, Read(w), wanted' = wanted
       PROVE  Membership'
  BY <1>10, PairIs DEF Read
<1>11. ASSUME NEW w \in wanted, Stops(w), wanted' = wanted
       PROVE  Membership'
  BY <1>11, PairIs DEF Stops
<1>12. ASSUME NEW w \in wanted, Unsubscribe(w), wanted' = wanted
       PROVE  Membership'
  BY <1>12, PairIs DEF Unsubscribe
<1>13. ASSUME NEW w \in wanted, UnsubscribeInStream(w[1], w[2]), wanted' = wanted
       PROVE  Membership'
  <2>1. w \in Pairs /\ w[1] \in Subs /\ w[2] \in Streams
    BY PairIs
  <2>2. UnsubscribeInStreamAs(w)
    BY <1>13, <2>1, UnsubscribeInStreamIs
  <2>3. process[w[2]] # "fanout"
    BY <2>1, <2>2 DEF UnsubscribeInStreamAs
  <2>4. \A s \in Streams : rest'[s] \subseteq members'[s] /\ (process'[s] # "fanout" => rest'[s] = {})
    BY <2>1, <2>2, <2>3 DEF UnsubscribeInStreamAs
  <2>5. ASSUME NEW s \in Streams, NEW u \in members'[s]
        PROVE  /\ <<u, s>> \in entries'
               /\ reader'[<<u, s>>] \in {"reading", "unsubscribe", "unsubscribe stream"}
    <3>1. u \in Subs /\ <<u, s>> \in Pairs
      BY <1>13, TypesStep DEF Pairs
    <3>2. CASE <<u, s>> = w
      BY <2>1, <2>2, <2>5, <3>1, <3>2 DEF UnsubscribeInStreamAs
    <3>3. CASE <<u, s>> # w
      <4>1. u \in members[s]
        BY <2>1, <2>2, <2>5, <3>1, <3>3, PairIs DEF UnsubscribeInStreamAs
      <4> QED
        BY <2>1, <2>2, <3>1, <3>3, <4>1 DEF UnsubscribeInStreamAs
    <3> QED
      BY <3>2, <3>3
  <2>6. ASSUME NEW v \in wanted
        PROVE  /\ reader'[v] = "reading" => v[1] \in members'[v[2]]
               /\ reader'[v] # "new" => v \in entries'
    <3>1. v \in Pairs /\ v[1] \in Subs /\ v[2] \in Streams
      BY PairIs
    <3>2. CASE v = w
      BY <2>1, <2>2, <3>1, <3>2 DEF UnsubscribeInStreamAs
    <3>3. CASE v # w
      <4>1. reader'[v] = reader[v] /\ (v[1] \in members[v[2]] => v[1] \in members'[v[2]])
        <5>1. v[1] # w[1] \/ v[2] # w[2]
          BY <2>1, <3>1, <3>3, PairsDiffer
        <5> QED
          BY <2>1, <2>2, <3>1, <3>3, <5>1 DEF UnsubscribeInStreamAs
      <4> QED
        BY <2>2, <4>1 DEF UnsubscribeInStreamAs
    <3> QED
      BY <3>2, <3>3
  <2> QED
    BY <1>13, <2>4, <2>5, <2>6
<1>14. ASSUME Close, wanted' = wanted
       PROVE  Membership'
  BY <1>14 DEF Close
<1>15. ASSUME NEW s \in Streams, CloseStream(s), wanted' = wanted
       PROVE  Membership'
  BY <1>15 DEF CloseStream
<1>16. ASSUME CloseReturns, wanted' = wanted
       PROVE  Membership'
  BY <1>16 DEF CloseReturns
<1>17. CASE UNCHANGED <<wanted, vars>>
  BY <1>17 DEF vars
<1> QED
  BY <1>1, <1>2, <1>3, <1>4, <1>5, <1>6, <1>7, <1>8, <1>9, <1>10, <1>11, <1>12, <1>13, <1>14, <1>15, <1>16, <1>17
  DEF Next, StreamStep, SubscriberStep, CloseStep

LEMMA LockInit == Init => LockInv
<1> SUFFICES ASSUME Init PROVE LockInv
  OBVIOUS
<1> USE DEF Init
<1>1. wanted \subseteq Pairs
  BY ConstantsOK DEF ConstantsOK, Pairs
<1>2. Types
  BY <1>1 DEF Types
<1>3. StreamLocks
  BY DEF StreamLocks
<1>4. SubLocks /\ ChannelLock
  BY <1>1, AgentsDiffer, PairIs DEF SubLocks, ChannelLock
<1>5. Membership
  BY <1>1 DEF Membership
<1> QED
  BY <1>2, <1>3, <1>4, <1>5 DEF LockInv

(* Who holds the mutexes, whatever the constants are. *)
THEOREM LockInvariant == Spec => []LockInv
<1>1. LockInv /\ [Next]_<<wanted, vars>> => LockInv'
  BY TypesStep, StreamLocksStep, SubLocksStep, ChannelLockStep, MembershipStep DEF LockInv
<1> QED
  BY <1>1, LockInit, PTL DEF Spec

(* From every agent of a deadlock the edges lead to a fanout in it. *)
LEMMA LockedStreamIsFannedOut ==
  ASSUME LockInv, NEW s \in Streams, streamLock[s] \in Agents
  PROVE  process[s] = "fanout" /\ streamLock[s] = Process(s)
<1>1. streamLock[s] # Free
  BY AgentsDiffer, PairIs DEF Agents, LockInv, Types
<1> QED
  BY <1>1 DEF LockInv, StreamLocks

LEMMA ProcessWaitsInFanout ==
  ASSUME LockInv, NEW s \in Streams, NEW b \in Agents, WaitsFor(Process(s), b)
  PROVE  process[s] = "fanout" /\ \E u \in rest[s] : subLock[u] = b
<1>1. \A w \in wanted : Process(s) # Call(w)
  BY AgentsDiffer DEF LockInv, Types
<1>2. PICK r \in Streams :
        /\ Process(s) = Process(r)
        /\ \/ process[r] = "locking" /\ streamLock[r] = b
           \/ process[r] = "fanout" /\ \E u \in rest[r] : subLock[u] = b
  BY <1>1, AgentsDiffer DEF WaitsFor
<1>3. r = s
  BY <1>2, AgentsDiffer
<1>4. CASE process[s] = "locking" /\ streamLock[s] = b
  BY <1>4, LockedStreamIsFannedOut
<1> QED
  BY <1>2, <1>3, <1>4

LEMMA CallWaits ==
  ASSUME LockInv, NEW w \in wanted, NEW b, WaitsFor(Call(w), b)
  PROVE  \/ reader[w] \in {"subscribe", "unsubscribe"} /\ channelLock = b
         \/ reader[w] \in {"subscribe stream", "unsubscribe stream"} /\ streamLock[w[2]] = b
<1>1. \A s \in Streams : Call(w) # Process(s)
  BY AgentsDiffer DEF LockInv, Types
<1>2. Call(w) # Closer
  BY AgentsDiffer DEF LockInv, Types
<1>3. PICK v \in wanted :
        /\ Call(w) = Call(v)
        /\ \/ reader[v] \in {"subscribe", "unsubscribe"} /\ channelLock = b
           \/ reader[v] \in {"subscribe stream", "unsubscribe stream"} /\ streamLock[v[2]] = b
  BY <1>1, <1>2 DEF WaitsFor
<1>4. v = w
  BY <1>3, AgentsDiffer DEF LockInv, Types
<1> QED
  BY <1>3, <1>4

LEMMA CloserWaits ==
  ASSUME LockInv, NEW b, WaitsFor(Closer, b)
  PROVE  \E s \in Streams : b = Process(s)
<1>1. \A w \in wanted : Closer # Call(w)
  BY AgentsDiffer DEF LockInv, Types
<1>2. \A s \in Streams : Closer # Process(s)
  BY AgentsDiffer
<1> QED
  BY <1>1, <1>2 DEF WaitsFor, LockInv, Types

LEMMA DeadlockHasFanout ==
  ASSUME LockInv, NEW D \in SUBSET Agents, Deadlocked(D)
  PROVE  \E s \in Streams : Process(s) \in D /\ process[s] = "fanout"
<1> DEFINE Found == \E s \in Streams : Process(s) \in D /\ process[s] = "fanout"
<1> SUFFICES Found
  OBVIOUS
<1>1. ASSUME NEW s \in Streams, Process(s) \in D PROVE Found
  <2>1. PICK b \in D : WaitsFor(Process(s), b)
    BY <1>1 DEF Deadlocked
  <2> QED
    BY <1>1, <2>1, ProcessWaitsInFanout
<1>2. CASE Closer \in D
  <2>1. PICK b \in D : WaitsFor(Closer, b)
    BY <1>2 DEF Deadlocked
  <2>2. PICK s \in Streams : b = Process(s)
    BY <2>1, CloserWaits
  <2> QED
    BY <1>1, <2>2
<1>3. ASSUME NEW w \in wanted, Call(w) \in D,
             reader[w] \in {"subscribe stream", "unsubscribe stream"}
      PROVE  Found
  <2>1. PICK b \in D : WaitsFor(Call(w), b)
    BY <1>3 DEF Deadlocked
  <2>2. streamLock[w[2]] = b /\ w[2] \in Streams
    BY <1>3, <2>1, CallWaits, PairIs DEF LockInv, Types
  <2> QED
    BY <2>1, <2>2, LockedStreamIsFannedOut
<1>4. ASSUME NEW w \in wanted, Call(w) \in D PROVE Found
  <2>1. PICK b \in D : WaitsFor(Call(w), b)
    BY <1>4 DEF Deadlocked
  <2>2. CASE reader[w] \in {"subscribe stream", "unsubscribe stream"}
    BY <1>3, <1>4, <2>2
  <2>3. CASE channelLock = b
    <3>1. b \in Agents /\ b \in {Free, Closer} \cup {Call(v) : v \in wanted}
      BY <2>1, <2>3 DEF LockInv, Types
    <3>2. b # Free
      BY <3>1, AgentsDiffer DEF Agents, LockInv, Types
    <3>3. CASE b = Closer
      BY <1>2, <2>1, <3>3
    <3>4. ASSUME NEW v \in wanted, b = Call(v) PROVE Found
      <4>1. reader[v] \in {"subscribe stream", "unsubscribe stream"}
        BY <2>3, <3>4 DEF LockInv, ChannelLock
      <4> QED
        BY <1>3, <2>1, <3>4, <4>1
    <3> QED
      BY <3>1, <3>2, <3>3, <3>4
  <2> QED
    BY <2>1, <2>2, <2>3, CallWaits
<1> QED
  BY <1>1, <1>2, <1>4 DEF Deadlocked, Agents

(* A fanout in a deadlock waits for a call that subscribes to another      *)
(* stream.                                                                 *)
LEMMA FanoutWaitsForSubscribe ==
  ASSUME LockInv, NEW D \in SUBSET Agents, Deadlocked(D),
         NEW s \in Streams, Process(s) \in D
  PROVE  \E w \in wanted :
           /\ Call(w) \in D /\ w[1] \in rest[s] /\ w[2] # s
           /\ reader[w] \in {"subscribe", "subscribe stream"}
<1>1. PICK b \in D : WaitsFor(Process(s), b)
  BY DEF Deadlocked
<1>2. PICK u \in rest[s] : subLock[u] = b
  BY <1>1, ProcessWaitsInFanout
<1>3. u \in Subs /\ u \in members[s]
  BY <1>2 DEF LockInv, Types, Membership
<1>4. subLock[u] # Free
  BY <1>1, <1>2, AgentsDiffer DEF Agents, LockInv, Types
<1>5. PICK w \in wanted : subLock[u] = Call(w)
  BY <1>3, <1>4 DEF LockInv, Types
<1>6. w[1] = u /\ reader[w] \in {"subscribe", "subscribe stream"}
  BY <1>3, <1>5 DEF LockInv, SubLocks
<1>7. w[2] # s
  <2> SUFFICES ASSUME w[2] = s PROVE FALSE
    OBVIOUS
  <2>1. w = <<u, s>>
    BY <1>6, PairIs DEF LockInv, Types
  <2> QED
    BY <1>3, <1>6, <2>1 DEF LockInv, Membership
<1> QED
  BY <1>1, <1>2, <1>5, <1>6, <1>7

(* Whatever deadlocks, a Subscriber that is still to be served by a fanout *)
(* is subscribing to another stream; so programs in which each Subscriber  *)
(* uses one stream cannot deadlock on these mutexes.                       *)
THEOREM DeadlockFree == Spec => []DeadlockNeedsSecondSubscribe
<1>1. LockInv => DeadlockNeedsSecondSubscribe
  <2> SUFFICES ASSUME LockInv, NEW D \in SUBSET Agents, Deadlocked(D)
               PROVE  \E w \in wanted : \E s \in Streams \ {w[2]} :
                        /\ Call(w) \in D /\ reader[w] = "subscribe"
                        /\ Process(s) \in D /\ w[1] \in rest[s]
    BY DEF DeadlockNeedsSecondSubscribe
  <2>1. PICK s \in Streams : Process(s) \in D /\ process[s] = "fanout"
    BY DeadlockHasFanout
  <2>2. PICK w \in wanted :
          /\ Call(w) \in D /\ w[1] \in rest[s] /\ w[2] # s
          /\ reader[w] \in {"subscribe", "subscribe stream"}
    BY <2>1, FanoutWaitsForSubscribe
  <2>3. CASE reader[w] = "subscribe"
    BY <2>1, <2>2, <2>3
  <2>4. CASE reader[w] = "subscribe stream"
    <3>1. PICK b \in D : WaitsFor(Call(w), b)
      BY <2>2 DEF Deadlocked
    <3>2. streamLock[w[2]] = b /\ w[2] \in Streams
      BY <2>4, <3>1, CallWaits, PairIs DEF LockInv, Types
    <3>3. Process(w[2]) \in D
      BY <3>1, <3>2, LockedStreamIsFannedOut
    <3>4. PICK v \in wanted :
            /\ Call(v) \in D /\ v[1] \in rest[w[2]] /\ v[2] # w[2]
            /\ reader[v] \in {"subscribe", "subscribe stream"}
      BY <3>2, <3>3, FanoutWaitsForSubscribe
    <3>5. reader[v] # "subscribe stream"
      <4> SUFFICES ASSUME reader[v] = "subscribe stream" PROVE FALSE
        OBVIOUS
      <4>1. channelLock = Call(v) /\ channelLock = Call(w)
        BY <2>4 DEF LockInv, ChannelLock
      <4>2. v = w
        BY <4>1, AgentsDiffer DEF LockInv, Types
      <4> QED
        BY <3>4, <4>2
    <3> QED
      BY <3>2, <3>3, <3>4, <3>5
  <2> QED
    BY <2>2, <2>3, <2>4
<1> QED
  BY <1>1, LockInvariant, PTL

-----------------------------------------------------------------------------
MessageTypes ==
  /\ accepted \in [Streams -> Nat] /\ since \in [Pairs -> Nat]
  /\ queue \in [Pairs -> Seq(Nat)] /\ received \in [Pairs -> Seq(Nat)]
  /\ dropped \in [Pairs -> SUBSET Nat]

(* The message at hand may still come to a reader.                         *)
Coming(w) == process[w[2]] = "locking" \/ w[1] \in rest[w[2]]
Counts ==
  \A s \in Streams :
    accepted[s] <= MaxMessages[s] /\ (process[s] \in {"locking", "fanout"} => accepted[s] > 0)
Room == \A w \in wanted : Len(queue[w]) <= QueueSize

(* What was read comes before what waits, and that before what may come.   *)
Ascending(q) == \A i, j \in DOMAIN q : i < j => q[i] < q[j]
Below(w, q) ==
  \A i \in DOMAIN q : 0 < q[i] /\ q[i] <= accepted[w[2]] /\ (Coming(w) => q[i] < accepted[w[2]])
Ordered ==
  \A w \in wanted :
    /\ Ascending(received[w]) /\ Ascending(queue[w])
    /\ \A i \in DOMAIN received[w], j \in DOMAIN queue[w] : received[w][i] < queue[w][j]
    /\ Below(w, received[w]) /\ Below(w, queue[w])

(* Nothing that was handed out before the subscription reaches its reader. *)
NotYet(w) == reader[w] \in {"new", "subscribe", "subscribe stream"}
Above(w, q) == \A i \in DOMAIN q : since[w] < q[i]
AboveSince ==
  \A w \in wanted :
    /\ NotYet(w) => received[w] = <<>> /\ queue[w] = <<>>
    /\ Above(w, received[w]) /\ Above(w, queue[w])
    /\ Coming(w) => since[w] < accepted[w[2]]
SinceBelow == \A w \in wanted : since[w] <= accepted[w[2]]

(* No message since Subscribe is missing, but the one that may still come. *)
Accounted(w, m) ==
  m \in Content(received[w]) \cup Content(queue[w]) \cup dropped[w]
NoneMissing ==
  \A w \in wanted : Subscribed(w) =>
    \A m \in since[w] + 1 .. accepted[w[2]] :
       Accounted(w, m) \/ (m = accepted[w[2]] /\ Coming(w))

MessageInv == MessageTypes /\ Counts /\ Room /\ Ordered /\ AboveSince /\ SinceBelow /\ NoneMissing

(* Queues grow at their end and lose their head. *)
LEMMA Grows ==
  ASSUME NEW q \in Seq(Nat), NEW m \in Nat
  PROVE  /\ Append(q, m) \in Seq(Nat) /\ Len(Append(q, m)) = Len(q) + 1
         /\ DOMAIN Append(q, m) = DOMAIN q \cup {Len(q) + 1}
         /\ Append(q, m)[Len(q) + 1] = m /\ \A i \in DOMAIN q : Append(q, m)[i] = q[i] /\ i < Len(q) + 1
         /\ Content(Append(q, m)) = Content(q) \cup {m}
<1>1. /\ Append(q, m) \in Seq(Nat) /\ Len(Append(q, m)) = Len(q) + 1
      /\ DOMAIN Append(q, m) = DOMAIN q \cup {Len(q) + 1}
      /\ Append(q, m)[Len(q) + 1] = m /\ \A i \in DOMAIN q : Append(q, m)[i] = q[i] /\ i < Len(q) + 1
  OBVIOUS
<1> QED
  BY <1>1 DEF Content

LEMMA Shrinks ==
  ASSUME NEW q \in Seq(Nat), q # <<>>
  PROVE  /\ Tail(q) \in Seq(Nat) /\ Len(Tail(q)) = Len(q) - 1 /\ Head(q) = q[1] /\ 1 \in DOMAIN q
         /\ \A i \in DOMAIN Tail(q) : i + 1 \in DOMAIN q /\ Tail(q)[i] = q[i + 1] /\ i \in Nat \ {0}
         /\ Content(q) = Content(Tail(q)) \cup {Head(q)}
<1>1. /\ Tail(q) \in Seq(Nat) /\ Len(Tail(q)) = Len(q) - 1 /\ Head(q) = q[1] /\ 1 \in DOMAIN q
      /\ \A i \in DOMAIN Tail(q) : i + 1 \in DOMAIN q /\ Tail(q)[i] = q[i + 1] /\ i \in Nat \ {0}
  OBVIOUS
<1>2. ASSUME NEW i \in DOMAIN q, i # 1 PROVE i - 1 \in DOMAIN Tail(q) /\ Tail(q)[i - 1] = q[i]
  BY <1>2
<1>3. Content(q) \subseteq Content(Tail(q)) \cup {Head(q)}
  <2> SUFFICES ASSUME NEW i \in DOMAIN q PROVE q[i] \in Content(Tail(q)) \cup {Head(q)}
    BY DEF Content
  <2>1. CASE i = 1
    BY <1>1, <2>1
  <2>2. CASE i # 1
    BY <1>2, <2>2 DEF Content
  <2> QED
    BY <2>1, <2>2
<1>4. Content(Tail(q)) \cup {Head(q)} \subseteq Content(q)
  BY <1>1 DEF Content
<1> QED
  BY <1>1, <1>3, <1>4

(* What the steps do to the messages.  Only three touch them: Publish,     *)
(* Receive and Read.  The others may end a wait for a message, or begin a  *)
(* subscription.                                                           *)
Begins(w) ==
  \/ process[w[2]] = "locking" /\ Coming(w)' /\ since'[w] = accepted[w[2]] - 1
  \/ ~Coming(w)' /\ since'[w] = accepted[w[2]]
Calm ==
  /\ UNCHANGED <<accepted, queue, received, dropped>>
  /\ \A s \in Streams : process'[s] \in {"locking", "fanout"} => process[s] \in {"locking", "fanout"}
  /\ \A w \in wanted : Coming(w)' => Coming(w)
  /\ \A w \in wanted : Subscribed(w) /\ Coming(w) => Coming(w)'
  /\ \A w \in wanted :
       \/ /\ since'[w] = since[w]
          /\ Subscribed(w)' => Subscribed(w)
          /\ NotYet(w)' => NotYet(w)
       \/ NotYet(w) /\ ~NotYet(w)' /\ Begins(w)
  /\ since' \in [Pairs -> Nat]
  /\ wanted' = wanted

Disturbs ==
  \/ \E s \in Streams : Publish(s) \/ \E u \in Subs : Receive(s, u)
  \/ \E w \in wanted : Read(w)

LEMMA HandedOutIsNat ==
  ASSUME MessageTypes, Counts, NEW s \in Streams
  PROVE  HandedOut(s) \in Nat
<1>1. accepted[s] \in Nat /\ (process[s] = "locking" => accepted[s] > 0)
  BY DEF MessageTypes, Counts
<1> QED
  BY <1>1 DEF HandedOut

LEMMA OthersAreCalm ==
  ASSUME LockInv, MessageTypes, Counts, [Next]_<<wanted, vars>>
  PROVE  Calm \/ Disturbs
<1> USE DEF Calm, LockInv, Types, Membership, MessageTypes, Coming, Subscribed, NotYet, lockVars, streamVars, historyVars
<1>1. ASSUME NEW s \in Streams, Announce(s), wanted' = wanted
      PROVE  Calm \/ Disturbs
  <2>1. \A w \in wanted : w \in Pairs /\ w[1] \in Subs /\ w[2] \in Streams
    BY PairIs
  <2> QED
    BY <1>1, <2>1 DEF Announce, StreamLocks
<1>2. ASSUME NEW s \in Streams, Publish(s), wanted' = wanted
      PROVE  Calm \/ Disturbs
  BY <1>2 DEF Disturbs
<1>3. ASSUME NEW s \in Streams, FanoutStarts(s), wanted' = wanted
      PROVE  Calm \/ Disturbs
  <2>1. \A w \in wanted : w \in Pairs /\ w[1] \in Subs /\ w[2] \in Streams
    BY PairIs
  <2> QED
    BY <1>3, <2>1 DEF FanoutStarts, StreamLocks
<1>4. ASSUME NEW s \in Streams, NEW u \in Subs, Receive(s, u), wanted' = wanted
      PROVE  Calm \/ Disturbs
  BY <1>4 DEF Disturbs
<1>5. ASSUME NEW s \in Streams, FanoutEnds(s), wanted' = wanted
      PROVE  Calm \/ Disturbs
  <2>1. \A w \in wanted : w \in Pairs /\ w[1] \in Subs /\ w[2] \in Streams
    BY PairIs
  <2> QED
    BY <1>5, <2>1 DEF FanoutEnds, StreamLocks
<1>6. ASSUME NEW s \in Streams, ProcessReturns(s), wanted' = wanted
      PROVE  Calm \/ Disturbs
  <2>1. \A w \in wanted : w \in Pairs /\ w[1] \in Subs /\ w[2] \in Streams
    BY PairIs
  <2> QED
    BY <1>6, <2>1 DEF ProcessReturns, StreamLocks
<1>7. ASSUME NEW w \in wanted, Subscribe(w[1], w[2]), wanted' = wanted
      PROVE  Calm \/ Disturbs
  <2>1. w \in Pairs /\ w[1] \in Subs /\ w[2] \in Streams
    BY PairIs
  <2>2. SubscribeAs(w)
    BY <1>7, <2>1, SubscribeIs
  <2> QED
    BY <1>7, <2>1, <2>2, PairIs DEF SubscribeAs
<1>8. ASSUME NEW w \in wanted, SubscribeInChannel(w[1], w[2]), wanted' = wanted
      PROVE  Calm \/ Disturbs
  <2>1. w \in Pairs /\ w[1] \in Subs /\ w[2] \in Streams
    BY PairIs
  <2>2. SubscribeInChannelAs(w)
    BY <1>8, <2>1, SubscribeInChannelIs
  <2> QED
    BY <1>8, <2>1, <2>2, PairIs DEF SubscribeInChannelAs
<1>9. ASSUME NEW w \in wanted, SubscribeInStream(w[1], w[2]), wanted' = wanted
      PROVE  Calm \/ Disturbs
  <2>1. w \in Pairs /\ w[1] \in Subs /\ w[2] \in Streams
    BY PairIs
  <2>2. SubscribeInStreamAs(w)
    BY <1>9, <2>1, SubscribeInStreamIs
  <2>3. process[w[2]] # "fanout" /\ rest[w[2]] = {} /\ streamLock[w[2]] = Free
    BY <2>1, <2>2, AgentsDiffer DEF SubscribeInStreamAs, StreamLocks
  <2>4. /\ since' = [since EXCEPT ![w] = HandedOut(w[2])] /\ reader[w] = "subscribe stream"
        /\ reader' = [reader EXCEPT ![w] = "reading"]
        /\ UNCHANGED <<accepted, queue, received, dropped, process, rest>>
    BY <2>2 DEF SubscribeInStreamAs
  <2>5. HandedOut(w[2]) \in Nat
    BY <2>1, HandedOutIsNat
  <2>6. since' \in [Pairs -> Nat] /\ since'[w] = HandedOut(w[2])
    BY <2>1, <2>4, <2>5
  <2>7. NotYet(w) /\ ~NotYet(w)'
    BY <2>1, <2>4
  <2>8. Begins(w)
    BY <2>1, <2>3, <2>4, <2>6 DEF Begins, HandedOut
  <2>9. ASSUME NEW v \in wanted, v # w
        PROVE  since'[v] = since[v] /\ (Subscribed(v)' => Subscribed(v)) /\ (NotYet(v)' => NotYet(v))
    BY <2>1, <2>4, <2>9
  <2> QED
    BY <1>9, <2>4, <2>6, <2>7, <2>8, <2>9
<1>10. ASSUME NEW w \in wanted, Read(w), wanted' = wanted
       PROVE  Calm \/ Disturbs
  BY <1>10 DEF Disturbs
<1>11. ASSUME NEW w \in wanted, Stops(w), wanted' = wanted
       PROVE  Calm \/ Disturbs
  BY <1>11, PairIs DEF Stops
<1>12. ASSUME NEW w \in wanted, Unsubscribe(w), wanted' = wanted
       PROVE  Calm \/ Disturbs
  BY <1>12, PairIs DEF Unsubscribe
<1>13. ASSUME NEW w \in wanted, UnsubscribeInStream(w[1], w[2]), wanted' = wanted
       PROVE  Calm \/ Disturbs
  <2>1. w \in Pairs /\ w[1] \in Subs /\ w[2] \in Streams
    BY PairIs
  <2>2. UnsubscribeInStreamAs(w)
    BY <1>13, <2>1, UnsubscribeInStreamIs
  <2> QED
    BY <1>13, <2>1, <2>2, PairIs DEF UnsubscribeInStreamAs
<1>14. ASSUME Close, wanted' = wanted
       PROVE  Calm \/ Disturbs
  BY <1>14 DEF Close
<1>15. ASSUME NEW s \in Streams, CloseStream(s), wanted' = wanted
       PROVE  Calm \/ Disturbs
  BY <1>15 DEF CloseStream
<1>16. ASSUME CloseReturns, wanted' = wanted
       PROVE  Calm \/ Disturbs
  BY <1>16 DEF CloseReturns
<1>17. CASE UNCHANGED <<wanted, vars>>
  BY <1>17 DEF vars
<1> QED
  BY <1>1, <1>2, <1>3, <1>4, <1>5, <1>6, <1>7, <1>8, <1>9, <1>10, <1>11, <1>12, <1>13, <1>14, <1>15, <1>16, <1>17
  DEF Next, StreamStep, SubscriberStep, CloseStep

LEMMA CalmStep ==
  ASSUME LockInv, MessageInv, Calm
  PROVE  MessageInv'
<1> USE DEF MessageInv
<1>0. \A w \in wanted : w \in Pairs /\ w[1] \in Subs /\ w[2] \in Streams
  BY PairIs DEF LockInv, Types
<1>1. MessageTypes'
  BY DEF MessageTypes, Calm
<1>2. Counts' /\ Room'
  BY DEF Counts, Room, Calm
<1>3. Ordered'
  BY DEF Ordered, Ascending, Below, Calm
<1>4. NoneMissing'
  <2> SUFFICES ASSUME NEW w \in wanted, Subscribed(w)',
                      NEW m \in since'[w] + 1 .. accepted[w[2]]
               PROVE  Accounted(w, m)' \/ (m = accepted[w[2]] /\ Coming(w)')
    BY DEF NoneMissing, Calm
  <2>0. accepted[w[2]] \in Nat
    BY <1>0 DEF MessageTypes
  <2>1. CASE Subscribed(w) /\ since'[w] = since[w]
    <3>1. Accounted(w, m) \/ (m = accepted[w[2]] /\ Coming(w))
      BY <2>1 DEF NoneMissing
    <3> QED
      BY <2>1, <3>1 DEF Accounted, Content, Calm
  <2>2. CASE Begins(w)
    BY <2>0, <2>2 DEF Begins
  <2> QED
    BY <2>1, <2>2 DEF Calm
<1>5. AboveSince'
  <2> SUFFICES ASSUME NEW w \in wanted
               PROVE  /\ NotYet(w)' => received[w] = <<>> /\ queue[w] = <<>>
                      /\ \A i \in DOMAIN received[w] : since'[w] < received[w][i]
                      /\ \A i \in DOMAIN queue[w] : since'[w] < queue[w][i]
                      /\ Coming(w)' => since'[w] < accepted[w[2]]
    BY DEF AboveSince, Above, Calm
  <2>1. CASE since'[w] = since[w] /\ (NotYet(w)' => NotYet(w))
    BY <2>1 DEF AboveSince, Above, Calm
  <2>2. CASE NotYet(w) /\ ~NotYet(w)' /\ Begins(w)
    <3>1. received[w] = <<>> /\ queue[w] = <<>>
      BY <2>2 DEF AboveSince
    <3>2. accepted[w[2]] \in Nat
      BY <1>0 DEF MessageTypes
    <3> QED
      BY <2>2, <3>1, <3>2 DEF Begins
  <2> QED
    BY <2>1, <2>2 DEF Calm
<1>6. SinceBelow'
  <2> SUFFICES ASSUME NEW w \in wanted PROVE since'[w] <= accepted[w[2]]
    BY DEF SinceBelow, Calm
  <2>1. accepted[w[2]] \in Nat
    BY <1>0 DEF MessageTypes
  <2>2. since'[w] = since[w] \/ Begins(w)
    BY DEF Calm
  <2> QED
    BY <2>1, <2>2 DEF SinceBelow, Begins
<1> QED
  BY <1>1, <1>2, <1>3, <1>4, <1>5, <1>6

LEMMA PublishStep ==
  ASSUME LockInv, MessageInv, NEW s \in Streams, Publish(s), wanted' = wanted
  PROVE  MessageInv'
<1> USE DEF MessageInv
<1>0. \A w \in wanted : w \in Pairs /\ w[1] \in Subs /\ w[2] \in Streams
  BY PairIs DEF LockInv, Types
<1>1. /\ process[s] = "select" /\ accepted[s] < MaxMessages[s]
      /\ accepted' = [accepted EXCEPT ![s] = @ + 1]
      /\ process' = [process EXCEPT ![s] = "locking"]
      /\ UNCHANGED <<rest, queue, received, dropped, since, reader, wanted>>
  BY DEF Publish, historyVars
<1>2. /\ \A r \in Streams : accepted'[r] = (IF r = s THEN accepted[r] + 1 ELSE accepted[r])
      /\ \A r \in Streams : accepted[r] \in Nat
      /\ \A r \in Streams : MaxMessages[r] \in Nat
  BY <1>1, ConstantsOK DEF MessageTypes, ConstantsOK
<1>3. MessageTypes'
  BY <1>1 DEF MessageTypes
<1>4. Counts'
  <2> SUFFICES ASSUME NEW r \in Streams
               PROVE  /\ accepted'[r] <= MaxMessages[r]
                      /\ process'[r] \in {"locking", "fanout"} => accepted'[r] > 0
    BY DEF Counts
  <2>1. CASE r = s
    BY <1>1, <1>2, <2>1
  <2>2. CASE r # s
    <3>1. process'[r] = process[r] /\ accepted'[r] = accepted[r]
      BY <1>1, <1>2, <2>2
    <3> QED
      BY <3>1 DEF Counts
  <2> QED
    BY <2>1, <2>2
<1>5. Room'
  BY <1>1 DEF Room
<1>6. \A w \in wanted : w[2] = s => ~Coming(w)
  BY <1>0, <1>1 DEF Coming, LockInv, Membership
<1>7. \A w \in wanted : w[2] # s => (Coming(w)' <=> Coming(w))
  BY <1>0, <1>1 DEF Coming, LockInv, Types
<1>8. \A w \in wanted : w[2] = s => Coming(w)'
  BY <1>0, <1>1 DEF Coming, LockInv, Types
<1>9. Ordered'
  <2> SUFFICES ASSUME NEW w \in wanted
               PROVE  Below(w, received[w])' /\ Below(w, queue[w])'
    BY <1>1 DEF Ordered, Ascending
  <2>1. \A i \in DOMAIN received[w] : received[w][i] \in Nat
    BY <1>0 DEF MessageTypes
  <2>2. \A i \in DOMAIN queue[w] : queue[w][i] \in Nat
    BY <1>0 DEF MessageTypes
  <2>3. Below(w, received[w]) /\ Below(w, queue[w])
    BY DEF Ordered
  <2>4. CASE w[2] = s
    BY <1>1, <1>2, <2>1, <2>2, <2>3, <2>4 DEF Below
  <2>5. CASE w[2] # s
    BY <1>0, <1>1, <1>2, <1>7, <2>3, <2>5 DEF Below
  <2> QED
    BY <2>4, <2>5
<1>10. NoneMissing'
  <2> SUFFICES ASSUME NEW w \in wanted, Subscribed(w),
                      NEW m \in since[w] + 1 .. accepted'[w[2]]
               PROVE  Accounted(w, m)' \/ (m = accepted'[w[2]] /\ Coming(w)')
    BY <1>1 DEF NoneMissing, Subscribed
  <2>1. Accounted(w, m) => Accounted(w, m)'
    BY <1>1 DEF Accounted, Content
  <2>2. since[w] \in Nat /\ accepted[w[2]] \in Nat
    BY <1>0 DEF MessageTypes
  <2>3. CASE w[2] # s
    BY <1>0, <1>2, <1>7, <2>1, <2>3 DEF NoneMissing
  <2>4. CASE w[2] = s /\ m = accepted[s] + 1
    BY <1>2, <1>8, <2>4
  <2>5. CASE w[2] = s /\ m # accepted[s] + 1
    <3>1. m \in since[w] + 1 .. accepted[w[2]]
      BY <1>2, <2>2, <2>5
    <3> QED
      BY <1>6, <2>1, <2>5, <3>1 DEF NoneMissing
  <2> QED
    BY <2>3, <2>4, <2>5
<1>11. AboveSince'
  <2> SUFFICES ASSUME NEW w \in wanted, Coming(w)'
               PROVE  since[w] < accepted'[w[2]]
    BY <1>1 DEF AboveSince, Above, NotYet
  <2>1. since[w] \in Nat /\ accepted[w[2]] \in Nat /\ since[w] <= accepted[w[2]]
    BY <1>0 DEF MessageTypes, SinceBelow
  <2>2. CASE w[2] = s
    BY <1>2, <2>1, <2>2
  <2>3. CASE w[2] # s
    BY <1>0, <1>2, <1>7, <2>3 DEF AboveSince
  <2> QED
    BY <2>2, <2>3
<1>12. SinceBelow'
  <2> SUFFICES ASSUME NEW w \in wanted PROVE since[w] <= accepted'[w[2]]
    BY <1>1 DEF SinceBelow
  <2>1. since[w] \in Nat /\ accepted[w[2]] \in Nat /\ since[w] <= accepted[w[2]]
    BY <1>0 DEF MessageTypes, SinceBelow
  <2>2. accepted'[w[2]] = accepted[w[2]] \/ accepted'[w[2]] = accepted[w[2]] + 1
    BY <1>0, <1>2
  <2> QED
    BY <2>1, <2>2
<1> QED
  BY <1>3, <1>4, <1>5, <1>9, <1>10, <1>11, <1>12

LEMMA ReceiveStep ==
  ASSUME LockInv, MessageInv, NEW s \in Streams, NEW u \in Subs, Receive(s, u), wanted' = wanted
  PROVE  MessageInv'
<1> USE DEF MessageInv
<1>w. PICK w \in Pairs : w = <<u, s>>
  BY DEF Pairs
<1>m. PICK m \in Nat : m = accepted[s]
  BY DEF MessageTypes
<1>0. \A v \in wanted : v \in Pairs /\ v[1] \in Subs /\ v[2] \in Streams
  BY PairIs DEF LockInv, Types
<1>1. /\ process[s] = "fanout" /\ u \in rest[s]
      /\ rest' = [rest EXCEPT ![s] = @ \ {u}]
      /\ UNCHANGED <<process, accepted, received, since, reader, wanted>>
      /\ \/ /\ w \in entries /\ Len(queue[w]) < QueueSize
            /\ queue' = [queue EXCEPT ![w] = Append(@, m)] /\ dropped' = dropped
         \/ dropped' = [dropped EXCEPT ![w] = @ \cup {m}] /\ queue' = queue
  BY <1>w, <1>m DEF Receive, HasRoom
<1>2. w \in Pairs /\ w[1] = u /\ w[2] = s /\ Coming(w) /\ ~Coming(w)'
  BY <1>1, <1>w DEF Coming, LockInv, Types
<1>3. m \in Nat /\ m > 0 /\ queue[w] \in Seq(Nat) /\ QueueSize \in Nat
  BY <1>1, <1>2, <1>m, ConstantsOK DEF Counts, MessageTypes, ConstantsOK
<1>4. \A v \in wanted : v # w => (Coming(v)' <=> Coming(v))
  <2> SUFFICES ASSUME NEW v \in wanted, v # w PROVE Coming(v)' <=> Coming(v)
    OBVIOUS
  <2>1. v[1] # u \/ v[2] # s
    BY <1>0, <1>2, PairsDiffer
  <2> QED
    BY <1>0, <1>1, <2>1 DEF Coming, LockInv, Types
<1>5. \A v \in wanted : v # w => queue'[v] = queue[v] /\ dropped'[v] = dropped[v]
  BY <1>0, <1>1 DEF MessageTypes
<1>6. \/ /\ Len(queue[w]) < QueueSize /\ queue'[w] = Append(queue[w], m) /\ dropped'[w] = dropped[w]
      \/ queue'[w] = queue[w] /\ dropped'[w] = dropped[w] \cup {m}
  BY <1>1, <1>2 DEF MessageTypes
<1>g. /\ Append(queue[w], m) \in Seq(Nat) /\ Len(Append(queue[w], m)) = Len(queue[w]) + 1
      /\ DOMAIN Append(queue[w], m) = DOMAIN queue[w] \cup {Len(queue[w]) + 1}
      /\ Append(queue[w], m)[Len(queue[w]) + 1] = m
      /\ \A i \in DOMAIN queue[w] : Append(queue[w], m)[i] = queue[w][i] /\ i < Len(queue[w]) + 1
      /\ Content(Append(queue[w], m)) = Content(queue[w]) \cup {m}
  BY <1>3, Grows
<1>e. Coming(w) /\ ~Coming(w)' /\ w[2] = s /\ accepted' = accepted /\ accepted[s] = m
  BY <1>1, <1>2, <1>m
<1>7. MessageTypes'
  <2>1. queue' \in [Pairs -> Seq(Nat)]
    BY <1>1, <1>2, <1>3, <1>g DEF MessageTypes
  <2>2. dropped' \in [Pairs -> SUBSET Nat]
    <3>1. dropped[w] \cup {m} \in SUBSET Nat
      BY DEF MessageTypes
    <3> QED
      BY <1>1, <3>1 DEF MessageTypes
  <2> QED
    BY <1>1, <2>1, <2>2 DEF MessageTypes
<1>8. Counts'
  BY <1>1 DEF Counts
<1>9. Room'
  <2> SUFFICES ASSUME NEW v \in wanted PROVE Len(queue'[v]) <= QueueSize
    BY <1>1 DEF Room
  <2>1. CASE v = w
    <3>1. Len(queue[w]) \in Nat /\ Len(queue[w]) <= QueueSize
      BY <1>3, <2>1 DEF Room
    <3> QED
      BY <1>3, <1>6, <1>g, <2>1, <3>1
  <2> QED
    BY <1>5, <2>1 DEF Room
<1>10. Ordered'
  <2> SUFFICES ASSUME NEW v \in wanted
               PROVE  /\ Ascending(queue'[v])
                      /\ \A i \in DOMAIN received[v], j \in DOMAIN queue'[v] :
                            received[v][i] < queue'[v][j]
                      /\ Below(v, received[v])' /\ Below(v, queue[v])'
    BY <1>1 DEF Ordered, Ascending
  <2>0. /\ Ascending(queue[v])
        /\ \A i \in DOMAIN received[v], j \in DOMAIN queue[v] : received[v][i] < queue[v][j]
        /\ Below(v, received[v]) /\ Below(v, queue[v])
    BY DEF Ordered
  <2>1. CASE v # w
    BY <1>1, <1>4, <1>5, <2>0, <2>1 DEF Below
  <2>2. CASE v = w /\ queue'[w] = queue[w]
    BY <1>1, <1>e, <2>0, <2>2 DEF Below
  <2>3. CASE v = w /\ queue'[w] = Append(queue[w], m)
    <3>1. \A i \in DOMAIN received[w] : received[w][i] < m /\ 0 < received[w][i] /\ received[w][i] <= m
      BY <1>e, <2>0, <2>3 DEF Below
    <3>2. \A i \in DOMAIN queue[w] : queue[w][i] < m /\ 0 < queue[w][i] /\ queue[w][i] <= m
      BY <1>e, <2>0, <2>3 DEF Below
    <3>3. Ascending(queue'[w])
      BY <1>3, <1>g, <2>0, <2>3, <3>2 DEF Ascending
    <3>4. \A i \in DOMAIN received[w], j \in DOMAIN queue'[w] : received[w][i] < queue'[w][j]
      BY <1>g, <2>0, <2>3, <3>1
    <3>5. Below(w, received[w])'
      BY <1>1, <1>e, <3>1 DEF Below
    <3>6. Below(w, queue[w])'
      BY <1>e, <1>3, <1>g, <2>3, <3>2 DEF Below
    <3> QED
      BY <2>3, <3>3, <3>4, <3>5, <3>6
  <2> QED
    BY <1>6, <2>1, <2>2, <2>3
<1>11. NoneMissing'
  <2> SUFFICES ASSUME NEW v \in wanted, Subscribed(v),
                      NEW k \in since[v] + 1 .. accepted[v[2]]
               PROVE  Accounted(v, k)' \/ (k = accepted[v[2]] /\ Coming(v)')
    BY <1>1 DEF NoneMissing, Subscribed
  <2>1. Accounted(v, k) \/ (k = accepted[v[2]] /\ Coming(v))
    BY DEF NoneMissing
  <2>2. CASE v # w
    BY <1>1, <1>4, <1>5, <2>1, <2>2 DEF Accounted, Content
  <2>3. CASE v = w
    <3>1. Accounted(w, k) => Accounted(w, k)'
      BY <1>1, <1>6, <1>g DEF Accounted
    <3>2. Accounted(w, m)'
      BY <1>6, <1>g DEF Accounted
    <3> QED
      BY <1>e, <2>1, <2>3, <3>1, <3>2
  <2> QED
    BY <2>2, <2>3
<1>12. AboveSince'
  <2> SUFFICES ASSUME NEW v \in wanted
               PROVE  /\ NotYet(v) => received[v] = <<>> /\ queue'[v] = <<>>
                      /\ Above(v, received[v]) /\ Above(v, queue'[v])
                      /\ Coming(v)' => since[v] < accepted[v[2]]
    BY <1>1 DEF AboveSince, Above, NotYet
  <2>1. CASE v # w
    BY <1>4, <1>5, <2>1 DEF AboveSince
  <2>2. CASE v = w
    <3>1. ~NotYet(w) /\ since[w] < m
      BY <1>1, <1>e, <1>w, <2>2 DEF AboveSince, LockInv, Membership, NotYet
    <3>2. Above(w, queue[w]) /\ Above(w, received[w])
      BY <2>2 DEF AboveSince
    <3>3. Above(w, queue'[w])
      BY <1>6, <1>g, <3>1, <3>2 DEF Above
    <3> QED
      BY <1>e, <2>2, <3>1, <3>2, <3>3
  <2> QED
    BY <2>1, <2>2
<1>13. SinceBelow'
  BY <1>1 DEF SinceBelow
<1> QED
  BY <1>7, <1>8, <1>9, <1>10, <1>11, <1>12, <1>13

LEMMA ReadStep ==
  ASSUME LockInv, MessageInv, NEW w \in wanted, Read(w), wanted' = wanted
  PROVE  MessageInv'
<1> USE DEF MessageInv
<1> DEFINE m == Head(queue[w])
           r == received[w]
           q == queue[w]
<1>0. \A v \in wanted : v \in Pairs /\ v[1] \in Subs /\ v[2] \in Streams
  BY PairIs DEF LockInv, Types
<1>1. /\ q # <<>> /\ received' = [received EXCEPT ![w] = Append(@, m)]
      /\ queue' = [queue EXCEPT ![w] = Tail(q)]
      /\ UNCHANGED <<process, rest, accepted, dropped, since, reader, wanted>>
  BY DEF Read, streamVars
<1>2. q \in Seq(Nat) /\ r \in Seq(Nat) /\ w \in Pairs
  BY <1>0 DEF MessageTypes
<1>s. /\ Tail(q) \in Seq(Nat) /\ Len(Tail(q)) = Len(q) - 1 /\ m = q[1] /\ 1 \in DOMAIN q
      /\ \A i \in DOMAIN Tail(q) : i + 1 \in DOMAIN q /\ Tail(q)[i] = q[i + 1] /\ i \in Nat \ {0}
      /\ Content(q) = Content(Tail(q)) \cup {m}
  BY <1>1, <1>2, Shrinks
<1>3. m \in Nat
  BY <1>2, <1>s
<1>g. /\ Append(r, m) \in Seq(Nat) /\ Len(Append(r, m)) = Len(r) + 1
      /\ DOMAIN Append(r, m) = DOMAIN r \cup {Len(r) + 1}
      /\ Append(r, m)[Len(r) + 1] = m /\ \A i \in DOMAIN r : Append(r, m)[i] = r[i] /\ i < Len(r) + 1
      /\ Content(Append(r, m)) = Content(r) \cup {m}
  BY <1>2, <1>3, Grows
<1>4. received'[w] = Append(r, m) /\ queue'[w] = Tail(q)
  BY <1>1, <1>2 DEF MessageTypes
<1>5. \A v \in wanted : v # w => received'[v] = received[v] /\ queue'[v] = queue[v]
  BY <1>0, <1>1 DEF MessageTypes
<1>6. \A v \in wanted : Coming(v)' <=> Coming(v)
  BY <1>1 DEF Coming
<1>7. MessageTypes'
  BY <1>1, <1>s, <1>g DEF MessageTypes
<1>8. Counts'
  BY <1>1 DEF Counts
<1>9. Room'
  <2> SUFFICES ASSUME NEW v \in wanted PROVE Len(queue'[v]) <= QueueSize
    BY <1>1 DEF Room
  <2>1. Len(q) \in Nat /\ Len(q) <= QueueSize /\ QueueSize \in Nat
    BY <1>2, ConstantsOK DEF Room, ConstantsOK
  <2>2. Len(Tail(q)) <= QueueSize
    BY <1>s, <2>1
  <2> QED
    BY <1>4, <1>5, <2>2 DEF Room
<1>10. Ordered'
  <2> SUFFICES ASSUME NEW v \in wanted
               PROVE  /\ Ascending(received'[v]) /\ Ascending(queue'[v])
                      /\ \A i \in DOMAIN received'[v], j \in DOMAIN queue'[v] :
                            received'[v][i] < queue'[v][j]
                      /\ Below(v, received[v])' /\ Below(v, queue[v])'
    BY <1>1 DEF Ordered, Ascending
  <2>0. /\ Ascending(received[v]) /\ Ascending(queue[v])
        /\ \A i \in DOMAIN received[v], j \in DOMAIN queue[v] : received[v][i] < queue[v][j]
        /\ Below(v, received[v]) /\ Below(v, queue[v])
    BY DEF Ordered
  <2>1. CASE v # w
    BY <1>1, <1>5, <1>6, <2>0, <2>1 DEF Below
  <2>2. CASE v = w
    <3>0. /\ Ascending(r) /\ Ascending(q) /\ \A i \in DOMAIN r, j \in DOMAIN q : r[i] < q[j]
          /\ Below(w, r) /\ Below(w, q)
      BY <2>0, <2>2
    <3>d. /\ \A i \in DOMAIN r : i \in Nat
          /\ Len(r) \in Nat
      BY <1>2
    <3> HIDE DEF q, r, m
    <3>1. \A i \in DOMAIN r : r[i] < m
      BY <1>s, <3>0
    <3>2. Ascending(Append(r, m))
      BY <1>g, <3>0, <3>1, <3>d DEF Ascending
    <3>3. \A j \in DOMAIN Tail(q) : 1 < j + 1
      BY <1>s
    <3>4. \A j \in DOMAIN Tail(q) : m < Tail(q)[j]
      BY <1>s, <3>0, <3>3 DEF Ascending
    <3>5. Ascending(Tail(q))
      <4> SUFFICES ASSUME NEW i \in DOMAIN Tail(q), NEW j \in DOMAIN Tail(q), i < j
                   PROVE  Tail(q)[i] < Tail(q)[j]
        BY DEF Ascending
      <4>1. i + 1 < j + 1 /\ i + 1 \in DOMAIN q /\ j + 1 \in DOMAIN q
        BY <1>s
      <4> QED
        BY <1>s, <3>0, <4>1 DEF Ascending
    <3>6. \A i \in DOMAIN Append(r, m), j \in DOMAIN Tail(q) : Append(r, m)[i] < Tail(q)[j]
      BY <1>s, <1>g, <3>0, <3>4
    <3>7. Below(w, Append(r, m)) /\ Below(w, Tail(q))
      BY <1>s, <1>g, <3>0 DEF Below
    <3>8. Below(w, received[w])' /\ Below(w, queue[w])'
      BY <1>1, <1>4, <1>6, <3>7 DEF Below
    <3> QED
      BY <1>4, <2>2, <3>2, <3>5, <3>6, <3>8
  <2> QED
    BY <2>1, <2>2
<1>11. NoneMissing'
  <2> SUFFICES ASSUME NEW v \in wanted, Subscribed(v),
                      NEW k \in since[v] + 1 .. accepted[v[2]]
               PROVE  Accounted(v, k)' \/ (k = accepted[v[2]] /\ Coming(v)')
    BY <1>1 DEF NoneMissing, Subscribed
  <2>1. Accounted(v, k) \/ (k = accepted[v[2]] /\ Coming(v))
    BY DEF NoneMissing
  <2>2. Accounted(v, k) => Accounted(v, k)'
    <3>1. CASE v # w
      BY <1>1, <1>5, <3>1 DEF Accounted, Content
    <3>2. CASE v = w
      BY <1>1, <1>4, <1>s, <1>g, <3>2 DEF Accounted
    <3> QED
      BY <3>1, <3>2
  <2> QED
    BY <1>6, <2>1, <2>2
<1>12. AboveSince'
  <2> SUFFICES ASSUME NEW v \in wanted
               PROVE  /\ NotYet(v) => received'[v] = <<>> /\ queue'[v] = <<>>
                      /\ Above(v, received'[v]) /\ Above(v, queue'[v])
                      /\ Coming(v)' => since[v] < accepted[v[2]]
    BY <1>1 DEF AboveSince, Above, NotYet
  <2>1. CASE v # w
    BY <1>5, <1>6, <2>1 DEF AboveSince
  <2>2. CASE v = w
    <3>0. /\ ~NotYet(w) /\ Above(w, q) /\ Above(w, r)
          /\ Coming(w)' => since[w] < accepted[w[2]]
      BY <1>1, <1>6, <2>2 DEF AboveSince
    <3> HIDE DEF q, r, m
    <3>1. since[w] < m
      BY <1>s, <3>0 DEF Above
    <3>2. Above(w, Append(r, m)) /\ Above(w, Tail(q))
      BY <1>s, <1>g, <3>0, <3>1 DEF Above
    <3> QED
      BY <1>4, <2>2, <3>0, <3>2
  <2> QED
    BY <2>1, <2>2
<1>13. SinceBelow'
  BY <1>1 DEF SinceBelow
<1> QED
  BY <1>7, <1>8, <1>9, <1>10, <1>11, <1>12, <1>13

LEMMA MessageInit == Init => MessageInv
<1> SUFFICES ASSUME Init PROVE MessageInv
  OBVIOUS
<1>1. wanted \subseteq Pairs /\ \A w \in wanted : w[2] \in Streams
  BY PairIs, ConstantsOK DEF ConstantsOK, Pairs, Init
<1>2. MessageTypes
  BY DEF MessageTypes, Init
<1>3. Counts /\ Room
  BY <1>1, ConstantsOK DEF ConstantsOK, Counts, Room, Init
<1>4. Ordered
  BY <1>1 DEF Ordered, Ascending, Below, Init
<1>5. NoneMissing
  BY <1>1 DEF NoneMissing, Subscribed, Init
<1>6. AboveSince
  BY <1>1 DEF AboveSince, Above, Coming, Init
<1>7. SinceBelow
  BY <1>1 DEF SinceBelow, Init
<1> QED
  BY <1>2, <1>3, <1>4, <1>5, <1>6, <1>7 DEF MessageInv

THEOREM MessageInvariant == Spec => []MessageInv
<1>1. LockInv /\ MessageInv /\ [Next]_<<wanted, vars>> => MessageInv'
  <2> SUFFICES ASSUME LockInv, MessageInv, [Next]_<<wanted, vars>> PROVE MessageInv'
    OBVIOUS
  <2>1. CASE Calm
    BY <2>1, CalmStep
  <2>2. CASE Disturbs
    <3>1. wanted' = wanted
      BY DEF Next
    <3> QED
      BY <2>2, <3>1, PublishStep, ReceiveStep, ReadStep DEF Disturbs
  <2> QED
    BY <2>1, <2>2, OthersAreCalm DEF MessageInv
<1> QED
  BY <1>1, MessageInit, LockInvariant, PTL DEF Spec

(* Readers get the messages in order, and only those handed out after they *)
(* subscribed, however fanouts, full queues and reads interleave.          *)
THEOREM InOrder == Spec => []ReceivedInOrder
<1>1. LockInv /\ MessageInv => ReceivedInOrder
  <2> SUFFICES ASSUME LockInv, MessageInv, NEW w \in wanted, NEW k \in DOMAIN received[w]
               PROVE  received[w][k] > IF k = 1 THEN since[w] ELSE received[w][k - 1]
    BY DEF ReceivedInOrder
  <2>1. received[w] \in Seq(Nat) /\ since[w] \in Nat
    BY DEF LockInv, Types, MessageInv, MessageTypes
  <2>2. since[w] < received[w][k]
    BY DEF MessageInv, AboveSince, Above
  <2>3. CASE k # 1
    <3>1. k - 1 \in DOMAIN received[w] /\ k - 1 < k
      BY <2>1, <2>3
    <3>2. received[w][k - 1] < received[w][k]
      BY <3>1 DEF MessageInv, Ordered, Ascending
    <3>3. received[w][k - 1] \in Nat /\ received[w][k] \in Nat
      BY <2>1, <3>1
    <3> QED
      BY <2>3, <3>2, <3>3
  <2>4. CASE k = 1
    BY <2>1, <2>2, <2>4
  <2> QED
    BY <2>3, <2>4
<1> QED
  BY <1>1, LockInvariant, MessageInvariant, PTL

(* No message slips past a reader: it is read, waits, or was dropped.      *)
THEOREM NothingForgotten == Spec => []NoneForgotten
<1>1. LockInv /\ MessageInv => NoneForgotten
  <2> SUFFICES ASSUME LockInv, MessageInv, NEW w \in wanted, Subscribed(w),
                      process[w[2]] \in {"select", "done"},
                      NEW m \in since[w] + 1 .. accepted[w[2]]
               PROVE  Accounted(w, m)
    BY DEF NoneForgotten, Accounted
  <2>1. w[1] \in Subs /\ w[2] \in Streams
    BY PairIs DEF LockInv, Types
  <2>2. ~Coming(w)
    BY <2>1 DEF Coming, LockInv, Membership
  <2> QED
    BY <2>2 DEF MessageInv, NoneMissing
<1> QED
  BY <1>1, LockInvariant, MessageInvariant, PTL

(* The types, with the bound on the queues. *)
THEOREM TypeCorrect == Spec => []TypeOK
<1>1. LockInv /\ MessageInv => TypeOK
  <2> SUFFICES ASSUME LockInv, MessageInv PROVE TypeOK
    OBVIOUS
  <2>1. \A s \in Streams : accepted[s] \in 0 .. MaxMessages[s]
    BY ConstantsOK DEF ConstantsOK, MessageInv, MessageTypes, Counts
  <2>2. ASSUME NEW w \in wanted
        PROVE  queue[w] \in Seq(1 .. MaxMessages[w[2]]) /\ Len(queue[w]) <= QueueSize
    <3>1. queue[w] \in Seq(Nat) /\ w[2] \in Streams
      BY PairIs DEF LockInv, Types, MessageInv, MessageTypes
    <3>2. \A i \in DOMAIN queue[w] : queue[w][i] \in 1 .. MaxMessages[w[2]]
      <4> SUFFICES ASSUME NEW i \in DOMAIN queue[w]
                   PROVE  queue[w][i] \in 1 .. MaxMessages[w[2]]
        OBVIOUS
      <4>1. queue[w][i] \in Nat
        BY <3>1
      <4>2. 0 < queue[w][i] /\ queue[w][i] <= accepted[w[2]]
        BY DEF MessageInv, Ordered, Below
      <4>3. accepted[w[2]] \in 0 .. MaxMessages[w[2]] /\ MaxMessages[w[2]] \in Nat
        BY <2>1, <3>1, ConstantsOK DEF ConstantsOK
      <4> QED
        BY <4>1, <4>2, <4>3
    <3>3. queue[w] \in Seq(1 .. MaxMessages[w[2]])
      <4>1. queue[w] \in [1 .. Len(queue[w]) -> 1 .. MaxMessages[w[2]]] /\ Len(queue[w]) \in Nat
        BY <3>1, <3>2
      <4> QED
        BY <4>1, SeqDef
    <3> QED
      BY <3>3 DEF MessageInv, Room
  <2>3. channelLock \in Agents \cup {Free}
    BY DEF LockInv, Types, Agents
  <2> QED
    BY <2>1, <2>2, <2>3 DEF TypeOK, LockInv, Types
<1> QED
  BY <1>1, LockInvariant, MessageInvariant, PTL
=============================================================================
