------------------------------- MODULE PubSub -------------------------------
(***************************************************************************)
(* The in-process broker internal/pubsub: one Channel, its streams, each   *)
(* with a goroutine that fans messages out, and Subscribers.               *)
(*                                                                         *)
(* Three kinds of mutexes nest.  Subscribe takes the Subscriber's, the     *)
(* Channel's and the stream's, in this order; fanout takes the stream's    *)
(* and then each Subscriber's; Close keeps the Channel's while it waits    *)
(* for the goroutines.  A step here is what a goroutine does between two   *)
(* acquisitions.  A subscription is a pair <<u, s>>, used by one goroutine *)
(* that subscribes, reads and may stop reading.  Since an entry of         *)
(* Subscriber.streams survives unsubscribe, a pair registers at most once  *)
(* and stands for the number that stream.subscribe hands out.              *)
(***************************************************************************)
EXTENDS Naturals, Sequences, FiniteSets

CONSTANTS
  Streams, Subs,
  Configurations,\* the sets of subscriptions that goroutines may ask for
  QueueSize,     \* capacity of a subscription's queue
  MaxMessages    \* bound: how many messages each stream accepts

ASSUME ConstantsOK ==
  /\ Configurations \subseteq SUBSET (Subs \X Streams)
  /\ QueueSize \in Nat /\ MaxMessages \in [Streams -> Nat]

VARIABLES
  wanted,        \* the subscriptions of this program
  (* mutexes: the agent that holds it, or Free *)
  channelLock, streamLock, subLock,
  (* Channel *)
  announced,     \* keys of Channel.streams
  closed,
  (* stream *)
  process,       \* the goroutine: in select, locking, in fanout, or done
  rest,          \* Subscribers this fanout has still to serve
  accepted,      \* number of messages taken by the goroutine; the last is at hand
  members,       \* stream.subscribers
  closedStreams, \* streams whose channel closed is closed
  (* Subscriber *)
  entries,       \* keys of Subscriber.streams
  queue,
  (* callers *)
  reader,        \* where the goroutine of a subscription is
  closer,        \* Close: not called, closing, or returned
  (* history *)
  since,         \* messages handed out before the subscription began
  received, dropped

lockVars == <<channelLock, streamLock, subLock>>
streamVars == <<process, rest, accepted, members>>
historyVars == <<since, received, dropped>>
vars == <<lockVars, announced, closed, streamVars, closedStreams, entries, queue,
          reader, closer, historyVars>>

Pairs == Subs \X Streams
Free == <<"free">>
Call(w) == <<"call", w>>
Process(s) == <<"process", s>>
Closer == <<"close">>
Agents == {Call(w) : w \in wanted} \cup {Process(s) : s \in Streams} \cup {Closer}
-----------------------------------------------------------------------------
(* Channel.announce starts the goroutine of a new stream. *)
Announce(s) ==
  /\ channelLock = Free /\ ~closed /\ s \notin announced
  /\ announced' = announced \cup {s}
  /\ process' = [process EXCEPT ![s] = "select"]
  /\ UNCHANGED <<lockVars, closed, rest, accepted, members, closedStreams, entries, queue,
                 reader, closer, historyVars>>

(* Channel.publish: the queue has no buffer, so the message is accepted    *)
(* only while the goroutine is in its select, and refused otherwise.       *)
Publish(s) ==
  /\ channelLock = Free /\ s \in announced
  /\ process[s] = "select" /\ accepted[s] < MaxMessages[s]
  /\ accepted' = [accepted EXCEPT ![s] = @ + 1]
  /\ process' = [process EXCEPT ![s] = "locking"]
  /\ UNCHANGED <<lockVars, announced, closed, rest, members, closedStreams, entries, queue,
                 reader, closer, historyVars>>
-----------------------------------------------------------------------------
(* stream.fanout *)
FanoutStarts(s) ==
  /\ process[s] = "locking" /\ streamLock[s] = Free
  /\ streamLock' = [streamLock EXCEPT ![s] = Process(s)]
  /\ process' = [process EXCEPT ![s] = "fanout"]
  /\ rest' = [rest EXCEPT ![s] = members[s]]
  /\ UNCHANGED <<channelLock, subLock, announced, closed, accepted, members, closedStreams,
                 entries, queue, reader, closer, historyVars>>

(* Subscriber.receive, called by fanout: a full queue drops the message. *)
HasRoomAlways(w) == TRUE
HasRoom(w) == Len(queue[w]) < QueueSize
Receive(s, u) ==
  LET w == <<u, s>> IN
  /\ process[s] = "fanout" /\ u \in rest[s] /\ subLock[u] = Free
  /\ rest' = [rest EXCEPT ![s] = @ \ {u}]
  /\ IF w \in entries /\ HasRoom(w)
     THEN /\ queue' = [queue EXCEPT ![w] = Append(@, accepted[s])]
          /\ UNCHANGED dropped
     ELSE /\ dropped' = [dropped EXCEPT ![w] = @ \cup {accepted[s]}]
          /\ UNCHANGED queue
  /\ UNCHANGED <<lockVars, announced, closed, process, accepted, members, closedStreams,
                 entries, reader, closer, since, received>>

FanoutEndsEarly(s) ==
  /\ process[s] = "fanout"
  /\ streamLock' = [streamLock EXCEPT ![s] = Free]
  /\ process' = [process EXCEPT ![s] = "select"]
  /\ rest' = [rest EXCEPT ![s] = {}]
  /\ UNCHANGED <<channelLock, subLock, announced, closed, accepted, members,
                 closedStreams, entries, queue, reader, closer, historyVars>>
FanoutKeepsLock(s) ==
  /\ process[s] = "fanout" /\ rest[s] = {}
  /\ process' = [process EXCEPT ![s] = "select"]
  /\ UNCHANGED <<lockVars, announced, closed, rest, accepted, members, closedStreams,
                 entries, queue, reader, closer, historyVars>>
FanoutEnds(s) ==
  /\ process[s] = "fanout" /\ rest[s] = {}
  /\ streamLock' = [streamLock EXCEPT ![s] = Free]
  /\ process' = [process EXCEPT ![s] = "select"]
  /\ UNCHANGED <<channelLock, subLock, announced, closed, rest, accepted, members,
                 closedStreams, entries, queue, reader, closer, historyVars>>

(* stream.process sees that the stream was closed. *)
ProcessReturns(s) ==
  /\ process[s] = "select" /\ s \in closedStreams
  /\ process' = [process EXCEPT ![s] = "done"]
  /\ UNCHANGED <<lockVars, announced, closed, rest, accepted, members, closedStreams,
                 entries, queue, reader, closer, historyVars>>
-----------------------------------------------------------------------------
(* Subscriber.Subscribe takes the Subscriber's lock and stores the queue. *)
Subscribe(u, s) ==
  LET w == <<u, s>> IN
  /\ reader[w] = "new" /\ subLock[u] = Free /\ w \notin entries
  /\ subLock' = [subLock EXCEPT ![u] = Call(w)]
  /\ entries' = entries \cup {w}
  /\ reader' = [reader EXCEPT ![w] = "subscribe"]
  /\ UNCHANGED <<channelLock, streamLock, announced, closed, streamVars, closedStreams,
                 queue, closer, historyVars>>

(* Channel.subscribe: lock, and look the stream up. *)
SubscribeInChannel(u, s) ==
  LET w == <<u, s>> IN
  /\ reader[w] = "subscribe" /\ channelLock = Free
  /\ IF s \in announced
     THEN /\ channelLock' = Call(w)
          /\ reader' = [reader EXCEPT ![w] = "subscribe stream"]
          /\ UNCHANGED <<subLock, entries>>
     ELSE /\ subLock' = [subLock EXCEPT ![u] = Free]
          /\ entries' = entries \ {w}
          /\ reader' = [reader EXCEPT ![w] = "new"]
          /\ UNCHANGED channelLock
  /\ UNCHANGED <<streamLock, announced, closed, streamVars, closedStreams, queue, closer,
                 historyVars>>

(* stream.subscribe; then all three calls return.  A message that the      *)
(* goroutine has taken, but not handed to anybody, is still to come.       *)
HandedOut(s) == IF process[s] = "locking" THEN accepted[s] - 1 ELSE accepted[s]
Registered(u, s) ==
  LET w == <<u, s>> IN
  /\ members' = [members EXCEPT ![s] = @ \cup {u}]
  /\ channelLock' = Free
  /\ subLock' = [subLock EXCEPT ![u] = Free]
  /\ reader' = [reader EXCEPT ![w] = "reading"]
  /\ since' = [since EXCEPT ![w] = HandedOut(s)]
  /\ UNCHANGED <<streamLock, announced, closed, process, accepted, closedStreams,
                 entries, queue, closer, received, dropped>>
SubscribeUnlocked(u, s) ==
  /\ reader[<<u, s>>] = "subscribe stream"
  /\ rest' = [rest EXCEPT ![s] = IF process[s] = "fanout" THEN @ \cup {u} ELSE @]
  /\ Registered(u, s)
SubscribeInStream(u, s) ==
  /\ reader[<<u, s>>] = "subscribe stream" /\ streamLock[s] = Free
  /\ Registered(u, s)
  /\ UNCHANGED rest
-----------------------------------------------------------------------------
(* The iterator that Subscribe returned. *)
Read(w) ==
  /\ reader[w] = "reading" /\ queue[w] # <<>>
  /\ received' = [received EXCEPT ![w] = Append(@, Head(queue[w]))]
  /\ queue' = [queue EXCEPT ![w] = Tail(@)]
  /\ UNCHANGED <<lockVars, announced, closed, streamVars, closedStreams, entries, reader,
                 closer, since, dropped>>

(* yield returned false after some message: the iterator unsubscribes. *)
StopsKeepingLock(w) ==
  /\ reader[w] = "reading" /\ received[w] # <<>> /\ subLock[w[1]] = Free
  /\ subLock' = [subLock EXCEPT ![w[1]] = Call(w)]
  /\ reader' = [reader EXCEPT ![w] = "unsubscribe"]
  /\ UNCHANGED <<channelLock, streamLock, announced, closed, streamVars, closedStreams,
                 entries, queue, closer, historyVars>>
Stops(w) ==
  /\ reader[w] = "reading" /\ received[w] # <<>>
  /\ reader' = [reader EXCEPT ![w] = "unsubscribe"]
  /\ UNCHANGED <<lockVars, announced, closed, streamVars, closedStreams, entries, queue,
                 closer, historyVars>>

Unsubscribe(w) ==
  /\ reader[w] = "unsubscribe" /\ channelLock = Free
  /\ channelLock' = Call(w)
  /\ reader' = [reader EXCEPT ![w] = "unsubscribe stream"]
  /\ UNCHANGED <<streamLock, subLock, announced, closed, streamVars, closedStreams, entries,
                 queue, closer, historyVars>>

UnsubscribeInStream(u, s) ==
  LET w == <<u, s>> IN
  /\ reader[w] = "unsubscribe stream" /\ streamLock[s] = Free
  /\ members' = [members EXCEPT ![s] = @ \ {u}]
  /\ channelLock' = Free
  /\ reader' = [reader EXCEPT ![w] = "stopped"]
  /\ UNCHANGED <<streamLock, subLock, announced, closed, process, rest, accepted,
                 closedStreams, entries, queue, closer, historyVars>>
-----------------------------------------------------------------------------
(* Channel.Close keeps the lock, and closes the streams one at a time,     *)
(* waiting for the goroutine of each.  The owner calls it once: a second   *)
(* call would close the same Go channels again.                            *)
Close ==
  /\ closer = "idle" /\ channelLock = Free
  /\ channelLock' = Closer
  /\ closed' = TRUE
  /\ closer' = "closing"
  /\ UNCHANGED <<streamLock, subLock, announced, streamVars, closedStreams, entries, queue,
                 reader, historyVars>>

AllDone == \A s \in closedStreams : process[s] = "done"

CloseStream(s) ==
  /\ closer = "closing" /\ AllDone
  /\ s \in announced \ closedStreams
  /\ closedStreams' = closedStreams \cup {s}
  /\ UNCHANGED <<lockVars, announced, closed, streamVars, entries, queue, reader, closer,
                 historyVars>>

CloseReturns ==
  /\ closer = "closing" /\ AllDone /\ closedStreams = announced
  /\ channelLock' = Free
  /\ closer' = "returned"
  /\ UNCHANGED <<streamLock, subLock, announced, closed, streamVars, closedStreams, entries,
                 queue, reader, historyVars>>
-----------------------------------------------------------------------------
Init ==
  /\ wanted \in Configurations
  /\ channelLock = Free
  /\ streamLock = [s \in Streams |-> Free] /\ subLock = [u \in Subs |-> Free]
  /\ announced = {} /\ closed = FALSE /\ closedStreams = {}
  /\ process = [s \in Streams |-> "none"] /\ rest = [s \in Streams |-> {}]
  /\ accepted = [s \in Streams |-> 0] /\ members = [s \in Streams |-> {}]
  /\ entries = {} /\ queue = [w \in Pairs |-> <<>>]
  /\ reader = [w \in Pairs |-> "new"] /\ closer = "idle"
  /\ since = [w \in Pairs |-> 0]
  /\ received = [w \in Pairs |-> <<>>] /\ dropped = [w \in Pairs |-> {}]

StreamStep(s) ==
  FanoutStarts(s) \/ (\E u \in Subs : Receive(s, u)) \/ FanoutEnds(s) \/ ProcessReturns(s)
SubscriberStep(w) ==
  \/ SubscribeInChannel(w[1], w[2]) \/ SubscribeInStream(w[1], w[2])
  \/ Unsubscribe(w) \/ UnsubscribeInStream(w[1], w[2])
  \/ Read(w)
CloseStep == CloseReturns \/ \E s \in Streams : CloseStream(s)

Next ==
  /\ \/ \E s \in Streams : Announce(s) \/ Publish(s) \/ StreamStep(s)
     \/ \E w \in wanted : Subscribe(w[1], w[2]) \/ Stops(w) \/ SubscriberStep(w)
     \/ Close \/ CloseStep
  /\ UNCHANGED wanted

Spec == Init /\ [][Next]_<<wanted, vars>>

(* Goroutines run, and a call once made goes on; nothing forces a call.    *)
FairSpec ==
  /\ Spec
  /\ \A s \in Streams : WF_vars(StreamStep(s))
  /\ \A w \in Pairs : WF_vars(SubscriberStep(w))
  /\ WF_vars(CloseStep)
-----------------------------------------------------------------------------
(* The types of the variables; a lock is held by an agent. *)
TypeOK ==
  /\ channelLock \in Agents \cup {Free}
  /\ streamLock \in [Streams -> {Free} \cup {Process(s) : s \in Streams}]
  /\ subLock \in [Subs -> {Free} \cup {Call(w) : w \in wanted}]
  /\ announced \subseteq Streams /\ closed \in BOOLEAN /\ closedStreams \subseteq announced
  /\ process \in [Streams -> {"none", "select", "locking", "fanout", "done"}]
  /\ rest \in [Streams -> SUBSET Subs] /\ members \in [Streams -> SUBSET Subs]
  /\ \A s \in Streams : accepted[s] \in 0 .. MaxMessages[s]
  /\ entries \subseteq wanted
  /\ \A w \in wanted : queue[w] \in Seq(1 .. MaxMessages[w[2]]) /\ Len(queue[w]) <= QueueSize
  /\ closer \in {"idle", "closing", "returned"}

Content(q) == {q[k] : k \in DOMAIN q}
Subscribed(w) == reader[w] = "reading"

(* A reader gets messages in the order in which they were published, none *)
(* twice, and none that was handed out before it subscribed, although      *)
(* Subscribe may come between a message and its fanout.                    *)
ReceivedInOrder ==
  \A w \in wanted : \A k \in DOMAIN received[w] :
    received[w][k] > IF k = 1 THEN since[w] ELSE received[w][k - 1]

(* Between two messages of a stream, each message that was not handed out  *)
(* before the subscription has been read, waits in the queue, or was dropped    *)
(* because the queue was full: none slips through while subscribers come   *)
(* and go.                                                                 *)
NoneForgotten ==
  \A w \in wanted :
    Subscribed(w) /\ process[w[2]] \in {"select", "done"} =>
      since[w] + 1 .. accepted[w[2]]
        \subseteq Content(received[w]) \cup Content(queue[w]) \cup dropped[w]

(* Wait-for relation: an agent waits for the holder of the lock it asks    *)
(* for, Close waits for the goroutine of the stream it closed.             *)
WaitsFor(a, b) ==
  \/ \E w \in wanted :
       /\ a = Call(w)
       /\ \/ reader[w] \in {"subscribe", "unsubscribe"} /\ channelLock = b
          \/ reader[w] \in {"subscribe stream", "unsubscribe stream"}
             /\ streamLock[w[2]] = b
  \/ \E s \in Streams :
       /\ a = Process(s)
       /\ \/ process[s] = "locking" /\ streamLock[s] = b
          \/ process[s] = "fanout" /\ \E u \in rest[s] : subLock[u] = b
  \/ /\ a = Closer /\ closer = "closing"
     /\ \E s \in closedStreams : b = Process(s) /\ process[s] # "done"

Deadlocked(D) == D # {} /\ \A a \in D : \E b \in D : WaitsFor(a, b)

(* The one way to deadlock: a Subscriber that is registered with a stream  *)
(* subscribes to another, and waits for the Channel's lock, while the      *)
(* fanout of the first stream waits for that Subscriber's lock.            *)
DeadlockNeedsSecondSubscribe ==
  \A D \in SUBSET Agents :
    Deadlocked(D) =>
      \E w \in wanted : \E s \in Streams \ {w[2]} :
        /\ Call(w) \in D /\ reader[w] = "subscribe"
        /\ Process(s) \in D /\ w[1] \in rest[s]

(* Subscribe, unsubscribe and Close return, whatever fanouts, reads and    *)
(* other calls run meanwhile, if each Subscriber uses one stream only.     *)
OneStreamEach == \A v, w \in wanted : v[1] = w[1] => v = w
InCall(w) == reader[w] \notin {"new", "reading", "stopped"}
CallsReturn ==
  OneStreamEach =>
    /\ (closer = "closing") ~> (closer = "returned")
    /\ \A w \in Pairs : InCall(w) ~> ~InCall(w)
=============================================================================
