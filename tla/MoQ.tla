-------------------------------- MODULE MoQ --------------------------------
(***************************************************************************)
(* Media over QUIC: the publisher moq-pub and its subscribers moq-sub.     *)
(* One LocalTrack is written by a clock and shared by all connections; the *)
(* Listener hands each connection to a goroutine, which sets a session up  *)
(* and adds the track to the Transport of that connection.  The session    *)
(* calls HandleSubscribe from a goroutine of its own, from the moment the  *)
(* set-up is done.                                                         *)
(*                                                                         *)
(* moqtransport and quic-go are external.  Each object goes out on a new   *)
(* stream, so objects overtake each other; all have the same group and     *)
(* object id.  The publisher never closes a stream, and a connection lets  *)
(* it open StreamLimit of them.                                            *)
(***************************************************************************)
EXTENDS Naturals, Sequences

CONSTANTS
  Clients,
  Breakable,     \* bound: clients whose connection may break
  StreamLimit,   \* streams that one side of a QUIC connection may have open
  MaxObjects     \* bound: how often the clock ticks

ASSUME ConstantsOK == Breakable \subseteq Clients /\ StreamLimit \in Nat /\ MaxObjects \in Nat

VARIABLES
  (* connections and Listener *)
  conn,          \* none, open or broken
  asks,          \* what a client subscribes to
  handler,       \* the goroutine that runs handler.Handle
  (* Transport *)
  namespaces,    \* the one key of Transport.namespaces: absent, being written, present
  tracks,        \* whether its namespace holds the track
  subscription,  \* how far handleSubscription is, or what it answered
  (* LocalTrack *)
  members,       \* subscribers
  written,       \* number of objects written; the last is at hand
  busy, rest,    \* Write holds the lock; the subscribers it has still to serve
  streams,       \* streams it has opened on a connection
  (* moq-sub *)
  client,
  inflight,      \* objects on their way to a client
  held,          \* object that run writes into the pipe, or 0
  read,
  (* history *)
  crashed,       \* the publisher panicked
  since          \* number of objects written before SUBSCRIBE_OK was sent

transportVars == <<handler, namespaces, tracks, subscription>>
writerVars == <<written, busy, rest, streams>>
clientVars == <<client, inflight, held, read>>
vars == <<conn, asks, transportVars, members, writerVars, clientVars, crashed, since>>

Connected(c) == conn[c] = "open"
-----------------------------------------------------------------------------
(* A client dials; the connection may break at any time. *)
Dial(c) ==
  /\ conn[c] = "none"
  /\ conn' = [conn EXCEPT ![c] = "open"]
  /\ UNCHANGED <<asks, transportVars, members, writerVars, clientVars,
                 crashed, since>>

Break(c) ==
  /\ c \in Breakable /\ Connected(c)
  /\ conn' = [conn EXCEPT ![c] = "broken"]
  /\ inflight' = [inflight EXCEPT ![c] = {}]
  /\ UNCHANGED <<asks, transportVars, members, writerVars, client, held,
                 read, crashed, since>>

(* Listener.ListenAndHandle starts a goroutine for a connection.  Close of  *)
(* the Listener has no caller.                                             *)
Accept(c) ==
  /\ conn[c] # "none" /\ handler[c] = "none"
  /\ handler' = [handler EXCEPT ![c] = "new session"]
  /\ UNCHANGED <<conn, asks, namespaces, tracks, subscription, members, writerVars,
                 clientVars, crashed, since>>

-----------------------------------------------------------------------------
(* moq.New on both sides: the sessions exchange their set-up, or fail. *)
NewSession(c) ==
  /\ handler[c] = "new session" /\ Connected(c)
  /\ handler' = [handler EXCEPT ![c] = "look up"]
  /\ client' = [client EXCEPT ![c] = "set up"]
  /\ UNCHANGED <<conn, asks, namespaces, tracks, subscription, members, writerVars,
                 inflight, held, read, crashed, since>>

NewSessionFails(c) ==
  /\ handler[c] = "new session" /\ ~Connected(c)
  /\ handler' = [handler EXCEPT ![c] = "failed"]
  /\ client' = [client EXCEPT ![c] = "gone"]
  /\ UNCHANGED <<conn, asks, namespaces, tracks, subscription, members, writerVars,
                 inflight, held, read, crashed, since>>

(* Transport.AddTrack: put a new namespace into the map, which no lock     *)
(* guards, then the track into the namespace.                              *)
StoreNamespace(c) ==
  /\ handler[c] = "look up"
  /\ handler' = [handler EXCEPT ![c] = "storing"]
  /\ namespaces' = [namespaces EXCEPT ![c] = "being written"]
  /\ UNCHANGED <<conn, asks, tracks, subscription, members, writerVars, clientVars,
                 crashed, since>>
NamespaceStored(c) ==
  /\ handler[c] = "storing"
  /\ handler' = [handler EXCEPT ![c] = "adding"]
  /\ namespaces' = [namespaces EXCEPT ![c] = "present"]
  /\ UNCHANGED <<conn, asks, tracks, subscription, members, writerVars, clientVars,
                 crashed, since>>
AddTrackToCopy(c) ==
  /\ handler[c] = "adding"
  /\ handler' = [handler EXCEPT ![c] = "done"]
  /\ UNCHANGED <<conn, asks, namespaces, tracks, subscription, members, writerVars,
                 clientVars, crashed, since>>
AddTrack(c) ==
  /\ handler[c] = "adding"
  /\ handler' = [handler EXCEPT ![c] = "done"]
  /\ tracks' = [tracks EXCEPT ![c] = TRUE]
  /\ UNCHANGED <<conn, asks, namespaces, subscription, members, writerVars, clientVars,
                 crashed, since>>
-----------------------------------------------------------------------------
(* moq-sub asks for the clock, other subscribers for whatever they like. *)
Requests == {"clock", "other track of the clock", "other namespace"}
Subscribe(c) ==
  /\ client[c] = "set up" /\ Connected(c)
  /\ client' = [client EXCEPT ![c] = "subscribing"]
  /\ subscription' = [subscription EXCEPT ![c] = "asked"]
  /\ \E request \in Requests : asks' = [asks EXCEPT ![c] = request]
  /\ UNCHANGED <<conn, handler, namespaces, tracks, members, writerVars, inflight,
                 held, read, crashed, since>>

(* Transport.handleSubscription, first lines: read the map.  A read during *)
(* the write finds the key or not, or the runtime ends the process.        *)
LookUpNamespace(c) ==
  /\ subscription[c] = "asked"
  /\ \/ /\ namespaces[c] \in {"absent", "being written"} \/ asks[c] = "other namespace"
        /\ subscription' = [subscription EXCEPT ![c] = "rejected"]
        /\ UNCHANGED crashed
     \/ /\ namespaces[c] \in {"present", "being written"} /\ asks[c] # "other namespace"
        /\ subscription' = [subscription EXCEPT ![c] = "found namespace"]
        /\ UNCHANGED crashed
     \/ /\ namespaces[c] = "being written"
        /\ crashed' = TRUE
        /\ UNCHANGED subscription
  /\ UNCHANGED <<conn, asks, handler, namespaces, tracks, members, writerVars, clientVars,
                 since>>

(* findTrack gives nil for an unknown track; the test after it looks at    *)
(* the Transport, so subscribe is called on nil.                           *)
FindTrack(c) ==
  /\ subscription[c] = "found namespace"
  /\ IF tracks[c] /\ asks[c] = "clock"
     THEN /\ subscription' = [subscription EXCEPT ![c] = "found track"]
          /\ UNCHANGED crashed
     ELSE /\ crashed' = TRUE
          /\ UNCHANGED subscription
  /\ UNCHANGED <<conn, asks, handler, namespaces, tracks, members, writerVars, clientVars,
                 since>>

(* LocalTrack.subscribe takes the lock of the track. *)
Register(c) ==
  /\ subscription[c] = "found track" /\ ~busy
  /\ members' = members \cup {c}
  /\ subscription' = [subscription EXCEPT ![c] = "registered"]
  /\ UNCHANGED <<conn, asks, handler, namespaces, tracks, writerVars, clientVars, crashed,
                 since>>

SendAccept(c) ==
  /\ subscription[c] = "registered"
  /\ subscription' = [subscription EXCEPT ![c] = "accepted"]
  /\ since' = [since EXCEPT ![c] = written]
  /\ UNCHANGED <<conn, asks, handler, namespaces, tracks, members, writerVars, clientVars,
                 crashed>>
-----------------------------------------------------------------------------
(* LocalTrack.Write, called by the clock.  Nobody closes the track. *)
WriteStarts ==
  /\ ~busy /\ written < MaxObjects
  /\ busy' = TRUE
  /\ written' = written + 1
  /\ rest' = members
  /\ UNCHANGED <<conn, asks, transportVars, members, streams, clientVars, crashed, since>>

(* OpenSubgroup and WriteObject for one subscriber. *)
MayOpen(c) == Connected(c) /\ streams[c] < StreamLimit
StopAtError(c) == {}
GoOn(c) == rest \ {c}
WriteTo(c) ==
  /\ busy /\ c \in rest /\ MayOpen(c)
  /\ streams' = [streams EXCEPT ![c] = @ + 1]
  /\ inflight' = [inflight EXCEPT ![c] = @ \cup {written}]
  /\ rest' = rest \ {c}
  /\ UNCHANGED <<conn, asks, transportVars, members, written, busy, client, held, read,
                 crashed, since>>
WriteToFails(c) ==
  /\ busy /\ c \in rest /\ ~MayOpen(c)
  /\ rest' = GoOn(c)
  /\ UNCHANGED <<conn, asks, transportVars, members, written, busy, streams, clientVars,
                 crashed, since>>

WriteKeepsLock ==
  /\ busy /\ rest = {} /\ \A c \in members : MayOpen(c)
  /\ busy' = FALSE
  /\ UNCHANGED <<conn, asks, transportVars, members, written, rest, streams, clientVars, crashed,
                 since>>
WriteReturns ==
  /\ busy /\ rest = {}
  /\ busy' = FALSE
  /\ UNCHANGED <<conn, asks, transportVars, members, written, rest, streams, clientVars,
                 crashed, since>>

-----------------------------------------------------------------------------
(* The reply arrives; moq-sub gives up when it is refused. *)
GetReply(c) ==
  /\ client[c] = "subscribing" /\ Connected(c)
  /\ \/ subscription[c] = "accepted" /\ client' = [client EXCEPT ![c] = "reading"]
     \/ subscription[c] = "rejected" /\ client' = [client EXCEPT ![c] = "gone"]
  /\ UNCHANGED <<conn, asks, transportVars, members, writerVars, inflight, held, read,
                 crashed, since>>

(* remoteTrack.run takes an object that has arrived, and stays in the      *)
(* write to the pipe until Read has taken it.                              *)
ReadObject(c) ==
  /\ client[c] = "reading" /\ held[c] = 0
  /\ \E o \in inflight[c] :
       /\ held' = [held EXCEPT ![c] = o]
       /\ inflight' = [inflight EXCEPT ![c] = @ \ {o}]
  /\ UNCHANGED <<conn, asks, transportVars, members, writerVars, client, read, crashed,
                 since>>
Read(c) ==
  /\ client[c] = "reading" /\ held[c] # 0
  /\ read' = [read EXCEPT ![c] = Append(@, held[c])]
  /\ held' = [held EXCEPT ![c] = 0]
  /\ UNCHANGED <<conn, asks, transportVars, members, writerVars, client, inflight,
                 crashed, since>>

(* An error of ReadObject, or of Subscribe, ends moq-sub. *)
ClientEnds(c) ==
  /\ client[c] \in {"set up", "subscribing", "reading"}
  /\ ~Connected(c)
  /\ client' = [client EXCEPT ![c] = "gone"]
  /\ UNCHANGED <<conn, asks, transportVars, members, writerVars, inflight, held, read,
                 crashed, since>>
-----------------------------------------------------------------------------
Init ==
  /\ conn = [c \in Clients |-> "none"] /\ asks = [c \in Clients |-> "nothing"]
  /\ handler = [c \in Clients |-> "none"]
  /\ namespaces = [c \in Clients |-> "absent"] /\ tracks = [c \in Clients |-> FALSE]
  /\ subscription = [c \in Clients |-> "none"]
  /\ members = {} /\ written = 0 /\ busy = FALSE /\ rest = {}
  /\ streams = [c \in Clients |-> 0]
  /\ client = [c \in Clients |-> "new"]
  /\ inflight = [c \in Clients |-> {}] /\ held = [c \in Clients |-> 0]
  /\ read = [c \in Clients |-> <<>>]
  /\ crashed = FALSE /\ since = [c \in Clients |-> 0]

Handle(c) ==
  \/ NewSession(c) \/ NewSessionFails(c)
  \/ StoreNamespace(c) \/ NamespaceStored(c) \/ AddTrack(c)
HandleSubscription(c) ==
  LookUpNamespace(c) \/ FindTrack(c) \/ Register(c) \/ SendAccept(c)
FinishWrite == WriteReturns \/ \E c \in Clients : WriteTo(c) \/ WriteToFails(c)
PublisherStep ==
  \/ WriteStarts \/ FinishWrite
  \/ \E c \in Clients : Accept(c) \/ Handle(c) \/ HandleSubscription(c)
ClientStep(c) == GetReply(c) \/ ReadObject(c) \/ Read(c) \/ ClientEnds(c)

Next ==
  /\ ~crashed
  /\ \/ PublisherStep
     \/ \E c \in Clients : Dial(c) \/ Break(c) \/ Subscribe(c) \/ ClientStep(c)

Spec == Init /\ [][Next]_vars

(* Goroutines run; nobody has to connect, subscribe or tick.               *)
FairSpec ==
  /\ Spec
  /\ WF_vars(~crashed /\ FinishWrite)
  /\ \A c \in Clients :
       /\ WF_vars(~crashed /\ Handle(c)) /\ WF_vars(~crashed /\ HandleSubscription(c))
       /\ WF_vars(~crashed /\ ClientStep(c))
-----------------------------------------------------------------------------
(* The types of the variables. *)
TypeOK ==
  /\ conn \in [Clients -> {"none", "open", "broken"}]
  /\ asks \in [Clients -> Requests \cup {"nothing"}]
  /\ handler \in [Clients -> {"none", "new session", "look up", "storing", "adding", "done",
                             "failed"}]
  /\ namespaces \in [Clients -> {"absent", "being written", "present"}]
  /\ tracks \in [Clients -> BOOLEAN]
  /\ subscription \in [Clients -> {"none", "asked", "found namespace", "found track",
                                  "registered", "accepted", "rejected"}]
  /\ members \subseteq Clients /\ rest \subseteq members
  /\ written \in 0 .. MaxObjects /\ busy \in BOOLEAN /\ (busy => written > 0)
  /\ streams \in [Clients -> 0 .. StreamLimit]
  /\ client \in [Clients -> {"new", "set up", "subscribing", "reading", "gone"}]
  /\ inflight \in [Clients -> SUBSET (1 .. MaxObjects)] /\ held \in [Clients -> 0 .. MaxObjects]
  /\ read \in [Clients -> Seq(1 .. MaxObjects)]
  /\ crashed \in BOOLEAN /\ since \in [Clients -> 0 .. MaxObjects]

Content(q) == {q[k] : k \in DOMAIN q}
Reads(c) == client[c] = "reading" /\ Connected(c)

(* A subscription that was accepted misses none of the objects written     *)
(* from then on, whatever happens to the other connections, as long as the *)
(* connection lets the publisher open one more stream.                     *)
NoneMissed ==
  \A c \in Clients :
    Reads(c) /\ streams[c] < StreamLimit /\ ~(busy /\ c \in rest) =>
      since[c] + 1 .. written \subseteq Content(read[c]) \cup {held[c]} \cup inflight[c]

(* The publisher panics, and ends all its sessions, only while AddTrack of *)
(* some connection is under way, or for a client that asked for a track    *)
(* that the clock's namespace does not have: a subscription to the clock   *)
(* is safe once Handle has returned, and so is any other namespace.        *)
CrashOnlyForMissingTrack ==
  crashed =>
    \E c \in Clients :
      \/ handler[c] \in {"storing", "adding"}
      \/ subscription[c] = "found namespace" /\ asks[c] = "other track of the clock"

(* A SUBSCRIBE is answered although the clock takes the lock of the track  *)
(* again and again, and what was sent to a reader gets through the pipe,   *)
(* unless the connection or the publisher breaks.                          *)
SubscribersAreServed ==
  \A c \in Clients :
    /\ (client[c] = "subscribing") ~> (client[c] # "subscribing" \/ crashed)
    /\ \A o \in 1 .. MaxObjects :
         (Reads(c) /\ o \in inflight[c])
           ~> (o \in Content(read[c]) \/ ~Connected(c) \/ crashed)
=============================================================================
