------------------------------ MODULE MoQProofs ------------------------------
(***************************************************************************)
(* The publisher of moq, for any number of clients, objects and streams:   *)
(* when it panics, and what its subscribers miss.                          *)
(***************************************************************************)
EXTENDS MoQ, TLAPS

(* How far Handle is, how far the map of the Transport is, and how far the *)
(* subscription got belong together.                                       *)
Adding ==
  \A c \in Clients :
    /\ namespaces[c] = "being written" <=> handler[c] = "storing"
    /\ namespaces[c] = "present" => handler[c] \in {"adding", "done"}
    /\ handler[c] = "done" => tracks[c]
    /\ subscription[c] = "asked" => asks[c] \in Requests
    /\ subscription[c] = "found namespace" =>
         namespaces[c] # "absent" /\ asks[c] \in {"clock", "other track of the clock"}

(* A subscription that found its track has it registered before it is      *)
(* accepted, a reader was accepted, and a subscription has a connection.   *)
Registered ==
  \A c \in Clients :
    /\ subscription[c] \in {"registered", "accepted"} => c \in members
    /\ client[c] = "reading" => subscription[c] = "accepted"
    /\ subscription[c] # "none" => conn[c] # "none"

(* What was written since the subscription was accepted and not handed     *)
(* over: the object at hand, as long as Write has not come to the client.  *)
ToCome(c) == IF busy /\ c \in rest THEN {written} ELSE {}
Has(c) == Content(read[c]) \cup {held[c]} \cup inflight[c]
Delivered ==
  \A c \in Clients :
    subscription[c] = "accepted" /\ Connected(c) /\ streams[c] < StreamLimit =>
      (since[c] + 1 .. written) \ ToCome(c) \subseteq Has(c)

IInv == TypeOK /\ Adding /\ CrashOnlyForMissingTrack /\ Registered /\ Delivered

(* The invariant holds at the start. *)
THEOREM InitInvariant == Init => IInv
<1> SUFFICES ASSUME Init PROVE IInv
  OBVIOUS
<1> USE ConstantsOK DEF ConstantsOK, Init
<1>1. TypeOK
  <2>1. 0 \in 0 .. MaxObjects /\ 0 \in 0 .. StreamLimit
    OBVIOUS
  <2>2. /\ written \in 0 .. MaxObjects
        /\ streams \in [Clients -> 0 .. StreamLimit]
        /\ held \in [Clients -> 0 .. MaxObjects] /\ since \in [Clients -> 0 .. MaxObjects]
    BY <2>1
  <2>3. read \in [Clients -> Seq(1 .. MaxObjects)]
    <3>1. <<>> \in Seq(1 .. MaxObjects)
      OBVIOUS
    <3> QED
      BY <3>1
  <2>4. inflight \in [Clients -> SUBSET (1 .. MaxObjects)]
    OBVIOUS
  <2> QED
    BY <2>2, <2>3, <2>4 DEF TypeOK
<1>2. Adding /\ CrashOnlyForMissingTrack /\ Registered /\ Delivered
  BY DEF Adding, CrashOnlyForMissingTrack, Registered, Delivered
<1> QED
  BY <1>1, <1>2 DEF IInv

(* What the network, the clock and the clients leave alone. *)
LEMMA OthersLeaveTransport ==
  /\ WriteStarts \/ FinishWrite => UNCHANGED <<transportVars, client, members, crashed, since, conn, asks>>
  /\ \A c \in Clients :
       /\ Dial(c) \/ Break(c) => UNCHANGED <<transportVars, client, members, crashed, since, asks>>
       /\ ClientStep(c) => UNCHANGED <<transportVars, members, crashed, since, conn, asks>>
       /\ Accept(c) \/ Handle(c) => UNCHANGED <<subscription, crashed, members, since, conn, asks>>
<1> USE DEF transportVars, writerVars, clientVars
<1>1. WriteStarts \/ WriteReturns =>
        UNCHANGED <<transportVars, client, members, crashed, since, conn, asks>>
  BY DEF WriteStarts, WriteReturns
<1>2. ASSUME NEW c \in Clients, WriteTo(c) \/ WriteToFails(c)
      PROVE  UNCHANGED <<transportVars, client, members, crashed, since, conn, asks>>
  BY <1>2 DEF WriteTo, WriteToFails
<1>3. ASSUME NEW c \in Clients, Dial(c) \/ Break(c)
      PROVE  UNCHANGED <<transportVars, client, members, crashed, since, asks>>
  BY <1>3 DEF Dial, Break
<1>4. ASSUME NEW c \in Clients, ClientStep(c)
      PROVE  UNCHANGED <<transportVars, members, crashed, since, conn, asks>>
  BY <1>4 DEF ClientStep, GetReply, ReadObject, Read, ClientEnds
<1>5. ASSUME NEW c \in Clients, Accept(c) \/ Handle(c)
      PROVE  UNCHANGED <<subscription, crashed, members, since, conn, asks>>
  BY <1>5 DEF Accept, Handle, NewSession, NewSessionFails, StoreNamespace, NamespaceStored, AddTrack
<1> QED
  BY <1>1, <1>2, <1>3, <1>4, <1>5 DEF FinishWrite

(* The counters and the sequences, apart from the other types. *)
LEMMA CounterTypes ==
  /\ \A n \in 0 .. MaxObjects : n < MaxObjects => n + 1 \in 0 .. MaxObjects /\ n + 1 > 0
  /\ \A n \in 0 .. MaxObjects : n > 0 => n \in 1 .. MaxObjects
  /\ \A n \in 0 .. MaxObjects : n # 0 => n \in 1 .. MaxObjects
  /\ \A n \in 1 .. MaxObjects : n \in 0 .. MaxObjects
  /\ \A n \in 0 .. StreamLimit : n < StreamLimit => n + 1 \in 0 .. StreamLimit
  /\ 0 \in 0 .. MaxObjects
BY ConstantsOK DEF ConstantsOK

(* What a client is due, as an interval of objects. *)
LEMMA Intervals ==
  /\ \A n \in 0 .. MaxObjects : n + 1 .. n = {}
  /\ \A n, m \in 0 .. MaxObjects : 0 \notin n + 1 .. m
  /\ \A n, m \in 0 .. MaxObjects : (n + 1 .. m + 1) \ {m + 1} \subseteq n + 1 .. m
<1>1. ASSUME NEW n \in 0 .. MaxObjects, NEW m \in 0 .. MaxObjects,
             NEW k \in (n + 1 .. m + 1) \ {m + 1}
      PROVE  k \in n + 1 .. m
  <2>1. n \in Nat /\ m \in Nat /\ k \in Nat /\ n + 1 <= k /\ k <= m + 1 /\ k # m + 1
    BY ConstantsOK DEF ConstantsOK
  <2>2. k <= m
    BY <2>1
  <2> QED
    BY <2>1, <2>2
<1> QED
  BY <1>1, ConstantsOK DEF ConstantsOK

LEMMA OneMore ==
  ASSUME NEW S, NEW D, NEW f \in [D -> S], NEW c \in D, NEW x \in S
  PROVE  [f EXCEPT ![c] = x] \in [D -> S]
OBVIOUS

LEMMA OneLonger ==
  ASSUME NEW s \in Seq(1 .. MaxObjects), NEW x \in 1 .. MaxObjects
  PROVE  Append(s, x) \in Seq(1 .. MaxObjects) /\ Content(Append(s, x)) = Content(s) \cup {x}
<1>1. Append(s, x) \in Seq(1 .. MaxObjects)
  OBVIOUS
<1>2. /\ Len(Append(s, x)) = Len(s) + 1 /\ Append(s, x)[Len(s) + 1] = x
      /\ \A k \in 1 .. Len(s) : Append(s, x)[k] = s[k]
      /\ DOMAIN s = 1 .. Len(s) /\ DOMAIN Append(s, x) = 1 .. Len(s) + 1
      /\ Len(s) \in Nat
  OBVIOUS
<1>3. \A k \in 1 .. Len(s) + 1 : k \in 1 .. Len(s) \/ k = Len(s) + 1
  BY <1>2
<1>4. Len(s) + 1 \in 1 .. Len(s) + 1 /\ \A k \in 1 .. Len(s) : k \in 1 .. Len(s) + 1
  BY <1>2
<1> QED
  BY <1>1, <1>2, <1>3, <1>4, Zenon DEF Content

(* Every step keeps the types. *)
LEMMA TypeStep == TypeOK /\ [Next]_vars => TypeOK'
<1> SUFFICES ASSUME TypeOK, [Next]_vars PROVE TypeOK'
  OBVIOUS
<1> USE ConstantsOK DEF ConstantsOK, TypeOK
<1>1. ASSUME NEW c \in Clients, Dial(c) PROVE TypeOK'
  BY <1>1 DEF Dial, transportVars, writerVars, clientVars
<1>2. ASSUME NEW c \in Clients, Break(c) PROVE TypeOK'
  BY <1>2 DEF Break, transportVars, writerVars, clientVars
<1>3. ASSUME NEW c \in Clients, Accept(c) PROVE TypeOK'
  BY <1>3 DEF Accept, transportVars, writerVars, clientVars
<1>4. ASSUME NEW c \in Clients, NewSession(c) PROVE TypeOK'
  BY <1>4 DEF NewSession, transportVars, writerVars, clientVars
<1>5. ASSUME NEW c \in Clients, NewSessionFails(c) PROVE TypeOK'
  BY <1>5 DEF NewSessionFails, transportVars, writerVars, clientVars
<1>6. ASSUME NEW c \in Clients, StoreNamespace(c) PROVE TypeOK'
  BY <1>6 DEF StoreNamespace, transportVars, writerVars, clientVars
<1>7. ASSUME NEW c \in Clients, NamespaceStored(c) PROVE TypeOK'
  BY <1>7 DEF NamespaceStored, transportVars, writerVars, clientVars
<1>8. ASSUME NEW c \in Clients, AddTrack(c) PROVE TypeOK'
  BY <1>8 DEF AddTrack, transportVars, writerVars, clientVars
<1>9. ASSUME NEW c \in Clients, Subscribe(c) PROVE TypeOK'
  BY <1>9 DEF Subscribe, transportVars, writerVars, clientVars
<1>10. ASSUME NEW c \in Clients, LookUpNamespace(c) PROVE TypeOK'
  BY <1>10 DEF LookUpNamespace, transportVars, writerVars, clientVars
<1>11. ASSUME NEW c \in Clients, FindTrack(c) PROVE TypeOK'
  BY <1>11 DEF FindTrack, transportVars, writerVars, clientVars
<1>12. ASSUME NEW c \in Clients, Register(c) PROVE TypeOK'
  BY <1>12 DEF Register, transportVars, writerVars, clientVars
<1>13. ASSUME NEW c \in Clients, SendAccept(c) PROVE TypeOK'
  BY <1>13 DEF SendAccept, transportVars, writerVars, clientVars
<1>14. CASE WriteStarts
  <2>1. written' \in 0 .. MaxObjects /\ written' > 0
    BY <1>14, CounterTypes DEF WriteStarts
  <2>2. rest' \subseteq members'
    BY <1>14 DEF WriteStarts
  <2>3. UNCHANGED <<conn, asks, transportVars, members, streams, clientVars, crashed, since>> /\ busy' = TRUE
    BY <1>14 DEF WriteStarts
  <2> QED
    BY <2>1, <2>2, <2>3 DEF transportVars, clientVars
<1>15. ASSUME NEW c \in Clients, WriteTo(c) PROVE TypeOK'
  <2>1. written \in 1 .. MaxObjects
    BY <1>15, CounterTypes DEF WriteTo
  <2>2. streams' \in [Clients -> 0 .. StreamLimit]
    <3>1. streams[c] + 1 \in 0 .. StreamLimit
      BY <1>15, CounterTypes DEF WriteTo, MayOpen
    <3> QED
      BY <1>15, <3>1, OneMore DEF WriteTo
  <2>3. inflight' \in [Clients -> SUBSET (1 .. MaxObjects)]
    BY <1>15, <2>1 DEF WriteTo
  <2>4. rest' \subseteq members'
    BY <1>15 DEF WriteTo
  <2> QED
    BY <1>15, <2>2, <2>3, <2>4 DEF WriteTo, transportVars
<1>16. ASSUME NEW c \in Clients, WriteToFails(c) PROVE TypeOK'
  <2>1. rest' \subseteq members'
    BY <1>16 DEF WriteToFails, GoOn
  <2> QED
    BY <1>16, <2>1 DEF WriteToFails, transportVars, clientVars
<1>17. CASE WriteReturns
  BY <1>17 DEF WriteReturns, transportVars, writerVars, clientVars
<1>18. ASSUME NEW c \in Clients, GetReply(c) PROVE TypeOK'
  BY <1>18 DEF GetReply, transportVars, writerVars, clientVars
<1>19. ASSUME NEW c \in Clients, ReadObject(c) PROVE TypeOK'
  <2>1. PICK o \in inflight[c] :
          /\ held' = [held EXCEPT ![c] = o]
          /\ inflight' = [inflight EXCEPT ![c] = @ \ {o}]
    BY <1>19 DEF ReadObject
  <2>2. held' \in [Clients -> 0 .. MaxObjects]
    <3>1. o \in 0 .. MaxObjects
      BY CounterTypes
    <3> QED
      BY <2>1, <3>1, OneMore
  <2>3. inflight' \in [Clients -> SUBSET (1 .. MaxObjects)]
    BY <2>1
  <2> QED
    BY <1>19, <2>2, <2>3 DEF ReadObject, transportVars, writerVars
<1>20. ASSUME NEW c \in Clients, Read(c) PROVE TypeOK'
  <2>1. held[c] \in 1 .. MaxObjects
    BY <1>20, CounterTypes DEF Read
  <2>2. read' \in [Clients -> Seq(1 .. MaxObjects)]
    <3>1. Append(read[c], held[c]) \in Seq(1 .. MaxObjects)
      BY <2>1, OneLonger
    <3>2. read' = [read EXCEPT ![c] = Append(read[c], held[c])]
      BY <1>20 DEF Read
    <3> QED
      BY <3>1, <3>2, OneMore
  <2>3. held' \in [Clients -> 0 .. MaxObjects]
    BY <1>20, CounterTypes, OneMore DEF Read
  <2> QED
    BY <1>20, <2>2, <2>3 DEF Read, transportVars, writerVars
<1>21. ASSUME NEW c \in Clients, ClientEnds(c) PROVE TypeOK'
  BY <1>21 DEF ClientEnds, transportVars, writerVars, clientVars
<1>22. CASE UNCHANGED vars
  BY <1>22 DEF vars, transportVars, writerVars, clientVars
<1> QED
  BY <1>1, <1>2, <1>3, <1>4, <1>5, <1>6, <1>7, <1>8, <1>9, <1>10, <1>11,
     <1>12, <1>13, <1>14, <1>15, <1>16, <1>17, <1>18, <1>19, <1>20, <1>21, <1>22
  DEF Next, PublisherStep, Handle, HandleSubscription, FinishWrite, ClientStep

(* Handle and HandleSubscribe of one connection move past each other. *)
LEMMA AddingStep == TypeOK /\ Adding /\ [Next]_vars => Adding'
<1> SUFFICES ASSUME TypeOK, Adding, [Next]_vars PROVE Adding'
  OBVIOUS
<1>t. /\ namespaces \in [Clients -> {"absent", "being written", "present"}]
      /\ tracks \in [Clients -> BOOLEAN]
      /\ DOMAIN handler = Clients /\ DOMAIN subscription = Clients
      /\ asks \in [Clients -> Requests \cup {"nothing"}]
  BY DEF TypeOK
<1>u. ASSUME UNCHANGED <<transportVars, asks>> PROVE Adding'
  BY <1>u DEF transportVars, Adding
<1>1. CASE WriteStarts \/ FinishWrite \/ UNCHANGED vars
  BY <1>1, <1>u, OthersLeaveTransport DEF vars
<1>2. ASSUME NEW c \in Clients, Dial(c) \/ Break(c) \/ ClientStep(c) PROVE Adding'
  BY <1>2, <1>u, OthersLeaveTransport
<1> USE <1>t DEF Adding
<1>3. ASSUME NEW c \in Clients, Accept(c) PROVE Adding'
  BY <1>3 DEF Accept
<1>4. ASSUME NEW c \in Clients, NewSession(c) PROVE Adding'
  BY <1>4 DEF NewSession
<1>5. ASSUME NEW c \in Clients, NewSessionFails(c) PROVE Adding'
  BY <1>5 DEF NewSessionFails
<1>6. ASSUME NEW c \in Clients, StoreNamespace(c) PROVE Adding'
  BY <1>6 DEF StoreNamespace
<1>7. ASSUME NEW c \in Clients, NamespaceStored(c) PROVE Adding'
  BY <1>7 DEF NamespaceStored
<1>8. ASSUME NEW c \in Clients, AddTrack(c) PROVE Adding'
  BY <1>8 DEF AddTrack
<1>9. ASSUME NEW c \in Clients, Subscribe(c) PROVE Adding'
  BY <1>9 DEF Subscribe
<1>10. ASSUME NEW c \in Clients, LookUpNamespace(c) PROVE Adding'
  BY <1>10 DEF LookUpNamespace, Requests
<1>11. ASSUME NEW c \in Clients, FindTrack(c) PROVE Adding'
  BY <1>11 DEF FindTrack
<1>12. ASSUME NEW c \in Clients, Register(c) PROVE Adding'
  BY <1>12 DEF Register
<1>13. ASSUME NEW c \in Clients, SendAccept(c) PROVE Adding'
  BY <1>13 DEF SendAccept
<1> QED
  BY <1>1, <1>2, <1>3, <1>4, <1>5, <1>6, <1>7, <1>8, <1>9, <1>10, <1>11, <1>12, <1>13
  DEF Next, PublisherStep, Handle, HandleSubscription

(* The map and the namespace can be looked at too early only while Handle  *)
(* of that connection is in AddTrack; later the clock is there.            *)
LEMMA CrashStep ==
  TypeOK /\ Adding /\ CrashOnlyForMissingTrack /\ [Next]_vars => CrashOnlyForMissingTrack'
<1> SUFFICES ASSUME TypeOK, Adding, CrashOnlyForMissingTrack, [Next]_vars
             PROVE  CrashOnlyForMissingTrack'
  OBVIOUS
<1>1. CASE UNCHANGED vars
  BY <1>1 DEF vars, transportVars, CrashOnlyForMissingTrack
<1>2. ASSUME ~crashed, UNCHANGED crashed PROVE CrashOnlyForMissingTrack'
  BY <1>2 DEF CrashOnlyForMissingTrack
<1>3. ASSUME NEW c \in Clients, LookUpNamespace(c), ~crashed PROVE CrashOnlyForMissingTrack'
  <2>1. CASE UNCHANGED crashed
    BY <1>2, <1>3, <2>1
  <2>2. CASE namespaces[c] = "being written"
    <3>1. handler[c] = "storing" /\ UNCHANGED handler
      BY <1>3, <2>2 DEF LookUpNamespace, Adding
    <3> QED
      BY <3>1 DEF CrashOnlyForMissingTrack
  <2> QED
    BY <1>3, <2>1, <2>2 DEF LookUpNamespace
<1>4. ASSUME NEW c \in Clients, FindTrack(c), ~crashed PROVE CrashOnlyForMissingTrack'
  <2>0. /\ subscription[c] = "found namespace" /\ UNCHANGED <<handler, asks>>
        /\ namespaces[c] # "absent" /\ asks[c] \in {"clock", "other track of the clock"}
    BY <1>4 DEF FindTrack, Adding
  <2>1. CASE UNCHANGED crashed
    BY <1>2, <1>4, <2>1
  <2>2. CASE ~tracks[c]
    <3>1. handler[c] # "done" /\ namespaces[c] \in {"being written", "present"}
      BY <2>0, <2>2 DEF TypeOK, Adding
    <3>2. handler[c] \in {"storing", "adding"}
      BY <3>1 DEF Adding
    <3> QED
      BY <2>0, <3>2 DEF CrashOnlyForMissingTrack
  <2>3. CASE asks[c] # "clock" /\ UNCHANGED subscription
    BY <2>0, <2>3 DEF CrashOnlyForMissingTrack
  <2> QED
    BY <1>4, <2>1, <2>2, <2>3 DEF FindTrack
<1>5. CASE ~crashed /\ (WriteStarts \/ FinishWrite)
  BY <1>2, <1>5, OthersLeaveTransport
<1>6. ASSUME NEW c \in Clients, ~crashed,
             Accept(c) \/ Handle(c) \/ Dial(c) \/ Break(c) \/ ClientStep(c)
      PROVE  CrashOnlyForMissingTrack'
  BY <1>2, <1>6, OthersLeaveTransport
<1>7. ASSUME NEW c \in Clients, ~crashed, Register(c) \/ SendAccept(c) \/ Subscribe(c)
      PROVE  CrashOnlyForMissingTrack'
  BY <1>2, <1>7 DEF Register, SendAccept, Subscribe
<1> QED
  BY <1>1, <1>3, <1>4, <1>5, <1>6, <1>7 DEF Next, PublisherStep, HandleSubscription

(* subscribe comes before Accept of the response writer. *)
LEMMA RegisteredStep == TypeOK /\ Registered /\ [Next]_vars => Registered'
<1> SUFFICES ASSUME TypeOK, Registered, [Next]_vars PROVE Registered'
  OBVIOUS
<1>t. DOMAIN subscription = Clients /\ DOMAIN client = Clients /\ DOMAIN conn = Clients
  BY DEF TypeOK
<1>u. ASSUME UNCHANGED <<subscription, client, members, conn>> PROVE Registered'
  BY <1>u DEF Registered
<1>1. CASE WriteStarts \/ FinishWrite \/ UNCHANGED vars
  BY <1>1, <1>u, OthersLeaveTransport DEF vars, transportVars, clientVars
<1>2. ASSUME NEW c \in Clients, Dial(c) \/ Break(c) PROVE Registered'
  <2>1. UNCHANGED <<subscription, client, members>>
    BY <1>2, OthersLeaveTransport DEF transportVars
  <2>2. \E x \in {"open", "broken"} : conn' = [conn EXCEPT ![c] = x]
    BY <1>2 DEF Dial, Break
  <2> QED
    BY <1>t, <2>1, <2>2 DEF Registered
<1>3. ASSUME NEW c \in Clients, Accept(c) \/ Handle(c) PROVE Registered'
  <2>1. UNCHANGED <<subscription, members, conn>>
    BY <1>3, OthersLeaveTransport
  <2>2. client' = client \/ \E x \in {"set up", "gone"} : client' = [client EXCEPT ![c] = x]
    BY <1>3 DEF Accept, Handle, NewSession, NewSessionFails, StoreNamespace, NamespaceStored,
                AddTrack, clientVars
  <2> QED
    BY <1>t, <2>1, <2>2 DEF Registered
<1> USE <1>t DEF Registered
<1>4. ASSUME NEW c \in Clients, Subscribe(c) PROVE Registered'
  BY <1>4 DEF Subscribe, Connected
<1>5. ASSUME NEW c \in Clients, LookUpNamespace(c) PROVE Registered'
  BY <1>5 DEF LookUpNamespace, clientVars
<1>6. ASSUME NEW c \in Clients, FindTrack(c) PROVE Registered'
  BY <1>6 DEF FindTrack, clientVars
<1>7. ASSUME NEW c \in Clients, Register(c) PROVE Registered'
  BY <1>7 DEF Register, clientVars
<1>8. ASSUME NEW c \in Clients, SendAccept(c) PROVE Registered'
  BY <1>8 DEF SendAccept, clientVars
<1>9. ASSUME NEW c \in Clients, ClientStep(c) PROVE Registered'
  <2>1. UNCHANGED <<subscription, members, conn>>
    BY <1>9, OthersLeaveTransport DEF transportVars
  <2>2. CASE GetReply(c)
    BY <2>1, <2>2 DEF GetReply
  <2>3. CASE ReadObject(c) \/ Read(c)
    BY <2>1, <2>3 DEF ReadObject, Read
  <2>4. CASE ClientEnds(c)
    BY <2>1, <2>4 DEF ClientEnds
  <2> QED
    BY <1>9, <2>2, <2>3, <2>4 DEF ClientStep
<1> QED
  BY <1>1, <1>2, <1>3, <1>4, <1>5, <1>6, <1>7, <1>8, <1>9
  DEF Next, PublisherStep, HandleSubscription

(* Objects are handed over, taken from the wire and read, and none is      *)
(* forgotten on the way.  Each step is compared for every client.          *)
LEMMA DeliveredStep == TypeOK /\ Registered /\ Delivered /\ [Next]_vars => Delivered'
<1> SUFFICES ASSUME TypeOK, Registered, Delivered, [Next]_vars PROVE Delivered'
  OBVIOUS
(* It is enough that who is due something now was due it before and has    *)
(* not lost anything.                                                      *)
<1> DEFINE Due(c) == subscription[c] = "accepted" /\ Connected(c) /\ streams[c] < StreamLimit
           Sent(c) == (since[c] + 1 .. written) \ ToCome(c)
<1>z. \A c \in Clients : 0 \notin Sent(c)
  <2>1. written \in 0 .. MaxObjects /\ \A c \in Clients : since[c] \in 0 .. MaxObjects
    BY DEF TypeOK
  <2> QED
    BY <2>1, Intervals
<1>d. \A c \in Clients : Due(c) => Sent(c) \subseteq Has(c)
  BY DEF Delivered
<1>s. ASSUME NEW c \in Clients,
             Due(c)' => Due(c) /\ Sent(c)' \subseteq Sent(c) \cup Has(c)'
                               /\ Has(c) \ {0} \subseteq Has(c)'
      PROVE  Due(c)' => Sent(c)' \subseteq Has(c)'
  <2> HIDE DEF Due, Sent
  <2> QED
    BY <1>s, <1>d, <1>z
<1>g. ASSUME \A c \in Clients : Due(c)' => Sent(c)' \subseteq Has(c)' PROVE Delivered'
  BY <1>g DEF Delivered
<1>u. ASSUME NEW c \in Clients, UNCHANGED <<since, written, busy, rest, read, held, inflight>>,
             Due(c)' => Due(c)
      PROVE  Due(c)' => Sent(c)' \subseteq Has(c)'
  BY <1>u, <1>d DEF ToCome, Has
(* Steps of Handle, HandleSubscribe and the network: they make nothing due *)
(* except that Accept begins with nothing.                                 *)
<1>1. CASE UNCHANGED vars
  BY <1>1, <1>u, <1>g DEF vars, transportVars, writerVars, clientVars, Connected
<1>2. ASSUME NEW c \in Clients, Accept(c) \/ Handle(c) PROVE Delivered'
  <2>1. UNCHANGED <<subscription, conn, since, written, busy, rest, streams, read, held, inflight>>
    BY <1>2 DEF Accept, Handle, NewSession, NewSessionFails, StoreNamespace, NamespaceStored,
                AddTrack, writerVars, clientVars
  <2> QED
    BY <2>1, <1>u, <1>g DEF Connected
<1>3. ASSUME NEW c \in Clients, Subscribe(c) \/ LookUpNamespace(c) \/ FindTrack(c) \/ Register(c)
      PROVE  Delivered'
  <2>1. UNCHANGED <<conn, since, written, busy, rest, streams, read, held, inflight>>
    BY <1>3 DEF Subscribe, LookUpNamespace, FindTrack, Register, writerVars, clientVars
  <2>2. subscription' = subscription \/
        \E x \in {"asked", "rejected", "found namespace", "found track", "registered"} :
          subscription' = [subscription EXCEPT ![c] = x]
    BY <1>3 DEF Subscribe, LookUpNamespace, FindTrack, Register
  <2>3. \A d \in Clients : subscription'[d] = "accepted" => subscription[d] = "accepted"
    BY <2>2 DEF TypeOK
  <2> QED
    BY <2>1, <2>3, <1>u, <1>g DEF Connected
<1>4. ASSUME NEW c \in Clients, SendAccept(c) PROVE Delivered'
  <2>1. /\ UNCHANGED <<conn, written, busy, rest, streams, read, held, inflight>>
        /\ subscription' = [subscription EXCEPT ![c] = "accepted"]
        /\ since' = [since EXCEPT ![c] = written]
    BY <1>4 DEF SendAccept, writerVars, clientVars
  <2>2. since'[c] + 1 .. written' = {}
    <3>1. written \in 0 .. MaxObjects /\ since'[c] = written /\ written' = written
      BY <2>1 DEF TypeOK
    <3> QED
      BY <3>1, Intervals
  <2>3. ASSUME NEW d \in Clients, d # c PROVE Due(d)' => Sent(d)' \subseteq Has(d)'
    <3>1. subscription'[d] = subscription[d] /\ since'[d] = since[d]
      BY <2>1, <2>3 DEF TypeOK
    <3> QED
      BY <2>1, <3>1, <1>d DEF Connected, ToCome, Has
  <2> QED
    BY <2>2, <2>3, <1>g
<1>5. ASSUME NEW c \in Clients, Dial(c) \/ Break(c) PROVE Delivered'
  <2>1. /\ UNCHANGED <<subscription, since, written, busy, rest, streams, read, held>>
        /\ \A d \in Clients : d # c => conn'[d] = conn[d] /\ inflight'[d] = inflight[d]
    BY <1>5 DEF Dial, Break, transportVars, writerVars, clientVars, TypeOK
  <2>2. ASSUME NEW d \in Clients, d # c PROVE Due(d)' => Sent(d)' \subseteq Has(d)'
    BY <2>1, <2>2, <1>d DEF Connected, ToCome, Has
  <2>3. Due(c)' => conn'[c] = "open" /\ conn[c] # "none"
    BY <2>1 DEF Connected, Registered
  <2>4. ~Due(c)'
    BY <2>3, <1>5 DEF Dial, Break, Connected, TypeOK
  <2> QED
    BY <2>2, <2>4, <1>g
(* Write: the object at hand is to come for each subscriber.               *)
<1>6. CASE WriteStarts
  <2>1. /\ UNCHANGED <<subscription, conn, since, streams, read, held, inflight>>
        /\ ~busy /\ busy' /\ written' = written + 1 /\ rest' = members
    BY <1>6 DEF WriteStarts, transportVars, clientVars
  <2>2. ASSUME NEW c \in Clients, Due(c)' PROVE Sent(c)' \subseteq Has(c)'
    <3>1. c \in members /\ Due(c)
      BY <2>1, <2>2 DEF Registered, Connected
    <3>2. ToCome(c)' = {written + 1} /\ ToCome(c) = {}
      BY <2>1, <3>1 DEF ToCome
    <3>3. (since[c] + 1 .. written + 1) \ {written + 1} \subseteq since[c] + 1 .. written
      <4>1. written \in 0 .. MaxObjects /\ since[c] \in 0 .. MaxObjects
        BY DEF TypeOK
      <4> QED
        BY <4>1, Intervals
    <3>4. Sent(c)' \subseteq Sent(c)
      BY <2>1, <3>2, <3>3
    <3> QED
      BY <2>1, <3>1, <3>4, <1>d DEF Has
  <2> QED
    BY <2>2, <1>g
<1>7. ASSUME NEW c \in Clients, WriteTo(c) PROVE Delivered'
  <2>1. /\ UNCHANGED <<subscription, conn, since, written, busy, read, held>> /\ rest' = rest \ {c}
        /\ inflight' = [inflight EXCEPT ![c] = @ \cup {written}]
        /\ streams' = [streams EXCEPT ![c] = @ + 1]
        /\ streams[c] < StreamLimit
    BY <1>7 DEF WriteTo, MayOpen, transportVars
  <2>2. ASSUME NEW d \in Clients, d # c PROVE Due(d)' => Sent(d)' \subseteq Has(d)'
    <3>1. streams'[d] = streams[d] /\ inflight'[d] = inflight[d] /\ (d \in rest' <=> d \in rest)
      BY <2>1, <2>2 DEF TypeOK
    <3> QED
      BY <2>1, <3>1, <1>d DEF Connected, ToCome, Has
  <2>3. Due(c)' => Due(c)
    BY <2>1 DEF Connected
  <2>4. inflight'[c] = inflight[c] \cup {written}
    BY <2>1 DEF TypeOK
  <2>5. Sent(c)' \subseteq Sent(c) \cup Has(c)' /\ Has(c) \subseteq Has(c)'
    BY <2>1, <2>4 DEF ToCome, Has
  <2> QED
    BY <2>2, <2>3, <2>5, <1>s, <1>g
<1>8. ASSUME NEW c \in Clients, WriteToFails(c) PROVE Delivered'
  <2>1. /\ UNCHANGED <<subscription, conn, since, written, busy, streams, read, held, inflight>>
        /\ rest' = rest \ {c} /\ ~Due(c)
    BY <1>8 DEF WriteToFails, MayOpen, GoOn, transportVars, clientVars
  <2>2. ASSUME NEW d \in Clients, d # c PROVE Due(d)' => Sent(d)' \subseteq Has(d)'
    BY <2>1, <2>2, <1>d DEF Connected, ToCome, Has
  <2>3. ~Due(c)'
    BY <2>1 DEF Connected
  <2> QED
    BY <2>2, <2>3, <1>g
<1>9. CASE WriteReturns
  <2>1. /\ UNCHANGED <<subscription, conn, since, written, streams, read, held, inflight>>
        /\ rest = {} /\ rest' = {}
    BY <1>9 DEF WriteReturns, transportVars, clientVars
  <2> QED
    BY <2>1, <1>d, <1>g DEF Connected, ToCome, Has
(* The client. *)
<1>10. ASSUME NEW c \in Clients, GetReply(c) \/ ClientEnds(c) PROVE Delivered'
  <2>1. UNCHANGED <<subscription, conn, since, written, busy, rest, streams, read, held, inflight>>
    BY <1>10 DEF GetReply, ClientEnds, transportVars, writerVars
  <2> QED
    BY <2>1, <1>u, <1>g DEF Connected
<1>11. ASSUME NEW c \in Clients, ReadObject(c) PROVE Delivered'
  <2>1. UNCHANGED <<subscription, conn, since, written, busy, rest, streams, read>>
    BY <1>11 DEF ReadObject, transportVars, writerVars
  <2>2. PICK o \in inflight[c] :
          /\ held[c] = 0 /\ held' = [held EXCEPT ![c] = o]
          /\ inflight' = [inflight EXCEPT ![c] = @ \ {o}]
    BY <1>11 DEF ReadObject
  <2>3. ASSUME NEW d \in Clients PROVE Has(d) \ {0} \subseteq Has(d)'
    BY <2>1, <2>2 DEF Has, TypeOK
  <2> QED
    BY <2>1, <2>3, <1>s, <1>g DEF Connected, ToCome
<1>12. ASSUME NEW c \in Clients, Read(c) PROVE Delivered'
  <2>1. UNCHANGED <<subscription, conn, since, written, busy, rest, streams, inflight>>
    BY <1>12 DEF Read, transportVars, writerVars
  <2>2. /\ read' = [read EXCEPT ![c] = Append(@, held[c])]
        /\ held' = [held EXCEPT ![c] = 0] /\ held[c] # 0
    BY <1>12 DEF Read
  <2>3. ASSUME NEW d \in Clients PROVE Has(d) \ {0} \subseteq Has(d)'
    <3>1. CASE d = c
      <4>1. held[c] \in 1 .. MaxObjects
        BY <2>2, CounterTypes DEF TypeOK
      <4>2. Content(Append(read[c], held[c])) = Content(read[c]) \cup {held[c]}
        <5>1. read[c] \in Seq(1 .. MaxObjects)
          BY DEF TypeOK
        <5> QED
          BY <4>1, <5>1, OneLonger
      <4>3. read'[c] = Append(read[c], held[c])
        BY <2>2 DEF TypeOK
      <4> QED
        BY <2>1, <3>1, <4>2, <4>3 DEF Has
    <3>2. CASE d # c
      BY <2>1, <2>2, <3>2 DEF Has, TypeOK
    <3> QED
      BY <3>1, <3>2
  <2> QED
    BY <2>1, <2>3, <1>s, <1>g DEF Connected, ToCome
<1> HIDE DEF Due, Sent
<1> QED
  BY <1>1, <1>2, <1>3, <1>4, <1>5, <1>6, <1>7, <1>8, <1>9, <1>10, <1>11, <1>12
  DEF Next, PublisherStep, HandleSubscription, FinishWrite, ClientStep

(* The invariant, the types included, holds in every reachable state. *)
THEOREM Invariant == Spec => []IInv
<1>1. IInv /\ [Next]_vars => IInv'
  BY TypeStep, AddingStep, CrashStep, RegisteredStep, DeliveredStep DEF IInv
<1> QED
  BY <1>1, InitInvariant, PTL DEF Spec

(* The publisher panics only while a track is being added, or for a        *)
(* client that asks for one that is not there: never for the clock once    *)
(* Handle has returned.                                                    *)
THEOREM CrashesOnlyForMissingTrack == Spec => []CrashOnlyForMissingTrack
<1>1. IInv => CrashOnlyForMissingTrack
  BY DEF IInv
<1> QED
  BY <1>1, Invariant, PTL

(* A reader misses nothing that was written since its subscription was     *)
(* accepted, as long as its connection lets one more stream be opened.     *)
THEOREM ReadersMissNothing == Spec => []NoneMissed
<1>1. ASSUME IInv PROVE NoneMissed
  <2> SUFFICES ASSUME NEW c \in Clients, Reads(c), streams[c] < StreamLimit, ~(busy /\ c \in rest)
               PROVE  since[c] + 1 .. written \subseteq Has(c)
    BY DEF NoneMissed, Has
  <2>1. subscription[c] = "accepted" /\ Connected(c)
    BY <1>1 DEF IInv, Registered, Reads
  <2> QED
    BY <1>1, <2>1 DEF IInv, Delivered, ToCome
<1> QED
  BY <1>1, Invariant, PTL
=============================================================================
