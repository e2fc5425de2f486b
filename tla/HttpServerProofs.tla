-------------------------- MODULE HttpServerProofs --------------------------
(***************************************************************************)
(* What the HTTP server leaves behind, for every configuration and any     *)
(* number of connections.                                                  *)
(***************************************************************************)
EXTENDS HttpServer, FiniteSetTheorems, TLAPS

ConnStates ==
  [state : {"none", "queued", "accepted", "served", "closed", "forgotten"},
   protocol : {"h3", "h2"}]

TCPStates ==
  [state : {"none", "accepted", "served", "cut", "ended"}, server : {"h1", "h2"}]

Forgotten == {c \in Conns : conns[c].state = "forgotten" /\ conns[c].protocol = "h3"}

(* Only a failure ends the context: before that nothing is closed, and the *)
(* accept loop is on its way out with a failure only.                      *)
CauseIsFailure ==
  /\ cause # "server closed"
  /\ closed # {} \/ closer > 0 => CtxDone
  /\ server["h3"] = "draining" => CtxDone \/ result = "failure"

(* Goroutines of connections exist only while the accept loop runs or      *)
(* waits for them.                                                         *)
NoneLeft ==
  \A c \in Conns :
    conns[c].state \in {"accepted", "served"} => server["h3"] \in {"serving", "draining"}

(* The accept loop forgets one connection for lack of time, its last.      *)
LastIsForgotten ==
  \/ Forgotten = {}
  \/ \E c \in Conns : Forgotten = {c} /\ server["h3"] \in {"draining", "ended"} /\ CtxDone

(* HTTP/2 is negotiated over QUIC only where it is enabled. *)
ProtocolEnabled ==
  /\ "h2" \in protocols => options.h2
  /\ \A c \in Conns : conns[c].protocol # "h3" => options.h2

Ended == returned => AllEnded /\ closer = 3 /\ CtxDone

(* The loop of HTTP/2 holds one connection at most.  Once the server was   *)
(* closed, the only one still open is the one the loop held then.          *)
OneLeft ==
  /\ \A c, d \in TCP("h2", "accepted") : c = d
  /\ "h2" \in closed =>
       \A c, d \in TCP("h2", "accepted") \cup TCP("h2", "served") : c = d
  /\ closer > 0 => "h2" \in closed

IInv ==
  /\ TypeOK /\ CauseIsFailure /\ NoneLeft /\ LastIsForgotten /\ ProtocolEnabled /\ Ended
  /\ OneLeft

(* The invariant holds when ListenAndServe is called. *)
THEOREM InitInvariant == Init => IInv
<1> SUFFICES ASSUME Init PROVE IInv
  OBVIOUS
<1> USE ConstantsOK DEF ConstantsOK, Init
<1>1. TypeOK
  <2>1. options \in [h2 : BOOLEAN, h3 : BOOLEAN]
    OBVIOUS
  <2>2. server \in [Servers -> {"off", "starting", "serving", "draining", "ended"}]
    BY DEF Servers, Enabled
  <2>3. conns \in [Conns -> [state : {"none", "queued", "accepted", "served", "closed",
                                     "forgotten"},
                            protocol : {"h3", "h2"}]]
    OBVIOUS
  <2>4. protocols \subseteq {"h3", "h2"} /\ closed \subseteq {"h2", "h3"}
    OBVIOUS
  <2>5. result \in Errors /\ cause \in Errors
    BY DEF Errors
  <2>6. closer \in 0 .. 3
    OBVIOUS
  <2>7. returned \in BOOLEAN
    OBVIOUS
  <2>8. tcp \in [TCPConns -> [state : {"none", "accepted", "served", "cut", "ended"},
                              server : {"h1", "h2"}]]
    OBVIOUS
  <2> QED
    BY <2>1, <2>2, <2>3, <2>4, <2>5, <2>6, <2>7, <2>8 DEF TypeOK
<1>2. CauseIsFailure
  BY DEF CauseIsFailure, CtxDone, Servers, Enabled
<1>3. NoneLeft
  BY DEF NoneLeft
<1>4. LastIsForgotten
  BY DEF LastIsForgotten, Forgotten
<1>5. ProtocolEnabled
  BY DEF ProtocolEnabled
<1>6. Ended
  BY DEF Ended
<1>7. OneLeft
  BY DEF OneLeft, TCP
<1> QED
  BY <1>1, <1>2, <1>3, <1>4, <1>5, <1>6, <1>7 DEF IInv

(* The steps that change closer, closed and conns, with no other types in  *)
(* sight.                                                                  *)
LEMMA CloserTypes ==
  ASSUME closer \in 0 .. 3, closed \subseteq {"h2", "h3"}, Closer
  PROVE  closer' \in 0 .. 3 /\ closed' \subseteq {"h2", "h3"} /\ closer' > 0 /\ (closer > 0 \/ CtxDone)
<1>1. CASE CloserEnds
  BY <1>1 DEF CloserEnds
<1>2. ASSUME NEW k \in 1 .. 2, CloseServer(k)
      PROVE  /\ closer' \in 0 .. 3 /\ closed' \subseteq {"h2", "h3"} /\ closer' > 0
             /\ CtxDone
  <2>1. k = 1 \/ k = 2
    OBVIOUS
  <2>2. ToClose[k] \in {"h2", "h3"}
    BY <2>1 DEF ToClose
  <2>3. closed' \subseteq {"h2", "h3"}
    BY <1>2, <2>2 DEF CloseServer
  <2> QED
    BY <1>2, <2>1, <2>3 DEF CloseServer
<1> QED
  BY <1>1, <1>2 DEF Closer

LEMMA ConnTypes ==
  ASSUME conns \in [Conns -> ConnStates], protocols \subseteq {"h3", "h2"},
         NEW c \in Conns, Connect(c) \/ HandleConn(c) \/ ServeQUICConnEnds(c)
  PROVE  conns' \in [Conns -> ConnStates]
<1> USE DEF ConnStates
<1>1. CASE Connect(c)
  <2>1. PICK p \in protocols : conns' = [conns EXCEPT ![c] = [state |-> "queued", protocol |-> p]]
    BY <1>1 DEF Connect
  <2> QED
    BY <2>1
<1>2. CASE Accept(c)
  <2>1. \E x \in {"accepted", "forgotten"} : conns' = [conns EXCEPT ![c].state = x]
    BY <1>2 DEF Accept
  <2> QED
    BY <2>1
<1>3. CASE AcceptTooLate(c)
  BY <1>3 DEF AcceptTooLate
<1>4. CASE ServeQUICConn(c)
  <2>1. \E x \in {"closed", "served"} : conns' = [conns EXCEPT ![c].state = x]
    BY <1>4 DEF ServeQUICConn
  <2> QED
    BY <2>1
<1>5. CASE ServeQUICConnEnds(c)
  BY <1>5 DEF ServeQUICConnEnds
<1> QED
  BY <1>1, <1>2, <1>3, <1>4, <1>5 DEF HandleConn

TCPStep ==
  \E c \in TCPConns : ServeTCP(c) \/ ServeTCPEnds(c) \/ \E s \in {"h1", "h2"} : AcceptTCP(c, s)

LEMMA TCPTypes ==
  ASSUME tcp \in [TCPConns -> TCPStates], TCPStep
  PROVE  tcp' \in [TCPConns -> TCPStates]
<1> USE DEF TCPStates
<1>1. PICK c \in TCPConns :
        ServeTCP(c) \/ ServeTCPEnds(c) \/ \E s \in {"h1", "h2"} : AcceptTCP(c, s)
  BY DEF TCPStep
<1>2. CASE ServeTCP(c) \/ ServeTCPEnds(c)
  <2>1. \E x \in {"served", "ended"} : tcp' = [tcp EXCEPT ![c].state = x]
    BY <1>2 DEF ServeTCP, ServeTCPEnds
  <2> QED
    BY <2>1
<1>3. ASSUME NEW s \in {"h1", "h2"}, AcceptTCP(c, s) PROVE tcp' \in [TCPConns -> TCPStates]
  BY <1>3 DEF AcceptTCP
<1> QED
  BY <1>1, <1>2, <1>3

LEMMA CutTypes ==
  ASSUME tcp \in [TCPConns -> TCPStates], NEW s
  PROVE  Cut(s) \in [TCPConns -> TCPStates]
<1> SUFFICES ASSUME NEW c \in TCPConns
             PROVE  (IF c \in TCP(s, "served") THEN [tcp[c] EXCEPT !.state = "cut"]
                                               ELSE tcp[c]) \in TCPStates
  BY DEF Cut
<1> QED
  BY DEF TCPStates

(* A step of a connection over TCP changes nothing else. *)
LEMMA TCPStepChanges ==
  TCPStep => UNCHANGED <<options, groupVars, protocols, result, returned, conns>>
BY DEF TCPStep, ServeTCP, ServeTCPEnds, AcceptTCP

(* Every step keeps the types. *)
LEMMA TypeStep == TypeOK /\ [Next]_vars => TypeOK'
<1> SUFFICES ASSUME TypeOK, [Next]_vars PROVE TypeOK'
  OBVIOUS
<1> USE DEF TypeOK, Errors
<1>1. ASSUME NEW s \in Servers, Serves(s) \/ Fails(s) \/ EndsClosed(s) PROVE TypeOK'
  <2>1. CASE Serves(s)
    BY <2>1 DEF Serves
  <2>2. CASE Fails(s)
    BY <2>2 DEF Fails, Ends
  <2>3. CASE EndsClosed(s)
    BY <2>3 DEF EndsClosed, Ends
  <2> QED
    BY <1>1, <2>1, <2>2, <2>3
<1>2. CASE ListenQUIC \/ ListenQUICFails
  <2>1. CASE ListenQUIC
    BY <2>1 DEF ListenQUIC, Servers
  <2>2. CASE ListenQUICFails
    BY <2>2 DEF ListenQUICFails, Ends, Servers
  <2> QED
    BY <1>2, <2>1, <2>2
<1>c. conns \in [Conns -> ConnStates]
  BY DEF ConnStates
<1>3. ASSUME NEW c \in Conns, Connect(c) PROVE TypeOK'
  <2>1. conns' \in [Conns -> ConnStates]
    BY <1>3, <1>c, ConnTypes
  <2> QED
    BY <1>3, <2>1 DEF Connect, groupVars, ConnStates
<1>4. ASSUME NEW c \in Conns, HandleConn(c) PROVE TypeOK'
  <2>1. conns' \in [Conns -> ConnStates]
    BY <1>4, <1>c, ConnTypes
  <2>2. CASE Accept(c)
    BY <2>1, <2>2 DEF Accept, groupVars, ConnStates
  <2>3. CASE AcceptTooLate(c)
    BY <2>1, <2>3 DEF AcceptTooLate, LeaveLoop, Servers, ConnStates
  <2>4. CASE ServeQUICConn(c)
    BY <2>1, <2>4 DEF ServeQUICConn, groupVars, ConnStates
  <2> QED
    BY <1>4, <2>2, <2>3, <2>4 DEF HandleConn
<1>5. CASE AcceptEnds \/ AcceptFails
  <2>1. CASE AcceptEnds
    BY <2>1 DEF AcceptEnds, LeaveLoop, Servers
  <2>2. CASE AcceptFails
    BY <2>2 DEF AcceptFails, LeaveLoop, Servers
  <2> QED
    BY <1>5, <2>1, <2>2
<1>6. CASE Drained
  BY <1>6 DEF Drained, Ends, Servers
<1>7. ASSUME NEW c \in Conns, ServeQUICConnEnds(c) PROVE TypeOK'
  <2>1. conns' \in [Conns -> ConnStates]
    BY <1>7, <1>c, ConnTypes
  <2> QED
    BY <1>7, <2>1 DEF ServeQUICConnEnds, groupVars, ConnStates
<1>8. CASE Closer
  <2>1. closer' \in 0 .. 3 /\ closed' \subseteq {"h2", "h3"}
    BY <1>8, CloserTypes
  <2>2. UNCHANGED <<options, server, cause, protocols, result, returned, conns>>
    BY <1>8 DEF Closer, CloseServer, CloserEnds
  <2>3. tcp' \in [TCPConns -> TCPStates]
    <3>1. tcp \in [TCPConns -> TCPStates]
      BY DEF TCPStates
    <3>2. UNCHANGED tcp \/ \E k \in 1 .. 2 : tcp' = Cut(ToClose[k])
      BY <1>8 DEF Closer, CloseServer, CloserEnds
    <3>3. \A s : Cut(s) \in [TCPConns -> TCPStates]
      BY <3>1, CutTypes
    <3>4. ASSUME NEW k \in 1 .. 2, tcp' = Cut(ToClose[k]) PROVE tcp' \in [TCPConns -> TCPStates]
      BY <3>4, <3>3, Zenon
    <3> QED
      BY <3>1, <3>2, <3>4, Zenon
  <2> QED
    BY <2>1, <2>2, <2>3 DEF TCPStates
<1>9. CASE Return
  BY <1>9 DEF Return, groupVars
<1>10. CASE UNCHANGED vars
  BY <1>10 DEF vars, groupVars
<1>11. CASE TCPStep
  BY <1>11, TCPTypes, TCPStepChanges DEF TCPStates, groupVars
<1> QED
  BY <1>1, <1>2, <1>3, <1>4, <1>5, <1>6, <1>7, <1>8, <1>9, <1>10, <1>11
  DEF Next, H3Goroutine, TCPStep

(* The first error of the group is a failure, as long as nothing else can  *)
(* be first: a server returns ErrServerClosed only after it was closed.    *)
LEMMA CauseStep == TypeOK /\ CauseIsFailure /\ [Next]_vars => CauseIsFailure'
<1> SUFFICES ASSUME TypeOK, CauseIsFailure, [Next]_vars PROVE CauseIsFailure'
  OBVIOUS
<1> USE DEF TypeOK, Errors, CauseIsFailure, CtxDone
<1>1. ASSUME NEW s \in Servers, Serves(s) \/ Fails(s) \/ EndsClosed(s) PROVE CauseIsFailure'
  BY <1>1 DEF Serves, Fails, EndsClosed, Ends, Servers
<1>2. CASE ListenQUIC \/ ListenQUICFails
  BY <1>2 DEF ListenQUIC, ListenQUICFails, Ends, Servers
<1>3. ASSUME NEW c \in Conns, Connect(c) PROVE CauseIsFailure'
  BY <1>3 DEF Connect, groupVars
<1>4. ASSUME NEW c \in Conns, HandleConn(c) PROVE CauseIsFailure'
  BY <1>4 DEF HandleConn, Accept, AcceptTooLate, ServeQUICConn, LeaveLoop, groupVars, Servers
<1>5. CASE AcceptEnds \/ AcceptFails
  BY <1>5 DEF AcceptEnds, AcceptFails, LeaveLoop, Servers
<1>6. CASE Drained
  BY <1>6 DEF Drained, Ends, Servers
<1>7. ASSUME NEW c \in Conns, ServeQUICConnEnds(c) PROVE CauseIsFailure'
  BY <1>7 DEF ServeQUICConnEnds, groupVars
<1>8. CASE Closer
  <2>1. CtxDone
    BY <1>8, CloserTypes DEF CtxDone
  <2>2. UNCHANGED <<server, cause, result>>
    BY <1>8 DEF Closer, CloseServer, CloserEnds
  <2> QED
    BY <2>1, <2>2
<1>9. CASE Return
  BY <1>9 DEF Return, groupVars
<1>10. CASE UNCHANGED vars
  BY <1>10 DEF vars, groupVars
<1>11. CASE TCPStep
  BY <1>11, TCPStepChanges DEF groupVars
<1> QED
  BY <1>1, <1>2, <1>3, <1>4, <1>5, <1>6, <1>7, <1>8, <1>9, <1>10, <1>11
  DEF Next, H3Goroutine, TCPStep

(* The accept loop leaves no goroutine behind: its WaitGroup. *)
LEMMA NoneLeftStep == TypeOK /\ NoneLeft /\ [Next]_vars => NoneLeft'
<1> SUFFICES ASSUME TypeOK, NoneLeft, [Next]_vars PROVE NoneLeft'
  OBVIOUS
<1> USE DEF TypeOK, NoneLeft
<1>1. ASSUME NEW s \in Servers, Serves(s) \/ Fails(s) \/ EndsClosed(s) PROVE NoneLeft'
  BY <1>1 DEF Serves, Fails, EndsClosed, Ends, Servers
<1>2. CASE ListenQUIC \/ ListenQUICFails
  BY <1>2 DEF ListenQUIC, ListenQUICFails, Ends, Servers
<1>3. ASSUME NEW c \in Conns, Connect(c) PROVE NoneLeft'
  BY <1>3 DEF Connect, groupVars
<1>4. ASSUME NEW c \in Conns, HandleConn(c) PROVE NoneLeft'
  <2>1. CASE Accept(c)
    BY <2>1 DEF Accept, groupVars
  <2>2. CASE AcceptTooLate(c)
    BY <2>2 DEF AcceptTooLate, LeaveLoop, Servers
  <2>3. CASE ServeQUICConn(c)
    BY <2>3 DEF ServeQUICConn, groupVars
  <2> QED
    BY <1>4, <2>1, <2>2, <2>3 DEF HandleConn
<1>5. CASE AcceptEnds \/ AcceptFails
  BY <1>5 DEF AcceptEnds, AcceptFails, LeaveLoop, Servers
<1>6. CASE Drained
  BY <1>6 DEF Drained, Ends, WaitDone, InState, Servers
<1>7. ASSUME NEW c \in Conns, ServeQUICConnEnds(c) PROVE NoneLeft'
  BY <1>7 DEF ServeQUICConnEnds, groupVars
<1>8. CASE Closer
  BY <1>8 DEF Closer, CloseServer, CloserEnds
<1>9. CASE Return
  BY <1>9 DEF Return, groupVars
<1>10. CASE UNCHANGED vars
  BY <1>10 DEF vars, groupVars
<1>11. CASE TCPStep
  BY <1>11, TCPStepChanges DEF groupVars
<1> QED
  BY <1>1, <1>2, <1>3, <1>4, <1>5, <1>6, <1>7, <1>8, <1>9, <1>10, <1>11
  DEF Next, H3Goroutine, TCPStep

(* Only HTTP/2 adds a protocol to those of the listener. *)
LEMMA ProtocolStep == TypeOK /\ ProtocolEnabled /\ [Next]_vars => ProtocolEnabled'
<1> SUFFICES ASSUME TypeOK, ProtocolEnabled, [Next]_vars PROVE ProtocolEnabled'
  OBVIOUS
<1> USE DEF TypeOK, ProtocolEnabled
<1>1. ASSUME NEW s \in Servers, Serves(s) \/ Fails(s) \/ EndsClosed(s) PROVE ProtocolEnabled'
  BY <1>1 DEF Serves, Fails, EndsClosed
<1>2. CASE ListenQUIC \/ ListenQUICFails
  BY <1>2 DEF ListenQUIC, ListenQUICFails
<1>3. ASSUME NEW c \in Conns, Connect(c) PROVE ProtocolEnabled'
  BY <1>3 DEF Connect
<1>4. ASSUME NEW c \in Conns, HandleConn(c) PROVE ProtocolEnabled'
  <2>1. CASE Accept(c)
    BY <2>1 DEF Accept
  <2>2. CASE AcceptTooLate(c)
    BY <2>2 DEF AcceptTooLate
  <2>3. CASE ServeQUICConn(c)
    BY <2>3 DEF ServeQUICConn
  <2> QED
    BY <1>4, <2>1, <2>2, <2>3 DEF HandleConn
<1>5. CASE AcceptEnds \/ AcceptFails \/ Drained
  BY <1>5 DEF AcceptEnds, AcceptFails, Drained
<1>6. ASSUME NEW c \in Conns, ServeQUICConnEnds(c) PROVE ProtocolEnabled'
  BY <1>6 DEF ServeQUICConnEnds
<1>7. CASE Closer
  BY <1>7 DEF Closer, CloseServer, CloserEnds
<1>8. CASE Return
  BY <1>8 DEF Return
<1>9. CASE UNCHANGED vars
  BY <1>9 DEF vars
<1>10. CASE TCPStep
  BY <1>10, TCPStepChanges
<1> QED
  BY <1>1, <1>2, <1>3, <1>4, <1>5, <1>6, <1>7, <1>8, <1>9, <1>10
  DEF Next, H3Goroutine, TCPStep

(* Arithmetic, apart from the Boolean variables. *)
LEMMA ThreeIsPositive == closer = 3 => closer > 0 /\ closer # 2 /\ ~\E k \in 1 .. 2 : closer = k - 1
OBVIOUS

(* ListenAndServe returns after all goroutines of the group have. *)
LEMMA EndedStep == TypeOK /\ CauseIsFailure /\ Ended /\ [Next]_vars => Ended'
<1> SUFFICES ASSUME TypeOK, CauseIsFailure, Ended, [Next]_vars PROVE Ended'
  OBVIOUS
<1> USE DEF TypeOK, CauseIsFailure, Ended, CtxDone, AllEnded, Live
<1>1. ASSUME NEW s \in Servers, Serves(s) \/ Fails(s) \/ EndsClosed(s) PROVE Ended'
  BY <1>1 DEF Serves, Fails, EndsClosed, Ends
<1>2. CASE ListenQUIC \/ ListenQUICFails
  BY <1>2 DEF ListenQUIC, ListenQUICFails, Ends, Servers
<1>3. ASSUME NEW c \in Conns, Connect(c) PROVE Ended'
  BY <1>3 DEF Connect, groupVars
<1>4. ASSUME NEW c \in Conns, HandleConn(c) PROVE Ended'
  BY <1>4 DEF HandleConn, Accept, AcceptTooLate, ServeQUICConn, LeaveLoop, groupVars, Servers
<1>5. CASE AcceptEnds \/ AcceptFails
  BY <1>5 DEF AcceptEnds, AcceptFails, LeaveLoop, Servers
<1>6. CASE Drained
  BY <1>6 DEF Drained, Ends, Servers
<1>7. ASSUME NEW c \in Conns, ServeQUICConnEnds(c) PROVE Ended'
  BY <1>7 DEF ServeQUICConnEnds, groupVars
<1>8. CASE Closer
  <2>1. closer # 3
    <3>1. closer = 2 \/ \E k \in 1 .. 2 : closer = k - 1
      BY <1>8 DEF Closer, CloseServer, CloserEnds
    <3> QED
      BY <3>1, ThreeIsPositive, Zenon
  <2> QED
    BY <1>8, <2>1 DEF Closer, CloseServer, CloserEnds
<1>9. CASE Return
  <2>1. closer > 0
    BY <1>9, ThreeIsPositive DEF Return
  <2>2. CtxDone /\ AllEnded
    BY <1>9, <2>1 DEF Return
  <2> QED
    BY <1>9, <2>2 DEF Return, groupVars
<1>10. CASE UNCHANGED vars
  BY <1>10 DEF vars, groupVars
<1>11. CASE TCPStep
  BY <1>11, TCPStepChanges DEF groupVars
<1> QED
  BY <1>1, <1>2, <1>3, <1>4, <1>5, <1>6, <1>7, <1>8, <1>9, <1>10, <1>11
  DEF Next, H3Goroutine, TCPStep

(* Steps that touch no connection over TCP and close nothing. *)
LEMMA OneLeftKept ==
  OneLeft /\ UNCHANGED <<tcp, closed, closer>> => OneLeft'
BY DEF OneLeft, TCP

LEMMA CloserFacts ==
  ASSUME closer \in 0 .. 3, Closer
  PROVE  \/ closer > 0 /\ UNCHANGED tcp /\ UNCHANGED closed
         \/ closer > 0 /\ closed' = closed \cup {"h3"} /\ tcp' = Cut("h3")
         \/ closer = 0 /\ closed' = closed \cup {"h2"} /\ tcp' = Cut("h2")
<1>1. CASE CloserEnds
  BY <1>1 DEF CloserEnds
<1>2. ASSUME NEW k \in 1 .. 2, CloseServer(k), k = 1
      PROVE  closer = 0 /\ closed' = closed \cup {"h2"} /\ tcp' = Cut("h2")
  BY <1>2 DEF CloseServer, ToClose
<1>3. ASSUME NEW k \in 1 .. 2, CloseServer(k), k = 2
      PROVE  closer > 0 /\ closed' = closed \cup {"h3"} /\ tcp' = Cut("h3")
  BY <1>3 DEF CloseServer, ToClose
<1>4. \A k \in 1 .. 2 : k = 1 \/ k = 2
  OBVIOUS
<1> QED
  BY <1>1, <1>2, <1>3, <1>4 DEF Closer

(* Close finds one connection at most that it does not cut, and the loop   *)
(* of HTTP/2 accepts none after it.                                        *)
LEMMA OneLeftStep == TypeOK /\ OneLeft /\ [Next]_vars => OneLeft'
<1> SUFFICES ASSUME TypeOK, OneLeft, [Next]_vars PROVE OneLeft'
  OBVIOUS
<1>t. tcp \in [TCPConns -> TCPStates] /\ closer \in 0 .. 3
  BY DEF TypeOK, TCPStates
<1>1. CASE UNCHANGED <<tcp, closed, closer>>
  BY <1>1, OneLeftKept
<1>2. ASSUME NEW c \in TCPConns, ServeTCP(c) PROVE OneLeft'
  <2>1. /\ tcp[c].state = "accepted" /\ tcp' = [tcp EXCEPT ![c].state = "served"]
        /\ UNCHANGED <<closed, closer>>
    BY <1>2 DEF ServeTCP, groupVars
  <2>2. TCP("h2", "accepted")' \subseteq TCP("h2", "accepted")
    BY <2>1, <1>t DEF TCP, TCPStates
  <2>3. TCP("h2", "served")' \subseteq TCP("h2", "accepted") \cup TCP("h2", "served")
    BY <2>1, <1>t DEF TCP, TCPStates
  <2> QED
    BY <2>1, <2>2, <2>3 DEF OneLeft
<1>3. ASSUME NEW c \in TCPConns, ServeTCPEnds(c) PROVE OneLeft'
  <2>1. /\ tcp' = [tcp EXCEPT ![c].state = "ended"]
        /\ UNCHANGED <<closed, closer>>
    BY <1>3 DEF ServeTCPEnds, groupVars
  <2>2. /\ TCP("h2", "accepted")' \subseteq TCP("h2", "accepted")
        /\ TCP("h2", "served")' \subseteq TCP("h2", "served")
    BY <2>1, <1>t DEF TCP, TCPStates
  <2> QED
    BY <2>1, <2>2 DEF OneLeft
<1>4. ASSUME NEW c \in TCPConns, NEW s \in {"h1", "h2"}, AcceptTCP(c, s) PROVE OneLeft'
  <2>1. /\ s \notin closed /\ TCP(s, "accepted") = {}
        /\ tcp' = [tcp EXCEPT ![c] = [server |-> s, state |-> "accepted"]]
        /\ UNCHANGED <<closed, closer>>
    BY <1>4 DEF AcceptTCP, groupVars
  <2>2. CASE s = "h1"
    <3>1. /\ TCP("h2", "accepted")' \subseteq TCP("h2", "accepted")
          /\ TCP("h2", "served")' \subseteq TCP("h2", "served")
      BY <2>1, <2>2, <1>t DEF TCP, TCPStates
    <3> QED
      BY <2>1, <3>1 DEF OneLeft
  <2>3. CASE s = "h2"
    <3>1. TCP("h2", "accepted")' \subseteq {c}
      BY <2>1, <2>3, <1>t DEF TCP, TCPStates
    <3> QED
      BY <2>1, <2>3, <3>1 DEF OneLeft
  <2> QED
    BY <2>2, <2>3
<1>5. CASE Closer
  <2>1. CASE closer > 0 /\ UNCHANGED tcp /\ UNCHANGED closed
    BY <2>1 DEF OneLeft, TCP
  <2>2. CASE closer > 0 /\ closed' = closed \cup {"h3"} /\ tcp' = Cut("h3")
    <3>1. /\ TCP("h2", "accepted")' \subseteq TCP("h2", "accepted")
          /\ TCP("h2", "served")' \subseteq TCP("h2", "served")
      BY <2>2, <1>t DEF TCP, Cut, TCPStates
    <3> QED
      BY <2>2, <3>1 DEF OneLeft
  <2>3. CASE closer = 0 /\ closed' = closed \cup {"h2"} /\ tcp' = Cut("h2")
    <3>1. TCP("h2", "accepted")' \subseteq TCP("h2", "accepted")
      BY <2>3, <1>t DEF TCP, Cut, TCPStates
    <3>2. TCP("h2", "served")' = {}
      BY <2>3, <1>t DEF TCP, Cut, TCPStates
    <3> QED
      BY <2>3, <3>1, <3>2 DEF OneLeft
  <2> QED
    BY <1>5, <1>t, <2>1, <2>2, <2>3, CloserFacts
<1>6. CASE TCPStep
  BY <1>6, <1>2, <1>3, <1>4 DEF TCPStep
<1>7. ASSUME NEW s \in Servers, Serves(s) \/ Fails(s) \/ EndsClosed(s)
      PROVE  UNCHANGED <<tcp, closed, closer>>
  BY <1>7 DEF Serves, Fails, EndsClosed
<1>8. CASE H3Goroutine \/ ListenQUICFails \/ AcceptFails
  BY <1>8, <1>1 DEF H3Goroutine, ListenQUIC, ListenQUICFails, AcceptEnds, AcceptFails, Drained,
                    HandleConn, Accept, AcceptTooLate, ServeQUICConn, groupVars
<1>9. ASSUME NEW c \in Conns, Connect(c) \/ ServeQUICConnEnds(c)
      PROVE  UNCHANGED <<tcp, closed, closer>>
  BY <1>9 DEF Connect, ServeQUICConnEnds, groupVars
<1>10. CASE Return \/ UNCHANGED vars
  BY <1>10, <1>1 DEF Return, vars, groupVars
<1> QED
  BY <1>1, <1>5, <1>6, <1>7, <1>8, <1>9, <1>10 DEF Next, TCPStep

(* At most one connection of HTTP/3 is forgotten, by the last Accept. *)
LEMMA LastStep == TypeOK /\ LastIsForgotten /\ [Next]_vars => LastIsForgotten'
<1> SUFFICES ASSUME TypeOK, LastIsForgotten, [Next]_vars PROVE LastIsForgotten'
  OBVIOUS
<1>a. ASSUME UNCHANGED conns,
             server["h3"] \in {"draining", "ended"} => server'["h3"] \in {"draining", "ended"},
             CtxDone => CtxDone'
      PROVE  LastIsForgotten'
  BY <1>a DEF LastIsForgotten, Forgotten
<1> USE DEF TypeOK, CtxDone, Live
<1>1. ASSUME NEW s \in Servers, Serves(s) \/ Fails(s) \/ EndsClosed(s) PROVE LastIsForgotten'
  BY <1>1, <1>a DEF Serves, Fails, EndsClosed, Ends, Servers, Errors
<1>2. CASE ListenQUIC \/ ListenQUICFails
  BY <1>2, <1>a DEF ListenQUIC, ListenQUICFails, Ends, Servers
<1>3. CASE AcceptEnds \/ AcceptFails
  BY <1>3, <1>a DEF AcceptEnds, AcceptFails, LeaveLoop, Servers
<1>4. CASE Drained
  BY <1>4, <1>a DEF Drained, Ends, Servers, Errors
<1>5. CASE Closer
  BY <1>5, <1>a DEF Closer, CloseServer, CloserEnds
<1>6. CASE Return
  BY <1>6, <1>a DEF Return, groupVars
<1>7. CASE UNCHANGED vars
  BY <1>7, <1>a DEF vars, groupVars
<1>12. CASE TCPStep
  BY <1>12, <1>a, TCPStepChanges DEF groupVars
(* Steps of a connection that is not forgotten by them. *)
<1>b. ASSUME NEW c \in Conns, conns[c].state # "forgotten",
             NEW r \in [state : {"none", "queued", "accepted", "served", "closed", "forgotten"},
                        protocol : {"h3", "h2"}],
             r.state = "forgotten" => r.protocol # "h3",
             conns' = [conns EXCEPT ![c] = r], UNCHANGED <<server, cause>>
      PROVE  LastIsForgotten'
  <2>1. Forgotten' = Forgotten
    BY <1>b DEF Forgotten
  <2> QED
    BY <2>1, <1>b DEF LastIsForgotten
<1>8. ASSUME NEW c \in Conns, Connect(c) PROVE LastIsForgotten'
  <2>1. PICK p \in protocols : conns' = [conns EXCEPT ![c] = [state |-> "queued", protocol |-> p]]
    BY <1>8 DEF Connect
  <2> DEFINE r == [state |-> "queued", protocol |-> p]
  <2>2. /\ r \in [state : {"none", "queued", "accepted", "served", "closed", "forgotten"},
                   protocol : {"h3", "h2"}]
        /\ r.state # "forgotten" /\ conns' = [conns EXCEPT ![c] = r]
    BY <2>1
  <2>3. conns[c].state # "forgotten" /\ UNCHANGED <<server, cause>>
    BY <1>8 DEF Connect, groupVars
  <2> HIDE DEF r
  <2> QED
    BY <2>2, <2>3, <1>b
<1>9. ASSUME NEW c \in Conns, Accept(c) PROVE LastIsForgotten'
  <2> DEFINE r == [conns[c] EXCEPT !.state = IF conns[c].protocol = "h3" THEN "accepted"
                                                                         ELSE "forgotten"]
  <2>1. /\ r \in [state : {"none", "queued", "accepted", "served", "closed", "forgotten"},
                   protocol : {"h3", "h2"}]
        /\ r.state = "forgotten" => r.protocol # "h3"
    OBVIOUS
  <2>2. conns' = [conns EXCEPT ![c] = r]
    BY <1>9 DEF Accept
  <2>3. conns[c].state # "forgotten" /\ UNCHANGED <<server, cause>>
    BY <1>9 DEF Accept, groupVars
  <2> HIDE DEF r
  <2> QED
    BY <2>1, <2>2, <2>3, <1>b
<1>10. ASSUME NEW c \in Conns, ServeQUICConn(c) \/ ServeQUICConnEnds(c) PROVE LastIsForgotten'
  <2>1. \E x \in {"closed", "served"} : conns' = [conns EXCEPT ![c].state = x]
    BY <1>10 DEF ServeQUICConn, ServeQUICConnEnds
  <2>2. PICK x \in {"closed", "served"} : conns' = [conns EXCEPT ![c].state = x]
    BY <2>1
  <2> DEFINE r == [conns[c] EXCEPT !.state = x]
  <2>3. /\ r \in [state : {"none", "queued", "accepted", "served", "closed", "forgotten"},
                   protocol : {"h3", "h2"}]
        /\ r.state # "forgotten"
    OBVIOUS
  <2>4. conns' = [conns EXCEPT ![c] = r]
    BY <2>2
  <2>5. conns[c].state # "forgotten" /\ UNCHANGED <<server, cause>>
    BY <1>10 DEF ServeQUICConn, ServeQUICConnEnds, groupVars
  <2> HIDE DEF r
  <2> QED
    BY <2>3, <2>4, <2>5, <1>b
(* The one step that forgets a connection of HTTP/3 ends the loop. *)
<1>11. ASSUME NEW c \in Conns, AcceptTooLate(c) PROVE LastIsForgotten'
  <2>1. server["h3"] = "serving" /\ server'["h3"] = "draining" /\ CtxDone'
    BY <1>11 DEF AcceptTooLate, LeaveLoop, Servers
  <2>2. Forgotten = {}
    BY <2>1 DEF LastIsForgotten
  <2>3. Forgotten' = {} \/ Forgotten' = {c}
    <3>1. \A d \in Conns : d # c => conns'[d] = conns[d]
      BY <1>11 DEF AcceptTooLate
    <3>2. \A d \in Conns : d \in Forgotten' => d = c
      BY <2>2, <3>1 DEF Forgotten
    <3> QED
      BY <3>2 DEF Forgotten
  <2> QED
    BY <2>1, <2>3 DEF LastIsForgotten
<1> QED
  BY <1>1, <1>2, <1>3, <1>4, <1>5, <1>6, <1>7, <1>8, <1>9, <1>10, <1>11, <1>12
  DEF Next, H3Goroutine, HandleConn, TCPStep

(* A connection is forgotten only when the context has ended, or when it   *)
(* does not speak HTTP/3.                                                  *)
ForgottenLate ==
  \A c \in Conns : conns[c].state = "forgotten" => CtxDone \/ conns[c].protocol # "h3"
LEMMA ForgottenLateHolds == TypeOK /\ LastIsForgotten => ForgottenLate
BY DEF TypeOK, LastIsForgotten, Forgotten, ForgottenLate

(* The invariant, the types included, holds in every reachable state. *)
THEOREM Invariant == Spec => []IInv
<1>1. IInv /\ [Next]_vars => IInv'
  BY TypeStep, CauseStep, NoneLeftStep, LastStep, ProtocolStep, EndedStep,
     OneLeftStep DEF IInv
<1> QED
  BY <1>1, InitInvariant, PTL DEF Spec

(* When ListenAndServe returns, no goroutine of HTTP/3 is left and one     *)
(* open connection of HTTP/2 at most; HTTP/1.1 is served on.  The reason   *)
(* is a failure: ErrServerClosed never comes first.                        *)
THEOREM LeavesOneConnectionOpen == Spec => []LeftAfterReturn
<1>1. ASSUME IInv PROVE LeftAfterReturn
  <2> SUFFICES ASSUME returned PROVE LeftAfterReturn
    BY DEF LeftAfterReturn
  <2>1. server["h3"] \in {"off", "ended"} /\ CtxDone
    BY <1>1 DEF IInv, Ended, AllEnded, Servers
  <2>2. \A c \in Conns : conns[c].state \notin {"accepted", "served"}
    BY <1>1, <2>1 DEF IInv, NoneLeft
  <2>3. closer > 0
    BY <1>1, ThreeIsPositive DEF IInv, Ended
  <2>4. \A c, d \in TCP("h2", "served") : c = d
    BY <1>1, <2>3 DEF IInv, OneLeft
  <2>5. cause = "failure"
    BY <1>1, <2>1 DEF IInv, TypeOK, Errors, CauseIsFailure, CtxDone
  <2> QED
    BY <2>2, <2>4, <2>5 DEF LeftAfterReturn
<1> QED
  BY <1>1, Invariant, PTL

(* The accept loop abandons connections only when the context has ended,   *)
(* and one at most, unless they speak another protocol than HTTP/3.  Those *)
(* it has not come to stay in the queue and are not among them.            *)
THEOREM AcceptLoopAbandonsOne == Spec => []ForgottenOnlyAtTheEnd
<1>1. ASSUME IInv PROVE ForgottenOnlyAtTheEnd
  <2>1. \A c \in Conns :
          conns[c].state = "forgotten" =>
            CtxDone \/ (conns[c].protocol # "h3" /\ options.h2)
    BY <1>1, ForgottenLateHolds DEF IInv, ProtocolEnabled, ForgottenLate
  <2>2. Cardinality(Forgotten) <= 1
    <3>1. CASE Forgotten = {}
      BY <3>1, FS_EmptySet
    <3>2. CASE Forgotten # {}
      <4>1. PICK c \in Conns : Forgotten = {c}
        BY <1>1, <3>2 DEF IInv, LastIsForgotten
      <4>2. Cardinality({c}) = 1
        BY FS_Singleton
      <4> QED
        BY <4>1, <4>2
    <3> QED
      BY <3>1, <3>2
  <2> QED
    BY <2>1, <2>2 DEF ForgottenOnlyAtTheEnd, Forgotten
<1> QED
  BY <1>1, Invariant, PTL
=============================================================================
