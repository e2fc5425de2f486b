----------------------------- MODULE HttpServer -----------------------------
(***************************************************************************)
(* http.Server: up to three servers in one errgroup, and a goroutine that  *)
(* waits for the first of them to fail and closes the other ones.  The     *)
(* program serve uses all three, the program webrtc only HTTP/1.1.         *)
(*                                                                         *)
(* net/http, quic-go and errgroup are external.  Close makes a server that *)
(* has not started yet return ErrServerClosed too; http3.Server.Close ends *)
(* the connections that are served and waits for them.  Close of net/http  *)
(* closes the listener and the connections it knows of, and waits for no   *)
(* handler; a server that fails leaves its connections to their goroutines.*)
(***************************************************************************)
EXTENDS Naturals, FiniteSets

CONSTANTS
  Configurations,  \* records of the options ListenH2 and ListenH3
  Conns,           \* bound: QUIC connections
  TCPConns         \* bound: connections of HTTP/1.1 and HTTP/2

ASSUME ConstantsOK == Configurations \subseteq [h2 : BOOLEAN, h3 : BOOLEAN]

VARIABLES
  options,
  server,        \* each of the three: off, starting, serving, draining, ended
  protocols,     \* what the QUIC listener negotiates
  closed,        \* servers that were closed
  result,        \* what the accept loop of HTTP/3 is going to return
  cause,         \* first error of the group, which ends its context
  closer,        \* the fourth goroutine
  returned,      \* ListenAndServe has returned
  conns,         \* state and protocol of the QUIC connections
  tcp            \* state and server of the connections over TCP

groupVars == <<server, closed, cause, closer>>
vars == <<options, groupVars, protocols, result, returned, conns, tcp>>

Servers == {"h1", "h2", "h3"}
Enabled(s) == s = "h1" \/ options[s]
Live == {"starting", "serving"}
CtxDone == cause # "none"
InState(s) == {c \in Conns : conns[c].state = s}
TCP(s, state) == {c \in TCPConns : tcp[c] = [server |-> s, state |-> state]}
-----------------------------------------------------------------------------
(* The function of a goroutine returns an error; the first one is kept. *)
Ends(s, err) ==
  /\ server' = [server EXCEPT ![s] = "ended"]
  /\ cause' = IF CtxDone THEN cause ELSE err

(* ListenAndServe of HTTP/1.1 and ListenAndServeTLS of HTTP/2.  HTTP/2     *)
(* adds its own names to the protocols of the TLS configuration that it    *)
(* shares with HTTP/3.                                                     *)
Serves(s) ==
  /\ s \in {"h1", "h2"} /\ server[s] = "starting" /\ s \notin closed
  /\ server' = [server EXCEPT ![s] = "serving"]
  /\ UNCHANGED <<options, protocols, closed, result, cause, closer, returned, conns, tcp>>
Fails(s) ==
  /\ s \in {"h1", "h2"} /\ server[s] \in Live /\ TCP(s, "accepted") = {}
  /\ Ends(s, "failure")
  /\ UNCHANGED <<options, protocols, closed, result, closer, returned, conns, tcp>>
EndsClosed(s) ==
  /\ s \in {"h1", "h2"} /\ server[s] \in Live /\ s \in closed /\ TCP(s, "accepted") = {}
  /\ Ends(s, "server closed")
  /\ UNCHANGED <<options, protocols, closed, result, closer, returned, conns, tcp>>

(* Their loops accept a connection, make it known to Close and start its   *)
(* goroutine, which ends with the peer, or after a handler that was at     *)
(* work when Close cut its connection.                                     *)
AcceptTCP(c, s) ==
  /\ tcp[c].state = "none" /\ server[s] = "serving" /\ s \notin closed
  /\ TCP(s, "accepted") = {}
  /\ tcp' = [tcp EXCEPT ![c] = [server |-> s, state |-> "accepted"]]
  /\ UNCHANGED <<options, groupVars, protocols, result, returned, conns>>
ServeTCP(c) ==
  /\ tcp[c].state = "accepted"
  /\ tcp' = [tcp EXCEPT ![c].state = "served"]
  /\ UNCHANGED <<options, groupVars, protocols, result, returned, conns>>
ServeTCPEnds(c) ==
  /\ tcp[c].state \in {"served", "cut"}
  /\ tcp' = [tcp EXCEPT ![c].state = "ended"]
  /\ UNCHANGED <<options, groupVars, protocols, result, returned, conns>>
Cut(s) == [c \in TCPConns |-> IF c \in TCP(s, "served") THEN [tcp[c] EXCEPT !.state = "cut"]
                                                       ELSE tcp[c]]

(* listenAndServeQUIC up to its loop: nothing unsynchronised orders its    *)
(* look at the protocols and the additions of HTTP/2.                      *)
ListenQUIC ==
  /\ server["h3"] = "starting"
  /\ server' = [server EXCEPT !["h3"] = "serving"]
  /\ \/ protocols' = {"h3"}
     \/ options.h2 /\ protocols' = {"h3", "h2"}
  /\ UNCHANGED <<options, closed, result, cause, closer, returned, conns, tcp>>
ListenQUICFails ==
  /\ server["h3"] = "starting"
  /\ Ends("h3", "failure")
  /\ UNCHANGED <<options, protocols, closed, result, closer, returned, conns, tcp>>

(* Accept of the QUIC listener returns a connection, or the end of the     *)
(* context, or an error.  A connection that it returns when the context    *)
(* has ended is forgotten, and so is one that does not speak HTTP/3.       *)
(* Nobody closes the listener: connections are established and queued      *)
(* after the loop has ended, too.                                          *)
Connect(c) ==
  /\ conns[c].state = "none"
  /\ \E p \in protocols : conns' = [conns EXCEPT ![c] = [state |-> "queued", protocol |-> p]]
  /\ UNCHANGED <<options, groupVars, protocols, result, returned, tcp>>
Accept(c) ==
  /\ server["h3"] = "serving" /\ ~CtxDone /\ conns[c].state = "queued"
  /\ conns' = [conns EXCEPT ![c].state = IF conns[c].protocol = "h3" THEN "accepted"
                                                                     ELSE "forgotten"]
  /\ UNCHANGED <<options, groupVars, protocols, result, returned, tcp>>
LeaveLoop(err) ==
  /\ server["h3"] = "serving"
  /\ server' = [server EXCEPT !["h3"] = "draining"]
  /\ result' = err
ForgetAndGoOn(c) ==
  /\ CtxDone /\ server["h3"] = "serving" /\ conns[c].state = "queued"
  /\ conns' = [conns EXCEPT ![c].state = "forgotten"]
  /\ UNCHANGED <<options, groupVars, protocols, result, returned, tcp>>
AcceptTooLate(c) ==
  /\ CtxDone /\ conns[c].state = "queued" /\ LeaveLoop("server closed")
  /\ conns' = [conns EXCEPT ![c].state = "forgotten"]
  /\ UNCHANGED <<options, closed, cause, closer, protocols, returned, tcp>>
AcceptEnds ==
  /\ CtxDone /\ LeaveLoop("server closed")
  /\ UNCHANGED <<options, closed, cause, closer, protocols, returned, conns, tcp>>
AcceptFails ==
  /\ ~CtxDone /\ LeaveLoop("failure")
  /\ UNCHANGED <<options, closed, cause, closer, protocols, returned, conns, tcp>>

(* The goroutine of a connection: ServeQUICConn returns at once if the     *)
(* server is closed, later when the peer leaves or the server is closed.   *)
ServeQUICConn(c) ==
  /\ conns[c].state = "accepted"
  /\ conns' = [conns EXCEPT ![c].state = IF "h3" \in closed THEN "closed" ELSE "served"]
  /\ UNCHANGED <<options, groupVars, protocols, result, returned, tcp>>
ServeQUICConnEnds(c) ==
  /\ conns[c].state = "served"
  /\ conns' = [conns EXCEPT ![c].state = "closed"]
  /\ UNCHANGED <<options, groupVars, protocols, result, returned, tcp>>

(* The deferred Wait: the error is returned when no goroutine is left. *)
NoWait == TRUE
WaitDone == InState("accepted") \cup InState("served") = {}
Drained ==
  /\ server["h3"] = "draining" /\ WaitDone
  /\ Ends("h3", result)
  /\ UNCHANGED <<options, protocols, closed, result, closer, returned, conns, tcp>>
-----------------------------------------------------------------------------
(* The fourth goroutine: Shutdown for at most a second when the cause was  *)
(* ErrServerClosed, Close otherwise; of HTTP/2, then of HTTP/3, whether    *)
(* enabled or not.  HTTP/1.1 is not closed.                                *)
OnlyH3 == <<"h3", "h3">>
ToClose == <<"h2", "h3">>
CloseServer(k) ==
  /\ CtxDone /\ closer = k - 1
  /\ closed' = closed \cup {ToClose[k]}
  /\ closer' = k
  /\ tcp' = Cut(ToClose[k])
  /\ UNCHANGED <<options, server, cause, protocols, result, returned, conns>>
CloserEnds ==
  /\ closer = 2 /\ InState("served") = {}
  /\ closer' = 3
  /\ UNCHANGED <<options, server, closed, cause, protocols, result, returned, conns, tcp>>

(* eg.Wait *)
AllEnded == \A s \in Servers : server[s] \in {"off", "ended"}
Return ==
  /\ ~returned /\ closer = 3 /\ AllEnded
  /\ returned' = TRUE
  /\ UNCHANGED <<options, groupVars, protocols, result, conns, tcp>>
-----------------------------------------------------------------------------
Init ==
  /\ options \in Configurations
  /\ server = [s \in Servers |-> IF Enabled(s) THEN "starting" ELSE "off"]
  /\ protocols = {} /\ closed = {} /\ result = "none" /\ cause = "none" /\ closer = 0
  /\ returned = FALSE
  /\ conns = [c \in Conns |-> [state |-> "none", protocol |-> "h3"]]
  /\ tcp = [c \in TCPConns |-> [server |-> "h1", state |-> "none"]]

HandleConn(c) == Accept(c) \/ AcceptTooLate(c) \/ ServeQUICConn(c)
H3Goroutine ==
  \/ ListenQUIC \/ AcceptEnds \/ Drained
  \/ \E c \in Conns : HandleConn(c)
Closer == CloserEnds \/ \E k \in 1 .. 2 : CloseServer(k)

Next ==
  \/ \E s \in Servers : Serves(s) \/ Fails(s) \/ EndsClosed(s)
  \/ H3Goroutine \/ ListenQUICFails \/ AcceptFails
  \/ \E c \in Conns : Connect(c) \/ ServeQUICConnEnds(c)
  \/ \E c \in TCPConns : ServeTCP(c) \/ ServeTCPEnds(c) \/ \E s \in {"h1", "h2"} : AcceptTCP(c, s)
  \/ Closer \/ Return

Spec == Init /\ [][Next]_vars

(* Goroutines run.  Nothing has to fail, and a peer may stay for ever      *)
(* unless HTTP/3 is closed; a handler over TCP may take for ever.          *)
FairSpec ==
  /\ Spec
  /\ \A s \in Servers : WF_vars(Serves(s)) /\ WF_vars(EndsClosed(s))
  /\ WF_vars(H3Goroutine) /\ WF_vars(Closer) /\ WF_vars(Return)
  /\ \A c \in Conns : WF_vars("h3" \in closed /\ ServeQUICConnEnds(c))
  /\ \A c \in TCPConns : WF_vars(ServeTCP(c))
-----------------------------------------------------------------------------
(* The types of the variables. *)
Errors == {"none", "failure", "server closed"}
TypeOK ==
  /\ options \in [h2 : BOOLEAN, h3 : BOOLEAN]
  /\ server \in [Servers -> {"off", "starting", "serving", "draining", "ended"}]
  /\ protocols \subseteq {"h3", "h2"} /\ closed \subseteq {"h2", "h3"}
  /\ result \in Errors /\ cause \in Errors /\ closer \in 0 .. 3 /\ returned \in BOOLEAN
  /\ conns \in [Conns -> [state : {"none", "queued", "accepted", "served", "closed", "forgotten"},
                         protocol : {"h3", "h2"}]]
  /\ tcp \in [TCPConns -> [state : {"none", "accepted", "served", "cut", "ended"},
                          server : {"h1", "h2"}]]

(* What ListenAndServe leaves behind when it returns.  Of HTTP/3 no        *)
(* goroutine: a connection was closed, or it is abandoned or still in the  *)
(* queue of the listener.  Of HTTP/2 one connection at most whose socket   *)
(* is open, which its loop had accepted as Close ran; handlers on closed   *)
(* sockets may be left.  Of HTTP/1.1, which nobody closes, any number is   *)
(* served on.  It returns a failure: no server ends with ErrServerClosed   *)
(* before the fourth goroutine closes one, so that Shutdown is never tried.*)
LeftAfterReturn ==
  returned => /\ \A c \in Conns : conns[c].state \notin {"accepted", "served"}
              /\ \A c, d \in TCP("h2", "served") : c = d
              /\ cause = "failure"

(* While no server has failed, the accept loop abandons no connection that *)
(* speaks HTTP/3, and afterwards one at most, whether it came before the   *)
(* failure or after it; any number may be left in the queue.  One of       *)
(* another protocol is neither served nor closed; the listener accepts it  *)
(* only if HTTP/2 is enabled.                                              *)
ForgottenOnlyAtTheEnd ==
  /\ \A c \in Conns :
       conns[c].state = "forgotten" =>
         \/ CtxDone
         \/ conns[c].protocol # "h3" /\ options.h2
  /\ Cardinality({c \in Conns : conns[c].state = "forgotten" /\ conns[c].protocol = "h3"})
       <= 1

(* When HTTP/1.1 has ended the other servers are ended too, peers that     *)
(* would stay for ever included, and ListenAndServe returns.               *)
ReturnsAfterH1 == (server["h1"] = "ended") ~> returned
=============================================================================
