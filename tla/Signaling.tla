------------------------------ MODULE Signaling ------------------------------
(***************************************************************************)
(* Offer, answer and trickled ICE candidates between two webrtc.Transports *)
(* that signal by HTTP (webrtc/transport.go, http_client.go and            *)
(* http_signaling_handler.go).                                             *)
(*                                                                         *)
(* Every message is a synchronous POST: the sender goes on when the        *)
(* handler of the other side has returned.  HandleSessionDescription holds *)
(* pendingICECandidatesLock from the moment it records the remote          *)
(* description to its end, the POST of the answer included, and            *)
(* onICECandidate holds it over its POST.  The pion PeerConnection is the  *)
(* environment: it asks for negotiation when it is stable, calls           *)
(* onICECandidate for one candidate after the other once a local           *)
(* description is set, and refuses a remote candidate as long as it has no *)
(* remote description.                                                     *)
(***************************************************************************)
EXTENDS Naturals, Sequences

CONSTANTS
  Candidates,    \* bound: how many candidates each side gathers
  MaxOffers,     \* bound: how often the offerer negotiates
  MaxFailures    \* bound: how many calls fail

ASSUME ConstantsOK ==
  Candidates \in Nat /\ MaxOffers \in Nat /\ MaxFailures \in Nat

VARIABLES
  (* each side's Transport *)
  lock,                  \* pendingICECandidatesLock: free, or who holds it
  hasRemoteDescription,
  pendingICECandidates,
  (* each side's goroutines *)
  negotiation,           \* the offerer's onNegotiationNeeded
  handler,               \* HandleSessionDescription
  toSend,                \* what is left of its loop over the pending candidates
  gatherer,              \* onICECandidate
  (* each side's PeerConnection *)
  local, remote,         \* a local, a remote description is set
  gathered,              \* how many candidates it has gathered; the last is at hand
  offers, answered,      \* offers made; answers set
  (* history *)
  added, rejected,       \* remote candidates that AddICECandidate took, refused
  failures, answerLost

transportVars == <<lock, hasRemoteDescription, pendingICECandidates>>
pionVars == <<local, remote, gathered, offers, answered>>
historyVars == <<added, rejected, failures, answerLost>>
vars == <<transportVars, negotiation, handler, toSend, gatherer, pionVars, historyVars>>

Peers == {"offerer", "answerer"}
Other(p) == IF p = "offerer" THEN "answerer" ELSE "offerer"
-----------------------------------------------------------------------------
(* onNegotiationNeeded: CreateOffer and SetLocalDescription. *)
NegotiationNeeded ==
  /\ negotiation = "idle" /\ offers < MaxOffers /\ answered = offers
  /\ offers' = offers + 1
  /\ local' = [local EXCEPT !["offerer"] = TRUE]
  /\ negotiation' = "offering"
  /\ UNCHANGED <<transportVars, handler, toSend, gatherer, remote, gathered, answered,
                 historyVars>>

(* SendSessionDescription(offer) fails: the offer does not get through, or *)
(* the answerer's SetRemoteDescription refuses it.  It is only logged.     *)
OfferFails ==
  /\ negotiation = "offering" /\ failures < MaxFailures
  /\ negotiation' = "idle"
  /\ failures' = failures + 1
  /\ UNCHANGED <<transportVars, handler, toSend, gatherer, pionVars, added, rejected,
                 answerLost>>

(* The offer is set at the answerer; the offerer waits for the response.   *)
OfferArrives ==
  /\ negotiation = "offering" /\ handler["answerer"] = "none"
  /\ negotiation' = "waiting"
  /\ handler' = [handler EXCEPT !["answerer"] = "described"]
  /\ remote' = [remote EXCEPT !["answerer"] = TRUE]
  /\ UNCHANGED <<transportVars, toSend, gatherer, local, gathered, offers, answered,
                 historyVars>>
-----------------------------------------------------------------------------
(* HandleSessionDescription, from its Lock to the end of its loop.         *)
FlushUnlocked == "free"
FlushLock == "handler"
PendingButLast(p) ==
  SubSeq(pendingICECandidates[p], 1, Len(pendingICECandidates[p]) - 1)
ToFlush(p) == pendingICECandidates[p]

RecordDescription(p) ==
  /\ handler[p] = "described" /\ lock[p] = "free"
  /\ lock' = [lock EXCEPT ![p] = FlushLock]
  /\ hasRemoteDescription' = [hasRemoteDescription EXCEPT ![p] = TRUE]
  /\ toSend' = [toSend EXCEPT ![p] = ToFlush(p)]
  /\ handler' = [handler EXCEPT ![p] = "flushing"]
  /\ UNCHANGED <<pendingICECandidates, negotiation, gatherer, pionVars, historyVars>>

(* POST candidate: HandleCandidate and AddICECandidate of the other side,  *)
(* which take no lock.  An error is only logged.                           *)
TakesLock(q) == lock[q] = "free"
TakesNoLock(q) == TRUE

SendICECandidate(p, c) ==
  LET q == Other(p) IN
  \/ /\ TakesNoLock(q) /\ remote[q]
     /\ added' = [added EXCEPT ![q] = Append(@, c)]
     /\ UNCHANGED <<rejected, failures>>
  \/ /\ TakesNoLock(q) /\ ~remote[q]
     /\ rejected' = [rejected EXCEPT ![q] = @ \cup {c}]
     /\ UNCHANGED <<added, failures>>
  \/ /\ failures < MaxFailures
     /\ failures' = failures + 1
     /\ UNCHANGED <<added, rejected>>

FlushCandidate(p) ==
  /\ handler[p] = "flushing" /\ toSend[p] # <<>>
  /\ SendICECandidate(p, Head(toSend[p]))
  /\ toSend' = [toSend EXCEPT ![p] = Tail(@)]
  /\ UNCHANGED <<transportVars, negotiation, handler, gatherer, pionVars, answerLost>>

(* The handler of an answer returns. *)
AnswerHandled ==
  /\ handler["offerer"] = "flushing" /\ toSend["offerer"] = <<>>
  /\ handler' = [handler EXCEPT !["offerer"] = "none"]
  /\ lock' = [lock EXCEPT !["offerer"] = "free"]
  /\ UNCHANGED <<hasRemoteDescription, pendingICECandidates, negotiation, toSend, gatherer,
                 pionVars, historyVars>>
-----------------------------------------------------------------------------
(* The handler of an offer goes on: CreateAnswer, SetLocalDescription and  *)
(* the POST of the answer, with the lock held.                             *)
AnswerUnlocked == "free"
AnswerLock == lock["answerer"]

CreateAnswer ==
  /\ handler["answerer"] = "flushing" /\ toSend["answerer"] = <<>>
  /\ local' = [local EXCEPT !["answerer"] = TRUE]
  /\ handler' = [handler EXCEPT !["answerer"] = "answering"]
  /\ lock' = [lock EXCEPT !["answerer"] = AnswerLock]
  /\ UNCHANGED <<hasRemoteDescription, pendingICECandidates, negotiation, toSend, gatherer,
                 remote, gathered, offers, answered, historyVars>>

AnswerArrives ==
  /\ handler["answerer"] = "answering" /\ handler["offerer"] = "none"
  /\ handler' = [handler EXCEPT !["answerer"] = "answered", !["offerer"] = "described"]
  /\ remote' = [remote EXCEPT !["offerer"] = TRUE]
  /\ answered' = answered + 1
  /\ UNCHANGED <<transportVars, negotiation, toSend, gatherer, local, gathered, offers,
                 historyVars>>

(* The handler of an offer returns: the lock is released, and the offerer  *)
(* gets its response.                                                      *)
OfferHandled ==
  /\ handler' = [handler EXCEPT !["answerer"] = "none"]
  /\ lock' = [lock EXCEPT !["answerer"] = "free"]
  /\ negotiation' = "idle"
  /\ UNCHANGED <<hasRemoteDescription, pendingICECandidates, toSend, gatherer, pionVars,
                 added, rejected>>

AnswerAccepted ==
  /\ handler["answerer"] = "answered" /\ handler["offerer"] = "none"
  /\ OfferHandled
  /\ UNCHANGED <<failures, answerLost>>

(* CreateAnswer or SetLocalDescription fails, the answer does not get      *)
(* through or is refused, or its response is lost.                         *)
AnswerFails ==
  /\ \/ handler["answerer"] = "flushing" /\ toSend["answerer"] = <<>>
     \/ handler["answerer"] \in {"answering", "answered"}
  /\ failures < MaxFailures
  /\ failures' = failures + 1
  /\ answerLost' = TRUE
  /\ OfferHandled
-----------------------------------------------------------------------------
(* pion gathers a candidate and calls onICECandidate. *)
Gather(p) ==
  /\ gatherer[p] = "idle" /\ local[p] /\ gathered[p] < Candidates
  /\ gathered' = [gathered EXCEPT ![p] = @ + 1]
  /\ gatherer' = [gatherer EXCEPT ![p] = "called"]
  /\ UNCHANGED <<transportVars, negotiation, handler, toSend, local, remote, offers,
                 answered, historyVars>>

CandidateAfter(p) == gathered[p] + 1
CandidateAtHand(p) == gathered[p]

HoldBack(p) ==
  /\ gatherer[p] = "called" /\ lock[p] = "free" /\ ~hasRemoteDescription[p]
  /\ pendingICECandidates' = [pendingICECandidates EXCEPT ![p] = Append(@, CandidateAtHand(p))]
  /\ gatherer' = [gatherer EXCEPT ![p] = "idle"]
  /\ UNCHANGED <<lock, hasRemoteDescription, negotiation, handler, toSend, pionVars,
                 historyVars>>

StartSending(p) ==
  /\ gatherer[p] = "called" /\ lock[p] = "free" /\ hasRemoteDescription[p]
  /\ lock' = [lock EXCEPT ![p] = "gatherer"]
  /\ gatherer' = [gatherer EXCEPT ![p] = "sending"]
  /\ UNCHANGED <<hasRemoteDescription, pendingICECandidates, negotiation, handler, toSend,
                 pionVars, historyVars>>

SendGathered(p) ==
  /\ gatherer[p] = "sending"
  /\ SendICECandidate(p, CandidateAtHand(p))
  /\ lock' = [lock EXCEPT ![p] = "free"]
  /\ gatherer' = [gatherer EXCEPT ![p] = "idle"]
  /\ UNCHANGED <<hasRemoteDescription, pendingICECandidates, negotiation, handler, toSend,
                 pionVars, answerLost>>
-----------------------------------------------------------------------------
Init ==
  /\ lock = [p \in Peers |-> "free"]
  /\ hasRemoteDescription = [p \in Peers |-> FALSE]
  /\ pendingICECandidates = [p \in Peers |-> <<>>]
  /\ negotiation = "idle"
  /\ handler = [p \in Peers |-> "none"]
  /\ toSend = [p \in Peers |-> <<>>]
  /\ gatherer = [p \in Peers |-> "idle"]
  /\ local = [p \in Peers |-> FALSE] /\ remote = [p \in Peers |-> FALSE]
  /\ gathered = [p \in Peers |-> 0] /\ offers = 0 /\ answered = 0
  /\ added = [p \in Peers |-> <<>>] /\ rejected = [p \in Peers |-> {}]
  /\ failures = 0 /\ answerLost = FALSE

HandlerStep(p) == RecordDescription(p) \/ FlushCandidate(p)
OfferStep == OfferArrives \/ CreateAnswer \/ AnswerArrives \/ AnswerHandled \/ AnswerAccepted
GathererStep(p) == HoldBack(p) \/ StartSending(p) \/ SendGathered(p)

Next ==
  \/ NegotiationNeeded \/ OfferFails \/ OfferStep \/ AnswerFails
  \/ \E p \in Peers : Gather(p) \/ HandlerStep(p) \/ GathererStep(p)

Spec == Init /\ [][Next]_vars

(* A call that was made goes on; nothing forces pion to negotiate or to    *)
(* find a candidate, nor a call to fail.                                   *)
FairSpec ==
  /\ Spec
  /\ WF_vars(OfferStep)
  /\ \A p \in Peers : WF_vars(HandlerStep(p)) /\ WF_vars(GathererStep(p))
-----------------------------------------------------------------------------
Occurs(c, s) == \E k \in DOMAIN s : s[k] = c

(* The types of the variables. *)
TypeOK ==
  /\ lock \in [Peers -> {"free", "handler", "gatherer"}]
  /\ hasRemoteDescription \in [Peers -> BOOLEAN]
  /\ pendingICECandidates \in [Peers -> Seq(1 .. Candidates)]
  /\ negotiation \in {"idle", "offering", "waiting"}
  /\ handler \in [Peers -> {"none", "described", "flushing", "answering", "answered"}]
  /\ toSend \in [Peers -> Seq(1 .. Candidates)]
  /\ gatherer \in [Peers -> {"idle", "called", "sending"}]
  /\ local \in [Peers -> BOOLEAN] /\ remote \in [Peers -> BOOLEAN]
  /\ gathered \in [Peers -> 0 .. Candidates]
  /\ offers \in 0 .. MaxOffers /\ answered \in 0 .. offers
  /\ added \in [Peers -> Seq(1 .. Candidates)]
  /\ rejected \in [Peers -> SUBSET (1 .. Candidates)]
  /\ failures \in 0 .. MaxFailures /\ answerLost \in BOOLEAN

(* A candidate never reaches a side that has no remote description, where  *)
(* it would be lost, unless the answer failed: the answerer's candidates   *)
(* wait for the lock that is held until the answer was handled.            *)
NoCandidateBeforeDescription ==
  \A p \in Peers : rejected[p] # {} => p = "offerer" /\ answerLost

(* While no call fails, candidates arrive in the order they were gathered, *)
(* although some are sent by HandleSessionDescription and some by          *)
(* onICECandidate; only a candidate that is sent again, at a renegotiation,*)
(* comes after a later one.                                                *)
FirstArrivalsInOrder ==
  failures = 0 => \A p \in Peers : \A k \in DOMAIN added[p] : \A j \in 1 .. k - 1 :
    added[p][j] > added[p][k] => Occurs(added[p][k], SubSeq(added[p], 1, j))

(* Every gathered candidate reaches the other side, held back or not, and  *)
(* in this order, unless a call fails.                                     *)
EveryCandidateArrives ==
  /\ []FirstArrivalsInOrder
  /\ \A p \in Peers, c \in 1 .. Candidates :
       (gathered[p] = c) ~> (Occurs(c, added[Other(p)]) \/ failures > 0)

(* The two sides never wait for each other for ever: a negotiation ends,   *)
(* whatever fails.                                                         *)
NegotiationEnds == (negotiation = "waiting") ~> (negotiation = "idle")
=============================================================================
