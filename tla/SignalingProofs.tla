--------------------------- MODULE SignalingProofs ---------------------------
(***************************************************************************)
(* No candidate is sent to a side that cannot take it, for every number of *)
(* candidates, negotiations and failures.  The argument: the offerer sends *)
(* candidates only after the answer, so the answerer has the offer by then;*)
(* the answerer gathers none before its lock is taken for the answer, and  *)
(* the lock is released when the offerer has it, or when it is lost.       *)
(* That candidates come in order, unless a call failed, is then proved    *)
(* from the same lock: while the loop over the held back ones runs, nobody *)
(* else sends.                                                             *)
(***************************************************************************)
EXTENDS Signaling, SequenceTheorems, TLAPS

Handling(p) == handler[p] \in {"flushing", "answering", "answered"}

(* A side has what its handler, its flag and its goroutine suppose.        *)
Described ==
  /\ \A p \in Peers : handler[p] # "none" \/ hasRemoteDescription[p] => remote[p]
  /\ \A p \in Peers : Handling(p) \/ gatherer[p] = "sending" => hasRemoteDescription[p]
  /\ \A p \in Peers : gatherer[p] # "idle" => local[p] /\ gathered[p] > 0
  /\ remote["offerer"] => remote["answerer"]
  /\ local["answerer"] => hasRemoteDescription["answerer"]

(* Who holds the lock. *)
Locks ==
  \A p \in Peers :
    /\ Handling(p) => lock[p] = "handler"
    /\ gatherer[p] = "sending" => lock[p] = "gatherer"

(* The rounds of negotiation follow each other. *)
Rounds ==
  /\ handler["answerer"] # "none" => negotiation = "waiting"
  /\ negotiation = "offering" => answered < offers
  /\ handler["answerer"] \in {"described", "flushing", "answering"} => answered < offers

(* The answerer never holds a candidate back: it has none before its lock  *)
(* is taken.                                                               *)
NothingPending == pendingICECandidates["answerer"] = <<>> /\ toSend["answerer"] = <<>>

(* Between the answer's creation and its arrival the handler has the lock. *)
AnswerOnTheWay ==
  /\ handler["answerer"] = "answered" => remote["offerer"]
  /\ local["answerer"] /\ ~remote["offerer"] /\ ~answerLost =>
       handler["answerer"] = "answering" /\ lock["answerer"] = "handler"

IInv ==
  /\ TypeOK /\ Described /\ Locks /\ Rounds /\ NothingPending /\ AnswerOnTheWay
  /\ NoCandidateBeforeDescription

THEOREM InitInvariant == Init => IInv
<1> SUFFICES ASSUME Init PROVE IInv
  OBVIOUS
<1> USE ConstantsOK DEF ConstantsOK, Init, Peers, Handling
<1>1. TypeOK
  <2>1. /\ pendingICECandidates \in [Peers -> Seq(1 .. Candidates)]
        /\ toSend \in [Peers -> Seq(1 .. Candidates)]
        /\ added \in [Peers -> Seq(1 .. Candidates)]
    OBVIOUS
  <2>2. rejected \in [Peers -> SUBSET (1 .. Candidates)]
    OBVIOUS
  <2>3. gathered \in [Peers -> 0 .. Candidates]
    OBVIOUS
  <2>4. offers \in 0 .. MaxOffers /\ answered \in 0 .. offers /\ failures \in 0 .. MaxFailures
    OBVIOUS
  <2>5. /\ lock \in [Peers -> {"free", "handler", "gatherer"}]
        /\ handler \in [Peers -> {"none", "described", "flushing", "answering", "answered"}]
        /\ gatherer \in [Peers -> {"idle", "called", "sending"}]
        /\ negotiation \in {"idle", "offering", "waiting"}
    OBVIOUS
  <2>6. /\ hasRemoteDescription \in [Peers -> BOOLEAN] /\ local \in [Peers -> BOOLEAN]
        /\ remote \in [Peers -> BOOLEAN] /\ answerLost \in BOOLEAN
    OBVIOUS
  <2> HIDE DEF Init
  <2> QED
    BY <2>1, <2>2, <2>3, <2>4, <2>5, <2>6 DEF TypeOK
<1>2. Described
  BY DEF Described
<1>3. Locks
  BY DEF Locks
<1>4. Rounds
  BY DEF Rounds
<1>5. NothingPending
  BY DEF NothingPending
<1>6. AnswerOnTheWay
  BY DEF AnswerOnTheWay
<1>7. NoCandidateBeforeDescription
  BY DEF NoCandidateBeforeDescription
<1> QED
  BY <1>1, <1>2, <1>3, <1>4, <1>5, <1>6, <1>7 DEF IInv

(* What a POST of a candidate leaves behind, if the other side has the     *)
(* description, or the answer was lost.                                    *)
LEMMA CandidateSent ==
  ASSUME IInv, NEW p \in Peers, NEW c \in 1 .. Candidates, SendICECandidate(p, c),
         remote[Other(p)] \/ (p = "answerer" /\ answerLost)
  PROVE  /\ added' \in [Peers -> Seq(1 .. Candidates)]
         /\ rejected' \in [Peers -> SUBSET (1 .. Candidates)]
         /\ failures' \in 0 .. MaxFailures
         /\ \A q \in Peers : rejected'[q] # {} => q = "offerer" /\ answerLost
<1> USE ConstantsOK DEF ConstantsOK, IInv, TypeOK, Peers, Other, NoCandidateBeforeDescription
<1> DEFINE q == Other(p)
<1>1. CASE /\ remote[q] /\ added' = [added EXCEPT ![q] = Append(@, c)]
           /\ UNCHANGED <<rejected, failures>>
  BY <1>1
<1>2. CASE /\ ~remote[q] /\ rejected' = [rejected EXCEPT ![q] = @ \cup {c}]
           /\ UNCHANGED <<added, failures>>
  <2>1. p = "answerer" /\ q = "offerer" /\ answerLost
    BY <1>2
  <2> QED
    BY <1>2, <2>1
<1>3. CASE failures < MaxFailures /\ failures' = failures + 1 /\ UNCHANGED <<added, rejected>>
  BY <1>3
<1> QED
  BY <1>1, <1>2, <1>3 DEF SendICECandidate, TakesNoLock

THEOREM StepInvariant == IInv /\ [Next]_vars => IInv'
<1> SUFFICES ASSUME IInv, [Next]_vars PROVE IInv'
  OBVIOUS
<1> USE ConstantsOK DEF ConstantsOK, IInv, Peers, Handling, transportVars, pionVars, historyVars
<1>1. CASE NegotiationNeeded
  <2>1. TypeOK'
    BY <1>1 DEF NegotiationNeeded, TypeOK, Described, Rounds
  <2>2. Described'
    BY <1>1 DEF NegotiationNeeded, TypeOK, Described, Locks, Rounds, NothingPending, AnswerOnTheWay
  <2>3. Locks'
    BY <1>1 DEF NegotiationNeeded, TypeOK, Locks
  <2>4. Rounds'
    BY <1>1 DEF NegotiationNeeded, TypeOK, Rounds
  <2>5. NothingPending'
    BY <1>1 DEF NegotiationNeeded, TypeOK, NothingPending
  <2>6. AnswerOnTheWay'
    BY <1>1 DEF NegotiationNeeded, TypeOK, Described, Locks, Rounds, NothingPending, AnswerOnTheWay
  <2>7. NoCandidateBeforeDescription'
    BY <1>1 DEF NegotiationNeeded, TypeOK, NoCandidateBeforeDescription
  <2> QED
    BY <2>1, <2>2, <2>3, <2>4, <2>5, <2>6, <2>7
<1>2. CASE OfferFails
  <2>1. TypeOK'
    BY <1>2 DEF OfferFails, TypeOK, Described, Rounds
  <2>2. Described'
    BY <1>2 DEF OfferFails, TypeOK, Described, Locks, Rounds, NothingPending, AnswerOnTheWay
  <2>3. Locks'
    BY <1>2 DEF OfferFails, TypeOK, Locks
  <2>4. Rounds'
    BY <1>2 DEF OfferFails, TypeOK, Rounds
  <2>5. NothingPending'
    BY <1>2 DEF OfferFails, TypeOK, NothingPending
  <2>6. AnswerOnTheWay'
    BY <1>2 DEF OfferFails, TypeOK, Described, Locks, Rounds, NothingPending, AnswerOnTheWay
  <2>7. NoCandidateBeforeDescription'
    BY <1>2 DEF OfferFails, TypeOK, NoCandidateBeforeDescription
  <2> QED
    BY <2>1, <2>2, <2>3, <2>4, <2>5, <2>6, <2>7
<1>3. CASE OfferArrives
  <2>1. TypeOK'
    BY <1>3 DEF OfferArrives, TypeOK, Described, Rounds
  <2>2. Described'
    BY <1>3 DEF OfferArrives, TypeOK, Described, Locks, Rounds, NothingPending, AnswerOnTheWay
  <2>3. Locks'
    BY <1>3 DEF OfferArrives, TypeOK, Locks
  <2>4. Rounds'
    BY <1>3 DEF OfferArrives, TypeOK, Rounds
  <2>5. NothingPending'
    BY <1>3 DEF OfferArrives, TypeOK, NothingPending
  <2>6. AnswerOnTheWay'
    BY <1>3 DEF OfferArrives, TypeOK, Described, Locks, Rounds, NothingPending, AnswerOnTheWay
  <2>7. NoCandidateBeforeDescription'
    BY <1>3 DEF OfferArrives, TypeOK, NoCandidateBeforeDescription
  <2> QED
    BY <2>1, <2>2, <2>3, <2>4, <2>5, <2>6, <2>7
<1>4. CASE CreateAnswer
  <2>1. TypeOK'
    BY <1>4 DEF CreateAnswer, AnswerLock, TypeOK, Described, Rounds
  <2>2. Described'
    BY <1>4 DEF CreateAnswer, AnswerLock, TypeOK, Described, Locks, Rounds, NothingPending, AnswerOnTheWay
  <2>3. Locks'
    BY <1>4 DEF CreateAnswer, AnswerLock, TypeOK, Locks
  <2>4. Rounds'
    BY <1>4 DEF CreateAnswer, AnswerLock, TypeOK, Rounds
  <2>5. NothingPending'
    BY <1>4 DEF CreateAnswer, AnswerLock, TypeOK, NothingPending
  <2>6. AnswerOnTheWay'
    BY <1>4 DEF CreateAnswer, AnswerLock, TypeOK, Described, Locks, Rounds, NothingPending, AnswerOnTheWay
  <2>7. NoCandidateBeforeDescription'
    BY <1>4 DEF CreateAnswer, AnswerLock, TypeOK, NoCandidateBeforeDescription
  <2> QED
    BY <2>1, <2>2, <2>3, <2>4, <2>5, <2>6, <2>7
<1>5. CASE AnswerArrives
  <2>1. TypeOK'
    BY <1>5 DEF AnswerArrives, TypeOK, Described, Rounds
  <2>2. Described'
    BY <1>5 DEF AnswerArrives, TypeOK, Described, Locks, Rounds, NothingPending, AnswerOnTheWay
  <2>3. Locks'
    BY <1>5 DEF AnswerArrives, TypeOK, Locks
  <2>4. Rounds'
    BY <1>5 DEF AnswerArrives, TypeOK, Rounds
  <2>5. NothingPending'
    BY <1>5 DEF AnswerArrives, TypeOK, NothingPending
  <2>6. AnswerOnTheWay'
    BY <1>5 DEF AnswerArrives, TypeOK, Described, Locks, Rounds, NothingPending, AnswerOnTheWay
  <2>7. NoCandidateBeforeDescription'
    BY <1>5 DEF AnswerArrives, TypeOK, NoCandidateBeforeDescription
  <2> QED
    BY <2>1, <2>2, <2>3, <2>4, <2>5, <2>6, <2>7
<1>6. CASE AnswerHandled
  <2>1. TypeOK'
    BY <1>6 DEF AnswerHandled, TypeOK, Described, Rounds
  <2>2. Described'
    BY <1>6 DEF AnswerHandled, TypeOK, Described, Locks, Rounds, NothingPending, AnswerOnTheWay
  <2>3. Locks'
    BY <1>6 DEF AnswerHandled, TypeOK, Locks
  <2>4. Rounds'
    BY <1>6 DEF AnswerHandled, TypeOK, Rounds
  <2>5. NothingPending'
    BY <1>6 DEF AnswerHandled, TypeOK, NothingPending
  <2>6. AnswerOnTheWay'
    BY <1>6 DEF AnswerHandled, TypeOK, Described, Locks, Rounds, NothingPending, AnswerOnTheWay
  <2>7. NoCandidateBeforeDescription'
    BY <1>6 DEF AnswerHandled, TypeOK, NoCandidateBeforeDescription
  <2> QED
    BY <2>1, <2>2, <2>3, <2>4, <2>5, <2>6, <2>7
<1>7. CASE AnswerAccepted
  <2>1. TypeOK'
    BY <1>7 DEF AnswerAccepted, OfferHandled, TypeOK, Described, Rounds
  <2>2. Described'
    BY <1>7 DEF AnswerAccepted, OfferHandled, TypeOK, Described, Locks, Rounds, NothingPending, AnswerOnTheWay
  <2>3. Locks'
    BY <1>7 DEF AnswerAccepted, OfferHandled, TypeOK, Locks
  <2>4. Rounds'
    BY <1>7 DEF AnswerAccepted, OfferHandled, TypeOK, Rounds
  <2>5. NothingPending'
    BY <1>7 DEF AnswerAccepted, OfferHandled, TypeOK, NothingPending
  <2>6. AnswerOnTheWay'
    BY <1>7 DEF AnswerAccepted, OfferHandled, TypeOK, Described, Locks, Rounds, NothingPending, AnswerOnTheWay
  <2>7. NoCandidateBeforeDescription'
    BY <1>7 DEF AnswerAccepted, OfferHandled, TypeOK, NoCandidateBeforeDescription
  <2> QED
    BY <2>1, <2>2, <2>3, <2>4, <2>5, <2>6, <2>7
<1>8. CASE AnswerFails
  <2>1. TypeOK'
    BY <1>8 DEF AnswerFails, OfferHandled, TypeOK, Described, Rounds
  <2>2. Described'
    BY <1>8 DEF AnswerFails, OfferHandled, TypeOK, Described, Locks, Rounds, NothingPending, AnswerOnTheWay
  <2>3. Locks'
    BY <1>8 DEF AnswerFails, OfferHandled, TypeOK, Locks
  <2>4. Rounds'
    BY <1>8 DEF AnswerFails, OfferHandled, TypeOK, Rounds
  <2>5. NothingPending'
    BY <1>8 DEF AnswerFails, OfferHandled, TypeOK, NothingPending
  <2>6. AnswerOnTheWay'
    BY <1>8 DEF AnswerFails, OfferHandled, TypeOK, Described, Locks, Rounds, NothingPending, AnswerOnTheWay
  <2>7. NoCandidateBeforeDescription'
    BY <1>8 DEF AnswerFails, OfferHandled, TypeOK, NoCandidateBeforeDescription
  <2> QED
    BY <2>1, <2>2, <2>3, <2>4, <2>5, <2>6, <2>7
<1>9. ASSUME NEW p \in Peers, Gather(p) PROVE IInv'
  <2>1. TypeOK'
    BY <1>9 DEF Gather, TypeOK, Described, Rounds
  <2>2. Described'
    BY <1>9 DEF Gather, TypeOK, Described, Locks, Rounds, NothingPending, AnswerOnTheWay
  <2>3. Locks'
    BY <1>9 DEF Gather, TypeOK, Locks
  <2>4. Rounds'
    BY <1>9 DEF Gather, TypeOK, Rounds
  <2>5. NothingPending'
    BY <1>9 DEF Gather, TypeOK, NothingPending
  <2>6. AnswerOnTheWay'
    BY <1>9 DEF Gather, TypeOK, Described, Locks, Rounds, NothingPending, AnswerOnTheWay
  <2>7. NoCandidateBeforeDescription'
    BY <1>9 DEF Gather, TypeOK, NoCandidateBeforeDescription
  <2> QED
    BY <2>1, <2>2, <2>3, <2>4, <2>5, <2>6, <2>7
<1>10. ASSUME NEW p \in Peers, RecordDescription(p) PROVE IInv'
  <2>1. TypeOK'
    BY <1>10 DEF RecordDescription, FlushLock, ToFlush, TypeOK, Described, Rounds
  <2>2. Described'
    BY <1>10 DEF RecordDescription, FlushLock, ToFlush, TypeOK, Described, Locks, Rounds, NothingPending, AnswerOnTheWay
  <2>3. Locks'
    BY <1>10 DEF RecordDescription, FlushLock, ToFlush, TypeOK, Locks
  <2>4. Rounds'
    BY <1>10 DEF RecordDescription, FlushLock, ToFlush, TypeOK, Rounds
  <2>5. NothingPending'
    BY <1>10 DEF RecordDescription, FlushLock, ToFlush, TypeOK, NothingPending
  <2>6. AnswerOnTheWay'
    BY <1>10 DEF RecordDescription, FlushLock, ToFlush, TypeOK, Described, Locks, Rounds, NothingPending, AnswerOnTheWay
  <2>7. NoCandidateBeforeDescription'
    BY <1>10 DEF RecordDescription, FlushLock, ToFlush, TypeOK, NoCandidateBeforeDescription
  <2> QED
    BY <2>1, <2>2, <2>3, <2>4, <2>5, <2>6, <2>7
<1>11. ASSUME NEW p \in Peers, HoldBack(p) PROVE IInv'
  <2>1. TypeOK'
    BY <1>11 DEF HoldBack, CandidateAtHand, TypeOK, Described, Rounds
  <2>2. Described'
    BY <1>11 DEF HoldBack, CandidateAtHand, TypeOK, Described, Locks, Rounds, NothingPending, AnswerOnTheWay
  <2>3. Locks'
    BY <1>11 DEF HoldBack, CandidateAtHand, TypeOK, Locks
  <2>4. Rounds'
    BY <1>11 DEF HoldBack, CandidateAtHand, TypeOK, Rounds
  <2>5. NothingPending'
    BY <1>11 DEF HoldBack, CandidateAtHand, TypeOK, Described, NothingPending
  <2>6. AnswerOnTheWay'
    BY <1>11 DEF HoldBack, CandidateAtHand, TypeOK, Described, Locks, Rounds, NothingPending, AnswerOnTheWay
  <2>7. NoCandidateBeforeDescription'
    BY <1>11 DEF HoldBack, CandidateAtHand, TypeOK, NoCandidateBeforeDescription
  <2> QED
    BY <2>1, <2>2, <2>3, <2>4, <2>5, <2>6, <2>7
<1>12. ASSUME NEW p \in Peers, StartSending(p) PROVE IInv'
  <2>1. TypeOK'
    BY <1>12 DEF StartSending, TypeOK, Described, Rounds
  <2>2. Described'
    BY <1>12 DEF StartSending, TypeOK, Described, Locks, Rounds, NothingPending, AnswerOnTheWay
  <2>3. Locks'
    BY <1>12 DEF StartSending, TypeOK, Locks
  <2>4. Rounds'
    BY <1>12 DEF StartSending, TypeOK, Rounds
  <2>5. NothingPending'
    BY <1>12 DEF StartSending, TypeOK, NothingPending
  <2>6. AnswerOnTheWay'
    BY <1>12 DEF StartSending, TypeOK, Described, Locks, Rounds, NothingPending, AnswerOnTheWay
  <2>7. NoCandidateBeforeDescription'
    BY <1>12 DEF StartSending, TypeOK, NoCandidateBeforeDescription
  <2> QED
    BY <2>1, <2>2, <2>3, <2>4, <2>5, <2>6, <2>7
<1>13. ASSUME NEW p \in Peers, FlushCandidate(p) PROVE IInv'
  <2>a. p = "offerer" /\ remote[Other(p)]
    BY <1>13 DEF FlushCandidate, NothingPending, Described, Other
  <2>b. Head(toSend[p]) \in 1 .. Candidates /\ Tail(toSend[p]) \in Seq(1 .. Candidates)
    <3>1. toSend[p] \in Seq(1 .. Candidates) /\ toSend[p] # <<>>
      BY <1>13 DEF FlushCandidate, TypeOK
    <3> QED
      BY <3>1, HeadTailProperties
  <2>c. SendICECandidate(p, Head(toSend[p]))
    BY <1>13 DEF FlushCandidate
  <2> HIDE DEF IInv
  <2>d. /\ added' \in [Peers -> Seq(1 .. Candidates)]
        /\ rejected' \in [Peers -> SUBSET (1 .. Candidates)]
        /\ failures' \in 0 .. MaxFailures
        /\ \A q \in Peers : rejected'[q] # {} => q = "offerer" /\ answerLost
    BY <2>a, <2>b, <2>c, CandidateSent
  <2> USE DEF IInv
  <2>1. TypeOK'
    BY <1>13, <2>b, <2>d DEF FlushCandidate, TypeOK
  <2>2. Described'
    BY <1>13 DEF FlushCandidate, TypeOK, Described, Locks, Rounds, NothingPending, AnswerOnTheWay
  <2>3. Locks'
    BY <1>13 DEF FlushCandidate, TypeOK, Described, Locks, Rounds, NothingPending, AnswerOnTheWay
  <2>4. Rounds'
    BY <1>13 DEF FlushCandidate, TypeOK, Described, Locks, Rounds, NothingPending, AnswerOnTheWay
  <2>5. NothingPending'
    BY <1>13 DEF FlushCandidate, TypeOK, Described, Locks, Rounds, NothingPending, AnswerOnTheWay
  <2>6. AnswerOnTheWay'
    BY <1>13 DEF FlushCandidate, TypeOK, Described, Locks, Rounds, NothingPending, AnswerOnTheWay
  <2>7. NoCandidateBeforeDescription'
    BY <1>13, <2>b, <2>d DEF FlushCandidate, TypeOK, Described, NoCandidateBeforeDescription
  <2> QED
    BY <2>1, <2>2, <2>3, <2>4, <2>5, <2>6, <2>7
<1>14. ASSUME NEW p \in Peers, SendGathered(p) PROVE IInv'
  <2>a. remote[Other(p)] \/ (p = "answerer" /\ answerLost)
    BY <1>14 DEF SendGathered, TypeOK, Described, Locks, AnswerOnTheWay, Other
  <2>b. gathered[p] \in 1 .. Candidates
    BY <1>14 DEF SendGathered, Described, TypeOK
  <2>c. SendICECandidate(p, gathered[p])
    BY <1>14 DEF SendGathered, CandidateAtHand
  <2> HIDE DEF IInv
  <2>d. /\ added' \in [Peers -> Seq(1 .. Candidates)]
        /\ rejected' \in [Peers -> SUBSET (1 .. Candidates)]
        /\ failures' \in 0 .. MaxFailures
        /\ \A q \in Peers : rejected'[q] # {} => q = "offerer" /\ answerLost
    BY <2>a, <2>b, <2>c, CandidateSent
  <2> USE DEF IInv
  <2>1. TypeOK'
    BY <1>14, <2>d DEF SendGathered, TypeOK
  <2>2. Described'
    BY <1>14 DEF SendGathered, TypeOK, Described, Locks, Rounds, NothingPending, AnswerOnTheWay
  <2>3. Locks'
    BY <1>14 DEF SendGathered, TypeOK, Described, Locks, Rounds, NothingPending, AnswerOnTheWay
  <2>4. Rounds'
    BY <1>14 DEF SendGathered, TypeOK, Described, Locks, Rounds, NothingPending, AnswerOnTheWay
  <2>5. NothingPending'
    BY <1>14 DEF SendGathered, TypeOK, Described, Locks, Rounds, NothingPending, AnswerOnTheWay
  <2>6. AnswerOnTheWay'
    BY <1>14 DEF SendGathered, TypeOK, Described, Locks, Rounds, NothingPending, AnswerOnTheWay
  <2>7. NoCandidateBeforeDescription'
    BY <1>14, <2>d DEF SendGathered, TypeOK, Described, NoCandidateBeforeDescription
  <2> QED
    BY <2>1, <2>2, <2>3, <2>4, <2>5, <2>6, <2>7
<1>15. CASE UNCHANGED vars
  BY <1>15
  DEF vars, TypeOK, Described, Locks, Rounds, NothingPending, AnswerOnTheWay,
      NoCandidateBeforeDescription
<1> QED
  BY <1>1, <1>2, <1>3, <1>4, <1>5, <1>6, <1>7, <1>8, <1>9, <1>10, <1>11, <1>12, <1>13, <1>14,
     <1>15
  DEF Next, OfferStep, HandlerStep, GathererStep

(* The types, for every value of the constants. *)
THEOREM TypeCorrect == Spec => []TypeOK
<1>1. IInv => TypeOK
  BY DEF IInv
<1> QED
  BY <1>1, InitInvariant, StepInvariant, PTL DEF Spec

(* A candidate is never lost for want of a remote description while the    *)
(* answer gets through.                                                    *)
THEOREM CandidatesAreAccepted == Spec => []NoCandidateBeforeDescription
<1>1. IInv => NoCandidateBeforeDescription
  BY DEF IInv
<1> QED
  BY <1>1, InitInvariant, StepInvariant, PTL DEF Spec
-----------------------------------------------------------------------------
(* The order of the candidates.  Those a side is done with, sent or held   *)
(* back.                                                                   *)
DoneWith(p) == IF gatherer[p] = "idle" THEN gathered[p] ELSE gathered[p] - 1

(* Held back are the first ones, all of them until the remote description  *)
(* is recorded.                                                            *)
FirstArePending(p) ==
  /\ \A i \in DOMAIN pendingICECandidates[p] : pendingICECandidates[p][i] = i
  /\ Len(pendingICECandidates[p]) <= DoneWith(p)
  /\ ~hasRemoteDescription[p] => Len(pendingICECandidates[p]) = DoneWith(p)

(* What is left of the loop are the last of those, and nobody else sends   *)
(* meanwhile.                                                              *)
Flushed(p) == Len(pendingICECandidates[p]) - Len(toSend[p])
RestIsLast(p) ==
  /\ toSend[p] # << >> => handler[p] = "flushing"
  /\ Flushed(p) >= 0
  /\ \A i \in DOMAIN toSend[p] : toSend[p][i] = Flushed(p) + i

(* While no call fails, what is neither held back nor at hand has arrived, *)
(* and no candidate arrived before one that was gathered earlier.          *)
NoneMissing(p) ==
  hasRemoteDescription[p] =>
    \A c \in 1 .. DoneWith(p) :
      Occurs(c, added[Other(p)]) \/ (Flushed(p) < c /\ c <= Len(pendingICECandidates[p]))
Filled(a) == \A j \in DOMAIN a : \A c \in 1 .. a[j] : \E i \in 1 .. j : a[i] = c

OrderInv ==
  /\ answerLost => failures > 0
  /\ \A p \in Peers : FirstArePending(p) /\ RestIsLast(p)
  /\ failures = 0 => \A p \in Peers : NoneMissing(p) /\ Filled(added[Other(p)])

(* What the types say of one side. *)
LEMMA SideTypes ==
  ASSUME IInv, NEW p \in Peers
  PROVE  /\ pendingICECandidates[p] \in Seq(1 .. Candidates) /\ toSend[p] \in Seq(1 .. Candidates)
         /\ added[Other(p)] \in Seq(1 .. Candidates) /\ Other(p) \in Peers /\ Other(Other(p)) = p
         /\ gathered[p] \in 0 .. Candidates /\ gatherer[p] \in {"idle", "called", "sending"}
         /\ failures \in Nat /\ Candidates \in Nat
         /\ gatherer[p] # "idle" => gathered[p] > 0
BY ConstantsOK DEF ConstantsOK, IInv, TypeOK, Described, Peers, Other

(* A sequence in which every candidate comes after the smaller ones: a new *)
(* one may be appended once all smaller ones are there; and what comes     *)
(* late has come before.                                                   *)
LEMMA FilledAppend ==
  ASSUME NEW a \in Seq(1 .. Candidates), NEW c \in 1 .. Candidates, Candidates \in Nat, Filled(a),
         \A d \in 1 .. c - 1 : Occurs(d, a)
  PROVE  /\ Filled(Append(a, c)) /\ Occurs(c, Append(a, c))
         /\ \A d : Occurs(d, a) => Occurs(d, Append(a, c))
<1> DEFINE b == Append(a, c)
<1>1. /\ b \in Seq(1 .. Candidates) /\ Len(b) = Len(a) + 1 /\ Len(a) \in Nat
      /\ b[Len(a) + 1] = c /\ \A i \in 1 .. Len(a) : b[i] = a[i]
      /\ DOMAIN b = 1 .. Len(a) + 1 /\ DOMAIN a = 1 .. Len(a)
  OBVIOUS
<1> HIDE DEF b
<1>2. Occurs(c, b) /\ \A d : Occurs(d, a) => Occurs(d, b)
  <2>1. Len(a) + 1 \in DOMAIN b /\ \A k \in DOMAIN a : k \in DOMAIN b /\ b[k] = a[k]
    BY <1>1
  <2> QED
    BY <1>1, <2>1, Zenon DEF Occurs
<1>3. ASSUME NEW j \in DOMAIN b, NEW d \in 1 .. b[j] PROVE \E i \in 1 .. j : b[i] = d
  <2>1. CASE j \in DOMAIN a
    <3>1. PICK i \in 1 .. j : a[i] = d
      BY <1>1, <1>3, <2>1 DEF Filled
    <3> QED
      BY <1>1, <2>1, <3>1
  <2>2. CASE j = Len(a) + 1 /\ d = c
    BY <1>1, <2>2
  <2>3. CASE j = Len(a) + 1 /\ d # c
    <3>1. d \in 1 .. c - 1
      BY <1>1, <1>3, <2>3
    <3>2. PICK i \in DOMAIN a : a[i] = d
      BY <3>1 DEF Occurs
    <3> QED
      BY <1>1, <2>3, <3>2
  <2> QED
    BY <1>1, <2>1, <2>2, <2>3
<1> QED
  BY <1>2, <1>3 DEF Filled, b

LEMMA FilledIsInOrder ==
  ASSUME NEW a \in Seq(1 .. Candidates), Candidates \in Nat, Filled(a),
         NEW k \in DOMAIN a, NEW j \in 1 .. k - 1, a[j] > a[k]
  PROVE  Occurs(a[k], SubSeq(a, 1, j))
<1>1. j \in DOMAIN a /\ k \in 1 .. Len(a) /\ Len(a) \in Nat
  OBVIOUS
<1>2. a[k] \in 1 .. a[j]
  <2>1. a[j] \in 1 .. Candidates /\ a[k] \in 1 .. Candidates
    BY <1>1
  <2> QED
    BY <2>1
<1>3. PICK i \in 1 .. j : a[i] = a[k]
  BY <1>1, <1>2 DEF Filled
<1>4. DOMAIN SubSeq(a, 1, j) = 1 .. j /\ SubSeq(a, 1, j)[i] = a[i]
  BY <1>1
<1> QED
  BY <1>3, <1>4 DEF Occurs

(* A candidate that is sent arrives, while no call fails. *)
LEMMA SentArrives ==
  ASSUME IInv, IInv', answerLost => failures > 0, NEW p \in Peers, NEW c \in 1 .. Candidates,
         SendICECandidate(p, c), answerLost' = answerLost, failures' = 0
  PROVE  failures = 0 /\ added' = [added EXCEPT ![Other(p)] = Append(@, c)]
<1>1. failures \in Nat /\ Other(p) \in Peers
  BY SideTypes
<1>2. CASE failures' = failures + 1
  BY <1>1, <1>2
<1>3. CASE rejected' = [rejected EXCEPT ![Other(p)] = @ \cup {c}] /\ failures' = failures
  <2>1. rejected'[Other(p)] # {}
    BY <1>1, <1>3 DEF IInv, TypeOK
  <2>2. answerLost'
    BY <1>1, <2>1 DEF IInv, NoCandidateBeforeDescription
  <2> QED
    BY <1>3, <2>2
<1> QED
  BY <1>2, <1>3 DEF SendICECandidate
-----------------------------------------------------------------------------
(* A side of which a step changes nothing that matters here. *)
LEMMA SideUnchanged ==
  ASSUME NEW p \in Peers, FirstArePending(p), RestIsLast(p),
         pendingICECandidates'[p] = pendingICECandidates[p], toSend'[p] = toSend[p],
         hasRemoteDescription'[p] = hasRemoteDescription[p],
         DoneWith(p)' = DoneWith(p), added'[Other(p)] = added[Other(p)],
         toSend[p] # << >> => handler'[p] = "flushing"
  PROVE  /\ FirstArePending(p)' /\ RestIsLast(p)'
         /\ NoneMissing(p) => NoneMissing(p)'
         /\ Filled(added[Other(p)]) => Filled(added[Other(p)])'
<1>1. FirstArePending(p)'
  BY DEF FirstArePending
<1>2. Flushed(p)' = Flushed(p)
  BY DEF Flushed
<1>3. RestIsLast(p)'
  BY <1>2 DEF RestIsLast
<1>4. NoneMissing(p) => NoneMissing(p)'
  BY <1>2 DEF NoneMissing, Occurs
<1>5. Filled(added[Other(p)]) => Filled(added[Other(p)])'
  BY DEF Filled
<1> QED
  BY <1>1, <1>3, <1>4, <1>5

LEMMA KeepsOrder ==
  ASSUME IInv, OrderInv, UNCHANGED <<pendingICECandidates, toSend, hasRemoteDescription, added>>,
         failures' = failures \/ failures' = failures + 1, answerLost' => failures' > 0,
         \A p \in Peers : DoneWith(p)' = DoneWith(p),
         \A p \in Peers : toSend[p] # << >> => handler'[p] = "flushing"
  PROVE  OrderInv'
<1>1. failures \in Nat /\ (failures' = 0 => failures = 0)
  BY DEF IInv, TypeOK
<1>2. ASSUME NEW p \in Peers
      PROVE  /\ FirstArePending(p)' /\ RestIsLast(p)'
             /\ NoneMissing(p) => NoneMissing(p)'
             /\ Filled(added[Other(p)]) => Filled(added[Other(p)])'
  BY SideUnchanged DEF OrderInv
<1>3. failures' = 0 => \A p \in Peers : (NoneMissing(p) /\ Filled(added[Other(p)]))'
  BY <1>1, <1>2 DEF OrderInv
<1> QED
  BY <1>2, <1>3 DEF OrderInv

(* A step of one side: the other keeps what it has. *)
OthersKeep(p) ==
  \A q \in Peers \ {p} :
    /\ pendingICECandidates'[q] = pendingICECandidates[q] /\ toSend'[q] = toSend[q]
    /\ hasRemoteDescription'[q] = hasRemoteDescription[q]
    /\ gathered'[q] = gathered[q] /\ gatherer'[q] = gatherer[q] /\ handler'[q] = handler[q]
    /\ added'[Other(q)] = added[Other(q)]

LEMMA OneSideMoves ==
  ASSUME IInv, OrderInv, NEW p \in Peers, OthersKeep(p),
         failures' = failures \/ failures' = failures + 1, answerLost' = answerLost,
         FirstArePending(p)' /\ RestIsLast(p)',
         failures' = 0 => NoneMissing(p)' /\ Filled(added[Other(p)])'
  PROVE  OrderInv'
<1>1. failures \in Nat /\ (failures' = 0 => failures = 0) /\ (failures > 0 => failures' > 0)
  BY DEF IInv, TypeOK
<1>2. ASSUME NEW q \in Peers, q # p
      PROVE  /\ FirstArePending(q)' /\ RestIsLast(q)'
             /\ NoneMissing(q) => NoneMissing(q)'
             /\ Filled(added[Other(q)]) => Filled(added[Other(q)])'
  <2>1. DoneWith(q)' = DoneWith(q)
    BY <1>2 DEF OthersKeep, DoneWith
  <2>2. toSend[q] # << >> => handler'[q] = "flushing"
    BY <1>2 DEF OthersKeep, OrderInv, RestIsLast
  <2> QED
    BY <1>2, <2>1, <2>2, SideUnchanged DEF OthersKeep, OrderInv
<1>3. \A q \in Peers : (FirstArePending(q) /\ RestIsLast(q))'
  BY <1>2
<1>4. failures' = 0 => \A q \in Peers : (NoneMissing(q) /\ Filled(added[Other(q)]))'
  BY <1>1, <1>2 DEF OrderInv
<1>5. answerLost' => failures' > 0
  BY <1>1 DEF OrderInv
<1> QED
  BY <1>3, <1>4, <1>5 DEF OrderInv
-----------------------------------------------------------------------------
(* A candidate is held back: the next one, with no loop at work. *)
LEMMA HoldBackStep ==
  ASSUME IInv, OrderInv, NEW p \in Peers, HoldBack(p)
  PROVE  OrderInv'
<1> DEFINE P == pendingICECandidates[p]
           n == gathered[p]
<1>1. /\ gatherer[p] = "called" /\ ~hasRemoteDescription[p]
      /\ pendingICECandidates' = [pendingICECandidates EXCEPT ![p] = Append(@, n)]
      /\ gatherer' = [gatherer EXCEPT ![p] = "idle"]
      /\ UNCHANGED <<hasRemoteDescription, handler, toSend, gathered, added, failures, answerLost>>
  BY DEF HoldBack, CandidateAtHand, pionVars, historyVars
<1>2. /\ P \in Seq(1 .. Candidates) /\ toSend[p] \in Seq(1 .. Candidates) /\ n \in 1 .. Candidates
      /\ Candidates \in Nat
  <2>1. gathered[p] \in 0 .. Candidates /\ gathered[p] > 0 /\ Candidates \in Nat
    BY <1>1, SideTypes
  <2>2. gathered[p] \in 1 .. Candidates
    BY <2>1
  <2> QED
    BY <2>1, <2>2, SideTypes
<1>3. pendingICECandidates'[p] = Append(P, n) /\ gatherer'[p] = "idle" /\ DoneWith(p)' = n
  BY <1>1 DEF IInv, TypeOK, DoneWith
<1>4. /\ \A i \in DOMAIN P : P[i] = i
      /\ Len(P) = n - 1
  BY <1>1 DEF OrderInv, FirstArePending, DoneWith
<1>5. toSend[p] = << >>
  BY <1>1 DEF OrderInv, RestIsLast, IInv, Described, Handling
<1> HIDE DEF P
<1>6. /\ Len(Append(P, n)) = n /\ DOMAIN Append(P, n) = 1 .. n
      /\ \A i \in 1 .. n : Append(P, n)[i] = i
  BY <1>2, <1>4
<1>7. FirstArePending(p)'
  BY <1>2, <1>3, <1>6 DEF FirstArePending
<1>8. RestIsLast(p)'
  <2>1. toSend'[p] = << >> /\ Len(toSend'[p]) = 0 /\ DOMAIN toSend'[p] = {}
    BY <1>1, <1>5
  <2> QED
    BY <1>2, <1>3, <1>6, <2>1 DEF RestIsLast, Flushed
<1>9. NoneMissing(p)'
  BY <1>1 DEF NoneMissing
<1>10. failures = 0 => Filled(added[Other(p)])'
  BY <1>1 DEF OrderInv, Filled
<1>11. OthersKeep(p)
  BY <1>1 DEF OthersKeep, IInv, TypeOK
<1> QED
  BY <1>1, <1>7, <1>8, <1>9, <1>10, <1>11, OneSideMoves

(* The remote description is recorded: all that is pending is to be sent.  *)
LEMMA RecordStep ==
  ASSUME IInv, OrderInv, NEW p \in Peers, RecordDescription(p)
  PROVE  OrderInv'
<1> DEFINE P == pendingICECandidates[p]
<1>1. /\ handler[p] = "described" /\ UNCHANGED <<pendingICECandidates, gatherer, gathered, added, failures, answerLost>>
      /\ hasRemoteDescription' = [hasRemoteDescription EXCEPT ![p] = TRUE]
      /\ toSend' = [toSend EXCEPT ![p] = P]
      /\ handler' = [handler EXCEPT ![p] = "flushing"]
  BY DEF RecordDescription, ToFlush, pionVars, historyVars
<1>2. P \in Seq(1 .. Candidates) /\ toSend[p] = << >>
  BY <1>1, SideTypes DEF OrderInv, RestIsLast
<1>3. toSend'[p] = P /\ hasRemoteDescription'[p] /\ handler'[p] = "flushing" /\ pendingICECandidates'[p] = P
  BY <1>1 DEF IInv, TypeOK
<1>4. DoneWith(p)' = DoneWith(p) /\ DoneWith(p) \in Int
  BY <1>1, SideTypes DEF DoneWith
<1>5. /\ \A i \in DOMAIN P : P[i] = i
      /\ Len(P) <= DoneWith(p) /\ (~hasRemoteDescription[p] => Len(P) = DoneWith(p))
  BY DEF OrderInv, FirstArePending
<1> HIDE DEF P
<1>6. Len(P) \in Nat /\ Len(P) - Len(P) = 0 /\ \A i \in DOMAIN P : i \in Int
  BY <1>2
<1>7. Flushed(p)' = 0
  BY <1>3, <1>6 DEF Flushed
<1>8. FirstArePending(p)'
  BY <1>3, <1>4, <1>5 DEF FirstArePending
<1>9. RestIsLast(p)'
  BY <1>3, <1>5, <1>6, <1>7 DEF RestIsLast
<1>10. failures = 0 => NoneMissing(p)' /\ Filled(added[Other(p)])'
  <2> SUFFICES ASSUME failures = 0 PROVE NoneMissing(p)' /\ Filled(added[Other(p)])'
    OBVIOUS
  <2>1. NoneMissing(p) /\ Filled(added[Other(p)])
    BY DEF OrderInv
  <2>2. ASSUME NEW c \in 1 .. DoneWith(p), ~(c <= Len(P)) PROVE Occurs(c, added[Other(p)])
    <3>1. hasRemoteDescription[p]
      BY <2>2, <1>4, <1>5, <1>6
    <3> QED
      BY <2>1, <2>2, <3>1 DEF NoneMissing, P
  <2>3. ASSUME NEW c \in 1 .. DoneWith(p) PROVE Occurs(c, added[Other(p)]) \/ (0 < c /\ c <= Len(P))
    BY <2>2, <1>4
  <2>4. NoneMissing(p)'
    BY <1>1, <1>3, <1>4, <1>7, <2>3 DEF NoneMissing, Occurs
  <2> QED
    BY <1>1, <2>1, <2>4 DEF Filled
<1>11. OthersKeep(p)
  BY <1>1 DEF OthersKeep, IInv, TypeOK
<1> QED
  BY <1>1, <1>8, <1>9, <1>10, <1>11, OneSideMoves

(* What a call that sends does to the other side. *)
LEMMA SendingTouches ==
  ASSUME IInv, NEW p \in Peers, NEW c, SendICECandidate(p, c)
  PROVE  /\ failures' = failures \/ failures' = failures + 1
         /\ \A q \in Peers \ {p} : added'[Other(q)] = added[Other(q)]
<1>1. added' = [added EXCEPT ![Other(p)] = Append(@, c)] \/ added' = added
  BY DEF SendICECandidate
<1>2. \A q \in Peers \ {p} : Other(q) # Other(p) /\ Other(q) \in Peers
  BY DEF Peers, Other
<1>3. \A q \in Peers \ {p} : added'[Other(q)] = added[Other(q)]
  BY <1>1, <1>2 DEF IInv, TypeOK
<1> QED
  BY <1>3 DEF SendICECandidate

(* The loop sends the first of the rest: all before it have arrived. *)
LEMMA FlushStep ==
  ASSUME IInv, IInv', OrderInv, NEW p \in Peers, FlushCandidate(p)
  PROVE  OrderInv'
<1> DEFINE P == pendingICECandidates[p]
           T == toSend[p]
           A == added[Other(p)]
           c == Head(T)
<1>1. /\ handler[p] = "flushing" /\ T # << >> /\ SendICECandidate(p, c)
      /\ toSend' = [toSend EXCEPT ![p] = Tail(@)]
      /\ UNCHANGED <<pendingICECandidates, hasRemoteDescription, handler, gatherer, gathered, answerLost>>
  BY DEF FlushCandidate, transportVars, pionVars
<1>2. /\ P \in Seq(1 .. Candidates) /\ T \in Seq(1 .. Candidates) /\ A \in Seq(1 .. Candidates)
      /\ Candidates \in Nat
  BY SideTypes
<1>3. toSend'[p] = Tail(T) /\ pendingICECandidates'[p] = P
  BY <1>1 DEF IInv, TypeOK
<1>4. DoneWith(p)' = DoneWith(p) /\ DoneWith(p) \in Int
  BY <1>1, SideTypes DEF DoneWith
<1>5. hasRemoteDescription[p] /\ hasRemoteDescription'[p]
  BY <1>1 DEF IInv, Described, Handling
<1>6. /\ Len(P) <= DoneWith(p) /\ Flushed(p) >= 0 /\ \A i \in DOMAIN T : T[i] = Flushed(p) + i
      /\ Flushed(p) = Len(P) - Len(T)
  BY DEF OrderInv, FirstArePending, RestIsLast, Flushed
<1>7. Flushed(p)' = Len(P) - Len(Tail(T))
  BY <1>3 DEF Flushed
<1>8. FirstArePending(p)'
  BY <1>1, <1>4 DEF OrderInv, FirstArePending
<1> HIDE DEF P, T, A
<1>9. /\ Len(T) \in Nat \ {0} /\ Len(P) \in Nat /\ c = T[1] /\ c \in 1 .. Candidates
      /\ Tail(T) \in Seq(1 .. Candidates) /\ Len(Tail(T)) = Len(T) - 1
      /\ \A i \in DOMAIN Tail(T) : i \in Nat /\ i + 1 \in DOMAIN T /\ Tail(T)[i] = T[i + 1]
      /\ 1 \in DOMAIN T
  BY <1>1, <1>2
<1> HIDE DEF c
<1>10. c = Flushed(p) + 1 /\ Flushed(p)' = Flushed(p) + 1 /\ Flushed(p) \in Int /\ c <= Len(P)
  BY <1>6, <1>7, <1>9
<1>11. RestIsLast(p)'
  <2>1. \A i \in DOMAIN Tail(T) : Tail(T)[i] = Flushed(p) + 1 + i
    BY <1>6, <1>9, <1>10
  <2>2. Flushed(p)' >= 0
    BY <1>6, <1>10
  <2> QED
    BY <1>1, <1>3, <1>10, <2>1, <2>2 DEF RestIsLast
<1>12. failures' = 0 => NoneMissing(p)' /\ Filled(added[Other(p)])'
  <2> SUFFICES ASSUME failures' = 0 PROVE NoneMissing(p)' /\ Filled(added[Other(p)])'
    OBVIOUS
  <2>1. failures = 0 /\ added' = [added EXCEPT ![Other(p)] = Append(@, c)]
    BY <1>1, <1>9, SentArrives DEF OrderInv
  <2>2. added'[Other(p)] = Append(A, c)
    BY <2>1, SideTypes DEF A, IInv, TypeOK
  <2>3. /\ Filled(A)
        /\ \A d \in 1 .. DoneWith(p) : Occurs(d, A) \/ (Flushed(p) < d /\ d <= Len(P))
    BY <2>1, <1>5 DEF OrderInv, NoneMissing, A, P
  <2>4. \A d \in 1 .. c - 1 : Occurs(d, A)
    <3> SUFFICES ASSUME NEW d \in 1 .. c - 1 PROVE Occurs(d, A)
      OBVIOUS
    <3>1. d \in 1 .. DoneWith(p) /\ ~(Flushed(p) < d)
      BY <1>4, <1>6, <1>9, <1>10
    <3> QED
      BY <2>3, <3>1
  <2>5. Filled(Append(A, c)) /\ Occurs(c, Append(A, c)) /\ \A d : Occurs(d, A) => Occurs(d, Append(A, c))
    BY <1>2, <1>9, <2>3, <2>4, FilledAppend
  <2>6. ASSUME NEW d \in 1 .. DoneWith(p)
        PROVE  Occurs(d, Append(A, c)) \/ (Flushed(p)' < d /\ d <= Len(P))
    <3>1. CASE Occurs(d, A)
      BY <2>5, <3>1
    <3>2. CASE d = c
      BY <2>5, <3>2
    <3>3. CASE d # c /\ Flushed(p) < d /\ d <= Len(P)
      <4>1. Flushed(p) + 1 < d
        BY <1>4, <1>10, <3>3
      <4> QED
        BY <1>10, <3>3, <4>1
    <3> QED
      BY <2>3, <2>6, <3>1, <3>2, <3>3
  <2>7. NoneMissing(p)'
    BY <1>3, <1>4, <2>2, <2>6 DEF NoneMissing, Occurs
  <2>8. Filled(added[Other(p)])'
    BY <2>2, <2>5 DEF Filled
  <2> QED
    BY <2>7, <2>8
<1>13. OthersKeep(p)
  BY <1>1, SendingTouches DEF OthersKeep, IInv, TypeOK
<1>14. failures' = failures \/ failures' = failures + 1
  BY <1>1, SendingTouches
<1> QED
  BY <1>1, <1>8, <1>11, <1>12, <1>13, <1>14, OneSideMoves

(* onICECandidate sends the candidate at hand: it has the lock, so that no *)
(* loop is at work, and all before it have arrived.                        *)
LEMMA GatheredStep ==
  ASSUME IInv, IInv', OrderInv, NEW p \in Peers, SendGathered(p)
  PROVE  OrderInv'
<1> DEFINE P == pendingICECandidates[p]
           A == added[Other(p)]
           c == gathered[p]
<1>1. /\ gatherer[p] = "sending" /\ SendICECandidate(p, c)
      /\ gatherer' = [gatherer EXCEPT ![p] = "idle"]
      /\ UNCHANGED <<pendingICECandidates, hasRemoteDescription, handler, toSend, gathered, answerLost>>
  BY DEF SendGathered, CandidateAtHand, pionVars
<1>2. P \in Seq(1 .. Candidates) /\ A \in Seq(1 .. Candidates) /\ Candidates \in Nat
  BY SideTypes
<1>3. c \in 1 .. Candidates
  <2>1. gathered[p] \in 0 .. Candidates /\ gathered[p] > 0 /\ Candidates \in Nat
    BY <1>1, SideTypes
  <2> QED
    BY <2>1
<1>4. hasRemoteDescription[p]
  BY <1>1 DEF IInv, Described
<1>5. toSend[p] = << >>
  <2>1. lock[p] = "gatherer"
    BY <1>1 DEF IInv, Locks
  <2>2. handler[p] # "flushing"
    BY <2>1 DEF IInv, Locks, Handling
  <2> QED
    BY <2>2 DEF OrderInv, RestIsLast
<1>6. DoneWith(p) = c - 1 /\ DoneWith(p)' = c
  BY <1>1 DEF DoneWith, IInv, TypeOK
<1>7. Flushed(p) = Len(P) /\ Flushed(p)' = Len(P) /\ Len(P) \in Nat
  <2>1. Len(toSend[p]) = 0 /\ Len(P) \in Nat
    BY <1>2, <1>5
  <2>2. Flushed(p) = Len(P) - 0 /\ Flushed(p)' = Len(P) - 0
    BY <1>1, <2>1 DEF Flushed
  <2> QED
    BY <2>1, <2>2
<1>8. Len(P) <= c - 1 /\ \A i \in DOMAIN P : P[i] = i
  BY <1>6 DEF OrderInv, FirstArePending
<1>9. FirstArePending(p)'
  <2>1. Len(P) <= c
    BY <1>3, <1>7, <1>8
  <2> QED
    BY <1>1, <1>4, <1>6, <1>8, <2>1 DEF FirstArePending
<1>10. RestIsLast(p)'
  BY <1>1, <1>7 DEF OrderInv, RestIsLast
<1>11. failures' = 0 => NoneMissing(p)' /\ Filled(added[Other(p)])'
  <2> SUFFICES ASSUME failures' = 0 PROVE NoneMissing(p)' /\ Filled(added[Other(p)])'
    OBVIOUS
  <2>1. failures = 0 /\ added' = [added EXCEPT ![Other(p)] = Append(@, c)]
    BY <1>1, <1>3, SentArrives DEF OrderInv
  <2>2. added'[Other(p)] = Append(A, c)
    BY <2>1, SideTypes DEF IInv, TypeOK
  <2>3. /\ Filled(A)
        /\ \A d \in 1 .. c - 1 : Occurs(d, A) \/ (Len(P) < d /\ d <= Len(P))
    BY <2>1, <1>4, <1>6, <1>7 DEF OrderInv, NoneMissing
  <2> HIDE DEF P, A, c
  <2>4. \A d \in 1 .. c - 1 : Occurs(d, A)
    BY <2>3, <1>3, <1>7
  <2>5. Filled(Append(A, c)) /\ Occurs(c, Append(A, c)) /\ \A d : Occurs(d, A) => Occurs(d, Append(A, c))
    BY <1>2, <1>3, <2>3, <2>4, FilledAppend
  <2>6. \A d \in 1 .. c : Occurs(d, Append(A, c))
    <3> SUFFICES ASSUME NEW d \in 1 .. c PROVE Occurs(d, Append(A, c))
      OBVIOUS
    <3>1. d = c \/ d \in 1 .. c - 1
      BY <1>3
    <3> QED
      BY <2>4, <2>5, <3>1
  <2>7. NoneMissing(p)'
    BY <1>6, <2>2, <2>6 DEF NoneMissing, Occurs
  <2>8. Filled(added[Other(p)])'
    BY <2>2, <2>5 DEF Filled
  <2> QED
    BY <2>7, <2>8
<1>12. OthersKeep(p)
  BY <1>1, SendingTouches DEF OthersKeep, IInv, TypeOK
<1>13. failures' = failures \/ failures' = failures + 1
  BY <1>1, SendingTouches
<1> QED
  BY <1>1, <1>9, <1>10, <1>11, <1>12, <1>13, OneSideMoves
-----------------------------------------------------------------------------
(* The other steps neither send nor gather more than they are done with.   *)
LEMMA CalmStep ==
  ASSUME IInv, OrderInv,
         \/ NegotiationNeeded \/ OfferFails \/ OfferStep \/ AnswerFails
         \/ \E p \in Peers : Gather(p) \/ StartSending(p)
         \/ UNCHANGED vars
  PROVE  OrderInv'
<1>1. UNCHANGED <<pendingICECandidates, toSend, hasRemoteDescription, added>>
  BY DEF NegotiationNeeded, OfferFails, OfferStep, AnswerFails, Gather, StartSending, OfferArrives,
         CreateAnswer, AnswerArrives, AnswerHandled, AnswerAccepted, OfferHandled,
         transportVars, pionVars, historyVars, vars
<1>2. failures' = failures \/ failures' = failures + 1
  BY DEF NegotiationNeeded, OfferFails, OfferStep, AnswerFails, Gather, StartSending, OfferArrives,
         CreateAnswer, AnswerArrives, AnswerHandled, AnswerAccepted, OfferHandled,
         historyVars, vars
<1>3. answerLost' => failures' > 0
  <2>1. answerLost' = answerLost \/ failures' = failures + 1
    BY DEF NegotiationNeeded, OfferFails, OfferStep, AnswerFails, Gather, StartSending, OfferArrives,
           CreateAnswer, AnswerArrives, AnswerHandled, AnswerAccepted, OfferHandled,
           historyVars, vars
  <2>2. failures \in Nat /\ (answerLost => failures > 0)
    BY DEF IInv, TypeOK, OrderInv
  <2>3. failures' >= failures /\ (failures' = failures + 1 => failures' > 0)
    BY <1>2, <2>2
  <2>4. CASE failures' = failures + 1
    BY <2>3, <2>4
  <2>5. CASE answerLost' = answerLost /\ failures' = failures
    BY <2>2, <2>5
  <2> QED
    BY <1>2, <2>1, <2>4, <2>5
<1>4. \A p \in Peers : DoneWith(p)' = DoneWith(p)
  <2>1. CASE \E p \in Peers : Gather(p) \/ StartSending(p)
    <3>1. PICK p \in Peers : Gather(p) \/ StartSending(p)
      BY <2>1
    <3>2. CASE Gather(p)
      <4>1. /\ gatherer[p] = "idle" /\ gatherer' = [gatherer EXCEPT ![p] = "called"]
            /\ gathered' = [gathered EXCEPT ![p] = @ + 1] /\ gathered[p] \in Nat
        BY <3>2 DEF Gather, IInv, TypeOK
      <4> QED
        BY <4>1 DEF IInv, TypeOK, DoneWith
    <3>3. CASE StartSending(p)
      BY <3>3 DEF StartSending, pionVars, IInv, TypeOK, DoneWith
    <3> QED
      BY <3>1, <3>2, <3>3
  <2>2. CASE UNCHANGED <<gatherer, gathered>>
    BY <2>2 DEF DoneWith
  <2> QED
    BY <2>1, <2>2
    DEF NegotiationNeeded, OfferFails, OfferStep, AnswerFails, OfferArrives, CreateAnswer,
        AnswerArrives, AnswerHandled, AnswerAccepted, OfferHandled, pionVars, vars
<1>5. ASSUME NEW p \in Peers, toSend[p] # << >> PROVE handler'[p] = "flushing"
  <2>1. handler[p] = "flushing" /\ handler \in [Peers -> {"none", "described", "flushing", "answering", "answered"}]
    BY <1>5 DEF OrderInv, RestIsLast, IInv, TypeOK
  <2>2. CASE handler' = handler
    BY <2>1, <2>2
  <2>3. CASE OfferStep \/ AnswerFails
    BY <1>5, <2>1, <2>3
    DEF OfferStep, AnswerFails, OfferArrives, CreateAnswer, AnswerArrives, AnswerHandled,
        AnswerAccepted, OfferHandled, Peers
  <2> QED
    BY <2>2, <2>3 DEF NegotiationNeeded, OfferFails, Gather, StartSending, vars
<1> QED
  BY <1>1, <1>2, <1>3, <1>4, <1>5, KeepsOrder

LEMMA OrderInitially == Init => OrderInv
<1> SUFFICES ASSUME Init PROVE OrderInv
  OBVIOUS
<1>1. ASSUME NEW p \in Peers
      PROVE  /\ pendingICECandidates[p] = << >> /\ toSend[p] = << >> /\ added[Other(p)] = << >>
             /\ DoneWith(p) = 0 /\ ~hasRemoteDescription[p]
  BY DEF Init, DoneWith, Peers, Other
<1>2. Len(<< >>) = 0 /\ DOMAIN << >> = {}
  OBVIOUS
<1>3. ASSUME NEW p \in Peers
      PROVE  FirstArePending(p) /\ RestIsLast(p) /\ NoneMissing(p) /\ Filled(added[Other(p)])
  <2>1. FirstArePending(p)
    BY <1>1, <1>2, <1>3 DEF FirstArePending
  <2>2. Flushed(p) = 0 - 0
    BY <1>1, <1>2, <1>3 DEF Flushed
  <2>3. RestIsLast(p)
    BY <1>1, <1>2, <1>3, <2>2 DEF RestIsLast
  <2>4. NoneMissing(p) /\ Filled(added[Other(p)])
    BY <1>1, <1>2, <1>3 DEF NoneMissing, Filled
  <2> QED
    BY <2>1, <2>3, <2>4
<1> QED
  BY <1>3 DEF OrderInv, Init

(* Candidates arrive in the order in which they were gathered, for every   *)
(* number of candidates and negotiations, as long as no call fails: the    *)
(* lock keeps HandleSessionDescription and onICECandidate apart.           *)
THEOREM CandidatesStayInOrder == Spec => []FirstArrivalsInOrder
<1>1. IInv /\ OrderInv => FirstArrivalsInOrder
  <2> SUFFICES ASSUME IInv, OrderInv, failures = 0, NEW p \in Peers, NEW k \in DOMAIN added[p],
                      NEW j \in 1 .. k - 1, added[p][j] > added[p][k]
               PROVE  Occurs(added[p][k], SubSeq(added[p], 1, j))
    BY DEF FirstArrivalsInOrder
  <2>1. Other(p) \in Peers /\ Other(Other(p)) = p
    BY SideTypes
  <2>2. Filled(added[p]) /\ added[p] \in Seq(1 .. Candidates) /\ Candidates \in Nat
    BY <2>1, SideTypes DEF OrderInv
  <2> QED
    BY <2>2, FilledIsInOrder
<1>2. IInv /\ OrderInv /\ [Next]_vars => IInv' /\ OrderInv'
  <2> SUFFICES ASSUME IInv, OrderInv, [Next]_vars PROVE IInv' /\ OrderInv'
    OBVIOUS
  <2>1. IInv'
    BY StepInvariant
  <2>2. OrderInv'
    BY <2>1, HoldBackStep, RecordStep, FlushStep, GatheredStep, CalmStep
    DEF Next, HandlerStep, GathererStep
  <2> QED
    BY <2>1, <2>2
<1> QED
  BY <1>1, <1>2, InitInvariant, OrderInitially, PTL DEF Spec
=============================================================================
