--------------------------- MODULE FeedbackLedger ---------------------------
(***************************************************************************)
(* What the bandwidth estimator is promised about QUIC packets, whatever   *)
(* the tracer sees: packet numbers are settled in batches, a batch lies    *)
(* entirely above every earlier one, and a number gets at most one call,   *)
(* OnAck or OnLoss.  A number a batch passes over is never mentioned       *)
(* again.                                                                  *)
(***************************************************************************)
EXTENDS Naturals

CONSTANT MaxPN  \* the largest packet number of an instance

VARIABLES
  onAck,    \* how often OnAck was called for a packet number
  onLoss,   \* how often OnLoss was called for it
  horizon   \* every number below it is settled for good

vars == <<onAck, onLoss, horizon>>

PN == 0 .. MaxPN

Init ==
  /\ onAck = [p \in PN |-> 0]
  /\ onLoss = [p \in PN |-> 0]
  /\ horizon = 0

(* One batch: each number from the old horizon up to the new one gets at   *)
(* most one call, and nothing else is said.                                *)
Settle ==
  /\ horizon' \in horizon .. MaxPN + 1
  /\ onAck' \in [PN -> {0, 1}] /\ onLoss' \in [PN -> {0, 1}]
  /\ \A p \in PN :
       IF horizon <= p /\ p < horizon'
       THEN onAck'[p] + onLoss'[p] <= 1
       ELSE onAck'[p] = onAck[p] /\ onLoss'[p] = onLoss[p]

Next == Settle

Spec == Init /\ [][Next]_vars
=============================================================================
