------------------------------ MODULE DCSender ------------------------------
(***************************************************************************)
(* webrtc.DCsender: back-pressure for a data channel whose Send never      *)
(* blocks.                                                                 *)
(*                                                                         *)
(* Write hands its data to sendLoop, which sends it and, when more than    *)
(* maxBufferedAmount bytes are waiting in the channel, stops until it      *)
(* finds a token in sendMore.  The data channel puts one there, if there   *)
(* is room, whenever the buffered amount falls to the low threshold.  A    *)
(* token that nobody waits for stays, and lets a later stop pass at once.  *)
(* The data channel is pion's: it drains, it may fail, and it calls        *)
(* OnBufferedAmountLow when the amount crosses the threshold downwards.    *)
(* Close does nothing.  DataTransfer puts a source before and a sink       *)
(* behind this module.                                                     *)
(***************************************************************************)
EXTENDS Integers

CONSTANTS
  maxBufferedAmount,
  bufferedAmountLowThreshold,
  MaxMessage                   \* bound: size of the largest Write

ASSUME SenderConstantsOK ==
  /\ maxBufferedAmount \in Nat /\ bufferedAmountLowThreshold \in Nat
  /\ bufferedAmountLowThreshold < maxBufferedAmount
  /\ MaxMessage \in Nat /\ MaxMessage > 0

VARIABLES
  loop,            \* sendLoop: opening, receiving, sending, checking, full, stopped, failed
  inHand,          \* size of the data that sendLoop has taken, or 0
  bufferedAmount,  \* of the data channel
  sendMore,        \* tokens in the channel, whose capacity is 1
  lowPending       \* calls of OnBufferedAmountLow that are due, at most 1

senderVars == <<loop, inHand, bufferedAmount, sendMore, lowPending>>

(* OnOpen starts sendLoop; newDCsender returns after that. *)
Open ==
  /\ loop = "opening"
  /\ loop' = "receiving"
  /\ UNCHANGED <<inHand, bufferedAmount, sendMore, lowPending>>

(* Write and sendLoop meet at dataChan, which is not buffered. *)
Take(n) ==
  /\ loop = "receiving"
  /\ loop' = "sending"
  /\ inHand' = n
  /\ UNCHANGED <<bufferedAmount, sendMore, lowPending>>

Send ==
  /\ loop = "sending"
  /\ bufferedAmount' = bufferedAmount + inHand
  /\ inHand' = 0
  /\ loop' = "checking"
  /\ UNCHANGED <<sendMore, lowPending>>

(* Send fails: sendLoop returns, and nobody receives from dataChan again.  *)
SendFails ==
  /\ loop = "sending"
  /\ inHand' = 0
  /\ loop' = "failed"
  /\ UNCHANGED <<bufferedAmount, sendMore, lowPending>>

(* sendLoop looks at the buffered amount. *)
IsFullAboveTwice == bufferedAmount > 2 * maxBufferedAmount
IsFull == bufferedAmount > maxBufferedAmount

CheckAmount ==
  /\ loop = "checking"
  /\ loop' = IF IsFull THEN "full" ELSE "receiving"
  /\ UNCHANGED <<inHand, bufferedAmount, sendMore, lowPending>>

Stop ==
  /\ loop = "full"
  /\ loop' = "stopped"
  /\ UNCHANGED <<inHand, bufferedAmount, sendMore, lowPending>>

TakeToken ==
  /\ loop = "stopped" /\ sendMore = 1
  /\ sendMore' = 0
  /\ loop' = "receiving"
  /\ UNCHANGED <<inHand, bufferedAmount, lowPending>>
-----------------------------------------------------------------------------
(* The data channel sends some of what is buffered. *)
Crosses(n) ==
  bufferedAmount > bufferedAmountLowThreshold /\ n <= bufferedAmountLowThreshold

DrainTo(n) ==
  /\ n < bufferedAmount
  /\ bufferedAmount' = n
  /\ lowPending' = IF Crosses(n) THEN 1 ELSE lowPending
  /\ UNCHANGED <<loop, inHand, sendMore>>

(* OnBufferedAmountLow: a send on sendMore that gives up if there is no    *)
(* room.                                                                   *)
SignalIfStopped == IF loop = "stopped" THEN 1 ELSE sendMore
SignalMore == 1

BufferedAmountLow ==
  /\ lowPending = 1
  /\ lowPending' = 0
  /\ sendMore' = SignalMore
  /\ UNCHANGED <<loop, inHand, bufferedAmount>>
-----------------------------------------------------------------------------
SenderInit ==
  /\ loop = "opening" /\ inHand = 0
  /\ bufferedAmount = 0 /\ sendMore = 0 /\ lowPending = 0

Wait == CheckAmount \/ Stop \/ TakeToken

SenderNext ==
  \/ Open \/ \E n \in 1 .. MaxMessage : Take(n)
  \/ Send \/ SendFails \/ Wait
  \/ BufferedAmountLow \/ \E n \in Nat : DrainTo(n)

SenderSpec == SenderInit /\ [][SenderNext]_senderVars
-----------------------------------------------------------------------------
(* The types of the variables. *)
SenderTypeOK ==
  /\ loop \in {"opening", "receiving", "sending", "checking", "full", "stopped", "failed"}
  /\ inHand \in 0 .. MaxMessage
  /\ bufferedAmount \in Nat
  /\ sendMore \in 0 .. 1 /\ lowPending \in 0 .. 1

(* The buffer of the data channel stays bounded: beyond maxBufferedAmount  *)
(* there is the message that fills it, and one more for each wake-up left  *)
(* over from before, the token and the callback that is due.               *)
BufferBounded == bufferedAmount <= maxBufferedAmount + 3 * MaxMessage
=============================================================================
