---------------------------- MODULE DataChannels ----------------------------
(***************************************************************************)
(* datachannels.Transport: how a data channel that the peer opened meets   *)
(* the AddDataChannelReceiver call that waits for it.                      *)
(*                                                                         *)
(* Both sides look the Go channel of the id up, or create it, with the     *)
(* mutex held.  AddDataChannelReceiver releases the mutex and then waits   *)
(* for the data channel; onIncomingDataChannel hands the data channel over *)
(* on the unbuffered Go channel while it still holds the mutex.            *)
(***************************************************************************)
CONSTANTS
  Channels,     \* ids of data channels
  NoChannel     \* not an id

ASSUME NoChannelIsNone == NoChannel \notin Channels

VARIABLES
  mutex,        \* the channel whose callback holds it, or NoChannel
  dcChannels,   \* ids with a Go channel in the map
  callback,     \* onIncomingDataChannel of each id
  receiver      \* AddDataChannelReceiver of each id

dcVars == <<mutex, dcChannels, callback, receiver>>

(* AddDataChannelReceiver is called, at most once for an id. *)
AddDataChannelReceiver(c) ==
  /\ receiver[c] = "none"
  /\ receiver' = [receiver EXCEPT ![c] = "called"]
  /\ UNCHANGED <<mutex, dcChannels, callback>>

RegisterKeepingLock(c) ==
  /\ receiver[c] = "called" /\ mutex = NoChannel
  /\ mutex' = c
  /\ dcChannels' = dcChannels \cup {c}
  /\ receiver' = [receiver EXCEPT ![c] = "waiting"]
  /\ UNCHANGED callback
Register(c) ==
  /\ receiver[c] = "called" /\ mutex = NoChannel
  /\ dcChannels' = dcChannels \cup {c}
  /\ receiver' = [receiver EXCEPT ![c] = "waiting"]
  /\ UNCHANGED <<mutex, callback>>

(* The quicdc session saw the first stream of a new data channel. *)
IncomingDataChannel(c) ==
  /\ callback[c] = "none"
  /\ callback' = [callback EXCEPT ![c] = "called"]
  /\ UNCHANGED <<mutex, dcChannels, receiver>>

(* onIncomingDataChannel takes the mutex and starts to send. *)
OfferChannel(c) ==
  /\ callback[c] = "called" /\ mutex = NoChannel
  /\ mutex' = c
  /\ dcChannels' = dcChannels \cup {c}
  /\ callback' = [callback EXCEPT ![c] = "sending"]
  /\ UNCHANGED receiver

(* The two meet; the callback returns. *)
HandOver(c) ==
  /\ callback[c] = "sending" /\ receiver[c] = "waiting"
  /\ mutex' = NoChannel
  /\ callback' = [callback EXCEPT ![c] = "returned"]
  /\ receiver' = [receiver EXCEPT ![c] = "got"]
  /\ UNCHANGED dcChannels

DCInit ==
  /\ mutex = NoChannel /\ dcChannels = {}
  /\ callback = [c \in Channels |-> "none"]
  /\ receiver = [c \in Channels |-> "none"]

DCStep(c) == Register(c) \/ OfferChannel(c) \/ HandOver(c)

(* The channels that block every other call: their callback keeps the      *)
(* mutex, and nobody waits for them.                                       *)
Unclaimed == {c \in Channels : callback[c] = "sending" /\ receiver[c] # "waiting"}
=============================================================================
