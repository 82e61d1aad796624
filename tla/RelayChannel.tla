----------------------------- MODULE RelayChannel -----------------------------
(***************************************************************************)
(* What the guest's relay socket promises to the session above it           *)
(* (packages/collab-client/upstream/src/lib/socket.ts): on every transport   *)
(* the hello comes first and once, then the frames accepted since the last   *)
(* transport was given up, in the order they were accepted, each at most     *)
(* once.  What was accepted for one transport never travels on a later one.  *)
(* Frames that wait for a transport are kept up to a capacity; one beyond it  *)
(* is dropped.                                                              *)
(***************************************************************************)
EXTENDS Naturals, Sequences, SequencesExt

CONSTANTS Frame, Hello, Capacity

VARIABLES
  line,  (* is a transport open?                                           *)
  owed,  (* frames accepted and not yet sent                               *)
  sent   (* frames sent on the open transport                              *)

channelVars == <<line, owed, sent>>

ChannelInit == line = "down" /\ owed = <<>> /\ sent = <<>>

Accept(f) == owed' = Append(owed, f) /\ UNCHANGED <<line, sent>>

Open == line = "down" /\ line' = "up" /\ UNCHANGED <<owed, sent>>

(* The hello, and with it the first n frames that have waited for it.        *)
Greet(n) ==
  /\ line = "up" /\ sent = <<>>
  /\ sent' = <<Hello>> \o SubSeq(owed, 1, n)
  /\ owed' = SubSeq(owed, n + 1, Len(owed))
  /\ UNCHANGED line

Send ==
  /\ line = "up" /\ sent # <<>> /\ owed # <<>>
  /\ sent' = Append(sent, Head(owed))
  /\ owed' = Tail(owed)
  /\ UNCHANGED line

Overflow ==
  /\ sent = <<>> /\ Len(owed) > Capacity
  /\ owed' = RemoveAt(owed, Capacity + 1)
  /\ UNCHANGED <<line, sent>>

(* The transport, or the attempt at one, is given up.                        *)
GiveUp == line' = "down" /\ owed' = <<>> /\ sent' = <<>>

ChannelNext ==
  \/ \E f \in Frame : Accept(f)
  \/ Open \/ Send \/ Overflow \/ GiveUp
  \/ \E n \in 0 .. Len(owed) : Greet(n)

ChannelSpec == ChannelInit /\ [][ChannelNext]_channelVars
=============================================================================
