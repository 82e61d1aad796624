----------------------------- MODULE CollabSocket -----------------------------
(***************************************************************************)
(* The guest's relay socket, packages/collab-client/upstream/src/lib/        *)
(* socket.ts: its state as one record and its methods as functions from the   *)
(* socket to the socket they leave.  What it sends and receives is on the      *)
(* transport, another record.  GuestSession says when each is called.         *)
(*                                                                         *)
(* #sendGeneration needs no counter: sealing is asynchronous, but a frame whose *)
(* generation is over comes to nothing when it is sealed, so Reset forgets it.  *)
(* The same holds for a frame whose transport was replaced while it was opened. *)
(***************************************************************************)
EXTENDS Integers, Sequences

CONSTANTS
  None,
  MaxHeld,      (* MAX_PENDING_SENDS                                         *)
  MaxRoomTries  (* MAX_ROOM_RECOVERY_RETRIES                                 *)

ASSUME SocketAssumption == {MaxHeld, MaxRoomTries} \subseteq Nat \ {0}

Hello == [t |-> "hello"]

(* A guest after connect().                                                  *)
NewSocket ==
  [ws |-> "connecting",     (* "none", "connecting" or "open"                 *)
   retry |-> FALSE,         (* #retryTimer is armed                           *)
   closed |-> FALSE,
   awaiting |-> FALSE,      (* #awaitingHello                                 *)
   established |-> FALSE,   (* #roomEstablished                               *)
   tries |-> 0,             (* #roomRecoveryAttempts                          *)
   tasks |-> <<>>,          (* #sendChain: frames to be sealed                *)
   held |-> <<>>]           (* #pendingSends                                  *)

NewTransport ==
  [wire |-> <<>>,   (* what was sent on it                                    *)
   heard |-> 0,     (* how much of that the host has read                     *)
   down |-> <<>>,   (* frames from the host, of which one is being opened     *)
   deaf |-> FALSE]  (* half-open: nothing passes any more                     *)

(* Mutant of Reset: what is being sealed is sent on the next transport.          *)
ResetHeld(s) == [s EXCEPT !.held = <<>>, !.awaiting = FALSE]

(* #resetSendsForNewTransport.                                               *)
Reset(s) == [s EXCEPT !.tasks = <<>>, !.held = <<>>, !.awaiting = FALSE]

(* A transport is given up, with all that is on it.                            *)
Cut(net) == NewTransport

(* send.                                                                     *)
Queued(s, frame) == [s EXCEPT !.tasks = Append(@, frame)]

(* Mutant of Opened: the room's tries are given back with the transport's.      *)
OpenedFresh(s) == [s EXCEPT !.ws = "open", !.awaiting = TRUE, !.tries = 0]

(* ws.onopen.                                                                *)
Opened(s) == [s EXCEPT !.ws = "open", !.awaiting = TRUE]

(* close, and #failFatal with the close that follows it.                       *)
Closed(s) == [Reset(s) EXCEPT !.ws = "none", !.retry = FALSE, !.closed = TRUE]

(* reconnect.                                                                *)
Reconnected(s) == [Reset(s) EXCEPT !.ws = "connecting", !.retry = FALSE]

(* A close that is retried for ever.                                           *)
Retrying(s) == [Reset(s) EXCEPT !.ws = "none", !.retry = TRUE]

(* A closed room is retried a bounded number of times, if it ever was there.     *)
Recoverable(s) == s.established /\ s.tries < MaxRoomTries

RoomRetried(s) == [Retrying(s) EXCEPT !.tries = @ + 1]

(* markRoomWelcomed.                                                          *)
Welcomed(s) == [s EXCEPT !.established = TRUE, !.tries = 0]

(* The retry timer fires.                                                      *)
Retried(s) == [s EXCEPT !.ws = "connecting", !.retry = FALSE]

(* May the frame that was sealed go out?                                        *)
Passes(s, frame) == s.ws = "open" /\ (~s.awaiting \/ frame = Hello)

(* What goes out with it: after the hello, everything that waited for it.         *)
Emitted(s, frame) ==
  IF ~Passes(s, frame) THEN <<>>
  ELSE IF frame = Hello /\ s.awaiting THEN <<frame>> \o s.held ELSE <<frame>>

(* Mutant of Sealed: what waits for the hello has no limit.                       *)
SealedUnbounded(s, frame) ==
  LET next == [s EXCEPT !.tasks = Tail(@)]
  IN CASE Passes(s, frame) /\ frame = Hello -> [next EXCEPT !.awaiting = FALSE, !.held = <<>>]
       [] ~Passes(s, frame) /\ frame # Hello -> [next EXCEPT !.held = Append(@, frame)]
       [] OTHER -> next

(* The rest of the send chain's step.                                           *)
Sealed(s, frame) ==
  LET next == [s EXCEPT !.tasks = Tail(@)]
  IN CASE Passes(s, frame) /\ frame = Hello -> [next EXCEPT !.awaiting = FALSE, !.held = <<>>]
       [] ~Passes(s, frame) /\ frame # Hello /\ Len(s.held) < MaxHeld ->
            [next EXCEPT !.held = Append(@, frame)]
       [] OTHER -> next
=============================================================================
