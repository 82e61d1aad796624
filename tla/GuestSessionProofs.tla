-------------------------- MODULE GuestSessionProofs --------------------------
(* A room that closes is retried a bounded number of times; an ended session stays  *)
(* ended; the state is typed; the socket keeps what RelayChannel promises; what is    *)
(* shown of the transcript and of the questions is the host's: proved for any limits,  *)
(* transcripts, questions and faults.                                             *)
EXTENDS GuestSession, SequenceTheorems, FiniteSetTheorems, WellFoundedInduction, TLAPS

(* The proof needs to know which fields the two records have, whatever is in them.      *)
IsSocket(s) ==
  s \in [ws : {s.ws}, retry : {s.retry}, closed : {s.closed}, awaiting : {s.awaiting},
          established : {s.established}, tries : {s.tries}, tasks : {s.tasks}, held : {s.held}]

IsClient(c) ==
  c \in [phase : {c.phase}, welcomed : {c.welcomed}, everConnected : {c.everConnected},
          welcomeTimer : {c.welcomeTimer}, snapshotTimer : {c.snapshotTimer},
          probes : {c.probes}, entries : {c.entries}, snapshot : {c.snapshot},
          request : {c.request}, queue : {c.queue}, pending : {c.pending}]

(* A closed socket has no transport and no timer: nothing brings it back, so the      *)
(* session ends with it.                                                           *)
Final(s, c) ==
  IF s.closed THEN s.ws = "none" /\ ~s.retry /\ c.phase = "ended" ELSE c.phase # "ended"

(* The socket counts every close since the last welcome.  A close before the first     *)
(* welcome, or one too many, ends the session and is the last.                        *)
Counted(s, n) ==
  /\ n \in 0 .. MaxRoomTries + 1
  /\ ~s.closed => /\ n = s.tries /\ n <= MaxRoomTries
                  /\ ~s.established => n = 0

IInv ==
  /\ IsSocket(socket) /\ socket.closed \in BOOLEAN
  /\ IsClient(client)
  /\ Final(socket, client)
  /\ Counted(socket, closings)

-----------------------------------------------------------------------------
(* What the socket's methods leave alone.                                           *)

(* Two sockets that count the same closes.                                           *)
SameRoom(s, d) ==
  /\ d.closed = s.closed /\ d.established = s.established /\ d.tries = s.tries

LEMMA ResetKeeps ==
  ASSUME NEW s, IsSocket(s)
  PROVE  IsSocket(Reset(s)) /\ SameRoom(s, Reset(s))
BY DEF IsSocket, SameRoom, Reset

LEMMA QueuedKeeps ==
  ASSUME NEW s, IsSocket(s), NEW f
  PROVE  /\ IsSocket(Queued(s, f)) /\ SameRoom(s, Queued(s, f))
         /\ Queued(s, f).ws = s.ws /\ Queued(s, f).retry = s.retry
BY DEF IsSocket, SameRoom, Queued

LEMMA OpenedKeeps ==
  ASSUME NEW s, IsSocket(s)
  PROVE  IsSocket(Opened(s)) /\ SameRoom(s, Opened(s))
BY DEF IsSocket, SameRoom, Opened

LEMMA RetriedKeeps ==
  ASSUME NEW s, IsSocket(s)
  PROVE  IsSocket(Retried(s)) /\ SameRoom(s, Retried(s))
BY DEF IsSocket, SameRoom, Retried

LEMMA ReconnectedKeeps ==
  ASSUME NEW s, IsSocket(s)
  PROVE  IsSocket(Reconnected(s)) /\ SameRoom(s, Reconnected(s))
<1> DEFINE r == Reset(s)
<1>1. IsSocket(r) /\ SameRoom(s, r)
  BY ResetKeeps
<1>2. Reconnected(s) = [r EXCEPT !.ws = "connecting", !.retry = FALSE]
  BY DEF Reconnected
<1> HIDE DEF r
<1> QED BY <1>1, <1>2 DEF IsSocket, SameRoom

LEMMA RetryingKeeps ==
  ASSUME NEW s, IsSocket(s)
  PROVE  IsSocket(Retrying(s)) /\ SameRoom(s, Retrying(s))
<1> DEFINE r == Reset(s)
<1>1. IsSocket(r) /\ SameRoom(s, r)
  BY ResetKeeps
<1>2. Retrying(s) = [r EXCEPT !.ws = "none", !.retry = TRUE]
  BY DEF Retrying
<1> HIDE DEF r
<1> QED BY <1>1, <1>2 DEF IsSocket, SameRoom

(* A retry of the room is one more, and all else is kept.                             *)
LEMMA RoomRetriedCounts ==
  ASSUME NEW s, IsSocket(s)
  PROVE  /\ IsSocket(RoomRetried(s)) /\ RoomRetried(s).closed = s.closed
         /\ RoomRetried(s).established = s.established /\ RoomRetried(s).tries = s.tries + 1
<1> DEFINE r == Retrying(s)
<1>1. IsSocket(r) /\ SameRoom(s, r)
  BY RetryingKeeps
<1>2. RoomRetried(s) = [r EXCEPT !.tries = r.tries + 1]
  BY DEF RoomRetried
<1> HIDE DEF r
<1> QED BY <1>1, <1>2 DEF IsSocket, SameRoom

LEMMA ClosedIsFinal ==
  ASSUME NEW s, IsSocket(s)
  PROVE  IsSocket(Closed(s)) /\ Closed(s).closed = TRUE /\ Closed(s).ws = "none" /\ ~Closed(s).retry
<1> DEFINE r == Reset(s)
<1>1. IsSocket(r)
  BY ResetKeeps
<1>2. Closed(s) = [r EXCEPT !.ws = "none", !.retry = FALSE, !.closed = TRUE]
  BY DEF Closed
<1> HIDE DEF r
<1> QED BY <1>1, <1>2 DEF IsSocket

LEMMA WelcomedCounts ==
  ASSUME NEW s, IsSocket(s)
  PROVE  /\ IsSocket(Welcomed(s)) /\ Welcomed(s).closed = s.closed
         /\ Welcomed(s).established = TRUE /\ Welcomed(s).tries = 0
BY DEF IsSocket, Welcomed

LEMMA SealedKeeps ==
  ASSUME NEW s, IsSocket(s), NEW f
  PROVE  /\ IsSocket(Sealed(s, f)) /\ SameRoom(s, Sealed(s, f))
         /\ Sealed(s, f).ws = s.ws /\ Sealed(s, f).retry = s.retry
<1> DEFINE next == [s EXCEPT !.tasks = Tail(@)]
<1>1. /\ IsSocket(next) /\ SameRoom(s, next)
      /\ next.ws = s.ws /\ next.retry = s.retry
  BY DEF IsSocket, SameRoom
<1>2. \/ Sealed(s, f) = [next EXCEPT !.awaiting = FALSE, !.held = <<>>]
      \/ Sealed(s, f) = [next EXCEPT !.held = Append(@, f)]
      \/ Sealed(s, f) = next
  BY DEF Sealed
<1> HIDE DEF next
<1> QED BY <1>1, <1>2 DEF IsSocket, SameRoom

-----------------------------------------------------------------------------
(* What the client's handlers make of its phase.                                       *)

LEMMA ConnectedGoesOn ==
  ASSUME NEW c, IsClient(c)
  PROVE  IsClient(Connected(c)) /\ Connected(c).phase # "ended"
<1>1. \/ Connected(c).phase = "reconnecting"
      \/ Connected(c).phase = "waiting"
  BY DEF IsClient, Connected
<1> QED BY <1>1 DEF IsClient, Connected

LEMMA DroppedGoesOn ==
  ASSUME NEW c, IsClient(c)
  PROVE  IsClient(Dropped(c)) /\ Dropped(c).phase # "ended"
BY DEF IsClient, Dropped

LEMMA FinishedEnds ==
  ASSUME NEW c, IsClient(c)
  PROVE  IsClient(Finished(c)) /\ Finished(c).phase = "ended"
BY DEF IsClient, Finished

(* A client that goes on.                                                             *)
GoesOn(c) == IsClient(c) /\ c.phase # "ended"

LEMMA OnWelcomeGoesOn ==
  ASSUME NEW c, GoesOn(c), NEW n
  PROVE  GoesOn(OnWelcome(c, n))
<1> DEFINE r == Restored(c)
           w == [r EXCEPT !.welcomed = TRUE, !.welcomeTimer = FALSE]
<1>1. GoesOn(r)
  BY DEF GoesOn, IsClient, Restored
<1> HIDE DEF r
<1>2. GoesOn(w)
  BY <1>1 DEF GoesOn, IsClient
<1>3. \/ OnWelcome(c, n) = [w EXCEPT !.entries = <<>>, !.snapshot = None,
                                     !.snapshotTimer = FALSE, !.phase = "live"]
      \/ OnWelcome(c, n) = [w EXCEPT !.snapshot = [got |-> <<>>, live |-> <<>>, total |-> n],
                                     !.snapshotTimer = TRUE]
  BY DEF OnWelcome, r
<1> HIDE DEF w
<1> QED BY <1>2, <1>3 DEF GoesOn, IsClient

LEMMA OnChunkGoesOn ==
  ASSUME NEW c, GoesOn(c), NEW e, NEW final
  PROVE  GoesOn(OnChunk(c, e, final))
<1> DEFINE got == Append(c.snapshot.got, e)
<1>1. \/ OnChunk(c, e, final) = [c EXCEPT !.snapshot.got = got, !.snapshotTimer = TRUE]
      \/ OnChunk(c, e, final) = [c EXCEPT !.entries = got \o c.snapshot.live, !.snapshot = None,
                                          !.snapshotTimer = FALSE, !.phase = "live"]
  BY DEF OnChunk
<1> DEFINE loading == [c.snapshot EXCEPT !.got = got]
<1>2. [c EXCEPT !.snapshot.got = got] = [c EXCEPT !.snapshot = loading]
  BY DEF GoesOn, IsClient
<1> HIDE DEF got, loading
<1>3. GoesOn([c EXCEPT !.snapshot = loading, !.snapshotTimer = TRUE])
  BY DEF GoesOn, IsClient
<1> QED BY <1>1, <1>2, <1>3 DEF GoesOn, IsClient

LEMMA OnEntryGoesOn ==
  ASSUME NEW c, GoesOn(c), NEW e
  PROVE  GoesOn(OnEntry(c, e))
BY DEF OnEntry, GoesOn, IsClient

LEMMA OnRequestGoesOn ==
  ASSUME NEW c, GoesOn(c), NEW r
  PROVE  GoesOn(OnRequest(c, r))
BY DEF OnRequest, GoesOn, IsClient

LEMMA NextShownGoesOn ==
  ASSUME NEW c, GoesOn(c)
  PROVE  GoesOn(NextShown(c))
BY DEF NextShown, GoesOn, IsClient

LEMMA OnRequestEndGoesOn ==
  ASSUME NEW c, GoesOn(c), NEW r
  PROVE  GoesOn(OnRequestEnd(c, r))
<1> DEFINE d == [c EXCEPT !.pending = IF @ = r THEN None ELSE @]
           rest == RemoveFirst(d.queue, r)
<1>1. GoesOn(d)
  BY DEF GoesOn, IsClient
<1>2. \/ OnRequestEnd(c, r) = NextShown(d)
      \/ OnRequestEnd(c, r) = [d EXCEPT !.queue = rest]
  BY DEF OnRequestEnd
<1> HIDE DEF d, rest
<1>3. GoesOn(NextShown(d))
  BY <1>1, NextShownGoesOn
<1>4. GoesOn([d EXCEPT !.queue = rest])
  BY <1>1 DEF GoesOn, IsClient
<1> QED BY <1>2, <1>3, <1>4

LEMMA AppliedGoesOn ==
  ASSUME NEW c, GoesOn(c), NEW f
  PROVE  GoesOn(Applied(c, f))
<1>1. GoesOn([c EXCEPT !.probes = TRUE])
  BY DEF GoesOn, IsClient
<1>2. \/ Applied(c, f) = OnWelcome(c, f.count)
      \/ Applied(c, f) = OnChunk(c, f.entry, f.final)
      \/ Applied(c, f) = OnEntry(c, f.entry)
      \/ Applied(c, f) = OnRequest(c, f.req)
      \/ Applied(c, f) = OnRequestEnd(c, f.req)
      \/ Applied(c, f) = [c EXCEPT !.probes = TRUE]
      \/ Applied(c, f) = c
  BY DEF Applied
<1> QED BY <1>1, <1>2, OnWelcomeGoesOn, OnChunkGoesOn, OnEntryGoesOn, OnRequestGoesOn,
           OnRequestEndGoesOn

-----------------------------------------------------------------------------
(* The steps.                                                                        *)

LEMMA NoneCounted == 0 \in 0 .. MaxRoomTries + 1 /\ 0 <= MaxRoomTries
BY SocketAssumption

LEMMA InitIsCounted == Init => IInv
<1> SUFFICES ASSUME Init PROVE IInv
  OBVIOUS
<1>1. IsSocket(socket) /\ socket.closed = FALSE /\ socket.tries = 0
  BY DEF Init, NewSocket, IsSocket
<1>2. IsClient(client) /\ client.phase = "connecting"
  BY DEF Init, IsClient
<1>3. closings = 0
  BY DEF Init
<1> QED BY <1>1, <1>2, <1>3, NoneCounted DEF IInv, Final, Counted

(* Steps after which the socket counts what it did, and the session goes on or has ended   *)
(* as before.                                                                        *)
LEMMA SameRoomKeeps ==
  ASSUME IInv, IsSocket(socket'), SameRoom(socket, socket'), IsClient(client'),
         closings' = closings, Final(socket', client')
  PROVE  IInv'
BY DEF IInv, SameRoom, Counted

(* A step that closes the socket ends the session, and may count one close.               *)
LEMMA EndKeeps ==
  ASSUME IInv, End, Running, closings' \in {closings, closings + 1}
  PROVE  IInv'
<1>1. IsSocket(socket') /\ socket'.closed = TRUE /\ socket'.ws = "none" /\ ~socket'.retry
  BY ClosedIsFinal DEF IInv, End
<1>2. IsClient(client') /\ client'.phase = "ended"
  BY FinishedEnds DEF IInv, End
<1>3. closings \in 0 .. MaxRoomTries
  BY SocketAssumption DEF IInv, Counted, Running
<1>4. closings' \in 0 .. MaxRoomTries + 1
  BY <1>3, SocketAssumption
<1> QED BY <1>1, <1>2, <1>4 DEF IInv, Final, Counted

(* The timers' handlers and the user's may also end a session that has ended.             *)
LEMMA EndAgainKeeps ==
  ASSUME IInv, End, closings' = closings
  PROVE  IInv'
<1>1. IsSocket(socket') /\ socket'.closed = TRUE /\ socket'.ws = "none" /\ ~socket'.retry
  BY ClosedIsFinal DEF IInv, End
<1>2. IsClient(client') /\ client'.phase = "ended"
  BY FinishedEnds DEF IInv, End
<1> QED BY <1>1, <1>2 DEF IInv, Final, Counted

LEMMA AttemptOpensKeeps == ASSUME IInv, AttemptOpens PROVE IInv'
<1> DEFINE s == Opened(socket)
<1>1. socket.closed = FALSE
  BY DEF IInv, Final, AttemptOpens
<1>2. IsSocket(s) /\ SameRoom(socket, s)
  BY OpenedKeeps DEF IInv
<1>3. socket' = Queued(s, Hello)
  BY DEF AttemptOpens
<1> HIDE DEF s
<1>4. IsSocket(socket') /\ SameRoom(socket, socket')
  BY <1>2, <1>3, QueuedKeeps DEF SameRoom
<1>5. GoesOn(client')
  BY ConnectedGoesOn DEF IInv, AttemptOpens, GoesOn
<1> QED BY <1>1, <1>4, <1>5, SameRoomKeeps DEF AttemptOpens, SameRoom, Final, GoesOn

LEMMA RetryFiresKeeps == ASSUME IInv, RetryFires PROVE IInv'
<1>1. socket.closed = FALSE /\ client.phase # "ended"
  BY DEF IInv, Final, RetryFires
<1>2. IsSocket(socket') /\ SameRoom(socket, socket')
  BY RetriedKeeps DEF IInv, RetryFires
<1> QED BY <1>1, <1>2, SameRoomKeeps DEF IInv, RetryFires, SameRoom, Final

LEMMA LostKeeps == ASSUME IInv, Lost PROVE IInv'
<1>1. socket.closed = FALSE
  BY DEF IInv, Lost, Running
<1>2. IsSocket(socket') /\ SameRoom(socket, socket')
  BY RetryingKeeps DEF IInv, Lost
<1>3. GoesOn(client')
  BY DroppedGoesOn DEF IInv, Lost, GoesOn
<1> QED BY <1>1, <1>2, <1>3, SameRoomKeeps DEF Lost, SameRoom, Final, GoesOn

LEMMA RoomClosesKeeps == ASSUME IInv, RoomCloses PROVE IInv'
<1>1. CASE End
  BY <1>1, EndKeeps DEF RoomCloses
<1>2. CASE /\ Recoverable(socket)
           /\ socket' = RoomRetried(socket) /\ client' = Dropped(client)
  <2>1. /\ IsSocket(socket') /\ socket'.closed = socket.closed
        /\ socket'.established = socket.established /\ socket'.tries = socket.tries + 1
    BY <1>2, RoomRetriedCounts DEF IInv
  <2>2. GoesOn(client')
    BY <1>2, DroppedGoesOn DEF IInv, GoesOn
  <2>3. socket.closed = FALSE /\ closings = socket.tries /\ closings \in Nat
    BY DEF IInv, Counted, RoomCloses, Running
  <2>4. socket.established /\ socket.tries < MaxRoomTries
    BY <1>2 DEF Recoverable
  <2>5. closings' = closings + 1
    BY DEF RoomCloses
  <2>6. Counted(socket', closings')
    BY <2>1, <2>3, <2>4, <2>5, SocketAssumption DEF Counted
  <2> QED BY <2>1, <2>2, <2>3, <2>6 DEF IInv, Final, GoesOn
<1> QED BY <1>1, <1>2 DEF RoomCloses

LEMMA RefreshedKeeps == ASSUME IInv, Refreshed PROVE IInv'
<1>1. socket.closed = FALSE
  BY DEF IInv, Final, Refreshed
<1>2. IsSocket(socket') /\ SameRoom(socket, socket')
  BY ReconnectedKeeps DEF IInv, Refreshed
<1>3. GoesOn(client')
  BY DroppedGoesOn DEF IInv, Refreshed, GoesOn
<1> QED BY <1>1, <1>2, <1>3, SameRoomKeeps DEF Refreshed, SameRoom, Final, GoesOn

LEMMA SealDoneKeeps == ASSUME IInv, SealDone PROVE IInv'
<1> DEFINE frame == Head(socket.tasks)
<1>1. socket' = Sealed(socket, frame) /\ client' = client /\ closings' = closings
  BY DEF SealDone
<1> HIDE DEF frame
<1>2. /\ IsSocket(socket') /\ SameRoom(socket, socket')
      /\ socket'.ws = socket.ws /\ socket'.retry = socket.retry
  BY <1>1, SealedKeeps DEF IInv
<1> QED BY <1>1, <1>2, SameRoomKeeps DEF IInv, SameRoom, Final

LEMMA ReceiveKeeps == ASSUME IInv, Receive PROVE IInv'
<1> DEFINE f == Head(net.down)
           d == Applied(client, f)
           s == IF f.t = "welcome" THEN Welcomed(socket) ELSE socket
           more == Answers(client, d)
<1>1. socket.closed = FALSE /\ GoesOn(client)
  BY DEF IInv, Final, Receive, Running, GoesOn
<1>2. CASE Ends(client, f)
  <2>1. End
    BY <1>2 DEF Receive
  <2>2. closings' = closings
    BY <1>2 DEF Receive, Ends
  <2> QED BY <2>1, <2>2, EndAgainKeeps
<1>3. CASE ~Ends(client, f)
  <2>1. /\ client' = d
        /\ socket' = [s EXCEPT !.tasks = @ \o more]
        /\ closings' = IF f.t = "welcome" THEN 0 ELSE closings
    BY <1>3 DEF Receive
  <2>2. GoesOn(client')
    BY <1>1, <2>1, AppliedGoesOn
  <2> HIDE DEF more, d
  <2>3. CASE f.t = "welcome"
    <3>1. IsSocket(s) /\ s.closed = FALSE /\ s.established = TRUE /\ s.tries = 0
      BY <1>1, <2>3, WelcomedCounts DEF IInv
    <3> HIDE DEF s
    <3>2. /\ IsSocket(socket') /\ socket'.closed = FALSE
          /\ socket'.established = TRUE /\ socket'.tries = 0
      BY <2>1, <3>1 DEF IsSocket
    <3>3. closings' = 0
      BY <2>1, <2>3
    <3> QED BY <2>2, <3>2, <3>3, NoneCounted DEF IInv, Final, Counted, GoesOn
  <2>4. CASE f.t # "welcome"
    <3>1. socket' = [socket EXCEPT !.tasks = @ \o more] /\ closings' = closings
      BY <2>1, <2>4
    <3>2. IsSocket(socket') /\ SameRoom(socket, socket')
      BY <3>1 DEF IInv, IsSocket, SameRoom
    <3> QED BY <1>1, <2>2, <3>1, <3>2, SameRoomKeeps DEF Final, GoesOn, SameRoom
  <2> QED BY <2>3, <2>4
<1> QED BY <1>2, <1>3

LEMMA SendPromptKeeps == ASSUME IInv, SendPrompt PROVE IInv'
<1> DEFINE p == Prompt(left.prompts)
<1>1. socket' = Queued(socket, p) /\ client' = client /\ closings' = closings
  BY DEF SendPrompt
<1> HIDE DEF p
<1>2. /\ IsSocket(socket') /\ SameRoom(socket, socket')
      /\ socket'.ws = socket.ws /\ socket'.retry = socket.retry
  BY <1>1, QueuedKeeps DEF IInv
<1> QED BY <1>1, <1>2, SameRoomKeeps DEF IInv, SameRoom, Final

LEMMA SendUiResponseKeeps == ASSUME IInv, SendUiResponse PROVE IInv'
<1> DEFINE a == Answer(client.request)
<1>1. socket' = Queued(socket, a) /\ closings' = closings
  BY DEF SendUiResponse
<1> HIDE DEF a
<1>2. /\ IsSocket(socket') /\ SameRoom(socket, socket')
      /\ socket'.ws = socket.ws /\ socket'.retry = socket.retry
  BY <1>1, QueuedKeeps DEF IInv
<1>3. IsClient(client') /\ client'.phase = client.phase
  BY DEF IInv, SendUiResponse, IsClient
<1> QED BY <1>1, <1>2, <1>3, SameRoomKeeps DEF IInv, SameRoom, Final

(* The host, and a transport that goes deaf, touch neither the socket nor the client.      *)
LEMMA ElsewhereKeeps ==
  ASSUME IInv, UNCHANGED <<socket, client, closings>>
  PROVE  IInv'
BY DEF IInv, Final, Counted

LEMMA StepKeeps == IInv /\ [Next]_vars => IInv'
<1> SUFFICES ASSUME IInv, [Next]_vars PROVE IInv'
  OBVIOUS
<1>1. CASE AttemptOpens
  BY <1>1, AttemptOpensKeeps
<1>2. CASE RetryFires
  BY <1>2, RetryFiresKeeps
<1>3. CASE Lost
  BY <1>3, LostKeeps
<1>4. CASE RoomCloses
  BY <1>4, RoomClosesKeeps
<1>5. CASE FatalClose
  BY <1>5, EndAgainKeeps DEF FatalClose
<1>6. CASE GoesDeaf
  BY <1>6, ElsewhereKeeps DEF GoesDeaf
<1>7. CASE Refresh
  BY <1>7, RefreshedKeeps DEF Refresh
<1>8. CASE ProbesMiss
  BY <1>8, RefreshedKeeps DEF ProbesMiss
<1>9. CASE SealDone
  BY <1>9, SealDoneKeeps
<1>10. CASE Receive
  BY <1>10, ReceiveKeeps
<1>11. CASE WelcomeTimeout
  BY <1>11, EndAgainKeeps DEF WelcomeTimeout
<1>12. CASE SnapshotTimeout
  BY <1>12, EndAgainKeeps DEF SnapshotTimeout
<1>13. CASE SendPrompt
  BY <1>13, SendPromptKeeps
<1>14. CASE SendUiResponse
  BY <1>14, SendUiResponseKeeps
<1>15. CASE Leave
  BY <1>15, EndAgainKeeps DEF Leave
<1>16. CASE HostHears
  BY <1>16, ElsewhereKeeps DEF HostHears
<1>17. CASE HostLeaves
  BY <1>17, ElsewhereKeeps DEF HostLeaves
<1>18. CASE HostStep
  BY <1>18, ElsewhereKeeps
     DEF HostStep, HostSendsChunk, HostAppends, HostAsks, HostSettles
<1>19. CASE UNCHANGED vars
  BY <1>19, ElsewhereKeeps DEF vars
<1> QED BY <1>1, <1>2, <1>3, <1>4, <1>5, <1>6, <1>7, <1>8, <1>9, <1>10, <1>11, <1>12,
           <1>13, <1>14, <1>15, <1>16, <1>17, <1>18, <1>19 DEF Next

LEMMA CountedIsBounded == IInv => RoomTriesBounded
<1> SUFFICES ASSUME IInv PROVE RoomTriesBounded
  OBVIOUS
<1>1. CASE socket.closed
  BY <1>1, SocketAssumption DEF IInv, Final, Counted, RoomTriesBounded
<1>2. CASE ~socket.closed
  BY <1>2, SocketAssumption DEF IInv, Final, Counted, RoomTriesBounded
<1> QED BY <1>1, <1>2

(* What the page does about the probes is no step of the session.                          *)
LEMMA PageStepsAside == [PagedNext]_<<vars, paused>> => [Next]_vars
BY DEF PagedNext

(* A closed room is retried at most MaxRoomTries times without a welcome in between, and     *)
(* never before the first welcome (the 4001 and 4004 closes of socket.ts), whatever else       *)
(* happens to the transports.                                                             *)
THEOREM RoomIsGivenUp == Spec => []RoomTriesBounded
<1>1. IInv /\ [Next]_vars => IInv'
  BY StepKeeps
<1> QED BY InitIsCounted, PageStepsAside, <1>1, CountedIsBounded, PTL DEF Spec

(* What has ended stays so.                                                            *)
StaysEnded == client.phase = "ended" => client'.phase = "ended"

LEMMA EndEnds == ASSUME IInv, End PROVE client'.phase = "ended"
BY FinishedEnds DEF IInv, End

LEMMA NothingRevives == IInv /\ [Next]_vars => StaysEnded
<1> SUFFICES ASSUME IInv, [Next]_vars, client.phase = "ended"
             PROVE  client'.phase = "ended"
  BY DEF StaysEnded
<1>1. socket.closed /\ socket.ws = "none" /\ ~socket.retry
  BY DEF IInv, Final
<1>2. ~(AttemptOpens \/ RetryFires \/ Lost \/ RoomCloses \/ Receive)
  BY <1>1 DEF AttemptOpens, RetryFires, Lost, RoomCloses, Receive, Running
<1>3. ~(Refresh \/ ProbesMiss)
  BY DEF Refresh, ProbesMiss, Refreshed
<1>4. CASE FatalClose \/ WelcomeTimeout \/ SnapshotTimeout \/ Leave
  BY <1>4, EndEnds DEF FatalClose, WelcomeTimeout, SnapshotTimeout, Leave
<1>5. CASE SendUiResponse
  BY <1>5 DEF SendUiResponse, IInv, IsClient
<1>6. CASE UNCHANGED client
  BY <1>6
<1>7. SealDone \/ SendPrompt \/ GoesDeaf => UNCHANGED client
  BY DEF SealDone, SendPrompt, GoesDeaf
<1>8. HostHears \/ HostLeaves \/ HostStep => UNCHANGED client
  BY DEF HostHears, HostLeaves, HostStep, HostSendsChunk, HostAppends, HostAsks, HostSettles
<1> QED BY <1>2, <1>3, <1>4, <1>5, <1>6, <1>7, <1>8 DEF Next, vars

(* A session that has ended stays ended (close and #end): no transport, timer, frame or       *)
(* probe that was under way when it ended brings it back.                                   *)
THEOREM EndedIsFinal == Spec => [][StaysEnded]_vars
<1>1. IInv /\ [Next]_vars => IInv'
  BY StepKeeps
<1>2. IInv /\ [Next]_vars => StaysEnded
  BY NothingRevives
<1> QED BY InitIsCounted, PageStepsAside, <1>1, <1>2, PTL DEF Spec

-----------------------------------------------------------------------------
(* The types.                                                                          *)

FitSocket(s) == s \in Socket /\ Len(s.held) <= MaxHeld

FitNet(n) == n \in Transport /\ n.heard <= Len(n.wire)

(* A prompt is numbered by what is left of a budget.                                      *)
Prompted == \E b \in Budgets : left.prompts <= b.prompts

Typed == SessionTypeOK /\ Prompted

LEMMA LimitsType == MaxHeld \in Nat \ {0} /\ MaxRoomTries \in Nat \ {0}
BY SocketAssumption

LEMMA FitFields ==
  ASSUME NEW s, FitSocket(s)
  PROVE  /\ IsSocket(s)
         /\ s.ws \in {"none", "connecting", "open"} /\ s.retry \in BOOLEAN
         /\ s.closed \in BOOLEAN /\ s.awaiting \in BOOLEAN /\ s.established \in BOOLEAN
         /\ s.tries \in 0 .. MaxRoomTries
         /\ s.tasks \in Seq(GuestFrame) /\ s.held \in Seq(AppFrame) /\ Len(s.held) <= MaxHeld
BY DEF FitSocket, Socket, IsSocket

LEMMA FitByFields ==
  ASSUME NEW s, IsSocket(s),
         s.ws \in {"none", "connecting", "open"}, s.retry \in BOOLEAN,
         s.closed \in BOOLEAN, s.awaiting \in BOOLEAN, s.established \in BOOLEAN,
         s.tries \in 0 .. MaxRoomTries,
         s.tasks \in Seq(GuestFrame), s.held \in Seq(AppFrame), Len(s.held) <= MaxHeld
  PROVE  FitSocket(s)
BY DEF FitSocket, Socket, IsSocket

LEMMA NoFrames == <<>> \in Seq(GuestFrame) /\ <<>> \in Seq(AppFrame) /\ Len(<<>>) <= MaxHeld
BY LimitsType

LEMMA ResetFits ==
  ASSUME NEW s, FitSocket(s)
  PROVE  /\ FitSocket(Reset(s)) /\ Reset(s).tasks = <<>> /\ Reset(s).held = <<>>
         /\ ~Reset(s).awaiting
<1> DEFINE r == Reset(s)
<1>1. IsSocket(s) /\ IsSocket(r)
  BY FitFields, ResetKeeps
<1>2. /\ r.ws = s.ws /\ r.retry = s.retry /\ r.closed = s.closed /\ r.awaiting = FALSE
      /\ r.established = s.established /\ r.tries = s.tries /\ r.tasks = <<>> /\ r.held = <<>>
  BY <1>1 DEF Reset, IsSocket
<1> HIDE DEF r
<1>3. FitSocket(r)
  BY <1>1, <1>2, FitFields, FitByFields, NoFrames
<1> QED BY <1>2, <1>3 DEF r

LEMMA QueuedFits ==
  ASSUME NEW s, FitSocket(s), NEW f \in GuestFrame
  PROVE  FitSocket(Queued(s, f))
<1> DEFINE r == Queued(s, f)
<1>1. IsSocket(s) /\ IsSocket(r)
  BY FitFields, QueuedKeeps
<1>2. /\ r.ws = s.ws /\ r.retry = s.retry /\ r.closed = s.closed /\ r.awaiting = s.awaiting
      /\ r.established = s.established /\ r.tries = s.tries /\ r.held = s.held
      /\ r.tasks = Append(s.tasks, f)
  BY <1>1 DEF Queued, IsSocket
<1>3. r.tasks \in Seq(GuestFrame)
  BY <1>2, FitFields
<1> HIDE DEF r
<1>4. FitSocket(r)
  BY <1>1, <1>2, <1>3, FitFields, FitByFields
<1> QED BY <1>4 DEF r

LEMMA OpenedFits ==
  ASSUME NEW s, FitSocket(s)
  PROVE  FitSocket(Opened(s))
<1> DEFINE r == Opened(s)
<1>1. IsSocket(s) /\ IsSocket(r)
  BY FitFields, OpenedKeeps
<1>2. /\ r.ws = "open" /\ r.retry = s.retry /\ r.closed = s.closed /\ r.awaiting = TRUE
      /\ r.established = s.established /\ r.tries = s.tries /\ r.tasks = s.tasks
      /\ r.held = s.held
  BY <1>1 DEF Opened, IsSocket
<1> HIDE DEF r
<1>3. FitSocket(r)
  BY <1>1, <1>2, FitFields, FitByFields
<1> QED BY <1>3 DEF r

(* Closed, Reconnected, Retrying and Retried: a socket whose transport is another.             *)
LEMMA ChangedFits ==
  ASSUME NEW s, FitSocket(s), NEW ws \in {"none", "connecting"}, NEW retry \in BOOLEAN,
         NEW closed \in BOOLEAN, NEW d, IsSocket(d),
         d.ws = ws, d.retry = retry, d.closed = closed, d.awaiting = s.awaiting,
         d.established = s.established, d.tries = s.tries,
         d.tasks = s.tasks, d.held = s.held
  PROVE  FitSocket(d)
BY FitFields, FitByFields

LEMMA ClosedFits ==
  ASSUME NEW s, FitSocket(s)
  PROVE  FitSocket(Closed(s)) /\ Closed(s).ws = "none" /\ Closed(s).tasks = <<>>
         /\ Closed(s).held = <<>> /\ ~Closed(s).awaiting
<1> DEFINE r == Reset(s)
           d == Closed(s)
<1>1. FitSocket(r) /\ r.tasks = <<>> /\ r.held = <<>> /\ ~r.awaiting /\ IsSocket(r)
  BY ResetFits, FitFields
<1>2. d = [r EXCEPT !.ws = "none", !.retry = FALSE, !.closed = TRUE]
  BY DEF Closed
<1> HIDE DEF r, d
<1>3. /\ IsSocket(d) /\ d.ws = "none" /\ d.retry = FALSE /\ d.closed = TRUE
      /\ d.awaiting = r.awaiting /\ d.established = r.established /\ d.tries = r.tries
      /\ d.tasks = r.tasks /\ d.held = r.held
  BY <1>1, <1>2 DEF IsSocket
<1>4. FitSocket(d)
  BY <1>1, <1>3, ChangedFits
<1> QED BY <1>1, <1>3, <1>4 DEF d

LEMMA ReconnectedFits ==
  ASSUME NEW s, FitSocket(s)
  PROVE  /\ FitSocket(Reconnected(s)) /\ Reconnected(s).ws = "connecting"
         /\ Reconnected(s).tasks = <<>> /\ Reconnected(s).held = <<>>
         /\ ~Reconnected(s).awaiting /\ ~Reconnected(s).retry
<1> DEFINE r == Reset(s)
           d == Reconnected(s)
<1>1. FitSocket(r) /\ r.tasks = <<>> /\ r.held = <<>> /\ ~r.awaiting /\ IsSocket(r)
      /\ r.closed \in BOOLEAN
  BY ResetFits, FitFields
<1>2. d = [r EXCEPT !.ws = "connecting", !.retry = FALSE]
  BY DEF Reconnected
<1> HIDE DEF r, d
<1>3. /\ IsSocket(d) /\ d.ws = "connecting" /\ d.retry = FALSE /\ d.closed = r.closed
      /\ d.awaiting = r.awaiting /\ d.established = r.established /\ d.tries = r.tries
      /\ d.tasks = r.tasks /\ d.held = r.held
  BY <1>1, <1>2 DEF IsSocket
<1>4. FitSocket(d)
  BY <1>1, <1>3, ChangedFits
<1> QED BY <1>1, <1>3, <1>4 DEF d

LEMMA RetryingFits ==
  ASSUME NEW s, FitSocket(s)
  PROVE  /\ FitSocket(Retrying(s)) /\ Retrying(s).ws = "none" /\ Retrying(s).tasks = <<>>
         /\ Retrying(s).held = <<>> /\ ~Retrying(s).awaiting /\ Retrying(s).tries = s.tries
<1> DEFINE r == Reset(s)
           d == Retrying(s)
<1>1. FitSocket(r) /\ r.tasks = <<>> /\ r.held = <<>> /\ ~r.awaiting /\ IsSocket(r)
      /\ r.closed \in BOOLEAN /\ r.tries = s.tries
  BY ResetFits, FitFields, ResetKeeps DEF SameRoom
<1>2. d = [r EXCEPT !.ws = "none", !.retry = TRUE]
  BY DEF Retrying
<1> HIDE DEF r, d
<1>3. /\ IsSocket(d) /\ d.ws = "none" /\ d.retry = TRUE /\ d.closed = r.closed
      /\ d.awaiting = r.awaiting /\ d.established = r.established /\ d.tries = r.tries
      /\ d.tasks = r.tasks /\ d.held = r.held
  BY <1>1, <1>2 DEF IsSocket
<1>4. FitSocket(d)
  BY <1>1, <1>3, ChangedFits
<1> QED BY <1>1, <1>3, <1>4 DEF d

LEMMA RoomRetriedFits ==
  ASSUME NEW s, FitSocket(s), Recoverable(s)
  PROVE  /\ FitSocket(RoomRetried(s)) /\ RoomRetried(s).ws = "none"
         /\ RoomRetried(s).tasks = <<>> /\ RoomRetried(s).held = <<>>
         /\ ~RoomRetried(s).awaiting
<1> DEFINE r == Retrying(s)
           d == RoomRetried(s)
<1>1. FitSocket(r) /\ r.tasks = <<>> /\ r.held = <<>> /\ ~r.awaiting /\ r.ws = "none"
      /\ IsSocket(r) /\ r.tries = s.tries
  BY RetryingFits, FitFields
<1>2. d = [r EXCEPT !.tries = @ + 1]
  BY DEF RoomRetried
<1>3. s.tries \in 0 .. MaxRoomTries /\ s.tries < MaxRoomTries
  BY FitFields DEF Recoverable
<1> HIDE DEF r, d
<1>4. /\ IsSocket(d) /\ d.ws = r.ws /\ d.retry = r.retry /\ d.closed = r.closed
      /\ d.awaiting = r.awaiting /\ d.established = r.established /\ d.tries = r.tries + 1
      /\ d.tasks = r.tasks /\ d.held = r.held
  BY <1>1, <1>2 DEF IsSocket
<1>5. d.tries \in 0 .. MaxRoomTries
  BY <1>1, <1>3, <1>4, LimitsType
<1>6. FitSocket(d)
  BY <1>1, <1>4, <1>5, FitFields, FitByFields
<1> QED BY <1>1, <1>4, <1>6 DEF d

LEMMA RetriedFits ==
  ASSUME NEW s, FitSocket(s)
  PROVE  /\ FitSocket(Retried(s)) /\ Retried(s).ws = "connecting" /\ Retried(s).tasks = s.tasks
         /\ Retried(s).held = s.held /\ Retried(s).awaiting = s.awaiting
<1> DEFINE d == Retried(s)
<1>1. IsSocket(s) /\ IsSocket(d) /\ s.closed \in BOOLEAN
  BY FitFields, RetriedKeeps
<1>2. /\ d.ws = "connecting" /\ d.retry = FALSE /\ d.closed = s.closed
      /\ d.awaiting = s.awaiting /\ d.established = s.established /\ d.tries = s.tries
      /\ d.tasks = s.tasks /\ d.held = s.held
  BY <1>1 DEF Retried, IsSocket
<1> HIDE DEF d
<1>3. FitSocket(d)
  BY <1>1, <1>2, ChangedFits
<1> QED BY <1>2, <1>3 DEF d

LEMMA WelcomedFits ==
  ASSUME NEW s, FitSocket(s)
  PROVE  /\ FitSocket(Welcomed(s)) /\ Welcomed(s).ws = s.ws /\ Welcomed(s).tasks = s.tasks
         /\ Welcomed(s).held = s.held /\ Welcomed(s).awaiting = s.awaiting
<1> DEFINE d == Welcomed(s)
<1>1. IsSocket(s) /\ IsSocket(d)
  BY FitFields, WelcomedCounts
<1>2. /\ d.ws = s.ws /\ d.retry = s.retry /\ d.closed = s.closed
      /\ d.awaiting = s.awaiting /\ d.established = TRUE /\ d.tries = 0
      /\ d.tasks = s.tasks /\ d.held = s.held
  BY <1>1 DEF Welcomed, IsSocket
<1>3. 0 \in 0 .. MaxRoomTries
  BY LimitsType
<1> HIDE DEF d
<1>4. FitSocket(d)
  BY <1>1, <1>2, <1>3, FitFields, FitByFields
<1> QED BY <1>2, <1>4 DEF d

-----------------------------------------------------------------------------
(* The frames.                                                                         *)

LEMMA GuestFrames ==
  /\ Hello \in GuestFrame /\ Hello.t = "hello" /\ AppFrame \subseteq GuestFrame
  /\ \A f \in AppFrame : /\ f # Hello /\ f.t \in {"prompt", "ui-response"}
                         /\ f.t = "ui-response" => f.req \in Ask /\ f = Answer(f.req)
  /\ \A f \in GuestFrame : f = Hello \/ f \in AppFrame
  /\ \A r \in Ask : Answer(r) \in AppFrame /\ Answer(r).t = "ui-response" /\ Answer(r).req = r
BY DEF GuestFrame, AppFrame, Hello, Answer

LEMMA HostFrames ==
  ASSUME NEW f \in HostFrame
  PROVE  /\ f.t = "welcome" => f.count \in Nat
         /\ f.t = "snapshot-chunk" => f.entry \in Number /\ f.final \in BOOLEAN
         /\ f.t = "entry" => f.entry \in Number
         /\ f.t \in {"ui-request", "ui-request-end"} => f.req \in Ask
         /\ f.t = "ui-request" => f = Request(f.req)
         /\ f.t = "ui-request-end" => f = RequestEnd(f.req)
         /\ f.t \in {"welcome", "snapshot-chunk", "entry", "ui-request", "ui-request-end", "bye",
                     "error", "gateway-health-pong"}
         /\ f = Pong => f.t = "gateway-health-pong"
<1>1. CASE f \in [t : {"welcome"}, count : Nat]
  BY <1>1 DEF Pong
<1>2. CASE f \in [t : {"snapshot-chunk"}, entry : Number, final : BOOLEAN]
  BY <1>2 DEF Pong
<1>3. CASE f \in [t : {"entry"}, entry : Number]
  BY <1>3 DEF Pong
<1>4. CASE f \in [t : {"ui-request", "ui-request-end"}, req : Ask]
  BY <1>4 DEF Request, RequestEnd, Pong
<1>5. CASE f \in {Bye, Error, Pong}
  BY <1>5 DEF Bye, Error, Pong
<1> QED BY <1>1, <1>2, <1>3, <1>4, <1>5 DEF HostFrame

LEMMA HostSays ==
  /\ \A n \in Nat : Welcome(n) \in HostFrame /\ Welcome(n).t = "welcome" /\ Welcome(n).count = n
  /\ \A n \in Number, b \in BOOLEAN :
       /\ Chunk(n, b) \in HostFrame /\ Chunk(n, b).t = "snapshot-chunk"
       /\ Chunk(n, b).entry = n /\ Chunk(n, b).final = b
  /\ \A n \in Number : Entry(n) \in HostFrame /\ Entry(n).t = "entry" /\ Entry(n).entry = n
  /\ \A r \in Ask : /\ Request(r) \in HostFrame /\ Request(r).t = "ui-request"
                    /\ Request(r).req = r
                    /\ RequestEnd(r) \in HostFrame /\ RequestEnd(r).t = "ui-request-end"
                    /\ RequestEnd(r).req = r
  /\ Bye \in HostFrame /\ Bye.t = "bye"
  /\ Error \in HostFrame /\ Error.t = "error"
  /\ Pong \in HostFrame /\ Pong.t = "gateway-health-pong"
<1>1. \A n \in Nat : Welcome(n) \in HostFrame /\ Welcome(n).t = "welcome" /\ Welcome(n).count = n
  BY DEF Welcome, HostFrame
<1>2. \A n \in Number, b \in BOOLEAN :
        /\ Chunk(n, b) \in HostFrame /\ Chunk(n, b).t = "snapshot-chunk"
        /\ Chunk(n, b).entry = n /\ Chunk(n, b).final = b
  BY DEF Chunk, HostFrame
<1>3. \A n \in Number : Entry(n) \in HostFrame /\ Entry(n).t = "entry" /\ Entry(n).entry = n
  BY DEF Entry, HostFrame
<1>4. \A r \in Ask : /\ Request(r) \in HostFrame /\ Request(r).t = "ui-request"
                    /\ Request(r).req = r
                    /\ RequestEnd(r) \in HostFrame /\ RequestEnd(r).t = "ui-request-end"
                    /\ RequestEnd(r).req = r
  BY DEF Request, RequestEnd, HostFrame
<1>5. /\ Bye \in HostFrame /\ Bye.t = "bye"
      /\ Error \in HostFrame /\ Error.t = "error"
      /\ Pong \in HostFrame /\ Pong.t = "gateway-health-pong"
  BY DEF Bye, Error, Pong, HostFrame
<1> QED BY <1>1, <1>2, <1>3, <1>4, <1>5

(* A frame of a sequence that is removed is the first of its kind.                          *)
LEMMA RemoveFirstIs ==
  ASSUME NEW S, NEW s \in Seq(S), NEW e
  PROVE  \/ /\ \A i \in 1 .. Len(s) : s[i] # e
            /\ RemoveFirst(s, e) = s
         \/ \E k \in 1 .. Len(s) : s[k] = e /\ RemoveFirst(s, e) = RemoveAt(s, k)
<1>1. CASE \A i \in 1 .. Len(s) : s[i] # e
  BY <1>1 DEF RemoveFirst
<1>2. CASE \E i \in 1 .. Len(s) : s[i] = e
  <2> DEFINE I == {j \in 1 .. Len(s) : s[j] = e}
             k == Min(I)
  <2>1. I # {} /\ I \subseteq Nat
    BY <1>2
  <2>2. \E m \in I : \A j \in I : m <= j
    <3>1. PICK m \in I : \A l \in I : ~ (<<l, m>> \in OpToRel(<, Nat))
      BY <2>1, WFMin, NatLessThanWellFounded, Zenon
    <3>2. ASSUME NEW l \in I, l < m PROVE FALSE
      <4>1. <<l, m>> \in Nat \X Nat /\ <<l, m>>[1] < <<l, m>>[2]
        BY <2>1, <3>2
      <4>2. <<l, m>> \in OpToRel(<, Nat)
        BY <4>1 DEF OpToRel
      <4> QED BY <3>1, <3>2, <4>2
    <3>3. \A j \in I : m <= j
      BY <2>1, <3>2
    <3> QED BY <3>3
  <2>3. k \in I
    BY <2>2 DEF Min
  <2>4. SelectInSeq(s, LAMBDA v : v = e) = k
    BY <2>1 DEF SelectInSeq
  <2>5. RemoveFirst(s, e) = RemoveAt(s, k)
    BY <1>2, <2>4 DEF RemoveFirst
  <2> QED BY <2>3, <2>5
<1> QED BY <1>1, <1>2

LEMMA RemoveAtIs ==
  ASSUME NEW S, NEW s \in Seq(S), NEW k \in 1 .. Len(s)
  PROVE  /\ RemoveAt(s, k) \in Seq(S) /\ Len(RemoveAt(s, k)) = Len(s) - 1
         /\ \A i \in 1 .. Len(s) - 1 :
              RemoveAt(s, k)[i] = IF i < k THEN s[i] ELSE s[i + 1]
<1> DEFINE a == SubSeq(s, 1, k - 1)
           b == SubSeq(s, k + 1, Len(s))
<1>1. /\ a \in Seq(S) /\ Len(a) = k - 1 /\ \A i \in 1 .. k - 1 : a[i] = s[i]
  <2>1. 1 \in 1 .. Len(s) + 1 /\ k - 1 \in 1 - 1 .. Len(s)
    OBVIOUS
  <2>2. /\ a \in Seq(S)
        /\ Len(a) = IF 1 <= k - 1 THEN (k - 1) - 1 + 1 ELSE 0
        /\ \A i \in 1 .. (k - 1) - 1 + 1 : a[i] = s[1 + i - 1]
    BY <2>1, SubSeqProperties
  <2> HIDE DEF a
  <2>3. k - 1 \in Nat /\ (k - 1) - 1 + 1 = k - 1 /\ Len(a) = k - 1
    BY <2>2
  <2>4. \A i \in 1 .. k - 1 : a[i] = s[i]
    BY <2>2, <2>3
  <2> QED BY <2>2, <2>3, <2>4
<1>2. /\ b \in Seq(S) /\ Len(b) = Len(s) - k /\ \A i \in 1 .. Len(s) - k : b[i] = s[k + i]
  <2>1. k + 1 \in 1 .. Len(s) + 1 /\ Len(s) \in (k + 1) - 1 .. Len(s)
    OBVIOUS
  <2>2. /\ b \in Seq(S)
        /\ Len(b) = IF k + 1 <= Len(s) THEN Len(s) - (k + 1) + 1 ELSE 0
        /\ \A i \in 1 .. Len(s) - (k + 1) + 1 : b[i] = s[(k + 1) + i - 1]
    BY <2>1, SubSeqProperties
  <2> HIDE DEF b
  <2> QED BY <2>2
<1>3. RemoveAt(s, k) = a \o b
  BY DEF RemoveAt
<1> HIDE DEF a, b
<1>4. /\ a \o b \in Seq(S) /\ Len(a \o b) = Len(a) + Len(b)
      /\ \A i \in 1 .. Len(a) + Len(b) :
           (a \o b)[i] = IF i <= Len(a) THEN a[i] ELSE b[i - Len(a)]
  BY <1>1, <1>2, ConcatProperties
<1> QED BY <1>1, <1>2, <1>3, <1>4

(* A set put in some order: each of its elements once.                                     *)
LEMMA SetToSeqIs ==
  ASSUME NEW S, IsFiniteSet(S)
  PROVE  /\ SetToSeq(S) \in Seq(S)
         /\ \A e \in S : \E i \in 1 .. Len(SetToSeq(S)) : SetToSeq(S)[i] = e
<1> DEFINE n == Cardinality(S)
           q == SetToSeq(S)
<1>1. n \in Nat /\ Bijection(1 .. n, S) # {}
  BY FS_CardinalityType DEF ExistsBijection
<1>2. PICK f \in Bijection(1 .. n, S) : TRUE
  BY <1>1
<1>3. f \in [1 .. n -> S] /\ IsInjective(f)
  BY <1>2 DEF Bijection, Injection, IsInjective
<1>4. q \in [1 .. n -> S] /\ IsInjective(q)
  BY <1>3 DEF SetToSeq
<1> HIDE DEF q
<1>5. q \in Seq(S) /\ Len(q) = n
  BY <1>1, <1>4
<1>6. {q[i] : i \in 1 .. n} = S
  <2> DEFINE T == {q[i] : i \in 1 .. n}
  <2>1. q \in Bijection(1 .. n, T)
    BY <1>4 DEF Bijection, Injection, Surjection, IsInjective
  <2>2. T \subseteq S
    BY <1>4
  <2>3. IsFiniteSet(1 .. n) /\ Cardinality(1 .. n) = n
    BY <1>1, FS_Interval
  <2>4. IsFiniteSet(T) /\ Cardinality(T) = n
    BY <2>1, <2>3, FS_Bijection DEF ExistsBijection
  <2> HIDE DEF T
  <2>5. T = S
    BY <2>2, <2>4, FS_Subset
  <2> QED BY <2>5 DEF T
<1> QED BY <1>5, <1>6 DEF q

-----------------------------------------------------------------------------
(* What the client's handlers return.                                                    *)

(* The fields that say nothing of what is shown.                                          *)
Flags(c) ==
  /\ c.welcomed \in BOOLEAN /\ c.everConnected \in BOOLEAN
  /\ c.welcomeTimer \in BOOLEAN /\ c.snapshotTimer \in BOOLEAN /\ c.probes \in BOOLEAN

Fits(c) == IsClient(c) /\ Flags(c)

SameScript(c, d) == d.entries = c.entries /\ d.snapshot = c.snapshot /\ d.phase = c.phase

SameAsks(c, d) == d.request = c.request /\ d.queue = c.queue /\ d.pending = c.pending

LEMMA ClientFields ==
  ASSUME NEW c \in Client
  PROVE  /\ Fits(c)
         /\ c.phase \in {"connecting", "waiting", "reconnecting", "live", "ended"}
         /\ c.entries \in Seq(Number) /\ c.snapshot \in Snapshot \cup {None}
         /\ c.request \in Ask \cup {None} /\ c.queue \in Seq(Ask)
         /\ c.pending \in Ask \cup {None}
BY DEF Client, IsClient, Flags, Fits

LEMMA ClientByFields ==
  ASSUME NEW c, Fits(c),
         c.phase \in {"connecting", "waiting", "reconnecting", "live", "ended"},
         c.entries \in Seq(Number), c.snapshot \in Snapshot \cup {None},
         c.request \in Ask \cup {None}, c.queue \in Seq(Ask),
         c.pending \in Ask \cup {None}
  PROVE  c \in Client
BY DEF Client, IsClient, Flags, Fits

LEMMA ConnectedIs ==
  ASSUME NEW c, Fits(c)
  PROVE  LET d == Connected(c)
         IN /\ Fits(d) /\ SameAsks(c, d) /\ d.entries = c.entries /\ d.snapshot = c.snapshot
            /\ d.phase \in {"waiting", "reconnecting"}
<1> DEFINE p == IF c.everConnected THEN "reconnecting" ELSE "waiting"
           d == [c EXCEPT !.welcomed = FALSE, !.welcomeTimer = TRUE]
           e == [d EXCEPT !.everConnected = TRUE, !.probes = FALSE, !.phase = p]
<1>1. p \in {"waiting", "reconnecting"}
  OBVIOUS
<1>2. Connected(c) = e
  BY DEF Connected, Fits, IsClient
<1>3. Fits(d) /\ SameAsks(c, d) /\ SameScript(c, d)
  BY DEF Fits, IsClient, Flags, SameAsks, SameScript
<1> HIDE DEF p, d
<1>4. /\ Fits(e) /\ SameAsks(d, e) /\ e.entries = d.entries /\ e.snapshot = d.snapshot
      /\ e.phase = p
  BY <1>3 DEF Fits, IsClient, Flags, SameAsks
<1> HIDE DEF e
<1> QED BY <1>1, <1>2, <1>3, <1>4 DEF SameAsks, SameScript

LEMMA DroppedIs ==
  ASSUME NEW c, Fits(c)
  PROVE  LET d == Dropped(c)
         IN /\ Fits(d) /\ SameAsks(c, d) /\ d.entries = c.entries /\ d.snapshot = None
            /\ d.phase = "reconnecting"
<1> DEFINE d == [c EXCEPT !.welcomeTimer = FALSE, !.snapshotTimer = FALSE]
           e == [d EXCEPT !.phase = "reconnecting", !.snapshot = None, !.probes = FALSE]
<1>1. Dropped(c) = e
  BY DEF Dropped, Fits, IsClient
<1>2. Fits(d) /\ SameAsks(c, d) /\ SameScript(c, d)
  BY DEF Fits, IsClient, Flags, SameAsks, SameScript
<1> HIDE DEF d
<1>3. /\ Fits(e) /\ SameAsks(d, e) /\ e.entries = d.entries /\ e.snapshot = None
      /\ e.phase = "reconnecting"
  BY <1>2 DEF Fits, IsClient, Flags, SameAsks
<1> HIDE DEF e
<1> QED BY <1>1, <1>2, <1>3 DEF SameAsks, SameScript

LEMMA FinishedIs ==
  ASSUME NEW c, Fits(c)
  PROVE  LET d == Finished(c)
         IN /\ Fits(d) /\ d.entries = c.entries /\ d.snapshot = None /\ d.phase = "ended"
            /\ d.request = None /\ d.queue = <<>> /\ d.pending = None
<1> DEFINE d == [c EXCEPT !.welcomeTimer = FALSE, !.snapshotTimer = FALSE, !.probes = FALSE]
           e == [d EXCEPT !.phase = "ended", !.snapshot = None]
           g == [e EXCEPT !.request = None, !.queue = <<>>, !.pending = None]
<1>1. Finished(c) = g
  BY DEF Finished, Fits, IsClient
<1>2. Fits(d) /\ SameScript(c, d)
  BY DEF Fits, IsClient, Flags, SameScript
<1> HIDE DEF d
<1>3. Fits(e) /\ e.entries = d.entries /\ e.snapshot = None /\ e.phase = "ended"
  BY <1>2 DEF Fits, IsClient, Flags
<1> HIDE DEF e
<1>4. /\ Fits(g) /\ g.entries = e.entries /\ g.snapshot = None /\ g.phase = "ended"
      /\ g.request = None /\ g.queue = <<>> /\ g.pending = None
  BY <1>3 DEF Fits, IsClient, Flags
<1> HIDE DEF g
<1> QED BY <1>1, <1>2, <1>3, <1>4 DEF SameScript

LEMMA OnWelcomeIs ==
  ASSUME NEW c, Fits(c), NEW n
  PROVE  LET d == OnWelcome(c, n)
         IN /\ Fits(d) /\ d.request = c.pending /\ d.queue = <<>> /\ d.pending = c.pending
            /\ n = 0 => d.entries = <<>> /\ d.snapshot = None /\ d.phase = "live"
            /\ n # 0 => /\ d.entries = c.entries /\ d.phase = c.phase
                        /\ d.snapshot = [got |-> <<>>, live |-> <<>>, total |-> n]
<1> DEFINE r == Restored(c)
           w == [r EXCEPT !.welcomed = TRUE, !.welcomeTimer = FALSE]
           d == OnWelcome(c, n)
<1>1. Fits(r) /\ SameScript(c, r) /\ r.request = c.pending /\ r.queue = <<>> /\ r.pending = c.pending
  BY DEF Fits, IsClient, Flags, SameScript, Restored
<1> HIDE DEF r
<1>2. Fits(w) /\ SameScript(r, w) /\ SameAsks(r, w)
  BY <1>1 DEF Fits, IsClient, Flags, SameScript, SameAsks
<1> HIDE DEF w
<1>3. CASE n = 0
  <2>1. d = [w EXCEPT !.entries = <<>>, !.snapshot = None, !.snapshotTimer = FALSE, !.phase = "live"]
    BY <1>3 DEF OnWelcome, r, w
  <2> HIDE DEF d
  <2>2. Fits(d) /\ SameAsks(w, d) /\ d.entries = <<>> /\ d.snapshot = None /\ d.phase = "live"
    BY <1>2, <2>1 DEF Fits, IsClient, Flags, SameAsks
  <2> QED BY <1>1, <1>2, <1>3, <2>2 DEF SameAsks, d
<1>4. CASE n # 0
  <2> DEFINE s == [got |-> <<>>, live |-> <<>>, total |-> n]
  <2>1. d = [w EXCEPT !.snapshot = s, !.snapshotTimer = TRUE]
    BY <1>4 DEF OnWelcome, r, w
  <2> HIDE DEF d, s
  <2>2. Fits(d) /\ SameAsks(w, d) /\ d.entries = w.entries /\ d.snapshot = s /\ d.phase = w.phase
    BY <1>2, <2>1 DEF Fits, IsClient, Flags, SameAsks
  <2> QED BY <1>1, <1>2, <1>4, <2>2 DEF SameAsks, SameScript, d, s
<1> QED BY <1>3, <1>4

LEMMA SnapshotGrows ==
  ASSUME NEW s \in Snapshot, NEW q
  PROVE  /\ [s EXCEPT !.got = q] = [got |-> q, live |-> s.live, total |-> s.total]
         /\ [s EXCEPT !.live = q] = [got |-> s.got, live |-> q, total |-> s.total]
BY DEF Snapshot

LEMMA OnChunkIs ==
  ASSUME NEW c, Fits(c), c.snapshot \in Snapshot, NEW e \in Number, NEW final \in BOOLEAN
  PROVE  LET d == OnChunk(c, e, final)
             got == Append(c.snapshot.got, e)
         IN /\ Fits(d) /\ SameAsks(c, d)
            /\ IF ~final /\ Len(got) < c.snapshot.total
               THEN /\ d.entries = c.entries /\ d.phase = c.phase
                    /\ d.snapshot = [got |-> got, live |-> c.snapshot.live,
                                     total |-> c.snapshot.total]
               ELSE /\ d.entries = got \o c.snapshot.live /\ d.snapshot = None
                    /\ d.phase = "live"
<1> DEFINE d == OnChunk(c, e, final)
           got == Append(c.snapshot.got, e)
           s == [c.snapshot EXCEPT !.got = got]
           all == got \o c.snapshot.live
<1>1. s = [got |-> got, live |-> c.snapshot.live, total |-> c.snapshot.total]
  BY SnapshotGrows
<1>2. CASE ~final /\ Len(got) < c.snapshot.total
  <2>1. d = [c EXCEPT !.snapshot.got = got, !.snapshotTimer = TRUE]
    BY <1>2 DEF OnChunk
  <2>2. [c EXCEPT !.snapshot.got = got] = [c EXCEPT !.snapshot = s]
    BY DEF Fits, IsClient
  <2>3. d = [c EXCEPT !.snapshot = s, !.snapshotTimer = TRUE]
    BY <2>1, <2>2
  <2> HIDE DEF d, s, got
  <2>4. Fits(d) /\ SameAsks(c, d) /\ d.entries = c.entries /\ d.phase = c.phase /\ d.snapshot = s
    BY <2>3 DEF Fits, IsClient, Flags, SameAsks
  <2>5. /\ Fits(d) /\ SameAsks(c, d) /\ d.entries = c.entries /\ d.phase = c.phase
        /\ d.snapshot = [got |-> got, live |-> c.snapshot.live, total |-> c.snapshot.total]
    BY <1>1, <2>4
  <2> QED BY <1>2, <2>5 DEF d, got
<1>3. CASE ~ (~final /\ Len(got) < c.snapshot.total)
  <2>1. d = [c EXCEPT !.entries = all, !.snapshot = None, !.snapshotTimer = FALSE, !.phase = "live"]
    BY <1>3 DEF OnChunk
  <2> HIDE DEF d, all, got
  <2>2. Fits(d) /\ SameAsks(c, d) /\ d.entries = all /\ d.snapshot = None /\ d.phase = "live"
    BY <2>1 DEF Fits, IsClient, Flags, SameAsks
  <2> QED BY <1>3, <2>2 DEF d, got, all
<1> QED BY <1>2, <1>3

LEMMA OnEntryIs ==
  ASSUME NEW c, Fits(c), c.snapshot \in Snapshot \cup {None}, NEW e \in Number
  PROVE  LET d == OnEntry(c, e)
         IN /\ Fits(d) /\ SameAsks(c, d) /\ d.phase = c.phase
            /\ IF c.snapshot # None
               THEN /\ d.entries = c.entries
                    /\ d.snapshot = [got |-> c.snapshot.got, live |-> Append(c.snapshot.live, e),
                                     total |-> c.snapshot.total]
               ELSE d.entries = Append(c.entries, e) /\ d.snapshot = c.snapshot
<1> DEFINE d == OnEntry(c, e)
<1>1. CASE c.snapshot # None
  <2> DEFINE live == Append(c.snapshot.live, e)
             s == [c.snapshot EXCEPT !.live = live]
  <2>1. s = [got |-> c.snapshot.got, live |-> live, total |-> c.snapshot.total]
    BY <1>1, SnapshotGrows
  <2>2. d = [c EXCEPT !.snapshot.live = live]
    BY <1>1 DEF OnEntry, Fits, IsClient
  <2>3. d = [c EXCEPT !.snapshot = s]
    BY <2>2 DEF Fits, IsClient
  <2> HIDE DEF d, s, live
  <2>4. Fits(d) /\ SameAsks(c, d) /\ d.entries = c.entries /\ d.phase = c.phase /\ d.snapshot = s
    BY <2>3 DEF Fits, IsClient, Flags, SameAsks
  <2> QED BY <1>1, <2>1, <2>4 DEF d, live
<1>2. CASE c.snapshot = None
  <2> DEFINE more == Append(c.entries, e)
  <2>1. d = [c EXCEPT !.entries = more]
    BY <1>2 DEF OnEntry, Fits, IsClient
  <2> HIDE DEF d, more
  <2>2. Fits(d) /\ SameAsks(c, d) /\ d.entries = more /\ d.phase = c.phase /\ d.snapshot = c.snapshot
    BY <2>1 DEF Fits, IsClient, Flags, SameAsks
  <2> QED BY <1>2, <2>2 DEF d, more
<1> QED BY <1>1, <1>2

LEMMA OnRequestIs ==
  ASSUME NEW c, Fits(c), NEW r
  PROVE  LET d == OnRequest(c, r)
         IN /\ Fits(d) /\ SameScript(c, d) /\ d.pending = c.pending
            /\ Known(c, r) => d = c
            /\ ~Known(c, r) /\ c.request # None =>
                 d.request = c.request /\ d.queue = Append(c.queue, r)
            /\ ~Known(c, r) /\ c.request = None => d.request = r /\ d.queue = c.queue
<1> DEFINE d == OnRequest(c, r)
<1>1. CASE Known(c, r)
  BY <1>1 DEF OnRequest, SameScript
<1>2. CASE ~Known(c, r) /\ c.request # None
  <2> DEFINE more == Append(c.queue, r)
  <2>1. d = [c EXCEPT !.queue = more]
    BY <1>2 DEF OnRequest, Fits, IsClient
  <2> HIDE DEF d, more
  <2>2. Fits(d) /\ SameScript(c, d) /\ d.pending = c.pending /\ d.request = c.request /\ d.queue = more
    BY <2>1 DEF Fits, IsClient, Flags, SameScript
  <2> QED BY <1>2, <2>2 DEF d, more
<1>3. CASE ~Known(c, r) /\ c.request = None
  <2>1. d = [c EXCEPT !.request = r]
    BY <1>3 DEF OnRequest, Fits, IsClient
  <2> HIDE DEF d
  <2>2. Fits(d) /\ SameScript(c, d) /\ d.pending = c.pending /\ d.request = r /\ d.queue = c.queue
    BY <2>1 DEF Fits, IsClient, Flags, SameScript
  <2> QED BY <1>3, <2>2 DEF d
<1> QED BY <1>1, <1>2, <1>3

LEMMA OnRequestEndIs ==
  ASSUME NEW c, Fits(c), NEW r
  PROVE  LET d == OnRequestEnd(c, r)
         IN /\ Fits(d) /\ SameScript(c, d)
            /\ d.pending = IF c.pending = r THEN None ELSE c.pending
            /\ c.request # r => d.request = c.request /\ d.queue = RemoveFirst(c.queue, r)
            /\ c.request = r /\ c.queue = <<>> => d.request = None /\ d.queue = <<>>
            /\ c.request = r /\ c.queue # <<>> =>
                 d.request = Head(c.queue) /\ d.queue = Tail(c.queue)
<1> DEFINE e == OnRequestEnd(c, r)
           p == IF c.pending = r THEN None ELSE c.pending
           d == [c EXCEPT !.pending = p]
<1>1. /\ d = [c EXCEPT !.pending = IF @ = r THEN None ELSE @]
      /\ e = IF d.request = r THEN NextShown(d) ELSE [d EXCEPT !.queue = RemoveFirst(@, r)]
  BY DEF OnRequestEnd, Fits, IsClient
<1> HIDE DEF e, p
<1>2. Fits(d) /\ SameScript(c, d) /\ d.pending = p /\ d.request = c.request /\ d.queue = c.queue
  BY DEF Fits, IsClient, Flags, SameScript
<1> HIDE DEF d
<1>3. CASE c.request # r
  <2> DEFINE rest == RemoveFirst(d.queue, r)
  <2>1. e = [d EXCEPT !.queue = rest]
    BY <1>1, <1>2, <1>3 DEF Fits, IsClient
  <2> HIDE DEF rest
  <2>2. Fits(e) /\ SameScript(d, e) /\ e.pending = d.pending /\ e.request = d.request /\ e.queue = rest
    BY <1>2, <2>1 DEF Fits, IsClient, Flags, SameScript
  <2> QED BY <1>2, <1>3, <2>2 DEF SameScript, rest, e, p
<1>4. CASE c.request = r /\ c.queue = <<>>
  <2>1. e = [d EXCEPT !.request = None]
    BY <1>1, <1>2, <1>4 DEF NextShown, Fits, IsClient
  <2>2. Fits(e) /\ SameScript(d, e) /\ e.pending = d.pending /\ e.request = None /\ e.queue = d.queue
    BY <1>2, <2>1 DEF Fits, IsClient, Flags, SameScript
  <2> QED BY <1>2, <1>4, <2>2 DEF SameScript, e, p
<1>5. CASE c.request = r /\ c.queue # <<>>
  <2> DEFINE h == Head(c.queue)
             rest == Tail(c.queue)
  <2>1. e = [d EXCEPT !.request = h, !.queue = rest]
    BY <1>1, <1>2, <1>5 DEF NextShown, Fits, IsClient
  <2> HIDE DEF h, rest
  <2>2. Fits(e) /\ SameScript(d, e) /\ e.pending = d.pending /\ e.request = h /\ e.queue = rest
    BY <1>2, <2>1 DEF Fits, IsClient, Flags, SameScript
  <2> QED BY <1>2, <1>5, <2>2 DEF SameScript, e, p, h, rest
<1> QED BY <1>3, <1>4, <1>5

LEMMA AppliedIs ==
  ASSUME NEW c \in Client, NEW f \in HostFrame
  PROVE  LET d == Applied(c, f)
         IN /\ f.t = "welcome" => d = OnWelcome(c, f.count)
            /\ f.t = "snapshot-chunk" /\ c.snapshot # None => d = OnChunk(c, f.entry, f.final)
            /\ f.t = "snapshot-chunk" /\ c.snapshot = None => d = c
            /\ f.t = "entry" => d = OnEntry(c, f.entry)
            /\ f.t = "ui-request" => d = OnRequest(c, f.req)
            /\ f.t = "ui-request-end" => d = OnRequestEnd(c, f.req)
            /\ f.t \in {"bye", "error"} => d = c
            /\ f.t = "gateway-health-pong" => d = [c EXCEPT !.probes = TRUE] \/ d = c
BY HostFrames DEF Applied

LEMMA PongIs ==
  ASSUME NEW c, Fits(c)
  PROVE  LET d == [c EXCEPT !.probes = TRUE]
         IN Fits(d) /\ SameScript(c, d) /\ SameAsks(c, d)
BY DEF Fits, IsClient, Flags, SameScript, SameAsks

LEMMA NoneIsNoAsk == None \notin Ask /\ None \notin Snapshot
BY NoneIsNoValue

LEMMA SnapshotFields ==
  ASSUME NEW s \in Snapshot
  PROVE  s.got \in Seq(Number) /\ s.live \in Seq(Number) /\ s.total \in Number
BY DEF Snapshot

LEMMA SnapshotByFields ==
  ASSUME NEW got \in Seq(Number), NEW live \in Seq(Number), NEW total \in Number
  PROVE  [got |-> got, live |-> live, total |-> total] \in Snapshot
BY DEF Snapshot

LEMMA ConnectedType == ASSUME NEW c \in Client PROVE Connected(c) \in Client
<1> DEFINE d == Connected(c)
<1>1. Fits(d) /\ SameAsks(c, d) /\ d.entries = c.entries /\ d.snapshot = c.snapshot
      /\ d.phase \in {"waiting", "reconnecting"}
  BY ConnectedIs, ClientFields
<1> HIDE DEF d
<1>2. d \in Client
  BY <1>1, ClientFields, ClientByFields DEF SameAsks
<1> QED BY <1>2 DEF d

LEMMA DroppedType == ASSUME NEW c \in Client PROVE Dropped(c) \in Client
<1> DEFINE d == Dropped(c)
<1>1. Fits(d) /\ SameAsks(c, d) /\ d.entries = c.entries /\ d.snapshot = None
      /\ d.phase = "reconnecting"
  BY DroppedIs, ClientFields
<1> HIDE DEF d
<1>2. d \in Client
  BY <1>1, ClientFields, ClientByFields DEF SameAsks
<1> QED BY <1>2 DEF d

LEMMA FinishedType == ASSUME NEW c \in Client PROVE Finished(c) \in Client
<1> DEFINE d == Finished(c)
<1>1. /\ Fits(d) /\ d.entries = c.entries /\ d.snapshot = None /\ d.phase = "ended"
      /\ d.request = None /\ d.queue = <<>> /\ d.pending = None
  BY FinishedIs, ClientFields
<1> HIDE DEF d
<1>2. <<>> \in Seq(Ask)
  OBVIOUS
<1>3. d \in Client
  BY <1>1, <1>2, ClientFields, ClientByFields
<1> QED BY <1>3 DEF d

LEMMA OnWelcomeType ==
  ASSUME NEW c \in Client, NEW n \in Nat
  PROVE  OnWelcome(c, n) \in Client
<1> DEFINE d == OnWelcome(c, n)
<1>1. /\ Fits(d) /\ d.request = c.pending /\ d.queue = <<>> /\ d.pending = c.pending
      /\ n = 0 => d.entries = <<>> /\ d.snapshot = None /\ d.phase = "live"
      /\ n # 0 => /\ d.entries = c.entries /\ d.phase = c.phase
                  /\ d.snapshot = [got |-> <<>>, live |-> <<>>, total |-> n]
  BY OnWelcomeIs, ClientFields
<1> HIDE DEF d
<1>2. <<>> \in Seq(Ask) /\ <<>> \in Seq(Number)
  OBVIOUS
<1>3. CASE n = 0
  BY <1>1, <1>2, <1>3, ClientFields, ClientByFields DEF d
<1>4. CASE n # 0
  <2>1. n \in Number
    BY <1>4 DEF Number
  <2>2. d.snapshot \in Snapshot
    BY <1>1, <1>2, <1>4, <2>1, SnapshotByFields
  <2> QED BY <1>1, <1>2, <1>4, <2>2, ClientFields, ClientByFields DEF d
<1> QED BY <1>3, <1>4

LEMMA OnChunkType ==
  ASSUME NEW c \in Client, c.snapshot # None, NEW e \in Number, NEW final \in BOOLEAN
  PROVE  OnChunk(c, e, final) \in Client
<1> DEFINE d == OnChunk(c, e, final)
           s == c.snapshot
           got == Append(s.got, e)
<1>1. s \in Snapshot /\ s.got \in Seq(Number) /\ s.live \in Seq(Number) /\ s.total \in Number
  BY ClientFields, SnapshotFields
<1>2. got \in Seq(Number)
  BY <1>1
<1>3. /\ Fits(d) /\ SameAsks(c, d)
      /\ IF ~final /\ Len(got) < s.total
         THEN /\ d.entries = c.entries /\ d.phase = c.phase
              /\ d.snapshot = [got |-> got, live |-> s.live, total |-> s.total]
         ELSE /\ d.entries = got \o s.live /\ d.snapshot = None /\ d.phase = "live"
  BY <1>1, OnChunkIs, ClientFields
<1> HIDE DEF d, s, got
<1>4. CASE ~final /\ Len(got) < s.total
  <2>1. d.snapshot \in Snapshot
    BY <1>1, <1>2, <1>3, <1>4, SnapshotByFields
  <2> QED BY <1>3, <1>4, <2>1, ClientFields, ClientByFields DEF SameAsks, d
<1>5. CASE ~ (~final /\ Len(got) < s.total)
  <2>0. got \o s.live \in Seq(Number)
    BY <1>1, <1>2
  <2>1. d.entries \in Seq(Number)
    BY <1>3, <1>5, <2>0
  <2> QED BY <1>3, <1>5, <2>1, ClientFields, ClientByFields DEF SameAsks, d
<1> QED BY <1>4, <1>5

LEMMA OnEntryType ==
  ASSUME NEW c \in Client, NEW e \in Number
  PROVE  OnEntry(c, e) \in Client
<1> DEFINE d == OnEntry(c, e)
<1>1. /\ Fits(d) /\ SameAsks(c, d) /\ d.phase = c.phase
      /\ IF c.snapshot # None
         THEN /\ d.entries = c.entries
              /\ d.snapshot = [got |-> c.snapshot.got, live |-> Append(c.snapshot.live, e),
                               total |-> c.snapshot.total]
         ELSE d.entries = Append(c.entries, e) /\ d.snapshot = c.snapshot
  BY OnEntryIs, ClientFields
<1> HIDE DEF d
<1>2. CASE c.snapshot # None
  <2>1. c.snapshot \in Snapshot
    BY <1>2, ClientFields
  <2>2. c.snapshot.got \in Seq(Number) /\ c.snapshot.live \in Seq(Number) /\ c.snapshot.total \in Number
    BY <2>1, SnapshotFields
  <2>3. Append(c.snapshot.live, e) \in Seq(Number)
    BY <2>2
  <2>4. d.snapshot \in Snapshot
    BY <1>1, <1>2, <2>2, <2>3, SnapshotByFields
  <2> QED BY <1>1, <1>2, <2>4, ClientFields, ClientByFields DEF SameAsks, d
<1>3. CASE c.snapshot = None
  <2>1. c.entries \in Seq(Number)
    BY ClientFields
  <2>2. d.entries = Append(c.entries, e)
    BY <1>1, <1>3
  <2>3. d.entries \in Seq(Number)
    BY <2>1, <2>2
  <2> QED BY <1>1, <1>3, <2>3, ClientFields, ClientByFields DEF SameAsks, d
<1> QED BY <1>2, <1>3

LEMMA OnRequestType ==
  ASSUME NEW c \in Client, NEW r \in Ask
  PROVE  OnRequest(c, r) \in Client
<1> DEFINE d == OnRequest(c, r)
<1>1. /\ Fits(d) /\ SameScript(c, d) /\ d.pending = c.pending
      /\ Known(c, r) => d = c
      /\ ~Known(c, r) /\ c.request # None =>
           d.request = c.request /\ d.queue = Append(c.queue, r)
      /\ ~Known(c, r) /\ c.request = None => d.request = r /\ d.queue = c.queue
  BY OnRequestIs, ClientFields
<1>2. Append(c.queue, r) \in Seq(Ask)
  BY ClientFields
<1> HIDE DEF d
<1>3. d.queue \in Seq(Ask) /\ d.request \in Ask \cup {None}
  BY <1>1, <1>2, ClientFields
<1>4. d \in Client
  BY <1>1, <1>3, ClientFields, ClientByFields DEF SameScript
<1> QED BY <1>4 DEF d

LEMMA RemovedType ==
  ASSUME NEW S, NEW s \in Seq(S), NEW e
  PROVE  RemoveFirst(s, e) \in Seq(S)
BY RemoveFirstIs, RemoveAtIs

LEMMA OnRequestEndType ==
  ASSUME NEW c \in Client, NEW r \in Ask
  PROVE  OnRequestEnd(c, r) \in Client
<1> DEFINE d == OnRequestEnd(c, r)
<1>1. /\ Fits(d) /\ SameScript(c, d)
      /\ d.pending = IF c.pending = r THEN None ELSE c.pending
      /\ c.request # r => d.request = c.request /\ d.queue = RemoveFirst(c.queue, r)
      /\ c.request = r /\ c.queue = <<>> => d.request = None /\ d.queue = <<>>
      /\ c.request = r /\ c.queue # <<>> =>
           d.request = Head(c.queue) /\ d.queue = Tail(c.queue)
  BY OnRequestEndIs, ClientFields
<1>2. c.queue \in Seq(Ask) /\ RemoveFirst(c.queue, r) \in Seq(Ask) /\ <<>> \in Seq(Ask)
  BY ClientFields, RemovedType
<1>3. c.queue # <<>> => Head(c.queue) \in Ask /\ Tail(c.queue) \in Seq(Ask)
  BY <1>2
<1> HIDE DEF d
<1>4. d.queue \in Seq(Ask) /\ d.request \in Ask \cup {None} /\ d.pending \in Ask \cup {None}
  BY <1>1, <1>2, <1>3, ClientFields
<1>5. d \in Client
  BY <1>1, <1>4, ClientFields, ClientByFields DEF SameScript
<1> QED BY <1>5 DEF d

LEMMA PongType == ASSUME NEW c \in Client PROVE [c EXCEPT !.probes = TRUE] \in Client
<1> DEFINE d == [c EXCEPT !.probes = TRUE]
<1>1. Fits(d) /\ SameScript(c, d) /\ SameAsks(c, d)
  BY PongIs, ClientFields
<1> HIDE DEF d
<1>2. d \in Client
  BY <1>1, ClientFields, ClientByFields DEF SameScript, SameAsks
<1> QED BY <1>2 DEF d

LEMMA AppliedType ==
  ASSUME NEW c \in Client, NEW f \in HostFrame
  PROVE  Applied(c, f) \in Client
<1>1. CASE f.t = "welcome"
  BY <1>1, AppliedIs, OnWelcomeType, HostFrames
<1>2. CASE f.t = "snapshot-chunk"
  BY <1>2, AppliedIs, OnChunkType, HostFrames
<1>3. CASE f.t = "entry"
  BY <1>3, AppliedIs, OnEntryType, HostFrames
<1>4. CASE f.t = "ui-request"
  BY <1>4, AppliedIs, OnRequestType, HostFrames
<1>5. CASE f.t = "ui-request-end"
  BY <1>5, AppliedIs, OnRequestEndType, HostFrames
<1>6. CASE f.t \in {"bye", "error"}
  BY <1>6, AppliedIs
<1>7. CASE f.t = "gateway-health-pong"
  BY <1>7, AppliedIs, PongType
<1> QED BY <1>1, <1>2, <1>3, <1>4, <1>5, <1>6, <1>7, HostFrames

-----------------------------------------------------------------------------
(* What each step does to the session's parts, and that they keep their types.              *)

LEMMA SealedFits ==
  ASSUME NEW s, FitSocket(s), s.tasks # <<>>
  PROVE  LET f == Head(s.tasks)
             d == Sealed(s, f)
         IN /\ FitSocket(d) /\ d.ws = s.ws /\ d.tasks = Tail(s.tasks)
            /\ \/ Passes(s, f) /\ f = Hello /\ ~d.awaiting /\ d.held = <<>>
               \/ /\ ~Passes(s, f) /\ f # Hello /\ Len(s.held) < MaxHeld
                  /\ d.held = Append(s.held, f) /\ d.awaiting = s.awaiting
               \/ /\ ~(Passes(s, f) /\ f = Hello)
                  /\ ~(~Passes(s, f) /\ f # Hello /\ Len(s.held) < MaxHeld)
                  /\ d.held = s.held /\ d.awaiting = s.awaiting
<1> DEFINE f == Head(s.tasks)
           rest == Tail(s.tasks)
           next == [s EXCEPT !.tasks = Tail(@)]
           d == Sealed(s, f)
           more == Append(s.held, f)
<1>1. IsSocket(s) /\ f \in GuestFrame /\ rest \in Seq(GuestFrame)
  BY FitFields
<1>2. next = [s EXCEPT !.tasks = rest]
  BY <1>1 DEF IsSocket
<1>3. \/ /\ Passes(s, f) /\ f = Hello /\ d = [next EXCEPT !.awaiting = FALSE, !.held = <<>>]
      \/ /\ ~Passes(s, f) /\ f # Hello /\ Len(s.held) < MaxHeld
         /\ d = [next EXCEPT !.held = Append(@, f)]
      \/ /\ ~(Passes(s, f) /\ f = Hello)
         /\ ~(~Passes(s, f) /\ f # Hello /\ Len(s.held) < MaxHeld)
         /\ d = next
  BY DEF Sealed
<1> HIDE DEF f, rest, next, d, more
<1>4. /\ IsSocket(next) /\ next.ws = s.ws /\ next.retry = s.retry /\ next.closed = s.closed
      /\ next.awaiting = s.awaiting /\ next.established = s.established
      /\ next.tries = s.tries /\ next.tasks = rest /\ next.held = s.held
  BY <1>1, <1>2 DEF IsSocket
<1>5. FitSocket(next)
  BY <1>1, <1>4, FitFields, FitByFields
<1>6. CASE Passes(s, f) /\ f = Hello /\ d = [next EXCEPT !.awaiting = FALSE, !.held = <<>>]
  <2>1. /\ IsSocket(d) /\ d.ws = s.ws /\ d.retry = s.retry /\ d.closed = s.closed
        /\ d.awaiting = FALSE /\ d.established = s.established
        /\ d.tries = s.tries /\ d.tasks = rest /\ d.held = <<>>
    BY <1>4, <1>6 DEF IsSocket
  <2>2. FitSocket(d)
    BY <1>1, <2>1, FitFields, FitByFields, NoFrames
  <2> QED BY <1>6, <2>1, <2>2 DEF d, f, rest
<1>7. CASE /\ ~Passes(s, f) /\ f # Hello /\ Len(s.held) < MaxHeld
           /\ d = [next EXCEPT !.held = Append(@, f)]
  <2>1. f \in AppFrame
    BY <1>1, <1>7, GuestFrames
  <2>2. more \in Seq(AppFrame) /\ Len(more) <= MaxHeld
    BY <1>7, <2>1, FitFields, LimitsType DEF more
  <2>3. d = [next EXCEPT !.held = more]
    BY <1>4, <1>7 DEF more, IsSocket
  <2>4. /\ IsSocket(d) /\ d.ws = s.ws /\ d.retry = s.retry /\ d.closed = s.closed
        /\ d.awaiting = s.awaiting /\ d.established = s.established
        /\ d.tries = s.tries /\ d.tasks = rest /\ d.held = more
    BY <1>4, <2>3 DEF IsSocket
  <2>5. FitSocket(d)
    BY <1>1, <2>2, <2>4, FitFields, FitByFields
  <2> QED BY <1>7, <2>4, <2>5 DEF d, f, rest, more
<1>8. CASE /\ ~(Passes(s, f) /\ f = Hello)
           /\ ~(~Passes(s, f) /\ f # Hello /\ Len(s.held) < MaxHeld)
           /\ d = next
  BY <1>4, <1>5, <1>8 DEF d, f, rest
<1> QED BY <1>3, <1>6, <1>7, <1>8

LEMMA EmittedType ==
  ASSUME NEW s, FitSocket(s), NEW f \in GuestFrame
  PROVE  Emitted(s, f) \in Seq(GuestFrame)
<1>1. <<f>> \in Seq(GuestFrame) /\ <<>> \in Seq(GuestFrame)
  OBVIOUS
<1>2. s.held \in Seq(GuestFrame)
  <2>1. s.held \in Seq(AppFrame) /\ AppFrame \subseteq GuestFrame
    BY FitFields, GuestFrames
  <2> QED BY <2>1
<1>3. <<f>> \o s.held \in Seq(GuestFrame)
  BY <1>1, <1>2
<1> QED BY <1>1, <1>3 DEF Emitted

LEMMA TasksGrow ==
  ASSUME NEW s, FitSocket(s), NEW q \in Seq(AppFrame)
  PROVE  LET d == [s EXCEPT !.tasks = @ \o q]
         IN /\ FitSocket(d) /\ d.ws = s.ws /\ d.tasks = s.tasks \o q
            /\ d.held = s.held /\ d.awaiting = s.awaiting
<1> DEFINE all == s.tasks \o q
           d == [s EXCEPT !.tasks = all]
<1>1. IsSocket(s) /\ s.tasks \in Seq(GuestFrame) /\ q \in Seq(GuestFrame)
  <2>1. AppFrame \subseteq GuestFrame
    BY GuestFrames
  <2> QED BY <2>1, FitFields
<1>2. all \in Seq(GuestFrame)
  BY <1>1
<1>3. d = [s EXCEPT !.tasks = @ \o q]
  BY <1>1 DEF IsSocket
<1> HIDE DEF all
<1>4. /\ IsSocket(d) /\ d.ws = s.ws /\ d.retry = s.retry /\ d.closed = s.closed
      /\ d.awaiting = s.awaiting /\ d.established = s.established
      /\ d.tries = s.tries /\ d.tasks = all /\ d.held = s.held
  BY <1>1 DEF IsSocket
<1> HIDE DEF d
<1>5. FitSocket(d)
  BY <1>2, <1>4, FitFields, FitByFields
<1> QED BY <1>3, <1>4, <1>5 DEF all

LEMMA NewNet ==
  /\ FitNet(NewTransport) /\ NewTransport.wire = <<>> /\ NewTransport.heard = 0
  /\ NewTransport.down = <<>> /\ ~NewTransport.deaf
<1>1. NewTransport = [wire |-> <<>>, heard |-> 0, down |-> <<>>, deaf |-> FALSE]
  BY DEF NewTransport
<1>2. /\ NewTransport.wire = <<>> /\ NewTransport.heard = 0
      /\ NewTransport.down = <<>> /\ ~NewTransport.deaf
  BY <1>1
<1>3. NewTransport \in Transport
  <2>1. <<>> \in Seq(GuestFrame) /\ <<>> \in Seq(HostFrame)
    OBVIOUS
  <2> QED BY <1>1, <2>1 DEF Transport
<1> QED BY <1>2, <1>3 DEF FitNet

IsNet(n) ==
  n \in [wire : {n.wire}, heard : {n.heard}, down : {n.down}, deaf : {n.deaf}]

LEMMA NetFields ==
  ASSUME NEW n, FitNet(n)
  PROVE  /\ IsNet(n)
         /\ n.wire \in Seq(GuestFrame) /\ n.heard \in Nat /\ n.heard <= Len(n.wire)
         /\ n.down \in Seq(HostFrame) /\ n.deaf \in BOOLEAN
BY DEF FitNet, Transport, IsNet

LEMMA NetByFields ==
  ASSUME NEW n, IsNet(n), n.wire \in Seq(GuestFrame), n.heard \in Nat, n.heard <= Len(n.wire),
         n.down \in Seq(HostFrame), n.deaf \in BOOLEAN
  PROVE  FitNet(n)
BY DEF FitNet, Transport, IsNet

LEMMA DownIs ==
  ASSUME NEW n, FitNet(n), NEW q \in Seq(HostFrame)
  PROVE  LET m == [n EXCEPT !.down = q]
         IN /\ FitNet(m) /\ m.wire = n.wire /\ m.heard = n.heard /\ m.down = q
            /\ m.deaf = n.deaf
<1> DEFINE m == [n EXCEPT !.down = q]
<1>1. IsNet(m) /\ m.wire = n.wire /\ m.heard = n.heard /\ m.down = q /\ m.deaf = n.deaf
  BY NetFields DEF IsNet
<1> HIDE DEF m
<1>2. FitNet(m)
  BY <1>1, NetFields, NetByFields
<1> QED BY <1>1, <1>2 DEF m

LEMMA DeafIs ==
  ASSUME NEW n, FitNet(n), NEW b \in BOOLEAN
  PROVE  LET m == [n EXCEPT !.deaf = b]
         IN FitNet(m) /\ m.wire = n.wire /\ m.down = n.down
<1> DEFINE m == [n EXCEPT !.deaf = b]
<1>1. IsNet(m) /\ m.wire = n.wire /\ m.heard = n.heard /\ m.down = n.down /\ m.deaf = b
  BY NetFields DEF IsNet
<1> HIDE DEF m
<1>2. FitNet(m)
  BY <1>1, NetFields, NetByFields
<1> QED BY <1>1, <1>2 DEF m

LEMMA HearsIs ==
  ASSUME FitNet(net), NEW k \in Nat, k <= Len(net.wire), NEW q \in Seq(HostFrame),
         net' = [net EXCEPT !.heard = k, !.down = q]
  PROVE  FitNet(net') /\ net'.wire = net.wire /\ net'.down = q
<1>1. IsNet(net) /\ net.wire \in Seq(GuestFrame) /\ net.deaf \in BOOLEAN
  BY NetFields
<1>2. /\ IsNet(net') /\ net'.wire = net.wire /\ net'.heard = k /\ net'.down = q
      /\ net'.deaf = net.deaf
  BY <1>1 DEF IsNet
<1>3. FitNet(net')
  BY <1>1, <1>2, NetByFields
<1> QED BY <1>2, <1>3

LEMMA WireIs ==
  ASSUME NEW n, FitNet(n), NEW q \in Seq(GuestFrame)
  PROVE  LET m == [n EXCEPT !.wire = @ \o q]
         IN FitNet(m) /\ m.wire = n.wire \o q /\ m.down = n.down
<1> DEFINE all == n.wire \o q
           m == [n EXCEPT !.wire = all]
<1>1. IsNet(n) /\ n.wire \in Seq(GuestFrame) /\ n.heard \in Nat /\ n.heard <= Len(n.wire)
  BY NetFields
<1>2. m = [n EXCEPT !.wire = @ \o q]
  BY <1>1 DEF IsNet
<1>3. all \in Seq(GuestFrame) /\ Len(all) = Len(n.wire) + Len(q)
  BY <1>1
<1> HIDE DEF all
<1>4. n.heard <= Len(all)
  BY <1>1, <1>3
<1>5. IsNet(m) /\ m.wire = all /\ m.heard = n.heard /\ m.down = n.down /\ m.deaf = n.deaf
  BY <1>1 DEF IsNet
<1> HIDE DEF m
<1>6. FitNet(m)
  BY <1>3, <1>4, <1>5, NetFields, NetByFields
<1> QED BY <1>2, <1>5, <1>6 DEF all

(* The part of the host that the guest's state has to do with.                              *)
HostIs(h, log, asked, settled, welcomed, chunks) ==
  /\ h.log = log /\ h.asked = asked /\ h.settled = settled
  /\ h.welcomed = welcomed /\ h.chunks = chunks

IsHost(h) ==
  h \in [log : {h.log}, asked : {h.asked}, settled : {h.settled},
         welcomed : {h.welcomed}, chunks : {h.chunks}, gone : {h.gone}]

LEMMA HostFields ==
  ASSUME NEW h \in Host
  PROVE  /\ IsHost(h)
         /\ h.log \in Nat /\ h.asked \in 0 .. MaxAsks /\ h.settled \in SUBSET Ask
         /\ h.welcomed \in BOOLEAN /\ h.chunks \in Seq(Number) /\ h.gone \in BOOLEAN
BY DEF Host, IsHost

LEMMA HostByFields ==
  ASSUME NEW h, IsHost(h), NEW log \in Nat, NEW asked \in 0 .. MaxAsks,
         NEW settled \in SUBSET Ask, NEW welcomed \in BOOLEAN, NEW chunks \in Seq(Number),
         HostIs(h, log, asked, settled, welcomed, chunks), h.gone \in BOOLEAN
  PROVE  h \in Host
BY DEF Host, HostIs, IsHost

LEMMA HostByEach ==
  ASSUME NEW h, IsHost(h), h.log \in Nat, h.asked \in 0 .. MaxAsks, h.settled \in SUBSET Ask,
         h.welcomed \in BOOLEAN, h.chunks \in Seq(Number), h.gone \in BOOLEAN
  PROVE  h \in Host
BY DEF Host, IsHost

SameHost == HostIs(host', host.log, host.asked, host.settled, host.welcomed, host.chunks)

SameDown == net'.down = net.down

LEMMA TypedParts ==
  ASSUME Typed
  PROVE  FitSocket(socket) /\ FitNet(net) /\ client \in Client /\ host \in Host /\ left \in Budget
BY DEF Typed, SessionTypeOK, FitSocket, FitNet

(* A step, but for what it uses of the budget and the history.                             *)
Well == FitSocket(socket') /\ FitNet(net') /\ client' \in Client /\ host' \in Host

LEMMA SeveredIs ==
  ASSUME Typed, Severed
  PROVE  /\ FitNet(net') /\ net' = NewTransport /\ net'.down = <<>> /\ host' \in Host
         /\ HostIs(host', host.log, host.asked, host.settled, FALSE, <<>>)
<1>1. net' = NewTransport /\ FitNet(net') /\ net'.down = <<>>
  BY NewNet DEF Severed, Cut
<1>2. host \in Host /\ host' = [host EXCEPT !.welcomed = FALSE, !.chunks = <<>>]
  BY TypedParts DEF Severed
<1>3. /\ IsHost(host') /\ host'.gone = host.gone
      /\ HostIs(host', host.log, host.asked, host.settled, FALSE, <<>>)
  BY <1>2, HostFields DEF IsHost, HostIs
<1>4. <<>> \in Seq(Number)
  OBVIOUS
<1>5. host' \in Host
  BY <1>2, <1>3, <1>4, HostFields, HostByFields
<1> QED BY <1>1, <1>3, <1>5

(* A transport is given up, and perhaps the session with it.                                *)
Cuts ==
  /\ net'.down = <<>> /\ HostIs(host', host.log, host.asked, host.settled, FALSE, <<>>)
  /\ client' = Dropped(client) \/ client' = Finished(client)

(* The same, as the socket sees it.                                                       *)
GivenUp ==
  /\ net' = NewTransport /\ socket'.ws # "open" /\ ~socket'.awaiting
  /\ socket'.tasks = <<>> /\ socket'.held = <<>> /\ (socket'.retry => socket'.ws = "none")

LEMMA EndCuts ==
  ASSUME Typed, End
  PROVE  Well /\ Cuts /\ GivenUp
<1>1. /\ FitNet(net') /\ net' = NewTransport /\ net'.down = <<>> /\ host' \in Host
      /\ HostIs(host', host.log, host.asked, host.settled, FALSE, <<>>)
  BY SeveredIs DEF End
<1>2. client' = Finished(client) /\ client' \in Client
  BY TypedParts, FinishedType DEF End
<1>3. /\ FitSocket(socket') /\ socket'.ws = "none" /\ socket'.tasks = <<>>
      /\ socket'.held = <<>> /\ ~socket'.awaiting
  BY TypedParts, ClosedFits DEF End
<1> QED BY <1>1, <1>2, <1>3 DEF Well, Cuts, GivenUp

LEMMA DropCuts ==
  ASSUME Typed, client' = Dropped(client), Severed,
         \/ socket' = Retrying(socket)
         \/ socket' = Reconnected(socket)
         \/ socket' = RoomRetried(socket) /\ Recoverable(socket)
  PROVE  Well /\ Cuts /\ GivenUp
<1>1. /\ FitNet(net') /\ net' = NewTransport /\ net'.down = <<>> /\ host' \in Host
      /\ HostIs(host', host.log, host.asked, host.settled, FALSE, <<>>)
  BY SeveredIs
<1>2. client' = Dropped(client) /\ client' \in Client
  BY TypedParts, DroppedType
<1>3. FitSocket(socket)
  BY TypedParts
<1>4. /\ FitSocket(socket') /\ socket'.ws \in {"none", "connecting"} /\ socket'.tasks = <<>>
      /\ socket'.held = <<>> /\ ~socket'.awaiting /\ (socket'.retry => socket'.ws = "none")
  BY <1>3, RetryingFits, ReconnectedFits, RoomRetriedFits
<1> QED BY <1>1, <1>2, <1>4 DEF Well, Cuts, GivenUp

(* The steps, as the client, the frames on their way to it and the host see them.           *)
Joins == socket.ws = "connecting" /\ client' = Connected(client) /\ SameDown /\ SameHost

Stays == client' = client /\ SameDown /\ SameHost

Takes ==
  /\ net.down # <<>> /\ ~Ends(client, Head(net.down))
  /\ client' = Applied(client, Head(net.down)) /\ net'.down = Tail(net.down) /\ SameHost

Responds ==
  /\ client.pending = None /\ client.request \in Ask
  /\ client' = [client EXCEPT !.pending = client.request] /\ SameDown /\ SameHost

(* The host puts frames on their way.                                                   *)
Says(frames) ==
  client' = client /\ frames \in Seq(HostFrame) /\ net'.down = net.down \o frames

OpenRequests == {Request(r) : r \in Opens}

Greeted ==
  /\ ~host.welcomed /\ net.wire # <<>>
  /\ Says(<<Welcome(host.log)>> \o SetToSeq(OpenRequests) \o AfterSnapshot(host.log))
  /\ HostIs(host', host.log, host.asked, host.settled, TRUE, [i \in 1 .. host.log |-> i])

Refused == ~host.welcomed /\ Says(<<Error>>) /\ SameHost

Heard(r) ==
  /\ \E k \in 1 .. Len(net.wire) : net.wire[k] = Answer(r)
  /\ Says(<<RequestEnd(r)>>)
  /\ HostIs(host', host.log, host.asked, host.settled \cup {r}, host.welcomed, host.chunks)

ChunkSent ==
  /\ host.chunks # <<>>
  /\ Says(<<Chunk(Head(host.chunks), Len(host.chunks) = 1)>> \o AfterSnapshot(Len(host.chunks) - 1))
  /\ HostIs(host', host.log, host.asked, host.settled, host.welcomed, Tail(host.chunks))

EntrySent ==
  /\ Says(IF host.welcomed THEN <<Entry(host.log + 1)>> ELSE <<>>)
  /\ HostIs(host', host.log + 1, host.asked, host.settled, host.welcomed, host.chunks)

AskSent ==
  /\ host.asked < MaxAsks
  /\ Says(IF host.welcomed THEN <<Request(host.asked + 1)>> ELSE <<>>)
  /\ HostIs(host', host.log, host.asked + 1, host.settled, host.welcomed, host.chunks)

EndSent(r) ==
  /\ Says(IF host.welcomed THEN <<RequestEnd(r)>> ELSE <<>>)
  /\ HostIs(host', host.log, host.asked, host.settled \cup {r}, host.welcomed, host.chunks)

ByeSent == Says(IF host.welcomed THEN <<Bye>> ELSE <<>>) /\ SameHost

Moves ==
  \/ Cuts \/ Joins \/ Stays \/ Takes \/ Responds
  \/ Greeted \/ Refused \/ (\E r \in Ask : Heard(r))
  \/ ChunkSent \/ EntrySent \/ AskSent \/ (\E r \in Opens : EndSent(r)) \/ ByeSent

(* What the host does changes neither the socket nor what was sent.                        *)
Elsewhere == socket' = socket /\ net'.wire = net.wire

LEMMA SameHostIs == ASSUME host' = host PROVE SameHost
BY DEF SameHost, HostIs

LEMMA AttemptOpensMoves ==
  ASSUME Typed, AttemptOpens
  PROVE  Well /\ Joins /\ net' = net
<1>1. FitSocket(Queued(Opened(socket), Hello))
  BY TypedParts, OpenedFits, QueuedFits, GuestFrames
<1>2. Connected(client) \in Client
  BY TypedParts, ConnectedType
<1> QED BY <1>1, <1>2, TypedParts, SameHostIs DEF AttemptOpens, Well, Joins, SameDown

LEMMA RetryFiresMoves ==
  ASSUME Typed, RetryFires
  PROVE  Well /\ Stays /\ net' = net
<1>1. FitSocket(Retried(socket))
  BY TypedParts, RetriedFits
<1> QED BY <1>1, TypedParts, SameHostIs DEF RetryFires, Well, Stays, SameDown

LEMMA LostMoves == ASSUME Typed, Lost PROVE Well /\ Cuts /\ GivenUp
BY DropCuts DEF Lost

LEMMA RoomClosesMoves == ASSUME Typed, RoomCloses PROVE Well /\ Cuts /\ GivenUp
BY DropCuts, EndCuts DEF RoomCloses

LEMMA RefreshedMoves == ASSUME Typed, Refreshed PROVE Well /\ Cuts /\ GivenUp
BY DropCuts DEF Refreshed

LEMMA GoesDeafMoves ==
  ASSUME Typed, GoesDeaf
  PROVE  Well /\ Stays /\ Elsewhere
<1>1. FitNet(net') /\ net'.wire = net.wire /\ net'.down = net.down
  BY TypedParts, DeafIs DEF GoesDeaf
<1> QED BY <1>1, TypedParts, SameHostIs DEF GoesDeaf, Well, Stays, SameDown, Elsewhere

LEMMA SealDoneMoves ==
  ASSUME Typed, SealDone
  PROVE  /\ Well /\ Stays
         /\ net'.wire = net.wire \o Emitted(socket, Head(socket.tasks))
<1> DEFINE f == Head(socket.tasks)
           out == Emitted(socket, f)
<1>1. FitSocket(socket) /\ FitNet(net) /\ socket.tasks # <<>>
  BY TypedParts DEF SealDone
<1>2. f \in GuestFrame
  BY <1>1, FitFields
<1>3. out \in Seq(GuestFrame)
  BY <1>1, <1>2, EmittedType
<1>4. net' = [net EXCEPT !.wire = @ \o out] /\ socket' = Sealed(socket, f)
      /\ client' = client /\ host' = host
  BY DEF SealDone
<1>5. FitSocket(socket')
  BY <1>1, <1>4, SealedFits
<1> HIDE DEF out
<1>6. FitNet(net') /\ net'.wire = net.wire \o out /\ net'.down = net.down
  BY <1>1, <1>3, <1>4, WireIs
<1> QED BY <1>4, <1>5, <1>6, TypedParts, SameHostIs DEF Well, Stays, SameDown, out

LEMMA AnswersType ==
  ASSUME NEW c \in Client, NEW d \in Client
  PROVE  /\ Answers(c, d) \in Seq(AppFrame)
         /\ \/ Answers(c, d) = <<>>
            \/ d.pending \in Ask /\ Answers(c, d) = <<Answer(d.pending)>>
<1>1. CASE d.pending = None
  BY <1>1 DEF Answers
<1>2. CASE d.pending # None
  <2>1. d.pending \in Ask /\ Answer(d.pending) \in AppFrame
    BY <1>2, ClientFields, GuestFrames
  <2>2. <<Answer(d.pending)>> \in Seq(AppFrame)
    BY <2>1
  <2> QED BY <2>1, <2>2 DEF Answers
<1> QED BY <1>1, <1>2

(* A frame that is applied: what the socket has to send after it.                          *)
Answered ==
  \E s, q : /\ s \in {socket, Welcomed(socket)} /\ q \in Seq(AppFrame)
            /\ q = <<>> \/ (client'.pending \in Ask /\ q = <<Answer(client'.pending)>>)
            /\ socket' = [s EXCEPT !.tasks = @ \o q]
            /\ net'.wire = net.wire

LEMMA ReceiveMoves ==
  ASSUME Typed, Receive
  PROVE  /\ Well
         /\ (Cuts /\ GivenUp) \/ (Takes /\ Answered)
<1> DEFINE f == Head(net.down)
           d == Applied(client, f)
           s == IF f.t = "welcome" THEN Welcomed(socket) ELSE socket
           q == Answers(client, d)
           rest == Tail(net.down)
<1>1. CASE Ends(client, f)
  <2>1. End
    BY <1>1 DEF Receive
  <2> QED BY <2>1, EndCuts
<1>2. CASE ~Ends(client, f)
  <2>1. FitNet(net) /\ net.down \in Seq(HostFrame) /\ net.down # <<>>
    BY TypedParts, NetFields DEF Receive
  <2>2. f \in HostFrame /\ rest \in Seq(HostFrame)
    BY <2>1
  <2>3. client \in Client /\ d \in Client
    BY <2>2, TypedParts, AppliedType
  <2>5. /\ client' = d /\ socket' = [s EXCEPT !.tasks = @ \o q]
        /\ net' = [net EXCEPT !.down = Tail(@)] /\ host' = host
    BY <1>2 DEF Receive
  <2>6. net' = [net EXCEPT !.down = rest]
    BY <2>1, <2>5, NetFields DEF IsNet
  <2>7. s \in {socket, Welcomed(socket)} /\ FitSocket(s)
    BY TypedParts, WelcomedFits
  <2> HIDE DEF d, s
  <2>4. q \in Seq(AppFrame) /\ (q = <<>> \/ (d.pending \in Ask /\ q = <<Answer(d.pending)>>))
    BY <2>3, AnswersType
  <2> HIDE DEF q
  <2>8. FitSocket(socket')
    BY <2>4, <2>5, <2>7, TasksGrow
  <2>9. FitNet(net') /\ net'.wire = net.wire /\ net'.down = rest
    BY <2>1, <2>2, <2>6, DownIs
  <2>10. Answered
    BY <2>4, <2>5, <2>7, <2>9 DEF Answered
  <2>11. Takes
    BY <1>2, <2>1, <2>5, <2>9, SameHostIs DEF Takes, d
  <2>12. Well
    BY <2>3, <2>5, <2>8, <2>9, TypedParts DEF Well
  <2> QED BY <2>10, <2>11, <2>12
<1> QED BY <1>1, <1>2

LEMMA PromptType ==
  ASSUME Typed, left.prompts > 0
  PROVE  Prompt(left.prompts) \in AppFrame /\ Prompt(left.prompts).t = "prompt"
<1>1. PICK b \in Budgets : left.prompts <= b.prompts
  BY DEF Typed, Prompted
<1>2. left.prompts \in Nat /\ b.prompts \in Nat
  BY TypedParts, GuestAssumption DEF Budget
<1>3. left.prompts \in 1 .. b.prompts
  BY <1>1, <1>2
<1>4. left.prompts \in UNION {1 .. c.prompts : c \in Budgets}
  BY <1>3
<1> QED BY <1>4 DEF AppFrame, Prompt

LEMMA SendPromptMoves ==
  ASSUME Typed, SendPrompt
  PROVE  /\ Well /\ Stays /\ net' = net
         /\ socket' = Queued(socket, Prompt(left.prompts)) /\ Prompt(left.prompts) \in AppFrame
         /\ Prompt(left.prompts).t = "prompt"
<1>1. left.prompts > 0
  BY DEF SendPrompt, Uses
<1>2. Prompt(left.prompts) \in AppFrame /\ Prompt(left.prompts).t = "prompt"
  BY <1>1, PromptType
<1>3. FitSocket(Queued(socket, Prompt(left.prompts)))
  BY <1>2, TypedParts, QueuedFits, GuestFrames
<1> QED BY <1>2, <1>3, TypedParts, SameHostIs DEF SendPrompt, Well, Stays, SameDown

LEMMA PendingIs ==
  ASSUME NEW c \in Client, NEW r \in Ask
  PROVE  LET d == [c EXCEPT !.pending = r]
         IN d \in Client /\ SameScript(c, d) /\ d.request = c.request /\ d.queue = c.queue
            /\ d.pending = r
<1> DEFINE d == [c EXCEPT !.pending = r]
<1>1. /\ Fits(d) /\ SameScript(c, d) /\ d.request = c.request /\ d.queue = c.queue
      /\ d.pending = r
  BY ClientFields DEF Fits, IsClient, Flags, SameScript
<1> HIDE DEF d
<1>2. d \in Client
  BY <1>1, ClientFields, ClientByFields DEF SameScript
<1> QED BY <1>1, <1>2 DEF d

LEMMA SendUiResponseMoves ==
  ASSUME Typed, SendUiResponse
  PROVE  /\ Well /\ Responds /\ net' = net
         /\ socket' = Queued(socket, Answer(client.request))
<1>1. client.request \in Ask
  BY TypedParts, ClientFields DEF SendUiResponse
<1>2. FitSocket(Queued(socket, Answer(client.request)))
  BY <1>1, TypedParts, QueuedFits, GuestFrames
<1>3. client' = [client EXCEPT !.pending = client.request] /\ client' \in Client
  BY <1>1, TypedParts, PendingIs DEF SendUiResponse
<1> QED BY <1>1, <1>2, <1>3, TypedParts, SameHostIs DEF SendUiResponse, Well, Responds, SameDown

-----------------------------------------------------------------------------
(* The host's steps.                                                                   *)

LEMMA ToGuestSays ==
  ASSUME Typed, NEW q \in Seq(HostFrame), ToGuest(q), client' = client, socket' = socket
  PROVE  FitNet(net') /\ Says(q) /\ Elsewhere
<1> DEFINE all == net.down \o q
<1>1. FitNet(net) /\ IsNet(net) /\ net.down \in Seq(HostFrame)
  BY TypedParts, NetFields
<1>2. all \in Seq(HostFrame)
  BY <1>1
<1>3. net' = [net EXCEPT !.down = all]
  BY <1>1 DEF ToGuest, IsNet
<1> HIDE DEF all
<1>4. FitNet(net') /\ net'.wire = net.wire /\ net'.down = all
  BY <1>1, <1>2, <1>3, DownIs
<1> QED BY <1>4 DEF Says, Elsewhere, all

LEMMA HearsOne ==
  ASSUME Typed, net.heard < Len(net.wire)
  PROVE  net.heard + 1 \in Nat /\ net.heard + 1 <= Len(net.wire)
BY TypedParts, NetFields

LEMMA HearingSays ==
  ASSUME Typed, net.heard < Len(net.wire), NEW q \in Seq(HostFrame),
         net' = [net EXCEPT !.heard = @ + 1, !.down = @ \o q], client' = client, socket' = socket
  PROVE  FitNet(net') /\ Says(q) /\ Elsewhere
<1> DEFINE all == net.down \o q
           k == net.heard + 1
<1>1. FitNet(net) /\ IsNet(net) /\ net.down \in Seq(HostFrame)
      /\ k \in Nat /\ k <= Len(net.wire)
  BY TypedParts, NetFields, HearsOne
<1>2. all \in Seq(HostFrame)
  BY <1>1
<1>3. net' = [net EXCEPT !.heard = k, !.down = all]
  BY <1>1 DEF IsNet
<1> HIDE DEF all, k
<1>4. FitNet(net') /\ net'.wire = net.wire /\ net'.down = all
  BY <1>1, <1>2, <1>3, HearsIs
<1> QED BY <1>4 DEF Says, Elsewhere, all

LEMMA AfterType == ASSUME NEW n PROVE AfterSnapshot(n) \in Seq(HostFrame)
<1>1. <<Pong>> \in Seq(HostFrame) /\ <<>> \in Seq(HostFrame)
  BY HostSays
<1> QED BY <1>1 DEF AfterSnapshot

LEMMA OpensAre ==
  ASSUME Typed
  PROVE  Opens \subseteq Ask /\ IsFiniteSet(OpenRequests) /\ OpenRequests \subseteq HostFrame
<1>1. host.asked \in 0 .. MaxAsks /\ MaxAsks \in Nat
  BY TypedParts, HostFields, GuestAssumption
<1>2. Opens \subseteq Ask /\ Opens \subseteq 1 .. MaxAsks
  BY <1>1 DEF Opens, Ask
<1>3. IsFiniteSet(Opens)
  <2>1. IsFiniteSet(1 .. MaxAsks)
    BY <1>1, FS_Interval
  <2> QED BY <1>2, <2>1, FS_Subset
<1>4. IsFiniteSet(OpenRequests)
  <2> DEFINE f == [r \in Opens |-> Request(r)]
  <2>1. f \in Surjection(Opens, OpenRequests)
    BY DEF Surjection, OpenRequests
  <2> QED BY <1>3, <2>1, FS_Surjection
<1> QED BY <1>2, <1>4, HostSays DEF OpenRequests

LEMMA GreetsMoves ==
  ASSUME Typed, Greets, ~host.welcomed, net.heard < Len(net.wire),
         client' = client, socket' = socket
  PROVE  Well /\ Greeted /\ Elsewhere
<1> DEFINE w == <<Welcome(host.log)>>
           s == SetToSeq(OpenRequests)
           a == AfterSnapshot(host.log)
           q == w \o s \o a
           all == [i \in 1 .. host.log |-> i]
<1>1. host \in Host /\ host.log \in Nat /\ net.down \in Seq(HostFrame) /\ IsNet(net)
  BY TypedParts, HostFields, NetFields
<1>2. w \in Seq(HostFrame)
  BY <1>1, HostSays
<1>3. s \in Seq(HostFrame)
  <2>1. s \in Seq(OpenRequests) /\ OpenRequests \subseteq HostFrame
    BY OpensAre, SetToSeqIs
  <2> HIDE DEF s
  <2> QED BY <2>1
<1>4. a \in Seq(HostFrame)
  BY AfterType
<1>5. net' = [net EXCEPT !.heard = @ + 1, !.down = @ \o w \o s \o a]
  BY DEF Greets, OpenRequests
<1>6. host' = [host EXCEPT !.welcomed = TRUE, !.chunks = all]
  BY DEF Greets
<1>7. all \in Seq(Number)
  BY <1>1 DEF Number
<1> HIDE DEF w, s, a, all
<1>8. q \in Seq(HostFrame) /\ net.down \o w \o s \o a = net.down \o q
  <2> DEFINE d == net.down
  <2>1. d \in Seq(HostFrame)
    BY <1>1
  <2> HIDE DEF d, q
  <2>2. (d \o w) \o s = d \o (w \o s)
    BY <1>2, <1>3, <2>1
  <2>3. \A t \in Seq(HostFrame) : (d \o t) \o a = d \o (t \o a) /\ t \o a \in Seq(HostFrame)
    BY <1>4, <2>1
  <2>4. w \o s \in Seq(HostFrame)
    BY <1>2, <1>3
  <2>5. (d \o (w \o s)) \o a = d \o ((w \o s) \o a) /\ (w \o s) \o a \in Seq(HostFrame)
    BY <2>3, <2>4
  <2>6. w \o s \o a \in Seq(HostFrame) /\ d \o w \o s \o a = d \o (w \o s \o a)
    BY <2>2, <2>5
  <2> QED BY <2>6 DEF d, q
<1>9. net' = [net EXCEPT !.heard = @ + 1, !.down = @ \o q]
  <2> HIDE DEF q
  <2> QED BY <1>1, <1>5, <1>8 DEF IsNet
<1>10. FitNet(net') /\ Says(q) /\ Elsewhere
  <2> HIDE DEF q
  <2> QED BY <1>8, <1>9, HearingSays
<1>11. /\ IsHost(host') /\ host'.gone = host.gone
       /\ HostIs(host', host.log, host.asked, host.settled, TRUE, all)
  BY <1>1, <1>6, HostFields DEF IsHost, HostIs
<1>12. host' \in Host
  BY <1>1, <1>7, <1>11, HostFields, HostByFields
<1>13. net.wire # <<>>
  BY TypedParts, NetFields
<1> QED BY <1>10, <1>11, <1>12, <1>13, TypedParts DEF Well, Greeted, w, s, a, all

LEMMA RefusesMoves ==
  ASSUME Typed, Refuses, ~host.welcomed, net.heard < Len(net.wire),
         client' = client, socket' = socket
  PROVE  Well /\ Refused /\ Elsewhere
<1>1. <<Error>> \in Seq(HostFrame) /\ net.down \in Seq(HostFrame) /\ IsNet(net)
  BY HostSays, TypedParts, NetFields
<1>2. Append(net.down, Error) = net.down \o <<Error>>
  BY <1>1, AppendIsConcat, HostSays
<1>3. net' = [net EXCEPT !.heard = @ + 1, !.down = @ \o <<Error>>]
  BY <1>1, <1>2 DEF Refuses, IsNet
<1>4. FitNet(net') /\ Says(<<Error>>) /\ Elsewhere
  BY <1>1, <1>3, HearingSays
<1> QED BY <1>4, TypedParts, SameHostIs DEF Well, Refused, Refuses

LEMMA SettledIs ==
  ASSUME Typed, NEW r \in Ask, Settled(r)
  PROVE  /\ host' \in Host /\ left' = left
         /\ HostIs(host', host.log, host.asked, host.settled \cup {r}, host.welcomed, host.chunks)
<1> DEFINE more == host.settled \cup {r}
<1>1. host \in Host /\ host' = [host EXCEPT !.settled = more] /\ left' = left
  BY TypedParts DEF Settled
<1>3. more \in SUBSET Ask
  BY <1>1, HostFields
<1> HIDE DEF more
<1>2. /\ IsHost(host') /\ host'.gone = host.gone
      /\ HostIs(host', host.log, host.asked, more, host.welcomed, host.chunks)
  BY <1>1, HostFields DEF IsHost, HostIs
<1>4. host' \in Host
  <2>1. /\ host'.log \in Nat /\ host'.asked \in 0 .. MaxAsks /\ host'.welcomed \in BOOLEAN
        /\ host'.chunks \in Seq(Number) /\ host'.gone \in BOOLEAN
    BY <1>1, <1>2, HostFields DEF HostIs
  <2>2. host'.settled = more
    BY <1>2 DEF HostIs
  <2> QED BY <1>2, <1>3, <2>1, <2>2, HostByEach
<1> QED BY <1>1, <1>2, <1>4 DEF more

LEMMA HostHearsMoves ==
  ASSUME Typed, HostHears
  PROVE  /\ Well /\ Elsewhere
         /\ Greeted \/ Refused \/ Stays \/ (\E r \in Ask : Heard(r))
<1> DEFINE k == net.heard + 1
           f == net.wire[k]
<1>1. /\ net.wire \in Seq(GuestFrame) /\ net.heard \in Nat /\ net.heard < Len(net.wire)
      /\ IsNet(net) /\ net.down \in Seq(HostFrame) /\ FitNet(net)
  BY TypedParts, NetFields DEF HostHears
<1>2. k \in 1 .. Len(net.wire) /\ f \in GuestFrame
  BY <1>1
<1>3. client' = client /\ socket' = socket
  BY DEF HostHears
<1>4. \/ f = Hello /\ ~host.welcomed /\ (Greets \/ Refuses)
      \/ /\ f.t = "prompt"
         /\ net' = [net EXCEPT !.heard = @ + 1] /\ host' = host
      \/ /\ f.t = "ui-response" /\ Settled(f.req)
         /\ net' = [net EXCEPT !.heard = @ + 1, !.down = Append(@, RequestEnd(f.req))]
  BY DEF HostHears
<1> HIDE DEF k
<1>5. CASE f = Hello /\ ~host.welcomed /\ (Greets \/ Refuses)
  BY <1>1, <1>3, <1>5, GreetsMoves, RefusesMoves
<1>6. CASE /\ f.t = "prompt"
           /\ net' = [net EXCEPT !.heard = @ + 1] /\ host' = host
  <2> DEFINE q == net.down
  <2>1. net' = [net EXCEPT !.heard = k, !.down = q] /\ k \in Nat /\ k <= Len(net.wire)
    BY <1>1, <1>6, HearsOne DEF IsNet, k
  <2>2. q \in Seq(HostFrame)
    BY <1>1
  <2> HIDE DEF q
  <2>3. FitNet(net') /\ net'.wire = net.wire /\ net'.down = q
    BY <1>1, <2>1, <2>2, HearsIs
  <2> QED BY <1>3, <1>6, <2>3, TypedParts, SameHostIs DEF Well, Stays, SameDown, Elsewhere, q
<1>7. CASE /\ f.t = "ui-response" /\ Settled(f.req)
           /\ net' = [net EXCEPT !.heard = @ + 1, !.down = Append(@, RequestEnd(f.req))]
  <2> DEFINE r == f.req
  <2>1. r \in Ask /\ f = Answer(r)
    BY <1>2, <1>7, GuestFrames
  <2>2. <<RequestEnd(r)>> \in Seq(HostFrame) /\ RequestEnd(r) \in HostFrame
    BY <2>1, HostSays
  <2>3. Append(net.down, RequestEnd(r)) = net.down \o <<RequestEnd(r)>>
    BY <1>1, <2>2, AppendIsConcat
  <2>4. net' = [net EXCEPT !.heard = @ + 1, !.down = @ \o <<RequestEnd(r)>>] /\ Settled(r)
    BY <1>1, <1>7, <2>3 DEF IsNet
  <2> HIDE DEF r
  <2>5. FitNet(net') /\ Says(<<RequestEnd(r)>>) /\ Elsewhere
    BY <1>1, <1>3, <2>2, <2>4, HearingSays
  <2>6. /\ host' \in Host
        /\ HostIs(host', host.log, host.asked, host.settled \cup {r}, host.welcomed, host.chunks)
    BY <2>1, <2>4, SettledIs
  <2>7. Heard(r)
    BY <1>2, <2>1, <2>5, <2>6 DEF Heard
  <2> QED BY <1>3, <2>1, <2>5, <2>6, <2>7, TypedParts DEF Well
<1> QED BY <1>4, <1>5, <1>6, <1>7

LEMMA HostSendsChunkMoves ==
  ASSUME Typed, HostSendsChunk
  PROVE  Well /\ ChunkSent /\ Elsewhere
<1> DEFINE e == Head(host.chunks)
           rest == Tail(host.chunks)
           a == AfterSnapshot(Len(host.chunks) - 1)
           c == Chunk(e, Len(host.chunks) = 1)
           q == <<c>> \o a
<1>1. host \in Host /\ host.chunks \in Seq(Number) /\ host.chunks # <<>>
  BY TypedParts, HostFields DEF HostSendsChunk
<1>2. e \in Number /\ rest \in Seq(Number)
  BY <1>1
<1>3. c \in HostFrame /\ a \in Seq(HostFrame)
  BY <1>2, HostSays, AfterType
<1>4. ToGuest(q) /\ host' = [host EXCEPT !.chunks = Tail(@)] /\ socket' = socket /\ client' = client
  BY DEF HostSendsChunk
<1>5. host' = [host EXCEPT !.chunks = rest]
  BY <1>1, <1>4, HostFields DEF IsHost
<1> HIDE DEF c, a, rest
<1>6. q \in Seq(HostFrame)
  BY <1>3
<1>7. FitNet(net') /\ Says(q) /\ Elsewhere
  <2> HIDE DEF q
  <2> QED BY <1>4, <1>6, ToGuestSays
<1>8. /\ IsHost(host') /\ host'.gone = host.gone
      /\ HostIs(host', host.log, host.asked, host.settled, host.welcomed, rest)
  BY <1>1, <1>5, HostFields DEF IsHost, HostIs
<1>9. host' \in Host
  BY <1>1, <1>2, <1>8, HostFields, HostByFields
<1> QED BY <1>1, <1>4, <1>7, <1>8, <1>9, TypedParts DEF Well, ChunkSent, c, a, rest

(* What a guest that has been welcomed is told, and another is not.                      *)
LEMMA IfWelcomedType ==
  ASSUME NEW f \in HostFrame
  PROVE  (IF host.welcomed THEN <<f>> ELSE <<>>) \in Seq(HostFrame)
<1>1. <<f>> \in Seq(HostFrame) /\ <<>> \in Seq(HostFrame)
  OBVIOUS
<1> QED BY <1>1

LEMMA HostAppendsMoves ==
  ASSUME Typed, HostAppends
  PROVE  Well /\ EntrySent /\ Elsewhere
<1> DEFINE n == host.log + 1
           q == IF host.welcomed THEN <<Entry(n)>> ELSE <<>>
<1>1. host \in Host /\ n \in Nat /\ n \in Number
  BY TypedParts, HostFields DEF Number
<1>2. Entry(n) \in HostFrame
  BY <1>1, HostSays
<1>3. q \in Seq(HostFrame)
  BY <1>2, IfWelcomedType
<1>4. ToGuest(q) /\ host' = [host EXCEPT !.log = @ + 1] /\ socket' = socket /\ client' = client
  BY DEF HostAppends
<1>5. host' = [host EXCEPT !.log = n]
  BY <1>1, <1>4, HostFields DEF IsHost
<1>6. FitNet(net') /\ Says(q) /\ Elsewhere
  <2> HIDE DEF q
  <2> QED BY <1>3, <1>4, ToGuestSays
<1> HIDE DEF n
<1>7. /\ IsHost(host') /\ host'.gone = host.gone
      /\ HostIs(host', n, host.asked, host.settled, host.welcomed, host.chunks)
  BY <1>1, <1>5, HostFields DEF IsHost, HostIs
<1>8. host' \in Host
  BY <1>1, <1>7, HostFields, HostByFields
<1> QED BY <1>4, <1>6, <1>7, <1>8, TypedParts DEF Well, EntrySent, n

LEMMA HostAsksMoves ==
  ASSUME Typed, HostAsks
  PROVE  Well /\ AskSent /\ Elsewhere
<1> DEFINE n == host.asked + 1
           q == IF host.welcomed THEN <<Request(n)>> ELSE <<>>
<1>1. host \in Host /\ n \in 0 .. MaxAsks /\ n \in Ask /\ host.asked < MaxAsks
  <2>1. host.asked < MaxAsks /\ MaxAsks \in Nat
    BY GuestAssumption DEF HostAsks
  <2> QED BY <2>1, TypedParts, HostFields DEF Ask
<1>2. Request(n) \in HostFrame
  BY <1>1, HostSays
<1>3. q \in Seq(HostFrame)
  BY <1>2, IfWelcomedType
<1>4. ToGuest(q) /\ host' = [host EXCEPT !.asked = @ + 1] /\ socket' = socket /\ client' = client
  BY DEF HostAsks
<1>5. host' = [host EXCEPT !.asked = n]
  BY <1>1, <1>4, HostFields DEF IsHost
<1>6. FitNet(net') /\ Says(q) /\ Elsewhere
  <2> HIDE DEF q
  <2> QED BY <1>3, <1>4, ToGuestSays
<1> HIDE DEF n
<1>7. /\ IsHost(host') /\ host'.gone = host.gone
      /\ HostIs(host', host.log, n, host.settled, host.welcomed, host.chunks)
  BY <1>1, <1>5, HostFields DEF IsHost, HostIs
<1>8. host' \in Host
  BY <1>1, <1>7, HostFields, HostByFields
<1> QED BY <1>1, <1>4, <1>6, <1>7, <1>8, TypedParts DEF Well, AskSent, n

LEMMA HostSettlesMoves ==
  ASSUME Typed, HostSettles
  PROVE  Well /\ (\E r \in Opens : EndSent(r)) /\ Elsewhere
<1>1. PICK r \in Opens : Settled(r) /\ ToGuest(IF host.welcomed THEN <<RequestEnd(r)>> ELSE <<>>)
  BY DEF HostSettles
<1> DEFINE q == IF host.welcomed THEN <<RequestEnd(r)>> ELSE <<>>
<1>2. r \in Ask /\ RequestEnd(r) \in HostFrame
  BY OpensAre, HostSays
<1>3. q \in Seq(HostFrame)
  BY <1>2, IfWelcomedType
<1>4. ToGuest(q) /\ socket' = socket /\ client' = client
  BY <1>1 DEF HostSettles
<1>5. FitNet(net') /\ Says(q) /\ Elsewhere
  <2> HIDE DEF q
  <2> QED BY <1>3, <1>4, ToGuestSays
<1>6. /\ host' \in Host
      /\ HostIs(host', host.log, host.asked, host.settled \cup {r}, host.welcomed, host.chunks)
  BY <1>1, <1>2, SettledIs
<1> QED BY <1>4, <1>5, <1>6, TypedParts DEF Well, EndSent

LEMMA HostLeavesMoves ==
  ASSUME Typed, HostLeaves
  PROVE  Well /\ ByeSent /\ Elsewhere
<1> DEFINE q == IF host.welcomed THEN <<Bye>> ELSE <<>>
<1>1. q \in Seq(HostFrame)
  BY HostSays, IfWelcomedType
<1>2. /\ ToGuest(q) /\ socket' = socket /\ client' = client /\ host \in Host
      /\ host' = [host EXCEPT !.gone = TRUE]
  BY TypedParts DEF HostLeaves
<1>3. FitNet(net') /\ Says(q) /\ Elsewhere
  <2> HIDE DEF q
  <2> QED BY <1>1, <1>2, ToGuestSays
<1>4. /\ IsHost(host') /\ host'.gone \in BOOLEAN
      /\ HostIs(host', host.log, host.asked, host.settled, host.welcomed, host.chunks)
  BY <1>2, HostFields DEF IsHost, HostIs
<1>5. host' \in Host
  <2>1. /\ host'.log \in Nat /\ host'.asked \in 0 .. MaxAsks /\ host'.settled \in SUBSET Ask
        /\ host'.welcomed \in BOOLEAN /\ host'.chunks \in Seq(Number)
    BY <1>2, <1>4, HostFields DEF HostIs
  <2> QED BY <1>4, <2>1, HostByEach
<1> QED BY <1>2, <1>3, <1>4, <1>5, TypedParts DEF Well, ByeSent, SameHost

LEMMA HostStepMoves ==
  ASSUME Typed, HostStep
  PROVE  Well /\ Moves /\ Elsewhere
<1>1. CASE HostSendsChunk
  BY <1>1, HostSendsChunkMoves DEF Moves
<1>2. CASE HostAppends
  BY <1>2, HostAppendsMoves DEF Moves
<1>3. CASE HostAsks
  BY <1>3, HostAsksMoves DEF Moves
<1>4. CASE HostSettles
  BY <1>4, HostSettlesMoves DEF Moves
<1> QED BY <1>1, <1>2, <1>3, <1>4 DEF HostStep

-----------------------------------------------------------------------------
(* Every step.                                                                         *)

(* What a step does to the socket and to what is sent.                                  *)
Plays ==
  \/ GivenUp /\ Cuts
  \/ Elsewhere
  \/ socket' = Queued(Opened(socket), Hello) /\ socket.ws = "connecting" /\ net' = net
  \/ socket' = Retried(socket) /\ socket.retry /\ net' = net
  \/ /\ socket.tasks # <<>> /\ socket' = Sealed(socket, Head(socket.tasks))
     /\ net'.wire = net.wire \o Emitted(socket, Head(socket.tasks))
  \/ Answered /\ client' \in Client
  \/ \E f \in AppFrame : /\ socket' = Queued(socket, f) /\ net' = net
                         /\ f.t = "ui-response" => f.req = client.request

LEMMA StepMoves ==
  ASSUME Typed, [Next]_vars
  PROVE  Well /\ Moves /\ Plays
<1>1. CASE AttemptOpens
  BY <1>1, AttemptOpensMoves DEF Moves, Plays, AttemptOpens
<1>2. CASE RetryFires
  BY <1>2, RetryFiresMoves DEF Moves, Plays, RetryFires
<1>3. CASE Lost \/ RoomCloses \/ Refresh \/ ProbesMiss
  <2>1. Well /\ Cuts /\ GivenUp
    BY <1>3, LostMoves, RoomClosesMoves, RefreshedMoves DEF Refresh, ProbesMiss
  <2> QED BY <2>1 DEF Moves, Plays
<1>4. CASE FatalClose \/ WelcomeTimeout \/ SnapshotTimeout \/ Leave
  <2>1. End
    BY <1>4 DEF FatalClose, WelcomeTimeout, SnapshotTimeout, Leave
  <2> QED BY <2>1, EndCuts DEF Moves, Plays
<1>5. CASE GoesDeaf
  BY <1>5, GoesDeafMoves DEF Moves, Plays
<1>6. CASE SealDone
  BY <1>6, SealDoneMoves DEF Moves, Plays, SealDone
<1>7. CASE Receive
  BY <1>7, ReceiveMoves DEF Moves, Plays, Well
<1>8. CASE SendPrompt
  <2>1. /\ Well /\ Stays /\ net' = net
        /\ socket' = Queued(socket, Prompt(left.prompts)) /\ Prompt(left.prompts) \in AppFrame
        /\ Prompt(left.prompts).t = "prompt"
    BY <1>8, SendPromptMoves
  <2>2. Plays
    BY <2>1 DEF Plays
  <2> QED BY <2>1, <2>2 DEF Moves
<1>9. CASE SendUiResponse
  <2>1. Well /\ Responds /\ net' = net /\ socket' = Queued(socket, Answer(client.request))
    BY <1>9, SendUiResponseMoves
  <2>2. Plays
    BY <2>1, GuestFrames DEF Responds, Plays
  <2> QED BY <2>1, <2>2 DEF Moves
<1>10. CASE HostHears
  BY <1>10, HostHearsMoves DEF Moves, Plays
<1>11. CASE HostLeaves
  BY <1>11, HostLeavesMoves DEF Moves, Plays
<1>12. CASE HostStep
  BY <1>12, HostStepMoves DEF Plays
<1>13. CASE UNCHANGED vars
  <2>1. /\ socket' = socket /\ net' = net /\ client' = client /\ host' = host
    BY <1>13 DEF vars
  <2>2. Well /\ Stays /\ Elsewhere
    BY <2>1, TypedParts, SameHostIs DEF Well, Stays, SameDown, Elsewhere
  <2> QED BY <2>2 DEF Moves, Plays
<1> QED BY <1>1, <1>2, <1>3, <1>4, <1>5, <1>6, <1>7, <1>8, <1>9, <1>10, <1>11, <1>12, <1>13
        DEF Next

LEMMA LessIsLeft ==
  ASSUME left \in Budget, Prompted,
         Uses("appends") \/ Uses("asks") \/ Uses("prompts") \/ Uses("faults")
  PROVE  left' \in Budget /\ Prompted'
<1>1. /\ left \in [log : {left.log}, appends : {left.appends}, asks : {left.asks},
                   prompts : {left.prompts}, faults : {left.faults}]
      /\ left.log \in Nat /\ left.appends \in Nat /\ left.asks \in 0 .. MaxAsks
      /\ left.prompts \in Nat /\ left.faults \in Nat /\ MaxAsks \in Nat
  BY GuestAssumption DEF Budget
<1>2. PICK b \in Budgets : left.prompts <= b.prompts
  BY DEF Prompted
<1>3. b.prompts \in Nat
  BY GuestAssumption DEF Budget
<1>4. CASE Uses("appends")
  <2>1. left' \in Budget /\ left'.prompts = left.prompts
    BY <1>1, <1>4 DEF Uses, Budget
  <2> QED BY <1>2, <2>1 DEF Prompted
<1>5. CASE Uses("asks")
  <2>1. left' \in Budget /\ left'.prompts = left.prompts
    BY <1>1, <1>5 DEF Uses, Budget
  <2> QED BY <1>2, <2>1 DEF Prompted
<1>6. CASE Uses("prompts")
  <2>1. left' \in Budget /\ left'.prompts = left.prompts - 1
    BY <1>1, <1>6 DEF Uses, Budget
  <2>2. left'.prompts <= b.prompts
    BY <1>1, <1>2, <1>3, <2>1
  <2> QED BY <2>1, <2>2 DEF Prompted
<1>7. CASE Uses("faults")
  <2>1. left' \in Budget /\ left'.prompts = left.prompts
    BY <1>1, <1>7 DEF Uses, Budget
  <2> QED BY <1>2, <2>1 DEF Prompted
<1> QED BY <1>4, <1>5, <1>6, <1>7

LEMMA StepUses ==
  ASSUME Typed, [Next]_vars
  PROVE  \/ left' = left
         \/ Uses("appends") \/ Uses("asks") \/ Uses("prompts") \/ Uses("faults")
<1>1. CASE AttemptOpens \/ RetryFires \/ SealDone \/ Receive \/ SendUiResponse
  BY <1>1 DEF AttemptOpens, RetryFires, SealDone, Receive, SendUiResponse
<1>2. CASE Lost \/ RoomCloses \/ GoesDeaf \/ Refresh \/ ProbesMiss
  BY <1>2 DEF Lost, RoomCloses, GoesDeaf, Refresh, ProbesMiss
<1>3. CASE FatalClose \/ WelcomeTimeout \/ SnapshotTimeout \/ Leave \/ SendPrompt
  BY <1>3 DEF FatalClose, WelcomeTimeout, SnapshotTimeout, Leave, SendPrompt
<1>4. CASE HostHears \/ HostLeaves
  BY <1>4 DEF HostHears, HostLeaves, Greets, Refuses, Settled
<1>5. CASE HostStep
  BY <1>5 DEF HostStep, HostSendsChunk, HostAppends, HostAsks, HostSettles, Settled
<1>6. CASE UNCHANGED vars
  BY <1>6 DEF vars
<1> QED BY <1>1, <1>2, <1>3, <1>4, <1>5, <1>6 DEF Next

LEMMA TypedKeeps == IInv /\ Typed /\ [Next]_vars => Typed'
<1> SUFFICES ASSUME IInv, Typed, [Next]_vars PROVE Typed'
  OBVIOUS
<1>1. Well
  BY StepMoves
<1>2. left' \in Budget /\ Prompted'
  <2>1. left \in Budget /\ Prompted
    BY DEF Typed, SessionTypeOK
  <2>2. CASE left' = left
    BY <2>1, <2>2 DEF Prompted
  <2> QED BY <2>1, <2>2, StepUses, LessIsLeft
<1>3. closings' \in Nat
  <2>1. IInv'
    BY StepKeeps
  <2> QED BY <2>1, LimitsType DEF IInv, Counted
<1> QED BY <1>1, <1>2, <1>3 DEF Well, FitSocket, FitNet, Typed, SessionTypeOK

LEMMA InitIsTyped == Init => Typed
<1> SUFFICES ASSUME Init PROVE Typed
  OBVIOUS
<1>1. FitSocket(socket)
  <2>1. 0 \in 0 .. MaxRoomTries
    BY LimitsType
  <2>2. /\ IsSocket(NewSocket) /\ NewSocket.ws = "connecting" /\ NewSocket.retry = FALSE
        /\ NewSocket.closed = FALSE /\ NewSocket.awaiting = FALSE
        /\ NewSocket.established = FALSE /\ NewSocket.tries = 0
        /\ NewSocket.tasks = <<>> /\ NewSocket.held = <<>>
    BY DEF NewSocket, IsSocket
  <2> QED BY <2>1, <2>2, NoFrames, FitByFields DEF Init
<1>2. FitNet(net)
  BY NewNet DEF Init
<1>3. client \in Client
  <2>1. <<>> \in Seq(Number) /\ <<>> \in Seq(Ask)
    OBVIOUS
  <2> QED BY <2>1 DEF Init, Client
<1>4. left \in Budgets /\ left \in Budget
  BY GuestAssumption DEF Init
<1>5. host \in Host
  <2>1. <<>> \in Seq(Number) /\ 0 \in 0 .. MaxAsks /\ left.log \in Nat
    BY <1>4, GuestAssumption DEF Budget
  <2> QED BY <2>1 DEF Init, Host
<1>6. Prompted
  <2>1. left.prompts \in Nat
    BY <1>4 DEF Budget
  <2> QED BY <1>4, <2>1 DEF Prompted
<1> QED BY <1>1, <1>2, <1>3, <1>4, <1>5, <1>6 DEF Init, FitSocket, FitNet, Typed, SessionTypeOK

PausedTyped == paused \in BOOLEAN

(* The session's parts keep their types: socket.ts holds at most MAX_PENDING_SENDS frames back   *)
(* for the hello, and what client.ts shows, loads and asks stays well formed.               *)
THEOREM GuestIsTyped == Spec => []GuestTypeOK
<1>1. Typed => SessionTypeOK
  BY DEF Typed
<1>2. IInv /\ [Next]_vars => IInv'
  BY StepKeeps
<1>3. Init => PausedTyped
  BY DEF Init, PausedTyped
<1>4. PausedTyped /\ [PagedNext]_<<vars, paused>> => PausedTyped'
  BY DEF PagedNext, Pauses, PausedTyped
<1>5. SessionTypeOK /\ PausedTyped => GuestTypeOK
  BY DEF GuestTypeOK, PausedTyped
<1> QED BY InitIsCounted, InitIsTyped, PageStepsAside, TypedKeeps,
           <1>1, <1>2, <1>3, <1>4, <1>5, PTL DEF Spec

-----------------------------------------------------------------------------
(* What is sent.                                                                       *)

NoHello(t) == \A i \in 1 .. Len(t) : t[i] # Hello

OneHello(t) ==
  \E k \in 1 .. Len(t) : t[k] = Hello /\ \A i \in 1 .. Len(t) : t[i] = Hello => i = k

(* The hello is queued when the transport opens, sent first, and then nothing is held.       *)
Wired(s, wire) ==
  /\ s.retry => s.ws = "none"
  /\ s.ws # "open" => wire = <<>> /\ ~s.awaiting /\ NoHello(s.tasks)
  /\ s.ws = "open" /\ s.awaiting => wire = <<>> /\ OneHello(s.tasks)
  /\ s.ws = "open" /\ ~s.awaiting => wire # <<>> /\ s.held = <<>> /\ NoHello(s.tasks)

WireHolds == Wired(socket, net.wire) /\ (socket.ws # "open" => ~host.welcomed)

LEMMA TailHellos ==
  ASSUME NEW t \in Seq(GuestFrame), t # <<>>
  PROVE  /\ NoHello(t) => NoHello(Tail(t)) /\ Head(t) # Hello
         /\ OneHello(t) /\ Head(t) = Hello => NoHello(Tail(t))
         /\ OneHello(t) /\ Head(t) # Hello => OneHello(Tail(t))
<1> DEFINE n == Len(t)
           u == Tail(t)
<1>1. /\ n \in Nat \ {0} /\ Head(t) = t[1] /\ Len(u) = n - 1
      /\ \A i \in 1 .. n - 1 : u[i] = t[i + 1]
  BY HeadTailProperties
<1> HIDE DEF u, n
<1>2. ASSUME NoHello(t) PROVE NoHello(u) /\ Head(t) # Hello
  BY <1>1, <1>2 DEF NoHello, n
<1>3. ASSUME OneHello(t), Head(t) = Hello PROVE NoHello(u)
  <2>1. PICK k \in 1 .. n : t[k] = Hello /\ \A i \in 1 .. n : t[i] = Hello => i = k
    BY <1>3 DEF OneHello, n
  <2>2. k = 1
    BY <1>1, <1>3, <2>1
  <2>3. ASSUME NEW i \in 1 .. n - 1 PROVE u[i] # Hello
    BY <1>1, <2>1, <2>2
  <2> QED BY <1>1, <2>3 DEF NoHello
<1>4. ASSUME OneHello(t), Head(t) # Hello PROVE OneHello(u)
  <2>1. PICK k \in 1 .. n : t[k] = Hello /\ \A i \in 1 .. n : t[i] = Hello => i = k
    BY <1>4 DEF OneHello, n
  <2>2. k - 1 \in 1 .. n - 1
    BY <1>1, <1>4, <2>1
  <2>3. u[k - 1] = Hello
    BY <1>1, <2>1, <2>2
  <2>4. ASSUME NEW i \in 1 .. n - 1, u[i] = Hello PROVE i = k - 1
    BY <1>1, <2>1, <2>4
  <2> QED BY <1>1, <2>2, <2>3, <2>4 DEF OneHello
<1> QED BY <1>2, <1>3, <1>4 DEF u

LEMMA AppendHellos ==
  ASSUME NEW t \in Seq(GuestFrame), NEW f \in GuestFrame
  PROVE  /\ f # Hello /\ NoHello(t) => NoHello(Append(t, f))
         /\ f # Hello /\ OneHello(t) => OneHello(Append(t, f))
         /\ f = Hello /\ NoHello(t) => OneHello(Append(t, f))
<1> DEFINE n == Len(t)
           u == Append(t, f)
<1>1. /\ n \in Nat /\ Len(u) = n + 1 /\ u[n + 1] = f
      /\ \A i \in 1 .. n : u[i] = t[i]
  BY AppendProperties
<1> HIDE DEF u, n
<1>2. ASSUME f # Hello, NoHello(t) PROVE NoHello(u)
  BY <1>1, <1>2 DEF NoHello, n
<1>3. ASSUME f # Hello, OneHello(t) PROVE OneHello(u)
  <2>1. PICK k \in 1 .. n : t[k] = Hello /\ \A i \in 1 .. n : t[i] = Hello => i = k
    BY <1>3 DEF OneHello, n
  <2>2. k \in 1 .. n + 1 /\ u[k] = Hello
    BY <1>1, <2>1
  <2>3. ASSUME NEW i \in 1 .. n + 1, u[i] = Hello PROVE i = k
    BY <1>1, <1>3, <2>1, <2>3
  <2> QED BY <1>1, <2>2, <2>3 DEF OneHello
<1>4. ASSUME f = Hello, NoHello(t) PROVE OneHello(u)
  <2>1. n + 1 \in 1 .. n + 1 /\ u[n + 1] = Hello
    BY <1>1, <1>4
  <2>2. ASSUME NEW i \in 1 .. n + 1, u[i] = Hello PROVE i = n + 1
    BY <1>1, <1>4, <2>2 DEF NoHello, n
  <2> QED BY <1>1, <2>1, <2>2 DEF OneHello
<1> QED BY <1>2, <1>3, <1>4 DEF u

(* The app's frames that are queued, on one side of the hello or the other.                 *)
Bare(t) == RemoveFirst(t, Hello)

LEMMA BareWithout ==
  ASSUME NEW t \in Seq(GuestFrame), NoHello(t)
  PROVE  Bare(t) = t
BY RemoveFirstIs DEF NoHello, Bare

LEMMA BareWith ==
  ASSUME NEW t \in Seq(GuestFrame), NEW k \in 1 .. Len(t), t[k] = Hello,
         \A i \in 1 .. Len(t) : t[i] = Hello => i = k
  PROVE  /\ Bare(t) \in Seq(GuestFrame) /\ Len(Bare(t)) = Len(t) - 1
         /\ \A i \in 1 .. Len(t) - 1 : Bare(t)[i] = IF i < k THEN t[i] ELSE t[i + 1]
<1>1. Bare(t) = RemoveAt(t, k)
  <2>1. \E j \in 1 .. Len(t) : t[j] = Hello /\ Bare(t) = RemoveAt(t, j)
    BY RemoveFirstIs DEF Bare
  <2> QED BY <2>1
<1> QED BY <1>1, RemoveAtIs

LEMMA BareType ==
  ASSUME NEW t \in Seq(GuestFrame)
  PROVE  Bare(t) \in Seq(GuestFrame)
BY RemovedType DEF Bare

LEMMA BareTail ==
  ASSUME NEW t \in Seq(GuestFrame), t # <<>>, NoHello(t) \/ OneHello(t)
  PROVE  /\ Head(t) = Hello => Bare(t) = Tail(t) /\ Bare(Tail(t)) = Tail(t)
         /\ Head(t) # Hello => Bare(t) = <<Head(t)>> \o Bare(Tail(t))
<1> DEFINE n == Len(t)
           u == Tail(t)
           f == Head(t)
<1>1. /\ n \in Nat \ {0} /\ f = t[1] /\ Len(u) = n - 1 /\ u \in Seq(GuestFrame) /\ f \in GuestFrame
      /\ \A i \in 1 .. n - 1 : u[i] = t[i + 1]
      /\ t = <<f>> \o u
  BY HeadTailProperties
<1> HIDE DEF u, n, f
<1>2. CASE NoHello(t)
  <2>1. f # Hello /\ NoHello(u)
    BY <1>2, TailHellos DEF f, u
  <2>2. Bare(t) = t /\ Bare(u) = u
    BY <1>1, <1>2, <2>1, BareWithout
  <2> QED BY <1>1, <2>1, <2>2 DEF f, u
<1>3. CASE OneHello(t) /\ f = Hello
  <2>1. NoHello(u)
    BY <1>3, TailHellos DEF f, u
  <2>2. Bare(u) = u
    BY <1>1, <2>1, BareWithout
  <2>3. /\ Bare(t) \in Seq(GuestFrame) /\ Len(Bare(t)) = n - 1
        /\ \A i \in 1 .. n - 1 : Bare(t)[i] = IF i < 1 THEN t[i] ELSE t[i + 1]
    <3>1. 1 \in 1 .. n /\ t[1] = Hello
      BY <1>1, <1>3
    <3>2. \A i \in 1 .. n : t[i] = Hello => i = 1
      BY <1>3, <3>1 DEF OneHello, n
    <3> QED BY <3>1, <3>2, BareWith DEF n
  <2>4. \A i \in 1 .. n - 1 : Bare(t)[i] = u[i]
    BY <1>1, <2>3
  <2>5. Bare(t) = u
    BY <1>1, <2>3, <2>4, SeqEqual
  <2> QED BY <1>3, <2>2, <2>5 DEF f, u
<1>4. CASE OneHello(t) /\ f # Hello
  <2>1. PICK k \in 1 .. n : t[k] = Hello /\ \A i \in 1 .. n : t[i] = Hello => i = k
    BY <1>4 DEF OneHello, n
  <2>2. k - 1 \in 1 .. n - 1 /\ n - 1 \in Nat
    BY <1>1, <1>4, <2>1
  <2>3. /\ Bare(t) \in Seq(GuestFrame) /\ Len(Bare(t)) = n - 1
        /\ \A i \in 1 .. n - 1 : Bare(t)[i] = IF i < k THEN t[i] ELSE t[i + 1]
    BY <2>1, BareWith DEF n
  <2>4. u[k - 1] = Hello /\ \A i \in 1 .. n - 1 : u[i] = Hello => i = k - 1
    <3>1. u[k - 1] = t[k]
      BY <1>1, <2>2
    <3>2. ASSUME NEW i \in 1 .. n - 1, u[i] = Hello PROVE i = k - 1
      <4>1. i + 1 \in 1 .. n /\ t[i + 1] = Hello
        BY <1>1, <3>2
      <4> QED BY <2>1, <4>1
    <3> QED BY <2>1, <3>1, <3>2
  <2> DEFINE b == Bare(u)
             c == <<f>> \o b
  <2>5. /\ b \in Seq(GuestFrame) /\ Len(b) = n - 1 - 1
        /\ \A i \in 1 .. n - 1 - 1 : b[i] = IF i < k - 1 THEN u[i] ELSE u[i + 1]
    <3> DEFINE j == k - 1
    <3>1. j \in 1 .. Len(u) /\ u[j] = Hello /\ \A i \in 1 .. Len(u) : u[i] = Hello => i = j
      BY <1>1, <2>2, <2>4
    <3> HIDE DEF j
    <3>2. /\ b \in Seq(GuestFrame) /\ Len(b) = Len(u) - 1
          /\ \A i \in 1 .. Len(u) - 1 : b[i] = IF i < j THEN u[i] ELSE u[i + 1]
      BY <1>1, <3>1, BareWith
    <3> QED BY <1>1, <3>2 DEF j
  <2> HIDE DEF b
  <2>6. /\ c \in Seq(GuestFrame) /\ Len(c) = n - 1
        /\ \A i \in 1 .. n - 1 : c[i] = IF i = 1 THEN f ELSE b[i - 1]
    BY <1>1, <2>2, <2>5
  <2> HIDE DEF c
  <2>7. ASSUME NEW i \in 1 .. n - 1 PROVE Bare(t)[i] = c[i]
    <3>1. CASE i = 1
      <4>1. 1 < k
        BY <1>1, <1>4, <2>1
      <4> QED BY <1>1, <2>3, <2>6, <3>1, <4>1
    <3>2. CASE i # 1
      <4> DEFINE j == i - 1
      <4>1. j \in 1 .. n - 1 - 1 /\ j \in 1 .. n - 1 /\ j + 1 = i
        BY <1>1, <3>2
      <4>2. c[i] = b[j] /\ b[j] = IF j < k - 1 THEN u[j] ELSE u[j + 1]
        BY <2>5, <2>6, <3>2, <4>1
      <4>3. u[j] = t[i] /\ u[i] = t[i + 1]
        BY <1>1, <4>1
      <4>4. j < k - 1 <=> i < k
        BY <2>2, <4>1
      <4> QED BY <2>3, <4>1, <4>2, <4>3, <4>4
    <3> QED BY <3>1, <3>2
  <2>8. Bare(t) = c
    BY <2>3, <2>6, <2>7, SeqEqual
  <2> QED BY <1>4, <2>8 DEF c, b, f, u
<1> QED BY <1>2, <1>3, <1>4

LEMMA BareAppend ==
  ASSUME NEW t \in Seq(GuestFrame), NEW f \in GuestFrame, f # Hello, NoHello(t) \/ OneHello(t)
  PROVE  Bare(Append(t, f)) = Append(Bare(t), f)
<1> DEFINE n == Len(t)
           u == Append(t, f)
<1>1. /\ n \in Nat /\ Len(u) = n + 1 /\ u[n + 1] = f /\ u \in Seq(GuestFrame)
      /\ \A i \in 1 .. n : u[i] = t[i]
  BY AppendProperties
<1>2. CASE NoHello(t)
  <2>1. NoHello(u)
    BY <1>2, AppendHellos
  <2> HIDE DEF u
  <2>2. Bare(u) = u /\ Bare(t) = t
    BY <1>1, <1>2, <2>1, BareWithout
  <2> QED BY <2>2 DEF u
<1>3. CASE OneHello(t)
  <2> HIDE DEF u, n
  <2>1. PICK k \in 1 .. n : t[k] = Hello /\ \A i \in 1 .. n : t[i] = Hello => i = k
    BY <1>3 DEF OneHello, n
  <2>2. /\ Bare(t) \in Seq(GuestFrame) /\ Len(Bare(t)) = n - 1
        /\ \A i \in 1 .. n - 1 : Bare(t)[i] = IF i < k THEN t[i] ELSE t[i + 1]
    BY <2>1, BareWith DEF n
  <2>3. k \in 1 .. n + 1 /\ u[k] = Hello /\ \A i \in 1 .. n + 1 : u[i] = Hello => i = k
    <3>1. ASSUME NEW i \in 1 .. n + 1, u[i] = Hello PROVE i = k
      <4>1. i \in 1 .. n \/ i = n + 1
        BY <1>1
      <4>2. i # n + 1
        BY <1>1, <3>1
      <4> QED BY <1>1, <2>1, <3>1, <4>1, <4>2
    <3> QED BY <1>1, <2>1, <3>1
  <2>4. /\ Bare(u) \in Seq(GuestFrame) /\ Len(Bare(u)) = n
        /\ \A i \in 1 .. n : Bare(u)[i] = IF i < k THEN u[i] ELSE u[i + 1]
    <3>0. k \in 1 .. Len(u) /\ \A i \in 1 .. Len(u) : u[i] = Hello => i = k
      BY <1>1, <2>3
    <3>1. /\ Bare(u) \in Seq(GuestFrame) /\ Len(Bare(u)) = Len(u) - 1
          /\ \A i \in 1 .. Len(u) - 1 : Bare(u)[i] = IF i < k THEN u[i] ELSE u[i + 1]
      BY <1>1, <2>3, <3>0, BareWith
    <3> QED BY <1>1, <3>1
  <2> DEFINE c == Append(Bare(t), f)
  <2>5. /\ c \in Seq(GuestFrame) /\ Len(c) = n
        /\ \A i \in 1 .. n - 1 : c[i] = Bare(t)[i]
        /\ c[n] = f
    <3>1. n \in Nat \ {0}
      BY <1>1, <2>1
    <3> DEFINE b == Bare(t)
    <3>2. b \in Seq(GuestFrame) /\ Len(b) = n - 1
      BY <2>2
    <3> HIDE DEF b
    <3>3. /\ Append(b, f) \in Seq(GuestFrame) /\ Len(Append(b, f)) = Len(b) + 1
          /\ Append(b, f)[Len(b) + 1] = f /\ \A i \in 1 .. Len(b) : Append(b, f)[i] = b[i]
      BY <3>2, AppendProperties
    <3>4. Len(b) + 1 = n
      BY <3>1, <3>2
    <3> QED BY <3>2, <3>3, <3>4 DEF b
  <2> HIDE DEF c
  <2>6. ASSUME NEW i \in 1 .. n PROVE Bare(u)[i] = c[i]
    <3>1. CASE i = n
      <4>1. ~(n < k) /\ n \in 1 .. n
        BY <1>1, <2>1
      <4> QED BY <1>1, <2>4, <2>5, <3>1, <4>1
    <3>2. CASE i # n
      <4>1. i \in 1 .. n - 1 /\ i + 1 \in 1 .. n
        BY <1>1, <3>2
      <4>2. c[i] = IF i < k THEN t[i] ELSE t[i + 1]
        BY <2>2, <2>5, <4>1
      <4>3. u[i] = t[i] /\ u[i + 1] = t[i + 1]
        BY <1>1, <4>1
      <4> QED BY <2>4, <4>2, <4>3
    <3> QED BY <3>1, <3>2
  <2>7. Bare(u) = c
    BY <1>1, <2>4, <2>5, <2>6, SeqEqual
  <2> QED BY <2>7 DEF c, u
<1> QED BY <1>2, <1>3

LEMMA BareHello ==
  ASSUME NEW t \in Seq(GuestFrame), NoHello(t)
  PROVE  Bare(Append(t, Hello)) = t
<1> DEFINE n == Len(t)
           u == Append(t, Hello)
<1>1. /\ n \in Nat /\ Len(u) = n + 1 /\ u[n + 1] = Hello /\ u \in Seq(GuestFrame)
      /\ \A i \in 1 .. n : u[i] = t[i]
  BY AppendProperties, GuestFrames
<1> HIDE DEF u
<1>2. n + 1 \in 1 .. n + 1 /\ \A i \in 1 .. n + 1 : u[i] = Hello => i = n + 1
  <2>1. ASSUME NEW i \in 1 .. n + 1, u[i] = Hello PROVE i = n + 1
    BY <1>1, <2>1 DEF NoHello
  <2> QED BY <1>1, <2>1
<1>3. /\ Bare(u) \in Seq(GuestFrame) /\ Len(Bare(u)) = n + 1 - 1
      /\ \A i \in 1 .. n + 1 - 1 : Bare(u)[i] = IF i < n + 1 THEN u[i] ELSE u[i + 1]
  BY <1>1, <1>2, BareWith, SMTT(30)
<1>4. Len(Bare(u)) = n /\ \A i \in 1 .. n : Bare(u)[i] = t[i]
  BY <1>1, <1>3
<1>5. Bare(u) = t
  BY <1>3, <1>4, SeqEqual
<1> QED BY <1>5 DEF u

(* What a socket owes its transport, and what the channel sees of it.                       *)
Owes(s) == IF s.closed THEN <<>> ELSE s.held \o Bare(s.tasks)

LineOf(s) == IF s.ws = "open" THEN "up" ELSE "down"

LEMMA GiveUpIs ==
  Channel!GiveUp <=> LineOf(socket') = "down" /\ Owes(socket') = <<>> /\ net'.wire = <<>>
BY DEF Channel!GiveUp, LineOf, Owes, Bare

LEMMA OpenIs ==
  Channel!Open <=> /\ LineOf(socket) = "down" /\ LineOf(socket') = "up"
                   /\ Owes(socket') = Owes(socket) /\ net'.wire = net.wire
BY DEF Channel!Open, LineOf, Owes, Bare

LEMMA AcceptIs ==
  ASSUME NEW f
  PROVE  Channel!Accept(f) <=> /\ Owes(socket') = Append(Owes(socket), f)
                               /\ LineOf(socket') = LineOf(socket) /\ net'.wire = net.wire
BY DEF Channel!Accept, LineOf, Owes, Bare

LEMMA GreetIs ==
  ASSUME NEW n
  PROVE  Channel!Greet(n) <=>
           /\ LineOf(socket) = "up" /\ net.wire = <<>>
           /\ net'.wire = <<Hello>> \o SubSeq(Owes(socket), 1, n)
           /\ Owes(socket') = SubSeq(Owes(socket), n + 1, Len(Owes(socket)))
           /\ LineOf(socket') = LineOf(socket)
BY DEF Channel!Greet, LineOf, Owes, Bare

LEMMA SendIs ==
  Channel!Send <=> /\ LineOf(socket) = "up" /\ net.wire # <<>> /\ Owes(socket) # <<>>
                   /\ net'.wire = Append(net.wire, Head(Owes(socket)))
                   /\ Owes(socket') = Tail(Owes(socket))
                   /\ LineOf(socket') = LineOf(socket)
BY DEF Channel!Send, LineOf, Owes, Bare

LEMMA OverflowIs ==
  Channel!Overflow <=> /\ net.wire = <<>> /\ Len(Owes(socket)) > MaxHeld
                       /\ Owes(socket') = RemoveAt(Owes(socket), MaxHeld + 1)
                       /\ LineOf(socket') = LineOf(socket) /\ net'.wire = net.wire
BY DEF Channel!Overflow, Channel!RemoveAt, RemoveAt, LineOf, Owes, Bare

LEMMA StutterIs ==
  UNCHANGED Channel!channelVars <=> /\ Owes(socket') = Owes(socket)
                                    /\ LineOf(socket') = LineOf(socket) /\ net'.wire = net.wire
BY DEF Channel!channelVars, LineOf, Owes, Bare

LEMMA QueuedIs ==
  ASSUME NEW s, FitSocket(s), NEW f
  PROVE  LET d == Queued(s, f)
         IN /\ d.ws = s.ws /\ d.retry = s.retry /\ d.closed = s.closed
            /\ d.awaiting = s.awaiting /\ d.held = s.held /\ d.tasks = Append(s.tasks, f)
BY FitFields DEF Queued, IsSocket

LEMMA OpenedIs ==
  ASSUME NEW s, FitSocket(s)
  PROVE  LET d == Opened(s)
         IN /\ FitSocket(d) /\ d.ws = "open" /\ d.retry = s.retry /\ d.closed = s.closed
            /\ d.awaiting /\ d.held = s.held /\ d.tasks = s.tasks
<1> DEFINE d == Opened(s)
<1>1. /\ d.ws = "open" /\ d.retry = s.retry /\ d.closed = s.closed
      /\ d.awaiting = TRUE /\ d.held = s.held /\ d.tasks = s.tasks
  BY FitFields DEF Opened, IsSocket
<1> QED BY <1>1, OpenedFits

LEMMA GivenUpMaps ==
  ASSUME GivenUp
  PROVE  Wired(socket', net'.wire) /\ Channel!GiveUp
<1>1. net'.wire = <<>>
  BY NewNet DEF GivenUp
<1>2. NoHello(<<>>) /\ Bare(<<>>) = <<>>
  <2>1. <<>> \in Seq(GuestFrame) /\ NoHello(<<>>)
    BY DEF NoHello
  <2> QED BY <2>1, BareWithout
<1>3. Wired(socket', net'.wire)
  BY <1>1, <1>2 DEF GivenUp, Wired
<1>4. Owes(socket') = <<>>
  BY <1>2 DEF GivenUp, Owes
<1>5. LineOf(socket') = "down"
  BY DEF GivenUp, LineOf
<1> QED BY <1>1, <1>3, <1>4, <1>5, GiveUpIs

LEMMA OpensMaps ==
  ASSUME IInv, Typed, Wired(socket, net.wire), socket.ws = "connecting",
         socket' = Queued(Opened(socket), Hello), net' = net
  PROVE  Wired(socket', net'.wire) /\ Channel!Open
<1> DEFINE o == Opened(socket)
           t == socket.tasks
<1>1. FitSocket(socket) /\ t \in Seq(GuestFrame) /\ ~socket.closed /\ ~socket.retry
  BY TypedParts, FitFields DEF IInv, Final, Wired
<1>2. /\ FitSocket(o) /\ o.ws = "open" /\ o.retry = socket.retry /\ o.closed = socket.closed
      /\ o.awaiting /\ o.held = socket.held /\ o.tasks = t
  BY <1>1, OpenedIs
<1>3. socket' = Queued(o, Hello)
  OBVIOUS
<1> HIDE DEF o
<1>4. /\ socket'.ws = "open" /\ socket'.retry = socket.retry /\ socket'.closed = socket.closed
      /\ socket'.awaiting /\ socket'.held = socket.held /\ socket'.tasks = Append(t, Hello)
  BY <1>2, <1>3, QueuedIs
<1>5. NoHello(t) /\ net.wire = <<>>
  BY DEF Wired
<1> HIDE DEF t
<1>6. OneHello(Append(t, Hello)) /\ Bare(Append(t, Hello)) = t /\ Bare(t) = t
  BY <1>1, <1>5, AppendHellos, BareHello, BareWithout, GuestFrames
<1>7. Wired(socket', net'.wire)
  BY <1>1, <1>4, <1>5, <1>6 DEF Wired
<1>8. Owes(socket') = Owes(socket)
  BY <1>1, <1>4, <1>6 DEF Owes, t
<1>9. LineOf(socket) = "down" /\ LineOf(socket') = "up"
  BY <1>4 DEF LineOf
<1> QED BY <1>7, <1>8, <1>9, OpenIs

LEMMA RetriedMaps ==
  ASSUME Typed, Wired(socket, net.wire), socket.retry, socket' = Retried(socket), net' = net
  PROVE  Wired(socket', net'.wire) /\ UNCHANGED Channel!channelVars
<1>1. FitSocket(socket) /\ IsSocket(socket) /\ socket.ws = "none"
  BY TypedParts, FitFields DEF Wired
<1>2. /\ socket'.ws = "connecting" /\ ~socket'.retry /\ socket'.closed = socket.closed
      /\ socket'.awaiting = socket.awaiting
      /\ socket'.tasks = socket.tasks /\ socket'.held = socket.held
  BY <1>1 DEF Retried, IsSocket
<1>3. Wired(socket', net'.wire)
  BY <1>1, <1>2 DEF Wired
<1>4. Owes(socket') = Owes(socket) /\ LineOf(socket') = LineOf(socket)
  BY <1>1, <1>2 DEF Owes, LineOf
<1> QED BY <1>3, <1>4, StutterIs

(* Frames of the app that are queued.                                                      *)
LEMMA QueuesMaps ==
  ASSUME Typed, Wired(socket, net.wire), NEW f \in AppFrame, net'.wire = net.wire,
         socket'.ws = socket.ws, socket'.retry = socket.retry, socket'.closed = socket.closed,
         socket'.awaiting = socket.awaiting, socket'.held = socket.held,
         socket'.tasks = Append(socket.tasks, f)
  PROVE  /\ Wired(socket', net'.wire)
         /\ Channel!Accept(f) \/ UNCHANGED Channel!channelVars
<1> DEFINE t == socket.tasks
           h == socket.held
<1>1. t \in Seq(GuestFrame) /\ h \in Seq(GuestFrame) /\ f \in GuestFrame /\ f # Hello
  <2>1. h \in Seq(AppFrame) /\ AppFrame \subseteq GuestFrame
    BY TypedParts, FitFields, GuestFrames
  <2> QED BY <2>1, TypedParts, FitFields, GuestFrames
<1>2. LineOf(socket') = LineOf(socket)
  BY DEF LineOf
<1>3. Wired(socket', net'.wire)
  BY <1>1, AppendHellos DEF Wired
<1>4. NoHello(t) \/ OneHello(t)
  BY DEF Wired
<1>5. CASE socket.closed
  <2>1. Owes(socket') = Owes(socket)
    BY <1>5 DEF Owes
  <2> QED BY <1>2, <1>3, <2>1, StutterIs
<1>6. CASE ~socket.closed
  <2>1. socket'.tasks = Append(t, f) /\ socket'.held = h
    OBVIOUS
  <2>2. Owes(socket') = h \o Bare(Append(t, f)) /\ Owes(socket) = h \o Bare(t)
    BY <1>6, <2>1 DEF Owes
  <2> HIDE DEF t, h
  <2> DEFINE b == Bare(t)
  <2>3. b \in Seq(GuestFrame) /\ Bare(Append(t, f)) = Append(b, f)
    BY <1>1, <1>4, BareType, BareAppend
  <2> HIDE DEF b
  <2>4. h \o Append(b, f) = Append(h \o b, f)
    BY <1>1, <2>3
  <2>5. Owes(socket') = Append(Owes(socket), f)
    BY <2>2, <2>3, <2>4 DEF b
  <2> QED BY <1>2, <1>3, <2>5, AcceptIs
<1> QED BY <1>5, <1>6

LEMMA AnsweredMaps ==
  ASSUME Typed, Wired(socket, net.wire), Answered, client' \in Client
  PROVE  /\ Wired(socket', net'.wire)
         /\ (\E f \in AppFrame : Channel!Accept(f)) \/ UNCHANGED Channel!channelVars
<1>1. PICK s, q : /\ s \in {socket, Welcomed(socket)} /\ q \in Seq(AppFrame)
                  /\ q = <<>> \/ (client'.pending \in Ask /\ q = <<Answer(client'.pending)>>)
                  /\ socket' = [s EXCEPT !.tasks = @ \o q]
                  /\ net'.wire = net.wire
  BY DEF Answered
<1>2. FitSocket(socket) /\ IsSocket(socket) /\ socket.tasks \in Seq(GuestFrame)
  BY TypedParts, FitFields
<1>3. /\ IsSocket(s) /\ s.ws = socket.ws /\ s.retry = socket.retry
      /\ s.closed = socket.closed /\ s.awaiting = socket.awaiting /\ s.held = socket.held
      /\ s.tasks = socket.tasks
  <2>1. CASE s = socket
    BY <1>2, <2>1
  <2>2. CASE s = Welcomed(socket)
    BY <1>2, <2>2 DEF Welcomed, IsSocket
  <2> QED BY <1>1, <2>1, <2>2
<1> DEFINE all == socket.tasks \o q
<1>4. socket' = [s EXCEPT !.tasks = all]
  BY <1>1, <1>3 DEF IsSocket
<1> HIDE DEF all
<1>5. /\ socket'.ws = socket.ws /\ socket'.retry = socket.retry
      /\ socket'.closed = socket.closed /\ socket'.awaiting = socket.awaiting
      /\ socket'.held = socket.held /\ socket'.tasks = all
  BY <1>3, <1>4 DEF IsSocket
<1>6. CASE q = <<>>
  <2>1. socket'.tasks = socket.tasks
    BY <1>2, <1>5, <1>6 DEF all
  <2>2. Wired(socket', net'.wire)
    BY <1>1, <1>5, <2>1 DEF Wired
  <2>3. Owes(socket') = Owes(socket) /\ LineOf(socket') = LineOf(socket)
    BY <1>5, <2>1 DEF Owes, LineOf
  <2> QED BY <1>1, <2>2, <2>3, StutterIs
<1>7. CASE client'.pending \in Ask /\ q = <<Answer(client'.pending)>>
  <2> DEFINE f == Answer(client'.pending)
  <2>1. f \in AppFrame /\ f \in GuestFrame
    BY <1>7, GuestFrames
  <2> HIDE DEF f
  <2>2. socket'.tasks = Append(socket.tasks, f)
    <3>1. socket'.tasks = socket.tasks \o <<f>>
      BY <1>5, <1>7 DEF all, f
    <3>2. Append(socket.tasks, f) = socket.tasks \o <<f>>
      BY <1>2, <2>1, AppendIsConcat
    <3> QED BY <3>1, <3>2
  <2> QED BY <1>1, <1>5, <2>1, <2>2, QueuesMaps
<1> QED BY <1>1, <1>6, <1>7

LEMMA RemoveBetween ==
  ASSUME NEW S, NEW h \in Seq(S), NEW f \in S, NEW b \in Seq(S)
  PROVE  /\ Len(h \o (<<f>> \o b)) > Len(h)
         /\ RemoveAt(h \o (<<f>> \o b), Len(h) + 1) = h \o b
<1> DEFINE a == h \o (<<f>> \o b)
           n == Len(h)
           m == Len(b)
           c == h \o b
           r == RemoveAt(a, n + 1)
<1>1. /\ n \in Nat /\ m \in Nat /\ a \in Seq(S) /\ Len(a) = n + 1 + m
      /\ \A i \in 1 .. n : a[i] = h[i]
      /\ \A i \in n + 2 .. n + 1 + m : a[i] = b[i - n - 1]
  OBVIOUS
<1>2. /\ c \in Seq(S) /\ Len(c) = n + m
      /\ \A i \in 1 .. n : c[i] = h[i]
      /\ \A i \in n + 1 .. n + m : c[i] = b[i - n]
  OBVIOUS
<1> HIDE DEF a, n, m, c
<1>3. n + 1 \in 1 .. Len(a) /\ Len(a) - 1 = n + m
  BY <1>1
<1>4. /\ r \in Seq(S) /\ Len(r) = n + m
      /\ \A i \in 1 .. n + m : r[i] = IF i < n + 1 THEN a[i] ELSE a[i + 1]
  BY <1>1, <1>3, RemoveAtIs
<1> HIDE DEF r
<1>5. ASSUME NEW i \in 1 .. n + m PROVE r[i] = c[i]
  <2>1. CASE i < n + 1
    <3>1. i \in 1 .. n
      BY <1>1, <2>1
    <3>2. a[i] = h[i] /\ c[i] = h[i]
      BY <1>1, <1>2, <3>1
    <3> QED BY <1>4, <2>1, <3>2
  <2>2. CASE ~(i < n + 1)
    <3>1. i + 1 \in n + 2 .. n + 1 + m /\ i \in n + 1 .. n + m /\ i + 1 - n - 1 = i - n
      BY <1>1, <2>2
    <3>2. a[i + 1] = b[i + 1 - n - 1] /\ c[i] = b[i - n]
      BY <1>1, <1>2, <3>1
    <3> QED BY <1>4, <2>2, <3>1, <3>2
  <2> QED BY <2>1, <2>2
<1>6. r = c
  <2>1. Len(r) = Len(c) /\ \A i \in 1 .. Len(r) : r[i] = c[i]
    BY <1>2, <1>4, <1>5
  <2>2. r \in Seq(S) /\ c \in Seq(S)
    BY <1>2, <1>4
  <2> QED BY <2>1, <2>2, SeqEqual
<1>7. Len(a) > n /\ r = c
  BY <1>1, <1>6
<1> QED BY <1>7, Zenon DEF a, n, c, r

LEMMA SplitsAt ==
  ASSUME NEW S, NEW h \in Seq(S), NEW b \in Seq(S)
  PROVE  /\ Len(h) \in 0 .. Len(h \o b)
         /\ SubSeq(h \o b, 1, Len(h)) = h /\ SubSeq(h \o b, Len(h) + 1, Len(h \o b)) = b
<1> DEFINE a == h \o b
           n == Len(h)
           m == Len(b)
           u == SubSeq(a, 1, n)
           v == SubSeq(a, n + 1, Len(a))
<1>1. /\ n \in Nat /\ m \in Nat /\ a \in Seq(S) /\ Len(a) = n + m
      /\ \A i \in 1 .. n : a[i] = h[i]
      /\ \A i \in 1 .. m : a[n + i] = b[i]
  OBVIOUS
<1> HIDE DEF a, n, m
<1>2. u = h
  <2>1. 1 \in 1 .. Len(a) + 1 /\ n \in 1 - 1 .. Len(a)
    BY <1>1
  <2>2. /\ u \in Seq(S) /\ Len(u) = IF 1 <= n THEN n - 1 + 1 ELSE 0
        /\ \A i \in 1 .. n - 1 + 1 : u[i] = a[1 + i - 1]
    BY <1>1, <2>1, SubSeqProperties
  <2> HIDE DEF u
  <2>3. Len(u) = n /\ \A i \in 1 .. n : u[i] = a[i]
    BY <1>1, <2>2
  <2>4. \A i \in 1 .. n : u[i] = h[i]
    BY <1>1, <2>3
  <2> QED BY <2>2, <2>3, <2>4, SeqEqual DEF n
<1>3. v = b
  <2>1. n + 1 \in 1 .. Len(a) + 1 /\ Len(a) \in (n + 1) - 1 .. Len(a)
    BY <1>1
  <2>2. /\ v \in Seq(S) /\ Len(v) = IF n + 1 <= Len(a) THEN Len(a) - (n + 1) + 1 ELSE 0
        /\ \A i \in 1 .. Len(a) - (n + 1) + 1 : v[i] = a[(n + 1) + i - 1]
    BY <1>1, <2>1, SubSeqProperties
  <2> HIDE DEF v
  <2>3. Len(v) = m /\ Len(a) - (n + 1) + 1 = m
    BY <1>1, <2>2
  <2>4. \A i \in 1 .. m : v[i] = a[n + i]
    <3> TAKE i \in 1 .. m
    <3>1. (n + 1) + i - 1 = n + i
      BY <1>1
    <3> QED BY <2>2, <2>3, <3>1
  <2>5. \A i \in 1 .. m : v[i] = b[i]
    BY <1>1, <2>4
  <2> QED BY <2>2, <2>3, <2>5, SeqEqual DEF m
<1> QED BY <1>1, <1>2, <1>3 DEF a, n, u, v

LEMMA SealedMaps ==
  ASSUME Typed, IInv, Wired(socket, net.wire), socket.tasks # <<>>,
         socket' = Sealed(socket, Head(socket.tasks)),
         net'.wire = net.wire \o Emitted(socket, Head(socket.tasks))
  PROVE  /\ Wired(socket', net'.wire)
         /\ \/ UNCHANGED Channel!channelVars
            \/ Channel!Send \/ Channel!Overflow
            \/ \E n \in 0 .. Len(Owes(socket)) : Channel!Greet(n)
<1> DEFINE f == Head(socket.tasks)
           t == socket.tasks
           u == Tail(socket.tasks)
           h == socket.held
           b == Bare(u)
           out == Emitted(socket, f)
<1>1. FitSocket(socket) /\ t \in Seq(GuestFrame) /\ t # <<>> /\ h \in Seq(GuestFrame)
      /\ IsSocket(socket) /\ net.wire \in Seq(GuestFrame)
  <2>1. h \in Seq(AppFrame) /\ AppFrame \subseteq GuestFrame
    BY TypedParts, FitFields, GuestFrames
  <2> QED BY <2>1, TypedParts, FitFields, NetFields
<1>2. f \in GuestFrame /\ u \in Seq(GuestFrame)
  BY <1>1
<1>3. /\ socket'.ws = socket.ws /\ socket'.tasks = u
      /\ \/ Passes(socket, f) /\ f = Hello /\ ~socket'.awaiting /\ socket'.held = <<>>
         \/ /\ ~Passes(socket, f) /\ f # Hello /\ Len(h) < MaxHeld
            /\ socket'.held = Append(h, f) /\ socket'.awaiting = socket.awaiting
         \/ /\ ~(Passes(socket, f) /\ f = Hello)
            /\ ~(~Passes(socket, f) /\ f # Hello /\ Len(h) < MaxHeld)
            /\ socket'.held = h /\ socket'.awaiting = socket.awaiting
  BY <1>1, SealedFits
<1>4. socket'.closed = socket.closed /\ socket'.retry = socket.retry
  BY <1>1, SealedKeeps DEF SameRoom
<1>5. NoHello(t) \/ OneHello(t)
  BY DEF Wired
<1>6. /\ f = Hello => Bare(t) = u /\ b = u
      /\ f # Hello => Bare(t) = <<f>> \o b
      /\ b \in Seq(GuestFrame)
  BY <1>1, <1>2, <1>5, BareTail, BareType
<1>7. /\ NoHello(t) => NoHello(u) /\ f # Hello
      /\ OneHello(t) /\ f = Hello => NoHello(u)
      /\ OneHello(t) /\ f # Hello => OneHello(u)
  BY <1>1, TailHellos
<1>8. socket.closed => socket.ws = "none"
  BY DEF IInv, Final
<1>9. net'.wire = net.wire \o out
  OBVIOUS
<1>10. /\ socket.retry => socket.ws = "none"
       /\ socket.ws # "open" => net.wire = <<>> /\ ~socket.awaiting /\ NoHello(t)
       /\ socket.ws = "open" /\ socket.awaiting => net.wire = <<>> /\ OneHello(t)
       /\ socket.ws = "open" /\ ~socket.awaiting => net.wire # <<>> /\ h = <<>> /\ NoHello(t)
  BY DEF Wired
<1>11. Len(h) <= MaxHeld /\ Len(h) \in Nat /\ MaxHeld \in Nat
  BY <1>1, FitFields, LimitsType
<1>12. LineOf(socket') = LineOf(socket)
  BY <1>3 DEF LineOf
<1>13. /\ ~socket.closed => Owes(socket) = h \o Bare(t) /\ Owes(socket') = socket'.held \o b
       /\ socket.closed => Owes(socket) = <<>> /\ Owes(socket') = <<>>
  BY <1>3, <1>4 DEF Owes
<1>14. /\ ~Passes(socket, f) => out = <<>>
       /\ Passes(socket, f) /\ f = Hello /\ socket.awaiting => out = <<f>> \o h
       /\ Passes(socket, f) /\ ~(f = Hello /\ socket.awaiting) => out = <<f>>
       /\ Passes(socket, f) <=> socket.ws = "open" /\ (~socket.awaiting \/ f = Hello)
  BY DEF Emitted, Passes
<1> HIDE DEF f, t, u, h, b, out
<1>15. out = <<>> => net'.wire = net.wire
  <2>1. net.wire \o <<>> = net.wire
    BY <1>1
  <2> QED BY <1>9, <2>1
<1>16. CASE Passes(socket, f) /\ f = Hello
  <2>1. socket.ws = "open" /\ socket.awaiting /\ net.wire = <<>> /\ OneHello(t) /\ ~socket.closed
    BY <1>7, <1>8, <1>10, <1>14, <1>16
  <2>2. out = <<f>> \o h /\ ~socket'.awaiting /\ socket'.held = <<>> /\ NoHello(u)
    BY <1>3, <1>7, <1>14, <1>16, <2>1
  <2>3. net'.wire = <<Hello>> \o h /\ net'.wire # <<>>
    BY <1>1, <1>2, <1>9, <1>16, <2>1, <2>2
  <2>4. Wired(socket', net'.wire)
    BY <1>3, <1>4, <1>10, <2>1, <2>2, <2>3 DEF Wired
  <2>5. Owes(socket) = h \o u /\ Owes(socket') = u
    <3>1. <<>> \o u = u
      BY <1>2
    <3> QED BY <1>6, <1>13, <1>16, <2>1, <2>2, <3>1
  <2> DEFINE n == Len(h)
  <2>6. /\ n \in 0 .. Len(Owes(socket)) /\ SubSeq(Owes(socket), 1, n) = h
        /\ SubSeq(Owes(socket), n + 1, Len(Owes(socket))) = u
    BY <1>1, <1>2, <2>5, SplitsAt
  <2> HIDE DEF n
  <2>7. LineOf(socket) = "up"
    BY <2>1 DEF LineOf
  <2>8. Channel!Greet(n)
    BY <1>12, <2>1, <2>3, <2>5, <2>6, <2>7, GreetIs
  <2> QED BY <2>4, <2>6, <2>8
<1>17. CASE /\ ~Passes(socket, f) /\ f # Hello /\ Len(h) < MaxHeld
            /\ socket'.held = Append(h, f) /\ socket'.awaiting = socket.awaiting
  <2>1. net'.wire = net.wire
    BY <1>14, <1>17, <1>15
  <2>2. socket.ws = "open" => socket.awaiting
    BY <1>14, <1>17
  <2>3. Wired(socket', net'.wire)
    BY <1>3, <1>4, <1>7, <1>10, <1>17, <2>1, <2>2 DEF Wired
  <2>4. Append(h, f) \o b = h \o (<<f>> \o b)
    BY <1>1, <1>2, <1>6
  <2>5. Owes(socket') = Owes(socket)
    BY <1>6, <1>13, <1>17, <2>4
  <2> QED BY <1>12, <2>1, <2>3, <2>5, StutterIs
<1>18. CASE /\ ~(Passes(socket, f) /\ f = Hello)
            /\ ~(~Passes(socket, f) /\ f # Hello /\ Len(h) < MaxHeld)
            /\ socket'.held = h /\ socket'.awaiting = socket.awaiting
  <2>1. CASE Passes(socket, f)
    <3>1. socket.ws = "open" /\ ~socket.awaiting /\ f # Hello /\ net.wire # <<>> /\ h = <<>>
          /\ NoHello(t) /\ ~socket.closed
      BY <1>8, <1>10, <1>14, <1>18, <2>1
    <3>2. net'.wire = net.wire \o <<f>> /\ net'.wire # <<>> /\ net'.wire = Append(net.wire, f)
      <4>1. net'.wire = net.wire \o <<f>>
        BY <1>9, <1>14, <2>1, <3>1
      <4> DEFINE w == net.wire
      <4>2. w \in Seq(GuestFrame)
        BY <1>1
      <4> HIDE DEF w
      <4>3. w \o <<f>> # <<>> /\ w \o <<f>> = Append(w, f)
        BY <1>2, <4>2
      <4> QED BY <4>1, <4>3 DEF w
    <3>3. Wired(socket', net'.wire)
      BY <1>3, <1>4, <1>7, <1>10, <1>18, <3>1, <3>2 DEF Wired
    <3>4. Owes(socket) = <<f>> \o b /\ Owes(socket') = b
      <4>1. <<f>> \o b \in Seq(GuestFrame)
        BY <1>2, <1>6
      <4>2. \A x \in Seq(GuestFrame) : <<>> \o x = x
        OBVIOUS
      <4> QED BY <1>6, <1>13, <1>18, <3>1, <4>1, <4>2
    <3>5. Owes(socket) # <<>> /\ Head(Owes(socket)) = f /\ Tail(Owes(socket)) = b
      BY <1>2, <1>6, <3>4
    <3>6. LineOf(socket) = "up"
      BY <3>1 DEF LineOf
    <3>7. Channel!Send
      BY <1>12, <3>1, <3>2, <3>4, <3>5, <3>6, SendIs
    <3> QED BY <3>3, <3>7
  <2>2. CASE ~Passes(socket, f)
    <3>1. net'.wire = net.wire
      BY <1>14, <1>15, <2>2
    <3>2. socket.ws = "open" => socket.awaiting
      BY <1>14, <2>2
    <3>3. f # Hello
      BY <1>7, <1>10, <1>14, <2>2
    <3>4. Len(h) = MaxHeld
      BY <1>11, <1>18, <2>2, <3>3
    <3>5. Wired(socket', net'.wire)
      BY <1>3, <1>4, <1>7, <1>10, <1>18, <3>1, <3>2, <3>3 DEF Wired
    <3>6. CASE socket.closed
      <4>1. Owes(socket') = Owes(socket)
        BY <1>13, <3>6
      <4> QED BY <1>12, <3>1, <3>5, <4>1, StutterIs
    <3>7. CASE ~socket.closed
      <4>1. Owes(socket) = h \o (<<f>> \o b) /\ Owes(socket') = h \o b
        BY <1>6, <1>13, <1>18, <3>3, <3>7
      <4>2. /\ Len(h \o (<<f>> \o b)) > Len(h)
            /\ RemoveAt(h \o (<<f>> \o b), Len(h) + 1) = h \o b
        BY <1>1, <1>2, <1>6, RemoveBetween
      <4>3. net.wire = <<>>
        BY <1>10, <3>2
      <4>4. Channel!Overflow
        BY <1>12, <3>1, <3>4, <4>1, <4>2, <4>3, OverflowIs
      <4> QED BY <3>5, <4>4
    <3> QED BY <3>6, <3>7
  <2> QED BY <2>1, <2>2
<1> QED BY <1>3, <1>16, <1>17, <1>18

LEMMA LinesMap ==
  /\ LineOf(socket') = LineOf(socket) => (socket.ws = "open" => socket'.ws = "open")
  /\ UNCHANGED Channel!channelVars \/ Channel!Send \/ Channel!Overflow
       => LineOf(socket') = LineOf(socket)
  /\ \A n : Channel!Greet(n) => LineOf(socket') = LineOf(socket)
  /\ \A f : Channel!Accept(f) => LineOf(socket') = LineOf(socket)
<1>1. LineOf(socket') = LineOf(socket) => (socket.ws = "open" => socket'.ws = "open")
  BY DEF LineOf
<1> QED BY <1>1, StutterIs, SendIs, OverflowIs, GreetIs, AcceptIs

LEMMA PlayMaps ==
  ASSUME IInv, Typed, Wired(socket, net.wire), [Next]_vars
  PROVE  /\ Wired(socket', net'.wire) /\ [Channel!ChannelNext]_Channel!channelVars
         /\ Cuts \/ (socket.ws = "open" => socket'.ws = "open")
<1>1. Plays /\ Wired(socket, net.wire)
  BY StepMoves
<1>2. CASE GivenUp /\ Cuts
  BY <1>2, GivenUpMaps DEF Channel!ChannelNext
<1>3. CASE Elsewhere
  <2>1. Owes(socket') = Owes(socket) /\ LineOf(socket') = LineOf(socket) /\ net'.wire = net.wire
    BY <1>3 DEF Elsewhere
  <2> QED BY <1>1, <1>3, <2>1, StutterIs DEF Elsewhere
<1>4. CASE socket' = Queued(Opened(socket), Hello) /\ socket.ws = "connecting" /\ net' = net
  BY <1>1, <1>4, OpensMaps DEF Channel!ChannelNext
<1>5. CASE socket' = Retried(socket) /\ socket.retry /\ net' = net
  BY <1>1, <1>5, RetriedMaps, LinesMap
<1>6. CASE /\ socket.tasks # <<>> /\ socket' = Sealed(socket, Head(socket.tasks))
           /\ net'.wire = net.wire \o Emitted(socket, Head(socket.tasks))
  <2>1. /\ Wired(socket', net'.wire)
        /\ \/ UNCHANGED Channel!channelVars
           \/ Channel!Send \/ Channel!Overflow
           \/ \E n \in 0 .. Len(Owes(socket)) : Channel!Greet(n)
    BY <1>1, <1>6, SealedMaps
  <2>2. socket.ws = "open" => socket'.ws = "open"
    BY <2>1, LinesMap
  <2> QED BY <2>1, <2>2 DEF Channel!ChannelNext, Owes, Bare
<1>7. CASE Answered /\ client' \in Client
  <2>1. /\ Wired(socket', net'.wire)
        /\ (\E f \in AppFrame : Channel!Accept(f)) \/ UNCHANGED Channel!channelVars
    BY <1>1, <1>7, AnsweredMaps
  <2>2. socket.ws = "open" => socket'.ws = "open"
    BY <2>1, LinesMap
  <2> QED BY <2>1, <2>2 DEF Channel!ChannelNext
<1>8. CASE \E f \in AppFrame : /\ socket' = Queued(socket, f) /\ net' = net
                               /\ f.t = "ui-response" => f.req = client.request
  <2>1. PICK f \in AppFrame : socket' = Queued(socket, f) /\ net' = net
    BY <1>8
  <2>2. /\ socket'.ws = socket.ws /\ socket'.retry = socket.retry
        /\ socket'.closed = socket.closed /\ socket'.awaiting = socket.awaiting
        /\ socket'.held = socket.held /\ socket'.tasks = Append(socket.tasks, f)
    BY <2>1, TypedParts, QueuedIs
  <2>3. /\ Wired(socket', net'.wire)
        /\ Channel!Accept(f) \/ UNCHANGED Channel!channelVars
    BY <1>1, <2>1, <2>2, QueuesMaps
  <2> QED BY <2>2, <2>3 DEF Channel!ChannelNext
<1> QED BY <1>1, <1>2, <1>3, <1>4, <1>5, <1>6, <1>7, <1>8 DEF Plays

(* The host welcomes the guest at the end of a transport that is open.                      *)
LEMMA WireKeeps == IInv /\ Typed /\ WireHolds /\ [Next]_vars => WireHolds'
<1> SUFFICES ASSUME IInv, Typed, WireHolds, [Next]_vars PROVE WireHolds'
  OBVIOUS
<1>1. /\ Moves /\ Wired(socket, net.wire) /\ (socket.ws # "open" => ~host.welcomed)
      /\ Wired(socket', net'.wire) /\ (Cuts \/ (socket.ws = "open" => socket'.ws = "open"))
  BY StepMoves, PlayMaps DEF WireHolds
<1>2. ASSUME socket'.ws # "open" PROVE ~host'.welcomed
  <2>1. CASE Cuts
    BY <2>1 DEF Cuts, HostIs
  <2>2. CASE ~Cuts
    <3>1. net.wire = <<>> /\ ~host.welcomed
      BY <1>1, <1>2, <2>2 DEF Wired
    <3>2. ~Greeted
      BY <3>1 DEF Greeted
    <3> QED BY <1>1, <2>2, <3>1, <3>2
            DEF Moves, Joins, Stays, Takes, Responds, Refused, Heard, ChunkSent, EntrySent,
                AskSent, EndSent, ByeSent, SameHost, HostIs
  <2> QED BY <2>1, <2>2
<1> QED BY <1>1, <1>2 DEF WireHolds

LEMMA InitIsWired == Init => WireHolds /\ Channel!ChannelInit
<1> SUFFICES ASSUME Init PROVE WireHolds /\ Channel!ChannelInit
  OBVIOUS
<1>1. /\ socket.ws = "connecting" /\ ~socket.retry /\ ~socket.awaiting /\ ~socket.closed
      /\ socket.tasks = <<>> /\ socket.held = <<>> /\ ~host.welcomed
  BY DEF Init, NewSocket
<1>2. net.wire = <<>>
  BY NewNet DEF Init
<1>3. <<>> \in Seq(GuestFrame) /\ NoHello(<<>>)
  BY DEF NoHello
<1>4. Bare(<<>>) = <<>>
  BY <1>3, BareWithout
<1>5. WireHolds
  BY <1>1, <1>2, <1>3 DEF WireHolds, Wired
<1>6. Channel!ChannelInit
  <2>1. <<>> \o <<>> = <<>>
    BY <1>3
  <2> QED BY <1>1, <1>2, <1>4, <2>1 DEF Channel!ChannelInit, Bare
<1> QED BY <1>5, <1>6

(* The socket implements RelayChannel: on every transport the hello goes first and once, then     *)
(* what was accepted for it, in order and at most once, and nothing of it on a later one         *)
(* (send, #resetSendsForNewTransport and the send chain of socket.ts).                       *)
THEOREM SocketKeepsOrder == Spec => InOrder
<1>1. IInv /\ [Next]_vars => IInv'
  BY StepKeeps
<1>2. IInv /\ Typed /\ WireHolds /\ [Next]_vars => [Channel!ChannelNext]_Channel!channelVars
  BY PlayMaps DEF WireHolds
<1>3. Init => Channel!ChannelInit
  BY InitIsWired
<1>4. Init => WireHolds
  BY InitIsWired
<1> QED BY InitIsCounted, InitIsTyped, PageStepsAside, TypedKeeps, WireKeeps,
           <1>1, <1>2, <1>3, <1>4, PTL
        DEF Spec, InOrder, Channel!ChannelSpec

-----------------------------------------------------------------------------
(* The transcript on its way.                                                           *)

(* Where frames of a kind are, after the first w.                                         *)
Of(s, w, t) == {i \in 1 .. Len(s) : i > w /\ s[i].t = t}

(* They carry the entries after a up to b, once and in order.                             *)
Row(s, w, t, a, b) ==
  /\ \A i \in Of(s, w, t) : s[i].entry \in a + 1 .. b
  /\ \A e \in a + 1 .. b : \E i \in Of(s, w, t) : s[i].entry = e
  /\ \A i, j \in Of(s, w, t) : i < j => s[i].entry < s[j].entry

LEMMA RowShifts ==
  ASSUME NEW s, NEW w, NEW z, NEW v, NEW t, NEW a \in Int, NEW b \in Int, NEW d \in Nat,
         Len(s) \in Nat, Len(z) \in Nat,
         \A i \in Of(s, w, t) : i - d \in Of(z, v, t) /\ z[i - d] = s[i],
         \A j \in Of(z, v, t) : j + d \in Of(s, w, t),
         Row(s, w, t, a, b)
  PROVE  Row(z, v, t, a, b)
<1>1. \A i \in Of(s, w, t) : i \in Int
  BY DEF Of
<1>2. \A j \in Of(z, v, t) : j \in Int
  BY DEF Of
<1>3. ASSUME NEW j \in Of(z, v, t) PROVE j + d \in Of(s, w, t) /\ z[j] = s[j + d]
  <2> DEFINE i == j + d
  <2>1. i \in Of(s, w, t) /\ i - d = j
    BY <1>2
  <2> HIDE DEF i
  <2>2. z[i - d] = s[i]
    BY <2>1
  <2> QED BY <2>1, <2>2 DEF i
<1>4. ASSUME NEW j \in Of(z, v, t) PROVE z[j].entry \in a + 1 .. b
  BY <1>3 DEF Row
<1>5. ASSUME NEW e \in a + 1 .. b PROVE \E j \in Of(z, v, t) : z[j].entry = e
  <2>1. PICK i \in Of(s, w, t) : s[i].entry = e
    BY DEF Row
  <2> QED BY <2>1
<1>6. ASSUME NEW i \in Of(z, v, t), NEW j \in Of(z, v, t), i < j
      PROVE  z[i].entry < z[j].entry
  <2>1. i + d < j + d
    BY <1>2, <1>6
  <2> QED BY <1>3, <2>1 DEF Row
<1> QED BY <1>4, <1>5, <1>6 DEF Row

Then(s, q) == s \o q

LEMMA OfType == ASSUME NEW s, Len(s) \in Nat, NEW w, NEW t PROVE Of(s, w, t) \subseteq Nat
BY DEF Of

LEMMA OfAppend ==
  ASSUME NEW S, NEW s \in Seq(S), NEW q \in Seq(S), NEW w \in 0 .. Len(s), NEW t,
         Of(s, w, t) \subseteq Nat
  PROVE  /\ Len(Then(s, q)) = Len(s) + Len(q)
         /\ \A i \in Of(s, w, t) : i \in Of(Then(s, q), w, t) /\ Then(s, q)[i] = s[i]
         /\ \A i \in Of(Then(s, q), w, t) :
              \/ i \in Of(s, w, t)
              \/ \E k \in 1 .. Len(q) : i = Len(s) + k /\ Then(s, q)[i] = q[k] /\ q[k].t = t
         /\ \A k \in 1 .. Len(q) : Then(s, q)[Len(s) + k] = q[k]
<1> DEFINE z == Then(s, q)
           n == Len(s)
           m == Len(q)
<1>1. /\ n \in Nat /\ m \in Nat /\ Len(z) = n + m
      /\ \A i \in 1 .. n : z[i] = s[i]
      /\ \A i \in 1 .. n + m : ~(i <= n) => z[i] = q[i - n]
      /\ \A k \in 1 .. m : z[n + k] = q[k]
  BY ConcatProperties DEF Then
<1> HIDE DEF z, n, m
<1>2. ASSUME NEW i \in Of(s, w, t) PROVE i \in Of(z, w, t) /\ z[i] = s[i]
  BY <1>1 DEF Of, n
<1>3. ASSUME NEW i \in Of(z, w, t)
      PROVE  \/ i \in Of(s, w, t)
             \/ \E k \in 1 .. m : i = n + k /\ z[i] = q[k] /\ q[k].t = t
  <2>1. i \in 1 .. n + m /\ i > w /\ z[i].t = t
    BY <1>1 DEF Of
  <2>2. CASE i <= n
    BY <1>1, <2>1, <2>2 DEF Of, n
  <2>3. CASE ~(i <= n)
    <3>1. i - n \in 1 .. m /\ i = n + (i - n) /\ z[i] = q[i - n]
      BY <1>1, <2>1, <2>3
    <3> QED BY <2>1, <3>1
  <2> QED BY <2>2, <2>3
<1> QED BY <1>1, <1>2, <1>3 DEF z, n, m

LEMMA RowAside ==
  ASSUME NEW S, NEW s \in Seq(S), NEW q \in Seq(S), NEW w \in 0 .. Len(s), NEW t,
         NEW a \in Int, NEW b \in Int, Row(s, w, t, a, b), \A k \in 1 .. Len(q) : q[k].t # t
  PROVE  /\ Row(Then(s, q), w, t, a, b) /\ Of(Then(s, q), w, t) = Of(s, w, t)
         /\ \A i \in Of(s, w, t) : Then(s, q)[i] = s[i]
<1> DEFINE z == Then(s, q)
<1>1. /\ Len(z) \in Nat /\ Len(s) \in Nat
      /\ \A i \in Of(s, w, t) : i \in Of(z, w, t) /\ z[i] = s[i]
      /\ \A i \in Of(z, w, t) : i \in Of(s, w, t)
  <2>1. Of(s, w, t) \subseteq Nat
    BY OfType
  <2>2. /\ Len(z) = Len(s) + Len(q)
        /\ \A i \in Of(s, w, t) : i \in Of(z, w, t) /\ z[i] = s[i]
        /\ \A i \in Of(z, w, t) :
             \/ i \in Of(s, w, t)
             \/ \E k \in 1 .. Len(q) : i = Len(s) + k /\ z[i] = q[k] /\ q[k].t = t
    BY <2>1, OfAppend
  <2> HIDE DEF z
  <2> QED BY <2>2
<1> HIDE DEF z
<1>2. \A i \in Of(s, w, t) : i - 0 \in Of(z, w, t) /\ z[i - 0] = s[i]
  <2>1. \A i \in Of(s, w, t) : i - 0 = i
    BY DEF Of
  <2> QED BY <1>1, <2>1
<1>3. \A i \in Of(z, w, t) : i + 0 \in Of(s, w, t)
  <2>1. \A i \in Of(z, w, t) : i + 0 = i
    BY <1>1 DEF Of
  <2> QED BY <1>1, <2>1
<1>4. 0 \in Nat
  OBVIOUS
<1>5. Row(z, w, t, a, b)
  BY <1>1, <1>2, <1>3, <1>4, RowShifts
<1>6. Of(z, w, t) = Of(s, w, t)
  BY <1>1
<1> QED BY <1>1, <1>5, <1>6 DEF z

(* A sequence whose first frame is one of a kind, and none after it is.                      *)
Leads(q, t, e) ==
  q # <<>> /\ q[1].t = t /\ q[1].entry = e /\ \A k \in 2 .. Len(q) : q[k].t # t

LEMMA RowGrows ==
  ASSUME NEW S, NEW s \in Seq(S), NEW q \in Seq(S), NEW w \in 0 .. Len(s), NEW t,
         NEW a \in Int, NEW b \in Int, a <= b, Row(s, w, t, a, b),
         NEW d \in Int, d = b + 1,
         Leads(q, t, d)
  PROVE  /\ Row(Then(s, q), w, t, a, d)
         /\ \A i \in Of(Then(s, q), w, t) :
              (i \in Of(s, w, t) /\ Then(s, q)[i] = s[i]) \/ Then(s, q)[i] = q[1]
<1> DEFINE z == Then(s, q)
           n == Len(s)
<1>1. /\ Len(z) = n + Len(q) /\ n \in Nat
      /\ \A i \in Of(s, w, t) : i \in Of(z, w, t) /\ z[i] = s[i]
      /\ \A i \in Of(z, w, t) :
           \/ i \in Of(s, w, t)
           \/ \E k \in 1 .. Len(q) : i = n + k /\ z[i] = q[k] /\ q[k].t = t
      /\ \A k \in 1 .. Len(q) : z[n + k] = q[k]
  <2>1. Of(s, w, t) \subseteq Nat
    BY OfType
  <2> QED BY <2>1, OfAppend
<1>2. /\ Len(q) \in Nat \ {0} /\ 1 \in 1 .. Len(q)
      /\ q[1].t = t /\ q[1].entry = d /\ \A k \in 2 .. Len(q) : q[k].t # t
  BY DEF Leads
<1> HIDE DEF z, n
<1>3. ASSUME NEW i \in Of(z, w, t)
      PROVE  i \in Of(s, w, t) \/ (i = n + 1 /\ z[i] = q[1])
  <2>1. CASE ~(i \in Of(s, w, t))
    <3>1. PICK k \in 1 .. Len(q) : i = n + k /\ z[i] = q[k] /\ q[k].t = t
      BY <1>1, <2>1
    <3>2. k = 1
      BY <1>2, <3>1
    <3> QED BY <3>1, <3>2
  <2> QED BY <2>1
<1>4. n + 1 \in Of(z, w, t) /\ z[n + 1] = q[1]
  <2>1. n + 1 \in 1 .. Len(z) /\ n + 1 > w
    BY <1>1, <1>2 DEF n
  <2>2. z[n + 1] = q[1]
    BY <1>1, <1>2
  <2> QED BY <1>2, <2>1, <2>2 DEF Of
<1>5. ASSUME NEW i \in Of(z, w, t) PROVE z[i].entry \in a + 1 .. d
  <2>1. CASE i \in Of(s, w, t)
    <3>1. s[i].entry \in a + 1 .. b /\ z[i] = s[i]
      BY <1>1, <2>1 DEF Row
    <3> QED BY <3>1
  <2>2. CASE i = n + 1 /\ z[i] = q[1]
    BY <1>2, <2>2
  <2> QED BY <1>3, <2>1, <2>2
<1>6. ASSUME NEW e \in a + 1 .. d PROVE \E i \in Of(z, w, t) : z[i].entry = e
  <2>1. CASE e = d
    BY <1>2, <1>4, <2>1
  <2>2. CASE e # d
    <3>1. e \in a + 1 .. b
      BY <2>2
    <3>2. PICK i \in Of(s, w, t) : s[i].entry = e
      BY <3>1 DEF Row
    <3> QED BY <1>1, <3>2
  <2> QED BY <2>1, <2>2
<1>7. ASSUME NEW i \in Of(z, w, t), NEW j \in Of(z, w, t), i < j
      PROVE  z[i].entry < z[j].entry
  <2>0. \A k \in Of(s, w, t) : k \in 1 .. n
    BY DEF Of, n
  <2>1. i \in Of(s, w, t)
    <3>1. CASE i = n + 1
      <4>1. ~(j \in Of(s, w, t)) /\ ~(j = n + 1)
        BY <1>1, <1>7, <2>0, <3>1
      <4> QED BY <1>3, <4>1
    <3> QED BY <1>3, <3>1
  <2>2. CASE j \in Of(s, w, t)
    BY <1>1, <1>7, <2>1, <2>2 DEF Row
  <2>3. CASE j = n + 1 /\ z[j] = q[1]
    <3>1. s[i].entry \in a + 1 .. b /\ z[i] = s[i] /\ z[j].entry = d
      BY <1>1, <1>2, <2>1, <2>3 DEF Row
    <3> QED BY <3>1
  <2> QED BY <1>3, <2>2, <2>3
<1>8. Row(z, w, t, a, d)
  BY <1>5, <1>6, <1>7 DEF Row
<1> QED BY <1>1, <1>3, <1>8 DEF z

LEMMA OfTail ==
  ASSUME NEW S, NEW s \in Seq(S), s # <<>>, NEW w \in 0 .. Len(s), NEW t,
         w > 0 \/ Head(s).t # t
  PROVE  LET v == IF w = 0 THEN 0 ELSE w - 1
         IN /\ \A i \in Of(s, w, t) : i - 1 \in Of(Tail(s), v, t) /\ Tail(s)[i - 1] = s[i]
            /\ \A j \in Of(Tail(s), v, t) : j + 1 \in Of(s, w, t) /\ Tail(s)[j] = s[j + 1]
<1> DEFINE z == Tail(s)
           n == Len(s)
           v == IF w = 0 THEN 0 ELSE w - 1
<1>1. /\ n \in Nat \ {0} /\ Head(s) = s[1] /\ Len(z) = n - 1
      /\ \A i \in 1 .. n - 1 : z[i] = s[i + 1]
  BY HeadTailProperties
<1> HIDE DEF z
<1>2. ASSUME NEW i \in Of(s, w, t) PROVE i - 1 \in Of(z, v, t) /\ z[i - 1] = s[i]
  <2>1. i \in 1 .. n /\ i > w /\ s[i].t = t
    BY DEF Of
  <2>2. i # 1
    BY <1>1, <2>1
  <2>3. i - 1 \in 1 .. n - 1 /\ i - 1 > v /\ i - 1 + 1 = i
    BY <1>1, <2>1, <2>2
  <2>4. z[i - 1] = s[i]
    BY <1>1, <2>3
  <2> QED BY <1>1, <2>1, <2>3, <2>4 DEF Of
<1>3. ASSUME NEW j \in Of(z, v, t) PROVE j + 1 \in Of(s, w, t) /\ z[j] = s[j + 1]
  <2>1. j \in 1 .. n - 1 /\ j > v /\ z[j].t = t
    BY <1>1 DEF Of
  <2>2. j + 1 \in 1 .. n /\ j + 1 > w
    BY <1>1, <2>1
  <2> QED BY <1>1, <2>1, <2>2 DEF Of
<1> QED BY <1>2, <1>3 DEF z

LEMMA RowPasses ==
  ASSUME NEW S, NEW s \in Seq(S), s # <<>>, NEW w \in 0 .. Len(s), NEW t,
         w > 0 \/ Head(s).t # t, NEW a \in Int, NEW b \in Int, Row(s, w, t, a, b)
  PROVE  Row(Tail(s), IF w = 0 THEN 0 ELSE w - 1, t, a, b)
<1> DEFINE z == Tail(s)
           v == IF w = 0 THEN 0 ELSE w - 1
<1>1. /\ \A i \in Of(s, w, t) : i - 1 \in Of(z, v, t) /\ z[i - 1] = s[i]
      /\ \A j \in Of(z, v, t) : j + 1 \in Of(s, w, t)
  BY OfTail, ZenonT(60)
<1>2. Len(s) \in Nat /\ Len(z) \in Nat /\ 1 \in Nat
  BY HeadTailProperties
<1> HIDE DEF z, v
<1>3. Row(z, v, t, a, b)
  BY <1>1, <1>2, RowShifts
<1> QED BY <1>3 DEF z, v

LEMMA RowTakes ==
  ASSUME NEW S, NEW s \in Seq(S), s # <<>>, NEW t, Head(s).t = t,
         NEW a \in Int, NEW b \in Int, Row(s, 0, t, a, b)
  PROVE  Head(s).entry = a + 1 /\ a < b /\ Row(Tail(s), 0, t, a + 1, b)
<1> DEFINE z == Tail(s)
           n == Len(s)
<1>1. /\ n \in Nat \ {0} /\ Head(s) = s[1] /\ Len(z) = n - 1
      /\ \A i \in 1 .. n - 1 : z[i] = s[i + 1]
  BY HeadTailProperties
<1> HIDE DEF z
<1>2. 1 \in Of(s, 0, t) /\ \A i \in Of(s, 0, t) : i \in 1 .. n
  BY <1>1 DEF Of
<1>3. s[1].entry \in a + 1 .. b
  BY <1>2 DEF Row
<1>4. a < b /\ a + 1 \in a + 1 .. b
  BY <1>3
<1>5. PICK i \in Of(s, 0, t) : s[i].entry = a + 1
  BY <1>4 DEF Row
<1>6. s[1].entry = a + 1
  <2>1. CASE i = 1
    BY <1>5, <2>1
  <2>2. CASE i # 1
    <3>1. 1 < i
      BY <1>2, <2>2
    <3>2. s[1].entry < s[i].entry
      BY <1>2, <3>1 DEF Row
    <3> QED BY <1>3, <1>5, <3>2
  <2> QED BY <2>1, <2>2
<1>7. ASSUME NEW j \in Of(z, 0, t)
      PROVE  j \in 1 .. n - 1 /\ j + 1 \in Of(s, 0, t) /\ z[j] = s[j + 1]
  BY <1>1 DEF Of
<1>8. ASSUME NEW j \in Of(z, 0, t) PROVE z[j].entry \in (a + 1) + 1 .. b
  <2>1. 1 < j + 1
    BY <1>7
  <2>2. s[1].entry < s[j + 1].entry
    BY <1>2, <1>7, <2>1 DEF Row
  <2>3. s[j + 1].entry \in a + 1 .. b
    BY <1>7 DEF Row
  <2> QED BY <1>6, <1>7, <2>2, <2>3
<1>9. ASSUME NEW e \in (a + 1) + 1 .. b PROVE \E j \in Of(z, 0, t) : z[j].entry = e
  <2>1. e \in a + 1 .. b /\ e # a + 1
    OBVIOUS
  <2>2. PICK k \in Of(s, 0, t) : s[k].entry = e
    BY <2>1 DEF Row
  <2>3. k # 1 /\ k \in 1 .. n
    BY <1>2, <1>6, <2>1, <2>2
  <2>4. k - 1 \in 1 .. n - 1 /\ z[k - 1] = s[k]
    <3>1. k - 1 \in 1 .. n - 1 /\ k - 1 + 1 = k
      BY <1>1, <2>3
    <3> QED BY <1>1, <3>1
  <2>5. k - 1 \in Of(z, 0, t)
    BY <1>1, <2>4 DEF Of
  <2> QED BY <2>2, <2>4, <2>5
<1>10. ASSUME NEW k \in Of(z, 0, t), NEW j \in Of(z, 0, t), k < j
       PROVE  z[k].entry < z[j].entry
  <2>1. k + 1 < j + 1
    BY <1>7, <1>10
  <2> QED BY <1>7, <2>1 DEF Row
<1>11. Row(z, 0, t, a + 1, b)
  BY <1>8, <1>9, <1>10 DEF Row
<1> QED BY <1>1, <1>4, <1>6, <1>11 DEF z

(* What is on its way to a guest that has g entries of a snapshot of n, and m in all.         *)
Carries(s, chunks, log, w, g, n, m) ==
  /\ Row(s, w, "welcome", 0, 0)
  /\ Row(s, w, "snapshot-chunk", g, n - Len(chunks))
  /\ \A i \in Of(s, w, "snapshot-chunk") : s[i].final = (s[i].entry = n)
  /\ \A i \in 1 .. Len(chunks) : chunks[i] = n - Len(chunks) + i
  /\ g + Len(chunks) <= n
  /\ Row(s, w, "entry", m, log) /\ m <= log

Counts == {"welcome", "snapshot-chunk", "entry"}

LEMMA CarriesAside ==
  ASSUME NEW s \in Seq(HostFrame), NEW q \in Seq(HostFrame), NEW chunks \in Seq(Number),
         NEW log \in Nat, NEW w \in 0 .. Len(s), NEW g \in Nat, NEW n \in Nat, NEW m \in Nat,
         Carries(s, chunks, log, w, g, n, m), \A k \in 1 .. Len(q) : q[k].t \notin Counts
  PROVE  Carries(Then(s, q), chunks, log, w, g, n, m)
<1> DEFINE z == Then(s, q)
           b == n - Len(chunks)
<1>1. b \in Int /\ 0 \in Int
  OBVIOUS
<1>2. /\ \A k \in 1 .. Len(q) : q[k].t # "welcome"
      /\ \A k \in 1 .. Len(q) : q[k].t # "snapshot-chunk"
      /\ \A k \in 1 .. Len(q) : q[k].t # "entry"
  BY DEF Counts
<1>3. /\ Row(s, w, "welcome", 0, 0) /\ Row(s, w, "snapshot-chunk", g, b)
      /\ Row(s, w, "entry", m, log) /\ g \in Int /\ m \in Int /\ log \in Int
  BY DEF Carries
<1> HIDE DEF b
<1>4. Row(z, w, "welcome", 0, 0)
  BY <1>1, <1>2, <1>3, RowAside
<1>5. /\ Row(z, w, "snapshot-chunk", g, b)
      /\ Of(z, w, "snapshot-chunk") = Of(s, w, "snapshot-chunk")
      /\ \A i \in Of(s, w, "snapshot-chunk") : z[i] = s[i]
  BY <1>1, <1>2, <1>3, RowAside
<1>6. Row(z, w, "entry", m, log)
  BY <1>2, <1>3, RowAside
<1> HIDE DEF z
<1>7. \A i \in Of(z, w, "snapshot-chunk") : z[i].final = (z[i].entry = n)
  BY <1>5 DEF Carries
<1>8. Carries(z, chunks, log, w, g, n, m)
  BY <1>4, <1>5, <1>6, <1>7 DEF Carries, b
<1> QED BY <1>8 DEF z

(* A chunk, and nothing else that counts.                                                  *)
Brings(q, e, final) ==
  /\ q # <<>> /\ q[1].t = "snapshot-chunk" /\ q[1].entry = e /\ q[1].final = final
  /\ \A k \in 2 .. Len(q) : q[k].t \notin Counts

LEMMA CarriesChunk ==
  ASSUME NEW s \in Seq(HostFrame), NEW q \in Seq(HostFrame), NEW chunks \in Seq(Number),
         NEW log \in Nat, NEW w \in 0 .. Len(s), NEW g \in Nat, NEW n \in Nat, NEW m \in Nat,
         Carries(s, chunks, log, w, g, n, m), chunks # <<>>,
         Brings(q, Head(chunks), Len(chunks) = 1)
  PROVE  Carries(Then(s, q), Tail(chunks), log, w, g, n, m)
<1> DEFINE z == Then(s, q)
           l == Len(chunks)
           b == n - l
           rest == Tail(chunks)
           d == b + 1
<1>1. /\ l \in Nat \ {0} /\ Head(chunks) = chunks[1] /\ Len(rest) = l - 1
      /\ \A i \in 1 .. l - 1 : rest[i] = chunks[i + 1]
  BY HeadTailProperties
<1>2. /\ \A k \in 1 .. Len(q) : q[k].t # "welcome"
      /\ \A k \in 2 .. Len(q) : q[k].t # "snapshot-chunk"
      /\ \A k \in 1 .. Len(q) : q[k].t # "entry"
  <2>1. Len(q) \in Nat /\ \A k \in 1 .. Len(q) : k = 1 \/ k \in 2 .. Len(q)
    OBVIOUS
  <2> QED BY <2>1 DEF Counts, Brings
<1>3. /\ Row(s, w, "welcome", 0, 0) /\ Row(s, w, "snapshot-chunk", g, b)
      /\ Row(s, w, "entry", m, log) /\ g \in Int /\ m \in Int /\ log \in Int /\ 0 \in Int
      /\ \A i \in 1 .. l : chunks[i] = b + i
      /\ g + l <= n /\ m <= log
  BY DEF Carries
<1> HIDE DEF l, rest
<1>4. b \in Int /\ g <= b /\ q[1].entry = b + 1 /\ b + 1 = n - (l - 1)
  <2>1. 1 \in 1 .. l
    BY <1>1
  <2> QED BY <1>1, <1>3, <2>1 DEF Brings
<1> HIDE DEF b
<1>5. (q[1].entry = n) <=> (l = 1)
  BY <1>1, <1>4
<1>6. Row(z, w, "welcome", 0, 0)
  BY <1>2, <1>3, RowAside
<1>7. /\ Row(z, w, "snapshot-chunk", g, b + 1)
      /\ \A i \in Of(z, w, "snapshot-chunk") :
           (i \in Of(s, w, "snapshot-chunk") /\ z[i] = s[i]) \/ z[i] = q[1]
  <2>1. d \in Int /\ d = b + 1 /\ q[1].entry = d
    BY <1>4
  <2>3. Leads(q, "snapshot-chunk", d)
    BY <1>2, <2>1 DEF Leads, Brings
  <2> HIDE DEF d
  <2>2. /\ Row(z, w, "snapshot-chunk", g, d)
        /\ \A i \in Of(z, w, "snapshot-chunk") :
             (i \in Of(s, w, "snapshot-chunk") /\ z[i] = s[i]) \/ z[i] = q[1]
    BY <1>3, <1>4, <2>1, <2>3, RowGrows
  <2> QED BY <2>2 DEF d
<1>8. Row(z, w, "entry", m, log)
  BY <1>2, <1>3, RowAside
<1> HIDE DEF z
<1>9. \A i \in Of(z, w, "snapshot-chunk") : z[i].final = (z[i].entry = n)
  <2> TAKE i \in Of(z, w, "snapshot-chunk")
  <2>1. CASE i \in Of(s, w, "snapshot-chunk") /\ z[i] = s[i]
    BY <2>1 DEF Carries
  <2>2. CASE z[i] = q[1]
    <3>1. q[1].final = (q[1].entry = n)
      BY <1>5 DEF l, Brings
    <3> QED BY <2>2, <3>1
  <2> QED BY <1>7, <2>1, <2>2
<1>10. \A i \in 1 .. Len(rest) : rest[i] = n - Len(rest) + i
  <2> TAKE i \in 1 .. Len(rest)
  <2>1. i \in 1 .. l - 1 /\ i + 1 \in 1 .. l
    BY <1>1
  <2>2. rest[i] = b + (i + 1)
    BY <1>1, <1>3, <2>1
  <2> QED BY <1>1, <1>4, <2>1, <2>2
<1>11. g + Len(rest) <= n /\ b + 1 = n - Len(rest)
  BY <1>1, <1>3, <1>4
<1>12. Carries(z, rest, log, w, g, n, m)
  BY <1>3, <1>6, <1>7, <1>8, <1>9, <1>10, <1>11 DEF Carries
<1> QED BY <1>12 DEF z, rest

LEMMA CarriesEntry ==
  ASSUME NEW s \in Seq(HostFrame), NEW q \in Seq(HostFrame), NEW chunks \in Seq(Number),
         NEW log \in Nat, NEW w \in 0 .. Len(s), NEW g \in Nat, NEW n \in Nat, NEW m \in Nat,
         Carries(s, chunks, log, w, g, n, m),
         q # <<>>, Len(q) = 1, q[1].t = "entry", q[1].entry = log + 1
  PROVE  Carries(Then(s, q), chunks, log + 1, w, g, n, m)
<1> DEFINE z == Then(s, q)
           b == n - Len(chunks)
<1>1. b \in Int /\ 0 \in Int
  OBVIOUS
<1>2. /\ \A k \in 1 .. Len(q) : q[k].t # "welcome"
      /\ \A k \in 1 .. Len(q) : q[k].t # "snapshot-chunk"
      /\ \A k \in 2 .. Len(q) : q[k].t # "entry"
      /\ q # <<>>
  <2>1. \A k \in 1 .. Len(q) : k = 1
    OBVIOUS
  <2>2. \A k \in 2 .. Len(q) : FALSE
    OBVIOUS
  <2> QED BY <2>1, <2>2
<1>3. /\ Row(s, w, "welcome", 0, 0) /\ Row(s, w, "snapshot-chunk", g, b)
      /\ Row(s, w, "entry", m, log) /\ g \in Int /\ m \in Int /\ log \in Int /\ m <= log
  BY DEF Carries
<1> HIDE DEF b
<1>4. Row(z, w, "welcome", 0, 0)
  BY <1>1, <1>2, <1>3, RowAside
<1>5. /\ Row(z, w, "snapshot-chunk", g, b)
      /\ Of(z, w, "snapshot-chunk") = Of(s, w, "snapshot-chunk")
      /\ \A i \in Of(s, w, "snapshot-chunk") : z[i] = s[i]
  BY <1>1, <1>2, <1>3, RowAside
<1>6. Row(z, w, "entry", m, log + 1)
  <2> DEFINE d == log + 1
  <2>1. d \in Int /\ d = log + 1
    BY <1>3
  <2>3. Leads(q, "entry", d)
    BY <1>2 DEF Leads
  <2> HIDE DEF d
  <2>2. Row(z, w, "entry", m, d)
    BY <1>3, <2>1, <2>3, RowGrows
  <2> QED BY <2>2 DEF d
<1> HIDE DEF z
<1>7. \A i \in Of(z, w, "snapshot-chunk") : z[i].final = (z[i].entry = n)
  BY <1>5 DEF Carries
<1>8. m <= log + 1
  BY <1>3
<1>9. Carries(z, chunks, log + 1, w, g, n, m)
  BY <1>4, <1>5, <1>6, <1>7, <1>8 DEF Carries, b
<1> QED BY <1>9 DEF z

LEMMA CarriesPasses ==
  ASSUME NEW s \in Seq(HostFrame), s # <<>>, NEW chunks \in Seq(Number),
         NEW log \in Nat, NEW w \in 0 .. Len(s), NEW g \in Nat, NEW n \in Nat, NEW m \in Nat,
         Carries(s, chunks, log, w, g, n, m), w > 0 \/ Head(s).t \notin Counts
  PROVE  Carries(Tail(s), chunks, log, IF w = 0 THEN 0 ELSE w - 1, g, n, m)
<1> DEFINE z == Tail(s)
           v == IF w = 0 THEN 0 ELSE w - 1
           b == n - Len(chunks)
<1>1. b \in Int /\ 0 \in Int
  OBVIOUS
<1>2. /\ w > 0 \/ Head(s).t # "welcome"
      /\ w > 0 \/ Head(s).t # "snapshot-chunk"
      /\ w > 0 \/ Head(s).t # "entry"
  BY DEF Counts
<1>3. /\ Row(s, w, "welcome", 0, 0) /\ Row(s, w, "snapshot-chunk", g, b)
      /\ Row(s, w, "entry", m, log) /\ g \in Int /\ m \in Int /\ log \in Int
  BY DEF Carries
<1> HIDE DEF b
<1>4. Row(z, v, "welcome", 0, 0) /\ Row(z, v, "snapshot-chunk", g, b) /\ Row(z, v, "entry", m, log)
  BY <1>1, <1>2, <1>3, RowPasses
<1>5. \A j \in Of(z, v, "snapshot-chunk") :
        j + 1 \in Of(s, w, "snapshot-chunk") /\ z[j] = s[j + 1]
  BY <1>2, OfTail
<1> HIDE DEF z, v
<1>6. ASSUME NEW j \in Of(z, v, "snapshot-chunk") PROVE z[j].final = (z[j].entry = n)
  <2>1. j + 1 \in Of(s, w, "snapshot-chunk") /\ z[j] = s[j + 1]
    BY <1>5
  <2>2. s[j + 1].final = (s[j + 1].entry = n)
    BY <2>1 DEF Carries
  <2> QED BY <2>1, <2>2
<1>7. Carries(z, chunks, log, v, g, n, m)
  BY <1>4, <1>6 DEF Carries, b
<1> QED BY <1>7 DEF z, v

LEMMA NoWelcomeComes ==
  ASSUME NEW s \in Seq(HostFrame), s # <<>>, NEW chunks, NEW log, NEW g, NEW n, NEW m,
         Carries(s, chunks, log, 0, g, n, m)
  PROVE  Head(s).t # "welcome"
<1>1. \A i \in Of(s, 0, "welcome") : s[i].entry \in 0 + 1 .. 0
  BY DEF Carries, Row
<1>2. Of(s, 0, "welcome") = {}
  <2>1. 0 + 1 .. 0 = {}
    OBVIOUS
  <2> QED BY <1>1, <2>1
<1>3. Head(s) = s[1] /\ 1 \in 1 .. Len(s)
  BY HeadTailProperties
<1> QED BY <1>2, <1>3 DEF Of

LEMMA CarriesTakesChunk ==
  ASSUME NEW s \in Seq(HostFrame), s # <<>>, NEW chunks \in Seq(Number),
         NEW log \in Nat, NEW g \in Nat, NEW n \in Nat, NEW m \in Nat,
         Carries(s, chunks, log, 0, g, n, m), Head(s).t = "snapshot-chunk"
  PROVE  /\ Head(s).entry = g + 1 /\ Head(s).final = (g + 1 = n) /\ g + 1 + Len(chunks) <= n
         /\ Carries(Tail(s), chunks, log, 0, g + 1, n, m)
<1> DEFINE z == Tail(s)
           b == n - Len(chunks)
<1>1. b \in Int /\ Len(chunks) \in Nat /\ 0 \in 0 .. Len(s) /\ 0 \in Int
  OBVIOUS
<1>2. /\ Row(s, 0, "welcome", 0, 0) /\ Row(s, 0, "snapshot-chunk", g, b)
      /\ Row(s, 0, "entry", m, log) /\ g \in Int /\ m \in Int /\ log \in Int /\ m <= log
  BY DEF Carries
<1>3. Head(s).t # "welcome" /\ Head(s).t # "entry"
  OBVIOUS
<1> HIDE DEF b
<1>4. Head(s).entry = g + 1 /\ g < b /\ Row(z, 0, "snapshot-chunk", g + 1, b)
  BY <1>1, <1>2, RowTakes
<1>5. Row(z, 0, "welcome", 0, 0)
  BY <1>1, <1>2, <1>3, RowPasses
<1>6. Row(z, 0, "entry", m, log)
  BY <1>1, <1>2, <1>3, RowPasses
<1>7. Head(s) = s[1] /\ 1 \in Of(s, 0, "snapshot-chunk")
  <2>1. Head(s) = s[1] /\ 1 \in 1 .. Len(s)
    BY HeadTailProperties
  <2> QED BY <2>1 DEF Of
<1>8. /\ Len(z) = Len(s) - 1 /\ \A i \in 1 .. Len(s) - 1 : z[i] = s[i + 1]
  BY HeadTailProperties
<1> HIDE DEF z
<1>9. \A j \in Of(z, 0, "snapshot-chunk") : z[j].final = (z[j].entry = n)
  <2> TAKE j \in Of(z, 0, "snapshot-chunk")
  <2>1. j \in 1 .. Len(s) - 1 /\ z[j].t = "snapshot-chunk" /\ z[j] = s[j + 1]
    BY <1>8 DEF Of
  <2>2. j + 1 \in Of(s, 0, "snapshot-chunk")
    BY <2>1 DEF Of
  <2> QED BY <2>1, <2>2 DEF Carries
<1>10. Head(s).final = (g + 1 = n)
  BY <1>4, <1>7 DEF Carries
<1>11. g + 1 + Len(chunks) <= n
  BY <1>1, <1>4 DEF b
<1>12. Carries(z, chunks, log, 0, g + 1, n, m)
  BY <1>2, <1>4, <1>5, <1>6, <1>9, <1>11 DEF Carries, b
<1> QED BY <1>4, <1>10, <1>11, <1>12 DEF z

LEMMA CarriesTakesEntry ==
  ASSUME NEW s \in Seq(HostFrame), s # <<>>, NEW chunks \in Seq(Number),
         NEW log \in Nat, NEW g \in Nat, NEW n \in Nat, NEW m \in Nat,
         Carries(s, chunks, log, 0, g, n, m), Head(s).t = "entry"
  PROVE  Head(s).entry = m + 1 /\ Carries(Tail(s), chunks, log, 0, g, n, m + 1)
<1> DEFINE z == Tail(s)
           b == n - Len(chunks)
<1>1. b \in Int /\ 0 \in 0 .. Len(s) /\ 0 \in Int
  OBVIOUS
<1>2. /\ Row(s, 0, "welcome", 0, 0) /\ Row(s, 0, "snapshot-chunk", g, b)
      /\ Row(s, 0, "entry", m, log) /\ g \in Int /\ m \in Int /\ log \in Int /\ m <= log
  BY DEF Carries
<1>3. Head(s).t # "welcome" /\ Head(s).t # "snapshot-chunk"
  OBVIOUS
<1> HIDE DEF b
<1>4. Head(s).entry = m + 1 /\ m < log /\ Row(z, 0, "entry", m + 1, log)
  BY <1>2, RowTakes
<1>5. Row(z, 0, "welcome", 0, 0)
  BY <1>1, <1>2, <1>3, RowPasses
<1>6. Row(z, 0, "snapshot-chunk", g, b)
  BY <1>1, <1>2, <1>3, RowPasses
<1>7. \A j \in Of(z, 0, "snapshot-chunk") :
        j + 1 \in Of(s, 0, "snapshot-chunk") /\ z[j] = s[j + 1]
  BY <1>1, <1>3, OfTail
<1> HIDE DEF z
<1>8. \A j \in Of(z, 0, "snapshot-chunk") : z[j].final = (z[j].entry = n)
  BY <1>7 DEF Carries
<1>9. m + 1 <= log
  BY <1>4
<1>10. Carries(z, chunks, log, 0, g, n, m + 1)
  BY <1>4, <1>5, <1>6, <1>8, <1>9 DEF Carries, b
<1> QED BY <1>4, <1>10 DEF z

-----------------------------------------------------------------------------
(* What the guest has of the transcript, and what is on its way, at every moment.         *)

(* The numbers after n, in order.                                                        *)
Run(q, n) == \A i \in 1 .. Len(q) : q[i] = n + i

Answering(f) == f.t \in {"error", "ui-request-end"}

Silent(c) == c.snapshot = None /\ c.phase # "live"

(* A welcome is on its way, with a snapshot after it; before it, answers to an earlier hello
   or to what was queued.                                                                *)
Comes(s, chunks, log, w) ==
  /\ s[w].t = "welcome" /\ \A i \in 1 .. w - 1 : Answering(s[i])
  /\ Carries(s, chunks, log, w, 0, s[w].count, s[w].count)

Greeting(c, s, chunks, log) == Silent(c) /\ \E w \in 1 .. Len(s) : Comes(s, chunks, log, w)

Loading(c, s, chunks, log) ==
  /\ c.snapshot \in Snapshot /\ c.phase # "live"
  /\ Run(c.snapshot.got, 0) /\ Len(c.snapshot.got) < c.snapshot.total
  /\ Run(c.snapshot.live, c.snapshot.total)
  /\ Carries(s, chunks, log, 0, Len(c.snapshot.got), c.snapshot.total,
             c.snapshot.total + Len(c.snapshot.live))

Showing(c, s, chunks, log) ==
  /\ c.snapshot = None /\ c.phase = "live"
  /\ \E n \in Nat : Carries(s, chunks, log, 0, n, n, Len(c.entries))

Welcoming(c, s, chunks, log) ==
  Greeting(c, s, chunks, log) \/ Loading(c, s, chunks, log) \/ Showing(c, s, chunks, log)

Alone(c, s, chunks) ==
  chunks = <<>> /\ Silent(c) /\ \A i \in 1 .. Len(s) : Answering(s[i])

Script(c, s, welcomed, chunks, log) ==
  /\ Run(c.entries, 0)
  /\ IF welcomed THEN Welcoming(c, s, chunks, log) ELSE Alone(c, s, chunks)

ScriptHolds == Script(client, net.down, host.welcomed, host.chunks, host.log)

LEMMA ThenIs ==
  ASSUME NEW S, NEW s \in Seq(S), NEW q \in Seq(S)
  PROVE  /\ Then(s, q) \in Seq(S) /\ Len(Then(s, q)) = Len(s) + Len(q)
         /\ \A i \in 1 .. Len(s) : Then(s, q)[i] = s[i]
         /\ \A i \in 1 .. Len(Then(s, q)) :
              i \in 1 .. Len(s) \/ \E k \in 1 .. Len(q) : i = Len(s) + k /\ Then(s, q)[i] = q[k]
         /\ \A k \in 1 .. Len(q) :
              Len(s) + k \in 1 .. Len(Then(s, q)) /\ Then(s, q)[Len(s) + k] = q[k]
<1> DEFINE z == Then(s, q)
           n == Len(s)
           m == Len(q)
<1>1. /\ z \in Seq(S) /\ n \in Nat /\ m \in Nat /\ Len(z) = n + m
      /\ \A i \in 1 .. n : z[i] = s[i]
      /\ \A i \in 1 .. n + m : ~(i <= n) => z[i] = q[i - n]
      /\ \A k \in 1 .. m : z[n + k] = q[k]
  BY ConcatProperties DEF Then
<1> HIDE DEF z, n, m
<1>2. ASSUME NEW i \in 1 .. Len(z)
      PROVE  i \in 1 .. n \/ \E k \in 1 .. m : i = n + k /\ z[i] = q[k]
  <2>1. CASE i <= n
    BY <1>1, <2>1
  <2>2. CASE ~(i <= n)
    <3>1. i - n \in 1 .. m /\ i = n + (i - n) /\ z[i] = q[i - n]
      BY <1>1, <2>2
    <3> QED BY <3>1
  <2> QED BY <2>1, <2>2
<1>3. \A k \in 1 .. m : n + k \in 1 .. Len(z)
  BY <1>1
<1> QED BY <1>1, <1>2, <1>3 DEF z, n, m

(* Frames are added that are carried on, whatever is on its way.                          *)
LEMMA WelcomingGrows ==
  ASSUME NEW c \in Client, NEW s \in Seq(HostFrame), NEW q \in Seq(HostFrame),
         NEW chunks, NEW log, NEW rest, NEW more,
         Welcoming(c, s, chunks, log),
         \A w \in 0 .. Len(s), g, n, m \in Nat :
           Carries(s, chunks, log, w, g, n, m) => Carries(Then(s, q), rest, more, w, g, n, m)
  PROVE  Welcoming(c, Then(s, q), rest, more)
<1> DEFINE z == Then(s, q)
<1>1. /\ Len(z) = Len(s) + Len(q) /\ \A i \in 1 .. Len(s) : z[i] = s[i]
      /\ Len(s) \in Nat /\ Len(q) \in Nat /\ z \in Seq(HostFrame)
  BY ThenIs
<1> HIDE DEF z
<1>2. CASE Greeting(c, s, chunks, log)
  <2>1. PICK w \in 1 .. Len(s) : Comes(s, chunks, log, w)
    BY <1>2 DEF Greeting
  <2>2. w \in 1 .. Len(z) /\ w \in 0 .. Len(s) /\ z[w] = s[w]
    BY <1>1
  <2>3. s[w] \in HostFrame /\ s[w].count \in Nat
    BY <2>1, HostFrames DEF Comes
  <2>4. Carries(z, rest, more, w, 0, s[w].count, s[w].count)
    BY <2>1, <2>2, <2>3 DEF Comes, z
  <2>5. \A i \in 1 .. w - 1 : Answering(z[i])
    <3>1. \A i \in 1 .. w - 1 : i \in 1 .. Len(s)
      BY <1>1
    <3> QED BY <1>1, <2>1, <3>1 DEF Comes
  <2>6. Comes(z, rest, more, w)
    BY <2>1, <2>2, <2>4, <2>5 DEF Comes
  <2> QED BY <1>2, <2>2, <2>6 DEF Greeting, Welcoming, z
<1>3. CASE Loading(c, s, chunks, log)
  <2> DEFINE g == Len(c.snapshot.got)
             n == c.snapshot.total
             m == c.snapshot.total + Len(c.snapshot.live)
  <2>1. g \in Nat /\ n \in Nat /\ m \in Nat
    BY <1>3, SnapshotFields DEF Loading, Number
  <2>2. Carries(s, chunks, log, 0, g, n, m) /\ 0 \in 0 .. Len(s)
    BY <1>1, <1>3 DEF Loading
  <2> HIDE DEF g, n, m
  <2>3. Carries(z, rest, more, 0, g, n, m)
    BY <2>1, <2>2 DEF z
  <2> QED BY <1>3, <2>3 DEF Loading, Welcoming, z, g, n, m
<1>4. CASE Showing(c, s, chunks, log)
  <2>1. PICK n \in Nat : Carries(s, chunks, log, 0, n, n, Len(c.entries))
    BY <1>4 DEF Showing
  <2>2. Len(c.entries) \in Nat /\ 0 \in 0 .. Len(s)
    BY <1>1, ClientFields
  <2>3. Carries(z, rest, more, 0, n, n, Len(c.entries))
    BY <2>1, <2>2 DEF z
  <2> QED BY <1>4, <2>3 DEF Showing, Welcoming, z
<1> QED BY <1>2, <1>3, <1>4 DEF Welcoming

LEMMA AloneGrows ==
  ASSUME NEW c, NEW s \in Seq(HostFrame), NEW q \in Seq(HostFrame), NEW chunks,
         Alone(c, s, chunks), \A k \in 1 .. Len(q) : Answering(q[k])
  PROVE  Alone(c, Then(s, q), chunks)
<1> DEFINE z == Then(s, q)
<1>1. /\ \A i \in 1 .. Len(s) : z[i] = s[i]
      /\ \A i \in 1 .. Len(z) :
           i \in 1 .. Len(s) \/ \E k \in 1 .. Len(q) : i = Len(s) + k /\ z[i] = q[k]
  BY ThenIs
<1> HIDE DEF z
<1>2. \A i \in 1 .. Len(z) : Answering(z[i])
  BY <1>1 DEF Alone
<1> QED BY <1>2 DEF Alone, z

(* The client's handlers leave what is shown alone.                                       *)
LEMMA SameScriptKeeps ==
  ASSUME NEW c, NEW d, SameScript(c, d), NEW s, NEW welcomed, NEW chunks, NEW log,
         Script(c, s, welcomed, chunks, log)
  PROVE  Script(d, s, welcomed, chunks, log)
BY DEF SameScript, Script, Welcoming, Greeting, Loading, Showing, Alone, Silent

(* Frames that say nothing of the transcript.                                             *)
LEMMA AsideKeeps ==
  ASSUME NEW c \in Client, NEW s \in Seq(HostFrame), NEW q \in Seq(HostFrame),
         NEW welcomed \in BOOLEAN, NEW chunks \in Seq(Number), NEW log \in Nat,
         Script(c, s, welcomed, chunks, log),
         \A k \in 1 .. Len(q) : q[k].t \notin Counts,
         ~welcomed => \A k \in 1 .. Len(q) : Answering(q[k])
  PROVE  Script(c, Then(s, q), welcomed, chunks, log)
<1>1. CASE welcomed
  <2>1. \A w \in 0 .. Len(s), g, n, m \in Nat :
          Carries(s, chunks, log, w, g, n, m) => Carries(Then(s, q), chunks, log, w, g, n, m)
    BY CarriesAside
  <2>2. Welcoming(c, s, chunks, log)
    BY <1>1 DEF Script
  <2>3. Welcoming(c, Then(s, q), chunks, log)
    BY <2>1, <2>2, WelcomingGrows
  <2> QED BY <1>1, <2>3 DEF Script
<1>2. CASE ~welcomed
  <2>1. Alone(c, Then(s, q), chunks)
    BY <1>2, AloneGrows DEF Script
  <2> QED BY <1>2, <2>1 DEF Script
<1> QED BY <1>1, <1>2

(* A welcome that is sent: the transcript of that moment is to follow.                      *)
Opening(q, n) ==
  /\ q # <<>> /\ q[1].t = "welcome" /\ q[1].count = n
  /\ \A k \in 2 .. Len(q) : q[k].t \notin Counts

LEMMA OpeningIs ==
  ASSUME Typed
  PROVE  LET q == <<Welcome(host.log)>> \o SetToSeq(OpenRequests) \o AfterSnapshot(host.log)
         IN q \in Seq(HostFrame) /\ Opening(q, host.log)
<1> DEFINE w == Welcome(host.log)
           s == SetToSeq(OpenRequests)
           a == AfterSnapshot(host.log)
           q == <<w>> \o s \o a
<1>1. w \in HostFrame /\ w.t = "welcome" /\ w.count = host.log
  BY TypedParts, HostFields, HostSays
<1>2. s \in Seq(OpenRequests) /\ OpenRequests \subseteq HostFrame
  BY OpensAre, SetToSeqIs
<1>3. \A f \in OpenRequests : f.t = "ui-request"
  BY OpensAre, HostSays DEF OpenRequests
<1>4. a \in Seq({Pong}) /\ Pong \in HostFrame /\ Pong.t = "gateway-health-pong"
  <2>1. <<>> \in Seq({Pong}) /\ <<Pong>> \in Seq({Pong})
    OBVIOUS
  <2> QED BY <2>1, HostSays DEF AfterSnapshot
<1> HIDE DEF w, s, a
<1>5. s \in Seq(HostFrame) /\ a \in Seq(HostFrame) /\ <<w>> \in Seq(HostFrame)
  BY <1>1, <1>2, <1>4
<1>6. q \in Seq(HostFrame) /\ q[1] = w /\ Len(q) = 1 + Len(s) + Len(a) /\ q # <<>>
  BY <1>5
<1>7. ASSUME NEW k \in 2 .. Len(q) PROVE q[k].t \notin Counts
  <2>1. CASE k <= 1 + Len(s)
    <3>1. k - 1 \in 1 .. Len(s) /\ q[k] = s[k - 1]
      BY <1>5, <1>6, <2>1
    <3>2. s[k - 1] \in OpenRequests
      BY <1>2, <3>1
    <3> QED BY <1>3, <3>1, <3>2 DEF Counts
  <2>2. CASE ~(k <= 1 + Len(s))
    <3>1. k - 1 - Len(s) \in 1 .. Len(a) /\ q[k] = a[k - 1 - Len(s)]
      BY <1>5, <1>6, <2>2
    <3>2. a[k - 1 - Len(s)] = Pong
      BY <1>4, <3>1
    <3> QED BY <1>4, <3>1, <3>2 DEF Counts
  <2> QED BY <2>1, <2>2
<1>8. Opening(q, host.log)
  BY <1>1, <1>6, <1>7 DEF Opening
<1> HIDE DEF q
<1> QED BY <1>6, <1>8 DEF q, w, s, a

(* Nothing of a kind is on its way.                                                       *)
LEMMA NoRow ==
  ASSUME NEW s, NEW w, NEW t, NEW a \in Int, \A i \in Of(s, w, t) : FALSE
  PROVE  Row(s, w, t, a, a)
<1>1. \A e \in a + 1 .. a : FALSE
  OBVIOUS
<1> QED BY <1>1 DEF Row

LEMMA OpeningKeeps ==
  ASSUME NEW c \in Client, NEW s \in Seq(HostFrame), NEW q \in Seq(HostFrame), NEW log \in Nat,
         Run(c.entries, 0), Alone(c, s, <<>>), Opening(q, log)
  PROVE  Script(c, Then(s, q), TRUE, [i \in 1 .. log |-> i], log)
<1> DEFINE z == Then(s, q)
           w == Len(s) + 1
           all == [i \in 1 .. log |-> i]
<1>1. /\ Len(z) = Len(s) + Len(q) /\ Len(s) \in Nat /\ Len(q) \in Nat
      /\ \A i \in 1 .. Len(s) : z[i] = s[i]
      /\ \A i \in 1 .. Len(z) :
           i \in 1 .. Len(s) \/ \E k \in 1 .. Len(q) : i = Len(s) + k /\ z[i] = q[k]
      /\ \A k \in 1 .. Len(q) : Len(s) + k \in 1 .. Len(z) /\ z[Len(s) + k] = q[k]
  BY ThenIs
<1>2. /\ 1 \in 1 .. Len(q) /\ q[1].t = "welcome" /\ q[1].count = log
      /\ \A k \in 2 .. Len(q) : q[k].t \notin Counts
  BY DEF Opening
<1>3. Len(all) = log /\ \A i \in 1 .. log : all[i] = i
  OBVIOUS
<1> HIDE DEF z, all
<1>4. w \in 1 .. Len(z) /\ z[w] = q[1]
  BY <1>1, <1>2
<1>5. ASSUME NEW t \in Counts, NEW i \in Of(z, w, t) PROVE FALSE
  <2>1. i \in 1 .. Len(z) /\ i > w /\ z[i].t = t
    BY DEF Of
  <2>4. ~(i \in 1 .. Len(s))
    BY <1>1, <2>1
  <2>2. PICK k \in 1 .. Len(q) : i = Len(s) + k /\ z[i] = q[k]
    <3>1. \E k \in 1 .. Len(q) : i = Len(s) + k /\ z[i] = q[k]
      <4>1. i \in 1 .. Len(s) \/ \E k \in 1 .. Len(q) : i = Len(s) + k /\ z[i] = q[k]
        BY <1>1, <2>1
      <4> QED BY <4>1, <2>4
    <3> QED BY <3>1
  <2>3. k \in 2 .. Len(q)
    BY <1>1, <2>1, <2>2
  <2> QED BY <1>2, <2>1, <2>2, <2>3
<1>6. "welcome" \in Counts /\ "snapshot-chunk" \in Counts /\ "entry" \in Counts
  BY DEF Counts
<1>7. Row(z, w, "welcome", 0, 0)
  BY <1>5, <1>6, NoRow
<1>8. Row(z, w, "snapshot-chunk", 0, 0)
  BY <1>5, <1>6, NoRow
<1>9. Row(z, w, "entry", log, log)
  BY <1>5, <1>6, NoRow
<1>10. Carries(z, all, log, w, 0, log, log)
  <2>1. log - Len(all) = 0 /\ 0 + Len(all) <= log
    BY <1>3
  <2>2. \A i \in 1 .. Len(all) : all[i] = log - Len(all) + i
    BY <1>3, <2>1
  <2>3. \A i \in Of(z, w, "snapshot-chunk") : z[i].final = (z[i].entry = log)
    BY <1>5, <1>6
  <2> QED BY <1>7, <1>8, <1>9, <2>1, <2>2, <2>3 DEF Carries
<1>11. \A i \in 1 .. w - 1 : Answering(z[i])
  <2>1. \A i \in 1 .. w - 1 : i \in 1 .. Len(s)
    BY <1>1
  <2> QED BY <1>1, <2>1 DEF Alone
<1>12. Comes(z, all, log, w)
  BY <1>2, <1>4, <1>10, <1>11 DEF Comes
<1> HIDE DEF w
<1>13. Greeting(c, z, all, log)
  BY <1>4, <1>12 DEF Greeting, Alone
<1> QED BY <1>13 DEF Script, Welcoming, z, all

(* A chunk of the snapshot is sent.                                                        *)
LEMMA ChunkKeeps ==
  ASSUME NEW c \in Client, NEW s \in Seq(HostFrame), NEW q \in Seq(HostFrame),
         NEW chunks \in Seq(Number), chunks # <<>>, NEW log \in Nat, NEW welcomed \in BOOLEAN,
         Script(c, s, welcomed, chunks, log), Brings(q, Head(chunks), Len(chunks) = 1)
  PROVE  Script(c, Then(s, q), welcomed, Tail(chunks), log)
<1>1. welcomed /\ Welcoming(c, s, chunks, log)
  BY DEF Script, Alone
<1>2. \A w \in 0 .. Len(s), g, n, m \in Nat :
        Carries(s, chunks, log, w, g, n, m) => Carries(Then(s, q), Tail(chunks), log, w, g, n, m)
  BY CarriesChunk
<1>3. Welcoming(c, Then(s, q), Tail(chunks), log)
  BY <1>1, <1>2, WelcomingGrows
<1> QED BY <1>1, <1>3 DEF Script

(* An entry is appended to the transcript, and sent to a guest that was welcomed.            *)
LEMMA EntryKeeps ==
  ASSUME NEW c \in Client, NEW s \in Seq(HostFrame), NEW q \in Seq(HostFrame),
         NEW chunks \in Seq(Number), NEW log \in Nat,
         Script(c, s, TRUE, chunks, log),
         q # <<>>, Len(q) = 1, q[1].t = "entry", q[1].entry = log + 1
  PROVE  Script(c, Then(s, q), TRUE, chunks, log + 1)
<1>1. Welcoming(c, s, chunks, log)
  BY DEF Script
<1>2. \A w \in 0 .. Len(s), g, n, m \in Nat :
        Carries(s, chunks, log, w, g, n, m) => Carries(Then(s, q), chunks, log + 1, w, g, n, m)
  BY CarriesEntry
<1>3. Welcoming(c, Then(s, q), chunks, log + 1)
  BY <1>1, <1>2, WelcomingGrows
<1> QED BY <1>3 DEF Script

(* The guest takes what is next on its way.                                                *)
LEMMA RunGrows ==
  ASSUME NEW q \in Seq(Number), NEW n \in Nat, Run(q, n), NEW e \in Number, e = n + Len(q) + 1
  PROVE  /\ Run(Append(q, e), n) /\ Append(q, e) \in Seq(Number)
         /\ Len(Append(q, e)) = Len(q) + 1
<1> DEFINE z == Append(q, e)
<1>1. /\ Len(q) \in Nat /\ Len(z) = Len(q) + 1 /\ z \in Seq(Number)
      /\ \A i \in 1 .. Len(q) : z[i] = q[i]
      /\ z[Len(q) + 1] = e
  BY AppendProperties
<1> HIDE DEF z
<1>2. ASSUME NEW i \in 1 .. Len(z) PROVE z[i] = n + i
  <2>1. CASE i = Len(q) + 1
    BY <1>1, <2>1
  <2>2. CASE i # Len(q) + 1
    <3>1. i \in 1 .. Len(q)
      BY <1>1, <2>2
    <3> QED BY <1>1, <3>1 DEF Run
  <2> QED BY <2>1, <2>2
<1> QED BY <1>1, <1>2 DEF Run, z

LEMMA RunsJoin ==
  ASSUME NEW p \in Seq(Number), NEW q \in Seq(Number), Run(p, 0), Run(q, Len(p))
  PROVE  Run(p \o q, 0) /\ Len(p \o q) = Len(p) + Len(q)
<1> DEFINE z == Then(p, q)
<1>1. /\ Len(z) = Len(p) + Len(q) /\ \A i \in 1 .. Len(p) : z[i] = p[i]
      /\ \A i \in 1 .. Len(z) :
           i \in 1 .. Len(p) \/ \E k \in 1 .. Len(q) : i = Len(p) + k /\ z[i] = q[k]
  BY ThenIs
<1> HIDE DEF z
<1>2. ASSUME NEW i \in 1 .. Len(z) PROVE z[i] = 0 + i
  <2>1. CASE i \in 1 .. Len(p)
    BY <1>1, <2>1 DEF Run
  <2>2. CASE \E k \in 1 .. Len(q) : i = Len(p) + k /\ z[i] = q[k]
    BY <2>2 DEF Run
  <2> QED BY <1>1, <2>1, <2>2
<1>3. z = p \o q
  BY DEF z, Then
<1> QED BY <1>1, <1>2, <1>3 DEF Run

LEMMA TailIs ==
  ASSUME NEW S, NEW s \in Seq(S), s # <<>>
  PROVE  /\ Len(s) \in Nat \ {0} /\ Head(s) = s[1] /\ Head(s) \in S
         /\ Tail(s) \in Seq(S) /\ Len(Tail(s)) = Len(s) - 1
         /\ \A i \in 1 .. Len(s) - 1 : Tail(s)[i] = s[i + 1]
BY HeadTailProperties

LEMMA AsideTaken ==
  ASSUME NEW c \in Client, NEW f \in HostFrame,
         f.t \notin Counts \/ (f.t = "snapshot-chunk" /\ c.snapshot = None)
  PROVE  SameScript(c, Applied(c, f))
<1>1. Fits(c)
  BY ClientFields
<1>2. CASE f.t = "ui-request"
  BY <1>1, <1>2, AppliedIs, OnRequestIs
<1>3. CASE f.t = "ui-request-end"
  BY <1>1, <1>3, AppliedIs, OnRequestEndIs
<1>4. CASE f.t = "gateway-health-pong"
  <2>1. Applied(c, f) = [c EXCEPT !.probes = TRUE] \/ Applied(c, f) = c
    BY <1>4, AppliedIs
  <2> QED BY <1>1, <2>1, PongIs DEF SameScript
<1>5. CASE f.t \in {"bye", "error"}
  BY <1>5, AppliedIs DEF SameScript
<1>6. CASE f.t = "snapshot-chunk" /\ c.snapshot = None
  BY <1>6, AppliedIs DEF SameScript
<1> QED BY <1>2, <1>3, <1>4, <1>5, <1>6, HostFrames DEF Counts

LEMMA AloneTakes ==
  ASSUME NEW c \in Client, NEW s \in Seq(HostFrame), s # <<>>, NEW chunks \in Seq(Number),
         NEW log \in Nat, Script(c, s, FALSE, chunks, log)
  PROVE  Script(Applied(c, Head(s)), Tail(s), FALSE, chunks, log)
<1> DEFINE f == Head(s)
           z == Tail(s)
<1>1. /\ Len(s) \in Nat \ {0} /\ f = s[1] /\ f \in HostFrame /\ Len(z) = Len(s) - 1
      /\ \A i \in 1 .. Len(s) - 1 : z[i] = s[i + 1]
  BY TailIs
<1> HIDE DEF f, z
<1>2. Answering(f)
  BY <1>1 DEF Script, Alone
<1>3. \A i \in 1 .. Len(z) : Answering(z[i])
  <2> TAKE i \in 1 .. Len(z)
  <2>1. z[i] = s[i + 1] /\ i + 1 \in 1 .. Len(s)
    BY <1>1
  <2> QED BY <2>1 DEF Script, Alone
<1>4. SameScript(c, Applied(c, f))
  BY <1>1, <1>2, AsideTaken DEF Answering, Counts
<1>5. Script(c, z, FALSE, chunks, log)
  BY <1>3 DEF Script, Alone
<1>6. Script(Applied(c, f), z, FALSE, chunks, log)
  BY <1>4, <1>5, SameScriptKeeps
<1> QED BY <1>6 DEF f, z

LEMMA WelcomeTaken ==
  ASSUME NEW c \in Client, NEW s \in Seq(HostFrame), s # <<>>, NEW chunks \in Seq(Number),
         NEW log \in Nat, Run(c.entries, 0), Silent(c), Comes(s, chunks, log, 1)
  PROVE  Script(Applied(c, Head(s)), Tail(s), TRUE, chunks, log)
<1> DEFINE f == Head(s)
           z == Tail(s)
           n == f.count
           d == Applied(c, f)
<1>1. Len(s) \in Nat \ {0} /\ f = s[1] /\ f \in HostFrame
  BY TailIs
<1>2. f.t = "welcome" /\ n \in Nat /\ Carries(s, chunks, log, 1, 0, n, n)
  BY <1>1, HostFrames DEF Comes
<1>3. Carries(z, chunks, log, 0, 0, n, n)
  <2> HIDE DEF n
  <2>1. 1 \in 0 .. Len(s) /\ 1 > 0 /\ 0 \in Nat
    BY <1>1
  <2>2. Carries(z, chunks, log, IF 1 = 0 THEN 0 ELSE 1 - 1, 0, n, n)
    BY <1>2, <2>1, CarriesPasses
  <2> QED BY <2>2
<1>4. d = OnWelcome(c, n) /\ Fits(c)
  BY <1>1, <1>2, AppliedIs, ClientFields
<1> HIDE DEF d, n, z, f
<1>7. n = 0 => d.entries = <<>> /\ d.snapshot = None /\ d.phase = "live"
  <2>1. Fits(c)
    BY <1>4
  <2>2. LET w == OnWelcome(c, n)
        IN n = 0 => w.entries = <<>> /\ w.snapshot = None /\ w.phase = "live"
    BY <2>1, OnWelcomeIs, ZenonT(60)
  <2> QED BY <1>4, <2>2
<1>5. CASE n = 0
  <2>1. d.entries = <<>> /\ d.snapshot = None /\ d.phase = "live"
    BY <1>5, <1>7
  <2>2. Len(<<>>) = 0 /\ Run(<<>>, 0)
    BY DEF Run
  <2>3. Showing(d, z, chunks, log)
    BY <1>2, <1>3, <1>5, <2>1, <2>2 DEF Showing
  <2>4. Script(d, z, TRUE, chunks, log)
    BY <2>1, <2>2, <2>3 DEF Script, Welcoming
  <2> QED BY <2>4 DEF d, z, f
<1>6. CASE n # 0
  <2>1. /\ d.entries = c.entries /\ d.phase = c.phase
        /\ d.snapshot = [got |-> <<>>, live |-> <<>>, total |-> n]
    BY <1>4, <1>6, OnWelcomeIs
  <2>2. Len(<<>>) = 0 /\ Run(<<>>, 0) /\ Run(<<>>, n) /\ <<>> \in Seq(Number)
    BY DEF Run
  <2>3. d.snapshot \in Snapshot
    BY <1>2, <1>6, <2>1, <2>2, SnapshotByFields DEF Number
  <2>4. d.snapshot.got = <<>> /\ d.snapshot.live = <<>> /\ d.snapshot.total = n
    BY <2>1
  <2>5. 0 < n /\ n + 0 = n
    BY <1>2, <1>6
  <2>6. Loading(d, z, chunks, log)
    BY <1>3, <2>1, <2>2, <2>3, <2>4, <2>5 DEF Loading, Silent
  <2>7. Script(d, z, TRUE, chunks, log)
    BY <2>1, <2>6 DEF Script, Welcoming
  <2> QED BY <2>7 DEF d, z, f
<1> QED BY <1>5, <1>6

LEMMA GreetingTakes ==
  ASSUME NEW c \in Client, NEW s \in Seq(HostFrame), s # <<>>, NEW chunks \in Seq(Number),
         NEW log \in Nat, Run(c.entries, 0), Greeting(c, s, chunks, log)
  PROVE  Script(Applied(c, Head(s)), Tail(s), TRUE, chunks, log)
<1> DEFINE f == Head(s)
           z == Tail(s)
<1>1. /\ Len(s) \in Nat \ {0} /\ f = s[1] /\ f \in HostFrame /\ Len(z) = Len(s) - 1
      /\ \A i \in 1 .. Len(s) - 1 : z[i] = s[i + 1]
  BY TailIs
<1>2. PICK w \in 1 .. Len(s) : Comes(s, chunks, log, w)
  BY DEF Greeting
<1>3. CASE w = 1
  BY <1>2, <1>3, WelcomeTaken DEF Greeting
<1>4. CASE w # 1
  <2> DEFINE v == w - 1
             n == s[w].count
  <2>1. /\ v \in 1 .. Len(z) /\ w \in 0 .. Len(s) /\ w > 0 /\ 1 \in 1 .. v /\ z[v] = s[w]
        /\ s[w] \in HostFrame
    BY <1>1, <1>4
  <2>2. n \in Nat /\ Carries(s, chunks, log, w, 0, n, n) /\ Answering(f)
    BY <1>1, <1>2, <2>1, HostFrames DEF Comes
  <2>3. Carries(z, chunks, log, v, 0, n, n)
    <3> HIDE DEF n, z
    <3>1. Carries(Tail(s), chunks, log, IF w = 0 THEN 0 ELSE w - 1, 0, n, n)
      BY <2>1, <2>2, CarriesPasses
    <3> QED BY <2>1, <3>1 DEF z
  <2> HIDE DEF f, z
  <2>4. \A i \in 1 .. v - 1 : Answering(z[i])
    <3> TAKE i \in 1 .. v - 1
    <3>1. i \in 1 .. Len(s) - 1 /\ i + 1 \in 1 .. w - 1
      BY <1>1, <2>1
    <3> QED BY <1>1, <1>2, <3>1 DEF Comes
  <2>5. Comes(z, chunks, log, v)
    BY <1>2, <2>1, <2>3, <2>4 DEF Comes
  <2> HIDE DEF v
  <2>6. Greeting(c, z, chunks, log)
    BY <2>1, <2>5 DEF Greeting
  <2>7. Script(c, z, TRUE, chunks, log)
    BY <2>6 DEF Script, Welcoming
  <2>8. SameScript(c, Applied(c, f))
    BY <1>1, <2>2, AsideTaken DEF Answering, Counts
  <2>9. Script(Applied(c, f), z, TRUE, chunks, log)
    BY <2>7, <2>8, SameScriptKeeps
  <2> QED BY <2>9 DEF f, z
<1> QED BY <1>3, <1>4

(* A chunk is taken: one more of the snapshot, or the last.                                  *)
LEMMA ChunkTaken ==
  ASSUME NEW c \in Client, NEW s \in Seq(HostFrame), s # <<>>, NEW chunks \in Seq(Number),
         NEW log \in Nat, Run(c.entries, 0), Loading(c, s, chunks, log),
         Head(s).t = "snapshot-chunk"
  PROVE  Script(Applied(c, Head(s)), Tail(s), TRUE, chunks, log)
<1> DEFINE f == Head(s)
           z == Tail(s)
           d == Applied(c, f)
           e == f.entry
           final == f.final
           got == c.snapshot.got
           live == c.snapshot.live
           n == c.snapshot.total
           g == Len(got)
           m == n + Len(live)
           more == Append(got, e)
<1>1. f \in HostFrame
  BY TailIs
<1>2. e \in Number /\ final \in BOOLEAN
  BY <1>1, HostFrames
<1>3. /\ c.snapshot \in Snapshot /\ got \in Seq(Number) /\ live \in Seq(Number) /\ n \in Nat
      /\ n \in Number /\ Run(got, 0) /\ Run(live, n) /\ g < n /\ c.phase # "live"
      /\ Carries(s, chunks, log, 0, g, n, m)
  BY SnapshotFields DEF Loading, Number
<1>4. g \in Nat /\ m \in Nat /\ Len(live) \in Nat
  <2>1. g \in Nat /\ Len(live) \in Nat
    BY <1>3
  <2>2. n \in Nat
    BY <1>3
  <2> QED BY <2>1, <2>2
<1>5. Fits(c) /\ c.snapshot # None
  BY <1>3, ClientFields, NoneIsNoAsk
<1>6. d = OnChunk(c, e, final)
  BY <1>1, <1>5, AppliedIs
<1>7. IF ~final /\ Len(more) < n
      THEN /\ d.entries = c.entries /\ d.phase = c.phase
           /\ d.snapshot = [got |-> more, live |-> live, total |-> n]
      ELSE d.entries = more \o live /\ d.snapshot = None /\ d.phase = "live"
  <2> HIDE DEF d, e, final
  <2> QED BY <1>2, <1>3, <1>5, <1>6, OnChunkIs
<1>8. /\ e = g + 1 /\ final = (g + 1 = n) /\ g + 1 + Len(chunks) <= n
      /\ Carries(z, chunks, log, 0, g + 1, n, m)
  <2> HIDE DEF g, n, m
  <2> QED BY <1>3, <1>4, CarriesTakesChunk
<1>9. Run(more, 0) /\ more \in Seq(Number) /\ Len(more) = g + 1
  <2>1. e = 0 + Len(got) + 1
    BY <1>4, <1>8
  <2> HIDE DEF e, got
  <2> QED BY <1>2, <1>3, <2>1, RunGrows DEF g
<1> HIDE DEF f, z, d, e, final, got, live, more
<1>10. CASE ~final
  <2>0. g + 1 # n
    BY <1>8, <1>10
  <2>1. Len(more) < n
    BY <1>3, <1>4, <1>9, <2>0
  <2>2. /\ d.entries = c.entries /\ d.phase = c.phase
        /\ d.snapshot = [got |-> more, live |-> live, total |-> n]
    BY <1>7, <1>10, <2>1
  <2> HIDE DEF n
  <2>3. d.snapshot \in Snapshot
    BY <1>3, <1>9, <2>2, SnapshotByFields
  <2>4. d.snapshot.got = more /\ d.snapshot.live = live /\ d.snapshot.total = n
    BY <2>2
  <2>5. Loading(d, z, chunks, log)
    BY <1>3, <1>8, <1>9, <2>1, <2>2, <2>3, <2>4 DEF Loading
  <2>6. Script(d, z, TRUE, chunks, log)
    BY <2>2, <2>5 DEF Script, Welcoming
  <2> QED BY <2>6 DEF d, z, f
<1>11. CASE final
  <2>1. d.entries = more \o live /\ d.snapshot = None /\ d.phase = "live"
    BY <1>7, <1>11
  <2>2. Len(more) = n
    BY <1>8, <1>9, <1>11
  <2> HIDE DEF n
  <2>3. Run(live, Len(more))
    BY <1>3, <2>2
  <2>4. Run(more \o live, 0) /\ Len(more \o live) = Len(more) + Len(live)
    BY <1>3, <1>9, <2>3, RunsJoin
  <2>5. Run(d.entries, 0) /\ Len(d.entries) = m
    BY <2>1, <2>2, <2>4
  <2>6. Carries(z, chunks, log, 0, n, n, Len(d.entries))
    BY <1>8, <1>9, <2>2, <2>5
  <2>7. Showing(d, z, chunks, log)
    BY <1>3, <2>1, <2>6 DEF Showing
  <2>8. Script(d, z, TRUE, chunks, log)
    BY <2>5, <2>7 DEF Script, Welcoming
  <2> QED BY <2>8 DEF d, z, f
<1> QED BY <1>10, <1>11

(* An entry is taken: it waits for the snapshot, or is shown.                                  *)
LEMMA EntryWaits ==
  ASSUME NEW c \in Client, NEW s \in Seq(HostFrame), s # <<>>, NEW chunks \in Seq(Number),
         NEW log \in Nat, Run(c.entries, 0), Loading(c, s, chunks, log), Head(s).t = "entry"
  PROVE  Script(Applied(c, Head(s)), Tail(s), TRUE, chunks, log)
<1> DEFINE f == Head(s)
           z == Tail(s)
           d == Applied(c, f)
           e == f.entry
           got == c.snapshot.got
           live == c.snapshot.live
           n == c.snapshot.total
           g == Len(got)
           m == n + Len(live)
           more == Append(live, e)
<1>1. f \in HostFrame
  BY TailIs
<1>2. e \in Number
  BY <1>1, HostFrames
<1>3. /\ c.snapshot \in Snapshot /\ got \in Seq(Number) /\ live \in Seq(Number) /\ n \in Nat
      /\ n \in Number /\ Run(got, 0) /\ Run(live, n) /\ g < n /\ c.phase # "live"
      /\ Carries(s, chunks, log, 0, g, n, m)
  BY SnapshotFields DEF Loading, Number
<1>4. g \in Nat /\ m \in Nat /\ Len(live) \in Nat
  BY <1>3, SMTT(30)
<1>5. Fits(c) /\ c.snapshot # None /\ c.snapshot \in Snapshot \cup {None}
  BY <1>3, ClientFields, NoneIsNoAsk
<1>6. d = OnEntry(c, e)
  BY <1>1, AppliedIs
<1>7. /\ d.entries = c.entries /\ d.phase = c.phase
      /\ d.snapshot = [got |-> got, live |-> more, total |-> n]
  BY <1>2, <1>5, <1>6, OnEntryIs
<1>8. e = m + 1 /\ Carries(z, chunks, log, 0, g, n, m + 1)
  <2> HIDE DEF g, n, m
  <2> QED BY <1>3, <1>4, CarriesTakesEntry
<1>9. Run(more, n) /\ more \in Seq(Number) /\ Len(more) = Len(live) + 1
  <2>1. e = n + Len(live) + 1
    BY <1>3, <1>4, <1>8
  <2> HIDE DEF e, live, n
  <2> QED BY <1>2, <1>3, <2>1, RunGrows
<1>10. n + Len(more) = m + 1
  BY <1>3, <1>4, <1>9, SMTT(30)
<1> HIDE DEF f, z, d, e, got, live, more, n
<1>11. d.snapshot \in Snapshot
  BY <1>3, <1>7, <1>9, SnapshotByFields
<1>12. d.snapshot.got = got /\ d.snapshot.live = more /\ d.snapshot.total = n
  BY <1>7
<1>13. Loading(d, z, chunks, log)
  BY <1>3, <1>7, <1>8, <1>9, <1>10, <1>11, <1>12 DEF Loading
<1>14. Script(d, z, TRUE, chunks, log)
  BY <1>7, <1>13 DEF Script, Welcoming
<1> QED BY <1>14 DEF d, z, f

LEMMA EntryShown ==
  ASSUME NEW c \in Client, NEW s \in Seq(HostFrame), s # <<>>, NEW chunks \in Seq(Number),
         NEW log \in Nat, Run(c.entries, 0), Showing(c, s, chunks, log), Head(s).t = "entry"
  PROVE  Script(Applied(c, Head(s)), Tail(s), TRUE, chunks, log)
<1> DEFINE f == Head(s)
           z == Tail(s)
           d == Applied(c, f)
           e == f.entry
           m == Len(c.entries)
           more == Append(c.entries, e)
<1>1. f \in HostFrame
  BY TailIs
<1>2. e \in Number
  BY <1>1, HostFrames
<1>3. PICK n \in Nat : Carries(s, chunks, log, 0, n, n, m)
  BY DEF Showing
<1>4. /\ m \in Nat /\ c.entries \in Seq(Number) /\ Fits(c) /\ c.snapshot = None
      /\ c.phase = "live" /\ c.snapshot \in Snapshot \cup {None}
  BY ClientFields DEF Showing
<1>5. d = OnEntry(c, e)
  BY <1>1, AppliedIs
<1>6. d.entries = more /\ d.phase = c.phase /\ d.snapshot = c.snapshot
  BY <1>2, <1>4, <1>5, OnEntryIs
<1>7. e = m + 1 /\ Carries(z, chunks, log, 0, n, n, m + 1)
  <2> HIDE DEF m
  <2> QED BY <1>3, <1>4, CarriesTakesEntry
<1>8. Run(more, 0) /\ Len(more) = m + 1
  <2>1. e = 0 + Len(c.entries) + 1
    BY <1>4, <1>7
  <2> HIDE DEF e
  <2> QED BY <1>2, <1>4, <2>1, RunGrows
<1> HIDE DEF f, z, d, e, more
<1>9. Showing(d, z, chunks, log)
  BY <1>4, <1>6, <1>7, <1>8 DEF Showing
<1>10. Script(d, z, TRUE, chunks, log)
  BY <1>6, <1>8, <1>9 DEF Script, Welcoming
<1> QED BY <1>10 DEF d, z, f

LEMMA AsidePasses ==
  ASSUME NEW c \in Client, NEW s \in Seq(HostFrame), s # <<>>, NEW chunks \in Seq(Number),
         NEW log \in Nat, Run(c.entries, 0),
         Loading(c, s, chunks, log) \/ Showing(c, s, chunks, log), Head(s).t \notin Counts
  PROVE  Script(Applied(c, Head(s)), Tail(s), TRUE, chunks, log)
<1> DEFINE f == Head(s)
           z == Tail(s)
<1>1. Len(s) \in Nat /\ f \in HostFrame /\ 0 \in 0 .. Len(s)
  BY TailIs
<1>2. \A g, n, m \in Nat : Carries(s, chunks, log, 0, g, n, m) => Carries(z, chunks, log, 0, g, n, m)
  <2> TAKE g, n, m \in Nat
  <2> HAVE Carries(s, chunks, log, 0, g, n, m)
  <2>1. Carries(Tail(s), chunks, log, IF 0 = 0 THEN 0 ELSE 0 - 1, g, n, m)
    BY <1>1, CarriesPasses
  <2> QED BY <2>1
<1>3. Loading(c, z, chunks, log) \/ Showing(c, z, chunks, log)
  <2> HIDE DEF z
  <2>1. CASE Loading(c, s, chunks, log)
    <3> DEFINE g == Len(c.snapshot.got)
               n == c.snapshot.total
               m == c.snapshot.total + Len(c.snapshot.live)
    <3>1. g \in Nat /\ n \in Nat /\ m \in Nat /\ Carries(s, chunks, log, 0, g, n, m)
      BY <2>1, SnapshotFields DEF Loading, Number
    <3> HIDE DEF g, n, m
    <3>2. Carries(z, chunks, log, 0, g, n, m)
      BY <1>2, <3>1
    <3> QED BY <2>1, <3>2 DEF Loading, g, n, m
  <2>2. CASE Showing(c, s, chunks, log)
    <3>1. PICK n \in Nat : Carries(s, chunks, log, 0, n, n, Len(c.entries))
      BY <2>2 DEF Showing
    <3>2. Len(c.entries) \in Nat
      BY ClientFields
    <3> QED BY <1>2, <2>2, <3>1, <3>2 DEF Showing
  <2> QED BY <2>1, <2>2
<1> HIDE DEF f, z
<1>4. Script(c, z, TRUE, chunks, log)
  BY <1>3 DEF Script, Welcoming
<1>5. SameScript(c, Applied(c, f))
  BY <1>1, AsideTaken DEF f
<1>6. Script(Applied(c, f), z, TRUE, chunks, log)
  BY <1>4, <1>5, SameScriptKeeps
<1> QED BY <1>6 DEF f, z

(* No welcome comes, and no chunk to a guest that loads none.                               *)
LEMMA NothingElseComes ==
  ASSUME NEW c \in Client, NEW s \in Seq(HostFrame), s # <<>>, NEW chunks \in Seq(Number),
         NEW log \in Nat, Loading(c, s, chunks, log) \/ Showing(c, s, chunks, log)
  PROVE  /\ Head(s).t # "welcome"
         /\ Head(s).t = "snapshot-chunk" => Loading(c, s, chunks, log)
<1>1. CASE Loading(c, s, chunks, log)
  BY <1>1, NoWelcomeComes DEF Loading
<1>2. CASE Showing(c, s, chunks, log)
  <2>1. PICK n \in Nat : Carries(s, chunks, log, 0, n, n, Len(c.entries))
    BY <1>2 DEF Showing
  <2>2. Len(c.entries) \in Nat /\ Len(chunks) \in Nat
    BY ClientFields
  <2>3. Head(s).t # "welcome"
    BY <2>1, NoWelcomeComes
  <2>4. Head(s).t # "snapshot-chunk"
    <3>1. ASSUME Head(s).t = "snapshot-chunk" PROVE n + 1 + Len(chunks) <= n
      BY <2>1, <2>2, <3>1, CarriesTakesChunk
    <3>2. ~(n + 1 + Len(chunks) <= n)
      BY <2>2
    <3> QED BY <3>1, <3>2
  <2> QED BY <2>3, <2>4
<1> QED BY <1>1, <1>2

LEMMA ScriptTakes ==
  ASSUME NEW c \in Client, NEW s \in Seq(HostFrame), s # <<>>, NEW welcomed \in BOOLEAN,
         NEW chunks \in Seq(Number), NEW log \in Nat, Script(c, s, welcomed, chunks, log)
  PROVE  Script(Applied(c, Head(s)), Tail(s), welcomed, chunks, log)
<1> DEFINE t == Head(s).t
<1>1. CASE ~welcomed
  <2>1. welcomed = FALSE
    BY <1>1
  <2> QED BY <2>1, AloneTakes
<1>2. CASE welcomed
  <2>1. welcomed = TRUE /\ Run(c.entries, 0) /\ Welcoming(c, s, chunks, log)
    BY <1>2 DEF Script
  <2>2. CASE Greeting(c, s, chunks, log)
    BY <2>1, <2>2, GreetingTakes
  <2>3. CASE Loading(c, s, chunks, log) \/ Showing(c, s, chunks, log)
    <3>1. t # "welcome" /\ (t = "snapshot-chunk" => Loading(c, s, chunks, log))
      BY <2>3, NothingElseComes
    <3>2. CASE t = "snapshot-chunk"
      BY <2>1, <3>1, <3>2, ChunkTaken
    <3>3. CASE t = "entry"
      BY <2>1, <2>3, <3>3, EntryWaits, EntryShown
    <3>4. CASE t \notin Counts
      BY <2>1, <2>3, <3>4, AsidePasses
    <3> QED BY <3>1, <3>2, <3>3, <3>4 DEF Counts
  <2> QED BY <2>1, <2>2, <2>3 DEF Welcoming
<1> QED BY <1>1, <1>2

-----------------------------------------------------------------------------
(* Every step keeps it.                                                                  *)

LEMMA ScriptParts ==
  ASSUME Typed
  PROVE  /\ client \in Client /\ net.down \in Seq(HostFrame) /\ host.welcomed \in BOOLEAN
         /\ host.chunks \in Seq(Number) /\ host.log \in Nat
BY TypedParts, NetFields, HostFields

LEMMA NothingComes ==
  ASSUME NEW c, Run(c.entries, 0), Silent(c), NEW log
  PROVE  Script(c, <<>>, FALSE, <<>>, log)
<1>1. \A i \in 1 .. Len(<<>>) : FALSE
  OBVIOUS
<1> QED BY <1>1 DEF Script, Alone

LEMMA CutsScript == ASSUME Typed, ScriptHolds, Cuts PROVE ScriptHolds'
<1>1. /\ net'.down = <<>> /\ host'.log = host.log /\ host'.welcomed = FALSE
      /\ host'.chunks = <<>>
  BY DEF Cuts, HostIs
<1>2. Fits(client)
  BY ScriptParts, ClientFields
<1>3. client'.entries = client.entries /\ Silent(client')
  BY <1>2, DroppedIs, FinishedIs DEF Cuts, Silent
<1>4. Run(client'.entries, 0)
  BY <1>3 DEF ScriptHolds, Script
<1>5. Script(client', <<>>, FALSE, <<>>, host.log)
  BY <1>3, <1>4, NothingComes
<1> QED BY <1>1, <1>5 DEF ScriptHolds

LEMMA JoinsScript == ASSUME Typed, WireHolds, ScriptHolds, Joins PROVE ScriptHolds'
<1>1. /\ net'.down = net.down /\ host'.log = host.log /\ host'.welcomed = host.welcomed
      /\ host'.chunks = host.chunks /\ ~host.welcomed
  BY DEF Joins, WireHolds, SameDown, SameHost, HostIs
<1>2. Fits(client)
  BY ScriptParts, ClientFields
<1>3. /\ client'.entries = client.entries /\ client'.snapshot = client.snapshot
      /\ client'.phase # "live"
  BY <1>2, ConnectedIs DEF Joins
<1>4. Script(client', net.down, host.welcomed, host.chunks, host.log)
  BY <1>1, <1>3 DEF ScriptHolds, Script, Alone, Silent
<1> QED BY <1>1, <1>4 DEF ScriptHolds

LEMMA TakesScript == ASSUME Typed, ScriptHolds, Takes PROVE ScriptHolds'
<1>1. /\ client' = Applied(client, Head(net.down)) /\ net'.down = Tail(net.down)
      /\ net.down # <<>> /\ host'.log = host.log /\ host'.welcomed = host.welcomed
      /\ host'.chunks = host.chunks
  BY DEF Takes, SameHost, HostIs
<1>2. Script(Applied(client, Head(net.down)), Tail(net.down), host.welcomed, host.chunks, host.log)
  BY <1>1, ScriptParts, ScriptTakes DEF ScriptHolds
<1> QED BY <1>1, <1>2 DEF ScriptHolds

LEMMA QuietScript ==
  ASSUME Typed, ScriptHolds, Stays \/ Responds
  PROVE  ScriptHolds'
<1>1. /\ net'.down = net.down /\ host'.log = host.log /\ host'.welcomed = host.welcomed
      /\ host'.chunks = host.chunks
  BY DEF Stays, Responds, SameDown, SameHost, HostIs
<1>2. SameScript(client, client')
  <2>1. CASE Stays
    BY <2>1 DEF Stays, SameScript
  <2>2. CASE Responds
    BY <2>2, ScriptParts, PendingIs DEF Responds
  <2> QED BY <2>1, <2>2
<1>3. Script(client', net.down, host.welcomed, host.chunks, host.log)
  BY <1>2, SameScriptKeeps DEF ScriptHolds
<1> QED BY <1>1, <1>3 DEF ScriptHolds

(* The host says something that has nothing to do with the transcript.                        *)
LEMMA AsideScript ==
  ASSUME Typed, ScriptHolds, NEW q \in Seq(HostFrame), Says(q),
         host'.log = host.log, host'.welcomed = host.welcomed, host'.chunks = host.chunks,
         \A k \in 1 .. Len(q) : q[k].t \notin Counts,
         ~host.welcomed => \A k \in 1 .. Len(q) : Answering(q[k])
  PROVE  ScriptHolds'
<1>1. client' = client /\ net'.down = Then(net.down, q)
  BY DEF Says, Then
<1>2. Script(client, Then(net.down, q), host.welcomed, host.chunks, host.log)
  BY ScriptParts, AsideKeeps DEF ScriptHolds
<1> QED BY <1>1, <1>2 DEF ScriptHolds

LEMMA OneFrame ==
  ASSUME NEW f
  PROVE  LET q == <<f>> IN Len(q) = 1 /\ q # <<>> /\ q[1] = f /\ \A k \in 1 .. Len(q) : q[k] = f
OBVIOUS

(* One frame, or none when the guest was not welcomed.                                        *)
LEMMA SaysScript ==
  ASSUME Typed, ScriptHolds, NEW f \in HostFrame, f.t \notin Counts, NEW b \in BOOLEAN,
         Says(IF b THEN <<f>> ELSE <<>>), b => host.welcomed \/ Answering(f),
         host'.log = host.log, host'.welcomed = host.welcomed, host'.chunks = host.chunks
  PROVE  ScriptHolds'
<1>1. CASE b
  <2> DEFINE q == <<f>>
  <2>1. q \in Seq(HostFrame) /\ Says(q) /\ \A k \in 1 .. Len(q) : q[k] = f
    BY <1>1
  <2> HIDE DEF q
  <2> QED BY <1>1, <2>1, AsideScript
<1>2. CASE ~b
  <2> DEFINE q == <<>>
  <2>1. q \in Seq(HostFrame) /\ Says(q) /\ \A k \in 1 .. Len(q) : FALSE
    BY <1>2
  <2> HIDE DEF q
  <2> QED BY <1>2, <2>1, AsideScript
<1> QED BY <1>1, <1>2

LEMMA GreetedScript == ASSUME Typed, ScriptHolds, Greeted PROVE ScriptHolds'
<1> DEFINE q == <<Welcome(host.log)>> \o SetToSeq(OpenRequests) \o AfterSnapshot(host.log)
           all == [i \in 1 .. host.log |-> i]
<1>1. q \in Seq(HostFrame) /\ Opening(q, host.log)
  BY OpeningIs
<1>2. /\ ~host.welcomed /\ client' = client /\ net'.down = Then(net.down, q)
      /\ host'.log = host.log /\ host'.welcomed = TRUE /\ host'.chunks = all
  BY DEF Greeted, Says, HostIs, Then
<1> HIDE DEF q
<1>3. Run(client.entries, 0) /\ Alone(client, net.down, <<>>)
  BY <1>2 DEF ScriptHolds, Script, Alone
<1>4. Script(client, Then(net.down, q), TRUE, all, host.log)
  BY <1>1, <1>3, ScriptParts, OpeningKeeps
<1> HIDE DEF all
<1> QED BY <1>2, <1>4 DEF ScriptHolds

LEMMA ChunkSentScript == ASSUME Typed, ScriptHolds, ChunkSent PROVE ScriptHolds'
<1> DEFINE e == Head(host.chunks)
           final == (Len(host.chunks) = 1)
           c == Chunk(e, final)
           a == AfterSnapshot(Len(host.chunks) - 1)
           q == <<c>> \o a
<1>1. /\ host.chunks # <<>> /\ Says(q) /\ q \in Seq(HostFrame)
      /\ host'.log = host.log /\ host'.welcomed = host.welcomed
      /\ host'.chunks = Tail(host.chunks)
  BY DEF ChunkSent, HostIs, Says
<1>2. e \in Number /\ final \in BOOLEAN
  BY <1>1, ScriptParts, TailIs
<1>3. c.t = "snapshot-chunk" /\ c.entry = e /\ c.final = final
  BY <1>2, HostSays
<1>4. a \in Seq({Pong}) /\ Pong.t = "gateway-health-pong"
  <2>1. <<>> \in Seq({Pong}) /\ <<Pong>> \in Seq({Pong})
    OBVIOUS
  <2> QED BY <2>1, HostSays DEF AfterSnapshot
<1> HIDE DEF c, a
<1>5. /\ q # <<>> /\ q[1] = c /\ \A k \in 2 .. Len(q) : q[k] = Pong
  <2>1. \A k \in 1 .. Len(a) : a[k] = Pong
    BY <1>4
  <2>2. Len(q) = 1 + Len(a) /\ q[1] = c /\ \A k \in 2 .. Len(q) : q[k] = a[k - 1]
    BY <1>4
  <2>3. q # <<>>
    BY <1>4
  <2>4. \A k \in 2 .. Len(q) : k - 1 \in 1 .. Len(a)
    BY <1>4, <2>2
  <2> HIDE DEF q
  <2> QED BY <2>1, <2>2, <2>3, <2>4
<1> HIDE DEF q
<1>6. Brings(q, e, final)
  BY <1>3, <1>4, <1>5 DEF Brings, Counts
<1>7. Script(client, Then(net.down, q), host.welcomed, Tail(host.chunks), host.log)
  BY <1>1, <1>6, ScriptParts, ChunkKeeps DEF ScriptHolds
<1>8. client' = client /\ net'.down = Then(net.down, q)
  BY <1>1 DEF Says, Then
<1> QED BY <1>1, <1>7, <1>8 DEF ScriptHolds

LEMMA EntrySentScript == ASSUME Typed, ScriptHolds, EntrySent PROVE ScriptHolds'
<1> DEFINE n == host.log + 1
           f == Entry(n)
           q == <<f>>
<1>1. /\ Says(IF host.welcomed THEN <<f>> ELSE <<>>)
      /\ host'.log = n /\ host'.welcomed = host.welcomed /\ host'.chunks = host.chunks
  BY DEF EntrySent, HostIs
<1>2. n \in Number
  BY ScriptParts DEF Number
<1>3. f \in HostFrame /\ f.t = "entry" /\ f.entry = n
  BY <1>2, HostSays
<1> HIDE DEF f
<1>4. CASE host.welcomed
  <2>1. /\ q \in Seq(HostFrame) /\ q # <<>> /\ Len(q) = 1 /\ q[1] = f
        /\ client' = client /\ net'.down = Then(net.down, q) /\ host.welcomed = TRUE
    BY <1>1, <1>3, <1>4, ScriptParts DEF Says, Then
  <2> HIDE DEF q
  <2>2. Script(client, net.down, TRUE, host.chunks, host.log)
    BY <2>1 DEF ScriptHolds
  <2>3. Script(client, Then(net.down, q), TRUE, host.chunks, host.log + 1)
    BY <1>3, <2>1, <2>2, ScriptParts, EntryKeeps
  <2> QED BY <1>1, <2>1, <2>3 DEF ScriptHolds
<1>5. CASE ~host.welcomed
  <2>1. client' = client /\ net'.down = net.down
    BY <1>1, <1>5, ScriptParts DEF Says
  <2>2. Script(client, net.down, host.welcomed, host.chunks, n)
    BY <1>5 DEF ScriptHolds, Script, Alone
  <2> QED BY <1>1, <2>1, <2>2 DEF ScriptHolds
<1> QED BY <1>4, <1>5

LEMMA ScriptKeeps == IInv /\ Typed /\ WireHolds /\ ScriptHolds /\ [Next]_vars => ScriptHolds'
<1> SUFFICES ASSUME IInv, Typed, WireHolds, ScriptHolds, [Next]_vars PROVE ScriptHolds'
  OBVIOUS
<1>1. Moves
  BY StepMoves
<1>2. host.welcomed \in BOOLEAN
  BY ScriptParts
<1>3. CASE Cuts
  BY <1>3, CutsScript
<1>4. CASE Joins
  BY <1>4, JoinsScript
<1>5. CASE Stays \/ Responds
  BY <1>5, QuietScript
<1>6. CASE Takes
  BY <1>6, TakesScript
<1>7. CASE Greeted
  BY <1>7, GreetedScript
<1>8. CASE Refused
  <2>1. /\ TRUE \in BOOLEAN /\ Error \in HostFrame /\ Error.t \notin Counts /\ Answering(Error)
        /\ Says(IF TRUE THEN <<Error>> ELSE <<>>)
        /\ host'.log = host.log /\ host'.welcomed = host.welcomed /\ host'.chunks = host.chunks
    BY <1>8, HostSays DEF Refused, Counts, Answering, SameHost, HostIs
  <2> QED BY <2>1, SaysScript
<1>9. ASSUME NEW r \in Ask, Heard(r) PROVE ScriptHolds'
  <2> DEFINE f == RequestEnd(r)
  <2>1. /\ f \in HostFrame /\ f.t \notin Counts /\ Answering(f)
        /\ Says(IF TRUE THEN <<f>> ELSE <<>>)
        /\ host'.log = host.log /\ host'.welcomed = host.welcomed /\ host'.chunks = host.chunks
    BY <1>9, HostSays DEF Heard, Counts, Answering, HostIs
  <2> HIDE DEF f
  <2> QED BY <2>1, SaysScript
<1>10. CASE ChunkSent
  BY <1>10, ChunkSentScript
<1>11. CASE EntrySent
  BY <1>11, EntrySentScript
<1>12. CASE AskSent
  <2> DEFINE f == Request(host.asked + 1)
  <2>1. host.asked + 1 \in Ask
    BY <1>12, TypedParts, HostFields, GuestAssumption DEF AskSent, Ask
  <2>2. /\ f \in HostFrame /\ f.t \notin Counts /\ Says(IF host.welcomed THEN <<f>> ELSE <<>>)
        /\ host'.log = host.log /\ host'.welcomed = host.welcomed /\ host'.chunks = host.chunks
    BY <1>12, <2>1, HostSays DEF AskSent, Counts, HostIs
  <2> HIDE DEF f
  <2> QED BY <1>2, <2>2, SaysScript
<1>13. ASSUME NEW r \in Opens, EndSent(r) PROVE ScriptHolds'
  <2> DEFINE f == RequestEnd(r)
  <2>1. r \in Ask
    BY OpensAre
  <2>2. /\ f \in HostFrame /\ f.t \notin Counts /\ Says(IF host.welcomed THEN <<f>> ELSE <<>>)
        /\ host'.log = host.log /\ host'.welcomed = host.welcomed /\ host'.chunks = host.chunks
    BY <1>13, <2>1, HostSays DEF EndSent, Counts, HostIs
  <2> HIDE DEF f
  <2> QED BY <1>2, <2>2, SaysScript
<1>14. CASE ByeSent
  <2>1. /\ Bye \in HostFrame /\ Bye.t \notin Counts /\ Says(IF host.welcomed THEN <<Bye>> ELSE <<>>)
        /\ host'.log = host.log /\ host'.welcomed = host.welcomed /\ host'.chunks = host.chunks
    BY <1>14, HostSays DEF ByeSent, Counts, SameHost, HostIs
  <2> QED BY <1>2, <2>1, SaysScript
<1> QED BY <1>1, <1>3, <1>4, <1>5, <1>6, <1>7, <1>8, <1>9, <1>10, <1>11, <1>12, <1>13, <1>14
        DEF Moves

LEMMA InitIsScripted == Init => ScriptHolds
<1> SUFFICES ASSUME Init PROVE ScriptHolds
  OBVIOUS
<1>1. /\ client.entries = <<>> /\ client.snapshot = None /\ client.phase = "connecting"
      /\ net.down = <<>> /\ host.welcomed = FALSE /\ host.chunks = <<>>
  BY NewNet DEF Init
<1>2. Run(<<>>, 0)
  BY DEF Run
<1>3. Script(client, <<>>, FALSE, <<>>, host.log)
  BY <1>1, <1>2, NothingComes DEF Silent
<1> QED BY <1>1, <1>3 DEF ScriptHolds

LEMMA ScriptIsFaithful == Typed /\ ScriptHolds => TranscriptFaithful
<1> SUFFICES ASSUME Typed, ScriptHolds PROVE TranscriptFaithful
  OBVIOUS
<1> DEFINE q == client.entries
           n == Len(q)
           s == net.down
<1>1. q \in Seq(Number) /\ n \in Nat /\ s \in Seq(HostFrame) /\ DOMAIN s = 1 .. Len(s)
  BY ScriptParts, ClientFields
<1>2. q = FirstEntries(n)
  <2>1. \A i \in 1 .. n : q[i] = i
    BY DEF ScriptHolds, Script, Run
  <2>2. FirstEntries(n) \in Seq(Number) /\ Len(FirstEntries(n)) = n
        /\ \A i \in 1 .. n : FirstEntries(n)[i] = i
    BY <1>1 DEF FirstEntries, Number
  <2> HIDE DEF q
  <2> QED BY <1>1, <2>1, <2>2, SeqEqual DEF n
<1>3. ASSUME client.phase = "live"
      PROVE  /\ n <= host.log
             /\ {s[i].entry : i \in EntriesComing} = n + 1 .. host.log
             /\ \A i, j \in EntriesComing : i < j => s[i].entry < s[j].entry
  <2>1. Showing(client, s, host.chunks, host.log)
    BY <1>3 DEF ScriptHolds, Script, Welcoming, Greeting, Loading, Alone, Silent
  <2>2. Row(s, 0, "entry", n, host.log) /\ n <= host.log
    BY <2>1 DEF Showing, Carries
  <2>3. EntriesComing = Of(s, 0, "entry")
    BY <1>1 DEF EntriesComing, Of
  <2> HIDE DEF s, n
  <2>4. {s[i].entry : i \in Of(s, 0, "entry")} = n + 1 .. host.log
    BY <2>2 DEF Row
  <2> QED BY <2>2, <2>3, <2>4 DEF Row
<1> QED BY <1>2, <1>3 DEF TranscriptFaithful

(* What the guest shows is the beginning of the session's transcript, and once it is live it     *)
(* lacks exactly what is still on its way (#applyFrame of client.ts: welcome, snapshot-chunk and   *)
(* entry), whatever transports are lost and whatever happens while a snapshot is sent.          *)
THEOREM TranscriptIsFaithful == Spec => []TranscriptFaithful
<1>1. IInv /\ [Next]_vars => IInv'
  BY StepKeeps
<1>2. Init => WireHolds
  BY InitIsWired
<1> QED BY InitIsCounted, InitIsTyped, InitIsScripted, PageStepsAside, TypedKeeps, WireKeeps,
           ScriptKeeps, ScriptIsFaithful, <1>1, <1>2, PTL DEF Spec

-----------------------------------------------------------------------------
(* The questions the client knows.                                                        *)

In(q, r) == \E i \in 1 .. Len(q) : q[i] = r

Distinct(q) == \A i, j \in 1 .. Len(q) : q[i] = q[j] => i = j

Has(c, r) == r = c.pending \/ r = c.request \/ In(c.queue, r)

(* A question waits behind the one that is shown, and only once; the one whose answer has not
   been acknowledged is shown.                                                            *)
Shown(c) ==
  /\ c.pending # None => c.request = c.pending
  /\ c.request = None => c.queue = <<>>
  /\ Distinct(c.queue) /\ ~In(c.queue, c.request)

LEMMA RemovedIs ==
  ASSUME NEW q \in Seq(Ask), Distinct(q), NEW r
  PROVE  /\ Distinct(RemoveFirst(q, r))
         /\ \A x \in Ask : In(RemoveFirst(q, r), x) <=> In(q, x) /\ x # r
<1> DEFINE z == RemoveFirst(q, r)
           n == Len(q)
<1>1. CASE z = q /\ \A i \in 1 .. n : q[i] # r
  BY <1>1 DEF In
<1>2. ASSUME NEW k \in 1 .. n, q[k] = r, z = RemoveAt(q, k)
      PROVE  Distinct(z) /\ \A x \in Ask : In(z, x) <=> In(q, x) /\ x # r
  <2>1. /\ n \in Nat /\ Len(z) = n - 1
        /\ \A i \in 1 .. n - 1 : z[i] = IF i < k THEN q[i] ELSE q[i + 1]
    <3>1. /\ Len(RemoveAt(q, k)) = n - 1
          /\ \A i \in 1 .. n - 1 : RemoveAt(q, k)[i] = IF i < k THEN q[i] ELSE q[i + 1]
      BY RemoveAtIs
    <3> HIDE DEF z
    <3> QED BY <1>2, <3>1
  <2> HIDE DEF z
  <2>2. ASSUME NEW i \in 1 .. n - 1
        PROVE  \E m \in 1 .. n : m # k /\ z[i] = q[m] /\ m = IF i < k THEN i ELSE i + 1
    <3>1. CASE i < k
      <4>1. i \in 1 .. n /\ i # k /\ z[i] = q[i]
        BY <2>1, <3>1
      <4> QED BY <3>1, <4>1
    <3>2. CASE ~(i < k)
      <4>1. i + 1 \in 1 .. n /\ i + 1 # k /\ z[i] = q[i + 1]
        BY <2>1, <3>2
      <4> QED BY <3>2, <4>1
    <3> QED BY <3>1, <3>2
  <2>3. ASSUME NEW i \in 1 .. n - 1, NEW j \in 1 .. n - 1, z[i] = z[j] PROVE i = j
    <3>1. PICK m \in 1 .. n : z[i] = q[m] /\ m = IF i < k THEN i ELSE i + 1
      BY <2>2
    <3>2. PICK l \in 1 .. n : z[j] = q[l] /\ l = IF j < k THEN j ELSE j + 1
      BY <2>2
    <3>3. m = l
      BY <2>3, <3>1, <3>2 DEF Distinct
    <3> QED BY <2>1, <3>1, <3>2, <3>3
  <2>4. ASSUME NEW x \in Ask, In(z, x) PROVE In(q, x) /\ x # r
    <3>1. PICK i \in 1 .. n - 1 : z[i] = x
      BY <2>1, <2>4 DEF In
    <3>2. PICK m \in 1 .. n : m # k /\ z[i] = q[m]
      BY <2>2
    <3>3. q[m] # q[k]
      BY <3>2 DEF Distinct
    <3> QED BY <1>2, <3>1, <3>2, <3>3 DEF In
  <2>5. ASSUME NEW x \in Ask, In(q, x), x # r PROVE In(z, x)
    <3>1. PICK m \in 1 .. n : q[m] = x
      BY <2>5 DEF In
    <3>2. m # k
      BY <1>2, <2>5, <3>1
    <3>3. CASE m < k
      <4>1. m \in 1 .. n - 1 /\ z[m] = q[m]
        BY <2>1, <3>3
      <4> QED BY <2>1, <3>1, <4>1 DEF In
    <3>4. CASE ~(m < k)
      <4>1. m - 1 \in 1 .. n - 1 /\ ~(m - 1 < k) /\ m - 1 + 1 = m
        BY <2>1, <3>2, <3>4
      <4>2. z[m - 1] = q[m]
        BY <2>1, <4>1
      <4> QED BY <2>1, <3>1, <4>1, <4>2 DEF In
    <3> QED BY <3>3, <3>4
  <2> QED BY <2>1, <2>3, <2>4, <2>5 DEF Distinct
<1> QED BY <1>1, <1>2, RemoveFirstIs

LEMMA TailQueue ==
  ASSUME NEW q \in Seq(Ask), q # <<>>, Distinct(q)
  PROVE  /\ Distinct(Tail(q)) /\ Head(q) \in Ask
         /\ \A x \in Ask : In(Tail(q), x) <=> In(q, x) /\ x # Head(q)
         /\ In(q, Head(q)) /\ ~In(Tail(q), Head(q))
<1> DEFINE z == Tail(q)
           n == Len(q)
           h == Head(q)
<1>1. /\ n \in Nat \ {0} /\ h = q[1] /\ h \in Ask /\ Len(z) = n - 1
      /\ \A i \in 1 .. n - 1 : z[i] = q[i + 1]
  BY TailIs
<1> HIDE DEF z, h
<1>2. \A i \in 1 .. n - 1 : i + 1 \in 1 .. n /\ i + 1 # 1
  BY <1>1
<1>3. Distinct(z)
  BY <1>1, <1>2 DEF Distinct
<1>4. In(q, h)
  BY <1>1 DEF In
<1>5. ASSUME NEW x \in Ask, In(z, x) PROVE In(q, x) /\ x # h
  <2>1. PICK i \in 1 .. n - 1 : z[i] = x
    BY <1>1, <1>5 DEF In
  <2>2. q[i + 1] = x /\ i + 1 \in 1 .. n /\ i + 1 # 1 /\ 1 \in 1 .. n
    BY <1>1, <1>2, <2>1
  <2>3. q[i + 1] # q[1]
    BY <2>2 DEF Distinct
  <2> QED BY <1>1, <2>2, <2>3 DEF In
<1>6. ASSUME NEW x \in Ask, In(q, x), x # h PROVE In(z, x)
  <2>1. PICK m \in 1 .. n : q[m] = x
    BY <1>6 DEF In
  <2>2. m - 1 \in 1 .. n - 1 /\ m - 1 + 1 = m
    BY <1>1, <1>6, <2>1
  <2>3. z[m - 1] = x
    BY <1>1, <2>1, <2>2
  <2> QED BY <1>1, <2>2, <2>3 DEF In
<1> QED BY <1>1, <1>3, <1>4, <1>5, <1>6 DEF z, h

LEMMA AppendQueue ==
  ASSUME NEW q \in Seq(Ask), NEW r \in Ask, Distinct(q), ~In(q, r)
  PROVE  /\ Distinct(Append(q, r))
         /\ \A x : In(Append(q, r), x) <=> In(q, x) \/ x = r
<1> DEFINE z == Append(q, r)
           n == Len(q)
<1>1. /\ n \in Nat /\ Len(z) = n + 1 /\ z[n + 1] = r
      /\ \A i \in 1 .. n : z[i] = q[i]
  BY AppendProperties
<1> HIDE DEF z
<1>2. \A i \in 1 .. n + 1 : i = n + 1 \/ i \in 1 .. n
  BY <1>1
<1>3. Distinct(z)
  <2> SUFFICES ASSUME NEW i \in 1 .. n + 1, NEW j \in 1 .. n + 1, z[i] = z[j] PROVE i = j
    BY <1>1 DEF Distinct
  <2>1. CASE i \in 1 .. n /\ j \in 1 .. n
    BY <1>1, <2>1 DEF Distinct
  <2>2. CASE i = n + 1 /\ j \in 1 .. n
    BY <1>1, <2>2 DEF In
  <2>3. CASE j = n + 1 /\ i \in 1 .. n
    BY <1>1, <2>3 DEF In
  <2> QED BY <1>2, <2>1, <2>2, <2>3
<1>4. ASSUME NEW x PROVE In(z, x) <=> In(q, x) \/ x = r
  <2>1. ASSUME In(z, x) PROVE In(q, x) \/ x = r
    BY <1>1, <1>2, <2>1 DEF In
  <2>2. ASSUME In(q, x) PROVE In(z, x)
    <3>1. PICK i \in 1 .. n : q[i] = x
      BY <2>2 DEF In
    <3>2. i \in 1 .. n + 1 /\ z[i] = x
      BY <1>1, <3>1
    <3> QED BY <1>1, <3>2 DEF In
  <2>3. n + 1 \in 1 .. Len(z) /\ z[n + 1] = r
    BY <1>1
  <2> QED BY <2>1, <2>2, <2>3 DEF In
<1> QED BY <1>3, <1>4 DEF z

LEMMA KnownIs ==
  ASSUME NEW c \in Client, NEW r
  PROVE  Known(c, r) <=> Has(c, r)
<1>1. DOMAIN c.queue = 1 .. Len(c.queue)
  BY ClientFields
<1> QED BY <1>1 DEF Known, Has, In, ToSet

LEMMA SameAsksKeeps ==
  ASSUME NEW c, NEW d, SameAsks(c, d), Shown(c)
  PROVE  Shown(d) /\ \A x : Has(d, x) <=> Has(c, x)
BY DEF SameAsks, Shown, Has

LEMMA NoQueue == Distinct(<<>>) /\ \A x : ~In(<<>>, x)
BY DEF Distinct, In

LEMMA WelcomeAsks ==
  ASSUME NEW c \in Client, Shown(c), NEW n
  PROVE  LET d == OnWelcome(c, n)
         IN /\ Shown(d) /\ d.pending = c.pending
            /\ \A x \in Ask : Has(d, x) <=> x = c.pending
<1> DEFINE d == OnWelcome(c, n)
<1>1. d.request = c.pending /\ d.queue = <<>> /\ d.pending = c.pending
  <2>1. Fits(c)
    BY ClientFields
  <2> QED BY <2>1, OnWelcomeIs, ZenonT(60)
<1> HIDE DEF d
<1> QED BY <1>1, NoQueue DEF Shown, Has, d

LEMMA RequestAsks ==
  ASSUME NEW c \in Client, Shown(c), NEW r \in Ask
  PROVE  LET d == OnRequest(c, r)
         IN /\ Shown(d) /\ d.pending = c.pending
            /\ \A x \in Ask : Has(d, x) <=> Has(c, x) \/ x = r
<1> DEFINE d == OnRequest(c, r)
<1>1. /\ d.pending = c.pending
      /\ Has(c, r) => d = c
      /\ ~Has(c, r) /\ c.request # None => d.request = c.request /\ d.queue = Append(c.queue, r)
      /\ ~Has(c, r) /\ c.request = None => d.request = r /\ d.queue = c.queue
  BY ClientFields, KnownIs, OnRequestIs
<1>2. c.queue \in Seq(Ask)
  BY ClientFields
<1> HIDE DEF d
<1>3. CASE Has(c, r)
  BY <1>1, <1>3 DEF d
<1>4. CASE ~Has(c, r) /\ c.request # None
  <2>1. d.request = c.request /\ d.queue = Append(c.queue, r) /\ ~In(c.queue, r) /\ r # c.request
    BY <1>1, <1>4 DEF Has
  <2>2. /\ Distinct(d.queue) /\ \A x : In(d.queue, x) <=> In(c.queue, x) \/ x = r
    BY <1>2, <2>1, AppendQueue DEF Shown
  <2>3. Shown(d)
    BY <1>1, <1>4, <2>1, <2>2 DEF Shown
  <2> QED BY <1>1, <2>1, <2>2, <2>3 DEF Has, d
<1>5. CASE ~Has(c, r) /\ c.request = None
  <2>1. d.request = r /\ d.queue = c.queue /\ c.queue = <<>> /\ c.pending = None /\ r # None
    BY <1>1, <1>5, NoneIsNoAsk DEF Shown
  <2>2. Shown(d)
    BY <1>1, <2>1, NoQueue DEF Shown
  <2>3. \A x \in Ask : Has(d, x) <=> Has(c, x) \/ x = r
    BY <1>1, <1>5, <2>1, NoneIsNoAsk DEF Has
  <2> QED BY <1>1, <2>2, <2>3 DEF d
<1> QED BY <1>3, <1>4, <1>5

LEMMA RequestEndAsks ==
  ASSUME NEW c \in Client, Shown(c), NEW r \in Ask
  PROVE  LET d == OnRequestEnd(c, r)
         IN /\ Shown(d) /\ d.pending = IF c.pending = r THEN None ELSE c.pending
            /\ \A x \in Ask : Has(d, x) <=> Has(c, x) /\ x # r
<1> DEFINE d == OnRequestEnd(c, r)
<1>1. /\ d.pending = IF c.pending = r THEN None ELSE c.pending
      /\ c.request # r => d.request = c.request /\ d.queue = RemoveFirst(c.queue, r)
      /\ c.request = r /\ c.queue = <<>> => d.request = None /\ d.queue = <<>>
      /\ c.request = r /\ c.queue # <<>> => d.request = Head(c.queue) /\ d.queue = Tail(c.queue)
  BY ClientFields, OnRequestEndIs
<1>2. c.queue \in Seq(Ask) /\ Distinct(c.queue) /\ ~In(c.queue, c.request)
  BY ClientFields DEF Shown
<1> HIDE DEF d
<1>3. CASE c.request # r
  <2> DEFINE z == RemoveFirst(c.queue, r)
  <2>1. /\ d.request = c.request /\ d.queue = z /\ c.pending # r /\ d.pending = c.pending
    <3>1. c.pending # r
      BY <1>3, NoneIsNoAsk DEF Shown
    <3> QED BY <1>1, <1>3, <3>1
  <2>2. Distinct(z) /\ \A x \in Ask : In(z, x) <=> In(c.queue, x) /\ x # r
    BY <1>2, RemovedIs
  <2>3. c.request = None => z = <<>>
    <3>1. ASSUME c.request = None PROVE z = <<>>
      <4>1. c.queue = <<>> /\ Len(<<>>) = 0
        BY <3>1 DEF Shown
      <4>2. \/ RemoveFirst(c.queue, r) = c.queue
            \/ \E k \in 1 .. Len(c.queue) : TRUE
        BY <1>2, RemoveFirstIs
      <4> QED BY <4>1, <4>2
    <3> QED BY <3>1
  <2> HIDE DEF z
  <2>4. ~In(z, c.request)
    <3>1. CASE c.request \in Ask
      BY <1>2, <2>2, <3>1
    <3>2. CASE c.request = None
      BY <2>3, <3>2, NoQueue
    <3> QED BY <3>1, <3>2, ClientFields
  <2>5. Shown(d)
    BY <2>1, <2>2, <2>3, <2>4 DEF Shown
  <2>6. \A x \in Ask : Has(d, x) <=> Has(c, x) /\ x # r
    BY <1>3, <2>1, <2>2 DEF Has
  <2> QED BY <1>1, <2>5, <2>6 DEF d
<1>4. CASE c.request = r
  <2>1. d.pending = None /\ (c.pending = r \/ c.pending = None)
    BY <1>1, <1>4 DEF Shown
  <2>2. CASE c.queue = <<>>
    <3>1. d.request = None /\ d.queue = <<>>
      BY <1>1, <1>4, <2>2
    <3>2. Shown(d)
      BY <2>1, <3>1, NoQueue DEF Shown
    <3>3. \A x \in Ask : Has(d, x) <=> Has(c, x) /\ x # r
      BY <1>4, <2>1, <2>2, <3>1, NoQueue, NoneIsNoAsk DEF Has
    <3> QED BY <1>1, <3>2, <3>3 DEF d
  <2>3. CASE c.queue # <<>>
    <3> DEFINE z == Tail(c.queue)
               h == Head(c.queue)
    <3>1. d.request = h /\ d.queue = z
      BY <1>1, <1>4, <2>3
    <3>2. /\ Distinct(z) /\ h \in Ask /\ \A x \in Ask : In(z, x) <=> In(c.queue, x) /\ x # h
          /\ In(c.queue, h) /\ ~In(z, h)
      BY <1>2, <2>3, TailQueue
    <3> HIDE DEF z, h
    <3>3. Shown(d)
      BY <2>1, <3>1, <3>2, NoneIsNoAsk DEF Shown
    <3>4. \A x \in Ask : Has(d, x) <=> Has(c, x) /\ x # r
      BY <1>2, <1>4, <2>1, <3>1, <3>2, NoneIsNoAsk DEF Has
    <3> QED BY <1>1, <3>3, <3>4 DEF d
  <2> QED BY <2>2, <2>3
<1> QED BY <1>3, <1>4

(* A frame that says nothing of questions.                                                 *)
LEMMA OtherAsks ==
  ASSUME NEW c \in Client, NEW f \in HostFrame,
         f.t \notin {"welcome", "ui-request", "ui-request-end"}
  PROVE  SameAsks(c, Applied(c, f))
<1>1. Fits(c)
  BY ClientFields
<1>2. CASE f.t = "gateway-health-pong"
  <2>1. Applied(c, f) = [c EXCEPT !.probes = TRUE] \/ Applied(c, f) = c
    BY <1>2, AppliedIs
  <2> QED BY <1>1, <2>1, PongIs DEF SameAsks
<1>3. CASE f.t \in {"bye", "error"} \/ (f.t = "snapshot-chunk" /\ c.snapshot = None)
  BY <1>3, AppliedIs DEF SameAsks
<1>4. CASE f.t = "snapshot-chunk" /\ c.snapshot # None
  <2> DEFINE d == OnChunk(c, f.entry, f.final)
  <2>1. c.snapshot \in Snapshot /\ f.entry \in Number /\ f.final \in BOOLEAN
    BY <1>4, ClientFields, HostFrames
  <2>2. SameAsks(c, d)
    BY <1>1, <2>1, OnChunkIs
  <2>3. Applied(c, f) = d
    BY <1>4, AppliedIs
  <2> HIDE DEF d
  <2> QED BY <2>2, <2>3
<1>5. CASE f.t = "entry"
  <2> DEFINE d == OnEntry(c, f.entry)
  <2>1. c.snapshot \in Snapshot \cup {None} /\ f.entry \in Number
    BY <1>5, ClientFields, HostFrames
  <2>2. SameAsks(c, d)
    BY <1>1, <2>1, OnEntryIs
  <2>3. Applied(c, f) = d
    BY <1>5, AppliedIs
  <2> HIDE DEF d
  <2> QED BY <2>2, <2>3
<1> QED BY <1>2, <1>3, <1>4, <1>5, HostFrames

-----------------------------------------------------------------------------
(* Nothing is known, settled or on its way of a question that has not been asked.          *)

Upto(S, A) == {f \in S : f.t \in {"ui-request", "ui-request-end", "ui-response"} => f.req \in A}

ClientAsked(c, A) == \A r \in Ask : Has(c, r) => r \in A

SocketAsked(s, wire, A) ==
  /\ s.tasks \in Seq(Upto(GuestFrame, A)) /\ s.held \in Seq(Upto(GuestFrame, A))
  /\ wire \in Seq(Upto(GuestFrame, A))

AskedHolds ==
  LET A == 1 .. host.asked
  IN /\ Shown(client) /\ ClientAsked(client, A) /\ host.settled \subseteq A
     /\ net.down \in Seq(Upto(HostFrame, A)) /\ SocketAsked(socket, net.wire, A)

LEMMA UptoGrows ==
  ASSUME NEW S, NEW A, NEW B, A \subseteq B, NEW s \in Seq(Upto(S, A))
  PROVE  s \in Seq(Upto(S, B))
<1>1. Upto(S, A) \subseteq Upto(S, B)
  BY DEF Upto
<1> HIDE DEF Upto
<1> QED BY <1>1

LEMMA SealedAsked ==
  ASSUME NEW A, NEW s, FitSocket(s), s.tasks # <<>>, NEW wire, SocketAsked(s, wire, A)
  PROVE  SocketAsked(Sealed(s, Head(s.tasks)), wire \o Emitted(s, Head(s.tasks)), A)
<1> DEFINE G == Upto(GuestFrame, A)
           f == Head(s.tasks)
           d == Sealed(s, f)
           out == Emitted(s, f)
<1>1. s.tasks \in Seq(G) /\ s.held \in Seq(G) /\ wire \in Seq(G)
  BY DEF SocketAsked
<1> HIDE DEF G
<1>2. f \in G /\ Tail(s.tasks) \in Seq(G)
  BY <1>1, TailIs
<1>3. d.tasks = Tail(s.tasks) /\ d.held \in {<<>>, Append(s.held, f), s.held}
  BY SealedFits
<1> HIDE DEF f, d
<1>4. <<>> \in Seq(G) /\ Append(s.held, f) \in Seq(G) /\ <<f>> \in Seq(G)
  BY <1>1, <1>2
<1>5. <<f>> \o s.held \in Seq(G)
  BY <1>1, <1>4
<1>6. out \in Seq(G)
  BY <1>4, <1>5 DEF Emitted
<1> HIDE DEF out
<1>7. wire \o out \in Seq(G)
  BY <1>1, <1>6
<1> QED BY <1>1, <1>2, <1>3, <1>4, <1>7 DEF SocketAsked, G, f, d, out

LEMMA FrameAsked ==
  ASSUME NEW A, NEW f \in AppFrame, f.t = "ui-response" => f.req \in A
  PROVE  f \in Upto(GuestFrame, A)
BY GuestFrames DEF Upto

LEMMA TasksAsked ==
  ASSUME NEW A, NEW s, NEW wire, SocketAsked(s, wire, A), NEW q \in Seq(Upto(GuestFrame, A)),
         NEW d, d.tasks = s.tasks \o q, d.held = s.held
  PROVE  SocketAsked(d, wire, A)
<1>1. s.tasks \o q \in Seq(Upto(GuestFrame, A))
  <2> HIDE DEF Upto
  <2> QED BY DEF SocketAsked
<1> QED BY <1>1 DEF SocketAsked

LEMMA QueuedAsked ==
  ASSUME NEW A, NEW s, FitSocket(s), NEW wire, SocketAsked(s, wire, A),
         NEW f \in Upto(GuestFrame, A)
  PROVE  SocketAsked(Queued(s, f), wire, A)
<1> DEFINE d == Queued(s, f)
<1>1. d.tasks = Append(s.tasks, f) /\ d.held = s.held
  BY QueuedIs
<1> HIDE DEF d
<1>2. Append(s.tasks, f) \in Seq(Upto(GuestFrame, A))
  <2> HIDE DEF Upto
  <2> QED BY DEF SocketAsked
<1>3. SocketAsked(d, wire, A)
  BY <1>1, <1>2 DEF SocketAsked
<1> QED BY <1>3 DEF d

LEMMA PlaysAsked ==
  ASSUME Typed, Plays, NEW A, SocketAsked(socket, net.wire, A), ClientAsked(client, A),
         ClientAsked(client', A)
  PROVE  SocketAsked(socket', net'.wire, A)
<1>1. FitSocket(socket)
  BY TypedParts
<1>2. CASE GivenUp /\ Cuts
  <2>1. <<>> \in Seq(Upto(GuestFrame, A))
    OBVIOUS
  <2> QED BY <1>2, <2>1, NewNet DEF GivenUp, SocketAsked
<1>3. CASE Elsewhere
  BY <1>3 DEF Elsewhere
<1>4. CASE socket' = Queued(Opened(socket), Hello) /\ socket.ws = "connecting" /\ net' = net
  <2> DEFINE o == Opened(socket)
  <2>1. FitSocket(o) /\ o.held = socket.held /\ o.tasks = socket.tasks
    BY <1>1, OpenedIs
  <2> HIDE DEF o
  <2>2. SocketAsked(o, net.wire, A)
    BY <2>1 DEF SocketAsked
  <2>3. Hello \in Upto(GuestFrame, A)
    BY GuestFrames DEF Upto
  <2>4. SocketAsked(Queued(o, Hello), net.wire, A)
    BY <2>1, <2>2, <2>3, QueuedAsked
  <2> QED BY <1>4, <2>4 DEF o
<1>5. CASE socket' = Retried(socket) /\ socket.retry /\ net' = net
  BY <1>1, <1>5, RetriedFits DEF SocketAsked
<1>6. CASE /\ socket.tasks # <<>> /\ socket' = Sealed(socket, Head(socket.tasks))
           /\ net'.wire = net.wire \o Emitted(socket, Head(socket.tasks))
  BY <1>1, <1>6, SealedAsked
<1>7. CASE Answered /\ client' \in Client
  <2>1. PICK s, q : /\ s \in {socket, Welcomed(socket)} /\ q \in Seq(AppFrame)
                    /\ q = <<>> \/ (client'.pending \in Ask /\ q = <<Answer(client'.pending)>>)
                    /\ socket' = [s EXCEPT !.tasks = @ \o q]
                    /\ net'.wire = net.wire
    BY <1>7 DEF Answered
  <2>2. FitSocket(s) /\ s.tasks = socket.tasks /\ s.held = socket.held
    BY <1>1, <2>1, WelcomedFits
  <2>3. q \in Seq(Upto(GuestFrame, A))
    <3>1. CASE q = <<>>
      BY <3>1
    <3>2. CASE client'.pending \in Ask /\ q = <<Answer(client'.pending)>>
      <4> DEFINE a == Answer(client'.pending)
      <4>1. client'.pending \in A
        BY <3>2 DEF ClientAsked, Has
      <4>2. a \in AppFrame /\ a.req = client'.pending
        BY <3>2, GuestFrames
      <4>3. a \in Upto(GuestFrame, A)
        BY <4>1, <4>2, FrameAsked
      <4> HIDE DEF a, Upto
      <4>4. <<a>> \in Seq(Upto(GuestFrame, A))
        BY <4>3
      <4> QED BY <3>2, <4>4 DEF a
    <3> QED BY <2>1, <3>1, <3>2
  <2>4. socket'.tasks = s.tasks \o q /\ socket'.held = s.held
    <3>1. FitSocket(s) /\ q \in Seq(AppFrame) /\ socket' = [s EXCEPT !.tasks = @ \o q]
      BY <2>1, <2>2
    <3> QED BY <3>1, TasksGrow
  <2>5. SocketAsked(s, net.wire, A)
    BY <2>2 DEF SocketAsked
  <2>6. SocketAsked(socket', net.wire, A)
    BY <2>3, <2>4, <2>5, TasksAsked
  <2> QED BY <2>1, <2>6
<1>8. ASSUME NEW f \in AppFrame, socket' = Queued(socket, f), net' = net,
             f.t = "ui-response" => f.req = client.request
      PROVE  SocketAsked(socket', net'.wire, A)
  <2>1. f.t = "ui-response" => f.req \in A
    BY <1>8, GuestFrames DEF ClientAsked, Has
  <2>2. f \in Upto(GuestFrame, A)
    BY <2>1, FrameAsked
  <2> QED BY <1>1, <1>8, <2>2, QueuedAsked
<1> QED BY <1>2, <1>3, <1>4, <1>5, <1>6, <1>7, <1>8 DEF Plays

LEMMA AppliedAsked ==
  ASSUME NEW c \in Client, Shown(c), NEW A, ClientAsked(c, A), NEW f \in Upto(HostFrame, A)
  PROVE  Shown(Applied(c, f)) /\ ClientAsked(Applied(c, f), A)
<1> DEFINE d == Applied(c, f)
<1>1. /\ f \in HostFrame
      /\ f.t \in {"ui-request", "ui-request-end"} => f.req \in A /\ f.req \in Ask
  BY HostFrames DEF Upto
<1>2. CASE f.t = "welcome"
  <2> DEFINE w == OnWelcome(c, f.count)
  <2>1. Shown(w) /\ \A x \in Ask : Has(w, x) <=> x = c.pending
    BY WelcomeAsks
  <2>2. d = w
    BY <1>1, <1>2, AppliedIs
  <2> HIDE DEF w, d
  <2> QED BY <2>1, <2>2 DEF ClientAsked, Has, d
<1>3. CASE f.t = "ui-request"
  <2> DEFINE w == OnRequest(c, f.req)
  <2>1. Shown(w) /\ \A x \in Ask : Has(w, x) <=> Has(c, x) \/ x = f.req
    BY <1>1, <1>3, RequestAsks
  <2>2. d = w
    BY <1>1, <1>3, AppliedIs
  <2> HIDE DEF w, d
  <2> QED BY <1>1, <1>3, <2>1, <2>2 DEF ClientAsked, d
<1>4. CASE f.t = "ui-request-end"
  <2> DEFINE w == OnRequestEnd(c, f.req)
  <2>1. Shown(w) /\ \A x \in Ask : Has(w, x) <=> Has(c, x) /\ x # f.req
    BY <1>1, <1>4, RequestEndAsks
  <2>2. d = w
    BY <1>1, <1>4, AppliedIs
  <2> HIDE DEF w, d
  <2> QED BY <2>1, <2>2 DEF ClientAsked, d
<1>5. CASE f.t \notin {"welcome", "ui-request", "ui-request-end"}
  <2>1. SameAsks(c, d)
    BY <1>1, <1>5, OtherAsks
  <2> HIDE DEF d
  <2> QED BY <2>1, SameAsksKeeps DEF ClientAsked, d
<1> QED BY <1>2, <1>3, <1>4, <1>5

(* What a step makes of the client, but for a frame it takes.                                *)
LEMMA ClientSteps ==
  ASSUME Typed, Shown(client), client' = client \/ Cuts \/ Joins \/ Responds
  PROVE  /\ Shown(client') /\ \A x \in Ask : Has(client', x) => Has(client, x)
         /\ Cuts \/ SameAsks(client, client') \/ Responds
<1>1. client \in Client /\ Fits(client)
  BY ScriptParts, ClientFields
<1>2. CASE client' = client
  BY <1>2 DEF SameAsks
<1>3. CASE Cuts
  <2>1. CASE client' = Dropped(client)
    <3>1. SameAsks(client, client')
      BY <1>1, <2>1, DroppedIs
    <3> QED BY <1>3, <3>1, SameAsksKeeps
  <2>2. CASE client' = Finished(client)
    <3>1. client'.request = None /\ client'.queue = <<>> /\ client'.pending = None
      BY <1>1, <2>2, FinishedIs
    <3> QED BY <1>3, <3>1, NoQueue, NoneIsNoAsk DEF Shown, Has
  <2> QED BY <1>3, <2>1, <2>2 DEF Cuts
<1>4. CASE Joins
  <2>1. SameAsks(client, client')
    BY <1>1, <1>4, ConnectedIs DEF Joins
  <2> QED BY <2>1, SameAsksKeeps
<1>5. CASE Responds
  <2>1. /\ client'.request = client.request /\ client'.queue = client.queue
        /\ client'.pending = client.request
    BY <1>1, <1>5, PendingIs DEF Responds
  <2> QED BY <1>5, <2>1 DEF Shown, Has
<1> QED BY <1>2, <1>3, <1>4, <1>5

(* What the host says of questions that have been asked.                                       *)
LEMMA SaysAsked ==
  ASSUME NEW s, NEW A, s \in Seq(Upto(HostFrame, A)), NEW q \in Seq(HostFrame),
         \A k \in 1 .. Len(q) :
           q[k].t \in {"ui-request", "ui-request-end", "ui-response"} => q[k].req \in A
  PROVE  s \o q \in Seq(Upto(HostFrame, A))
<1>1. \A k \in 1 .. Len(q) : q[k] \in Upto(HostFrame, A)
  BY DEF Upto
<1> HIDE DEF Upto
<1>2. q \in Seq(Upto(HostFrame, A))
  BY <1>1
<1> QED BY <1>2

LEMMA OpeningAsked ==
  ASSUME Typed
  PROVE  LET q == <<Welcome(host.log)>> \o SetToSeq(OpenRequests) \o AfterSnapshot(host.log)
         IN /\ q \in Seq(HostFrame) /\ q # <<>> /\ q[1].t = "welcome"
            /\ \A k \in 1 .. Len(q) : /\ q[k].t # "ui-request-end" /\ q[k].t # "ui-response"
                                      /\ q[k].t = "ui-request" => q[k].req \in Opens
            /\ \A r \in Opens : \E k \in 1 .. Len(q) : q[k] = Request(r)
<1> DEFINE w == Welcome(host.log)
           s == SetToSeq(OpenRequests)
           a == AfterSnapshot(host.log)
           q == <<w>> \o s \o a
<1>1. w \in HostFrame /\ w.t = "welcome"
  BY TypedParts, HostFields, HostSays
<1>2. /\ s \in Seq(OpenRequests) /\ OpenRequests \subseteq HostFrame
      /\ \A e \in OpenRequests : \E i \in 1 .. Len(s) : s[i] = e
  BY OpensAre, SetToSeqIs
<1>3. \A f \in OpenRequests : f.t = "ui-request" /\ f.req \in Opens
  BY OpensAre, HostSays DEF OpenRequests
<1>4. a \in Seq({Pong}) /\ Pong \in HostFrame /\ Pong.t = "gateway-health-pong"
  <2>1. <<>> \in Seq({Pong}) /\ <<Pong>> \in Seq({Pong})
    OBVIOUS
  <2> QED BY <2>1, HostSays DEF AfterSnapshot
<1> HIDE DEF w, s, a
<1>5. s \in Seq(HostFrame) /\ a \in Seq(HostFrame) /\ <<w>> \in Seq(HostFrame)
  BY <1>1, <1>2, <1>4
<1>6. q \in Seq(HostFrame) /\ q[1] = w /\ Len(q) = 1 + Len(s) + Len(a) /\ q # <<>>
  BY <1>5
<1>7. ASSUME NEW k \in 1 .. Len(q)
      PROVE  /\ q[k].t # "ui-request-end" /\ q[k].t # "ui-response"
             /\ q[k].t = "ui-request" => q[k].req \in Opens
  <2>1. CASE k = 1
    BY <1>1, <1>6, <2>1
  <2>2. CASE k # 1 /\ k <= 1 + Len(s)
    <3>1. k - 1 \in 1 .. Len(s) /\ q[k] = s[k - 1]
      BY <1>5, <1>6, <2>2
    <3>2. s[k - 1] \in OpenRequests
      BY <1>2, <3>1
    <3> QED BY <1>3, <3>1, <3>2
  <2>3. CASE ~(k <= 1 + Len(s))
    <3>1. k - 1 - Len(s) \in 1 .. Len(a) /\ q[k] = a[k - 1 - Len(s)]
      BY <1>5, <1>6, <2>3
    <3>2. a[k - 1 - Len(s)] = Pong
      BY <1>4, <3>1
    <3> QED BY <1>4, <3>1, <3>2
  <2> QED BY <2>1, <2>2, <2>3
<1>8. ASSUME NEW r \in Opens PROVE \E k \in 1 .. Len(q) : q[k] = Request(r)
  <2>1. PICK i \in 1 .. Len(s) : s[i] = Request(r)
    BY <1>2 DEF OpenRequests
  <2>2. i + 1 \in 1 .. Len(q) /\ q[i + 1] = s[i]
    BY <1>5, <1>6
  <2> HIDE DEF q
  <2> QED BY <2>1, <2>2
<1> HIDE DEF q
<1> QED BY <1>1, <1>6, <1>7, <1>8 DEF q, w, s, a

LEMMA GrownAsked ==
  ASSUME NEW s, NEW wire, NEW A, NEW B, A \subseteq B, SocketAsked(s, wire, A)
  PROVE  SocketAsked(s, wire, B)
BY UptoGrows DEF SocketAsked

(* What a step of the session makes of it, but for its socket.                              *)
AskedApart(c, settled, down, A) ==
  /\ Shown(c) /\ ClientAsked(c, A) /\ settled \subseteq A
  /\ down \in Seq(Upto(HostFrame, A))

LEMMA QuietAsked ==
  ASSUME Typed, NEW A, AskedApart(client, host.settled, net.down, A),
         Cuts \/ Joins \/ Stays \/ Responds \/ Takes
  PROVE  host'.asked = host.asked /\ AskedApart(client', host'.settled, net'.down, A)
<1>1. host'.asked = host.asked /\ host'.settled = host.settled
  BY DEF Cuts, Joins, Stays, Responds, Takes, SameHost, HostIs
<1>2. CASE Cuts \/ Joins \/ Stays \/ Responds
  <2>1. Shown(client') /\ \A x \in Ask : Has(client', x) => Has(client, x)
    BY <1>2, ClientSteps DEF Stays, AskedApart
  <2>2. ClientAsked(client', A)
    BY <2>1 DEF AskedApart, ClientAsked
  <2>3. net'.down = net.down \/ net'.down = <<>>
    BY <1>2 DEF Cuts, Joins, Stays, Responds, SameDown
  <2>4. <<>> \in Seq(Upto(HostFrame, A))
    OBVIOUS
  <2>5. net'.down \in Seq(Upto(HostFrame, A))
    BY <2>3, <2>4 DEF AskedApart
  <2> QED BY <1>1, <2>1, <2>2, <2>5 DEF AskedApart
<1>3. CASE Takes
  <2> DEFINE U == Upto(HostFrame, A)
             f == Head(net.down)
  <2>1. net.down \in Seq(U) /\ net.down # <<>>
    BY <1>3 DEF AskedApart, Takes
  <2> HIDE DEF U
  <2>2. f \in U /\ Tail(net.down) \in Seq(U)
    BY <2>1, TailIs
  <2>3. Shown(Applied(client, f)) /\ ClientAsked(Applied(client, f), A)
    <3> HIDE DEF f
    <3> QED BY <2>2, TypedParts, AppliedAsked DEF AskedApart, U
  <2>4. client' = Applied(client, f) /\ net'.down = Tail(net.down)
    BY <1>3 DEF Takes
  <2> HIDE DEF f
  <2> QED BY <1>1, <2>2, <2>3, <2>4 DEF AskedApart, U
<1> QED BY <1>2, <1>3

(* The host says frames of questions that have been asked.                                  *)
LEMMA SaidAsked ==
  ASSUME Typed, NEW A, NEW B, AskedApart(client, host.settled, net.down, A), A \subseteq B,
         NEW q \in Seq(HostFrame), Says(q),
         host'.settled \subseteq B,
         \A k \in 1 .. Len(q) :
           q[k].t \in {"ui-request", "ui-request-end", "ui-response"} => q[k].req \in B
  PROVE  AskedApart(client', host'.settled, net'.down, B)
<1>1. net.down \in Seq(Upto(HostFrame, B))
  BY UptoGrows DEF AskedApart
<1>2. net.down \o q \in Seq(Upto(HostFrame, B))
  BY <1>1, SaysAsked
<1>3. client' = client /\ net'.down = net.down \o q
  BY DEF Says
<1>4. ClientAsked(client, B)
  BY DEF ClientAsked, AskedApart
<1> QED BY <1>2, <1>3, <1>4 DEF AskedApart

LEMMA SaysOneAsked ==
  ASSUME Typed, NEW A, NEW B, AskedApart(client, host.settled, net.down, A), A \subseteq B,
         NEW f \in HostFrame,
         NEW b \in BOOLEAN, Says(IF b THEN <<f>> ELSE <<>>), host'.settled \subseteq B,
         f.t \in {"ui-request", "ui-request-end"} => f.req \in B
  PROVE  AskedApart(client', host'.settled, net'.down, B)
<1>1. f.t # "ui-response"
  BY HostFrames
<1>2. CASE b
  <2> DEFINE q == <<f>>
  <2>1. q \in Seq(HostFrame) /\ Says(q) /\ \A k \in 1 .. Len(q) : q[k] = f
    BY <1>2
  <2> HIDE DEF q
  <2> QED BY <1>1, <2>1, SaidAsked
<1>3. CASE ~b
  <2> DEFINE q == <<>>
  <2>1. q \in Seq(HostFrame) /\ Says(q) /\ \A k \in 1 .. Len(q) : FALSE
    BY <1>3
  <2> HIDE DEF q
  <2> QED BY <2>1, SaidAsked
<1> QED BY <1>2, <1>3

LEMMA AskedGrows ==
  ASSUME Typed
  PROVE  /\ host.asked \in Nat /\ Opens \subseteq 1 .. host.asked
         /\ 1 .. host.asked \subseteq 1 .. host.asked + 1
         /\ host.asked + 1 \in 1 .. host.asked + 1
<1>1. host.asked \in Nat
  BY TypedParts, HostFields, GuestAssumption
<1> QED BY <1>1 DEF Opens

LEMMA MovesAsked ==
  ASSUME Typed, AskedHolds, Moves
  PROVE  /\ 1 .. host.asked \subseteq 1 .. host'.asked
         /\ AskedApart(client', host'.settled, net'.down, 1 .. host'.asked)
<1> DEFINE A == 1 .. host.asked
<1>1. AskedApart(client, host.settled, net.down, A) /\ SocketAsked(socket, net.wire, A)
  BY DEF AskedHolds, AskedApart
<1>2. CASE Cuts \/ Joins \/ Stays \/ Responds \/ Takes
  <2> HIDE DEF A
  <2>1. host'.asked = host.asked /\ AskedApart(client', host'.settled, net'.down, A)
    BY <1>1, <1>2, QuietAsked
  <2> QED BY <2>1 DEF A, AskedApart
<1>3. ASSUME host'.asked = host.asked, AskedApart(client', host'.settled, net'.down, A)
      PROVE  /\ 1 .. host.asked \subseteq 1 .. host'.asked
             /\ AskedApart(client', host'.settled, net'.down, 1 .. host'.asked)
  BY <1>3 DEF AskedApart
<1>4. host.welcomed \in BOOLEAN /\ TRUE \in BOOLEAN /\ host.settled \subseteq A
  BY <1>1, ScriptParts DEF AskedApart
<1>5. CASE Greeted
  <2> DEFINE q == <<Welcome(host.log)>> \o SetToSeq(OpenRequests) \o AfterSnapshot(host.log)
  <2>1. /\ q \in Seq(HostFrame)
        /\ \A k \in 1 .. Len(q) : /\ q[k].t # "ui-request-end" /\ q[k].t # "ui-response"
                                  /\ q[k].t = "ui-request" => q[k].req \in Opens
    BY OpeningAsked
  <2>2. Says(q) /\ host'.asked = host.asked /\ host'.settled = host.settled
    BY <1>5 DEF Greeted, HostIs
  <2> HIDE DEF q
  <2>3. \A k \in 1 .. Len(q) :
          q[k].t \in {"ui-request", "ui-request-end", "ui-response"} => q[k].req \in A
    BY <2>1, AskedGrows
  <2>4. A \subseteq A /\ host'.settled \subseteq A
    BY <1>4, <2>2
  <2> HIDE DEF A
  <2>5. AskedApart(client', host'.settled, net'.down, A)
    BY <1>1, <2>1, <2>2, <2>3, <2>4, SaidAsked
  <2> QED BY <1>3, <2>2, <2>5
<1>6. ASSUME NEW f \in HostFrame, NEW b \in BOOLEAN, Says(IF b THEN <<f>> ELSE <<>>),
             host'.asked = host.asked, host'.settled \subseteq A,
             f.t \in {"ui-request", "ui-request-end"} => f.req \in A
      PROVE  /\ 1 .. host.asked \subseteq 1 .. host'.asked
             /\ AskedApart(client', host'.settled, net'.down, 1 .. host'.asked)
  <2>1. A \subseteq A
    OBVIOUS
  <2> HIDE DEF A
  <2>2. AskedApart(client', host'.settled, net'.down, A)
    BY <1>1, <1>6, <2>1, SaysOneAsked
  <2> QED BY <1>3, <1>6, <2>2
<1>7. CASE Refused
  <2>1. /\ Error \in HostFrame /\ Error.t = "error" /\ Says(IF TRUE THEN <<Error>> ELSE <<>>)
        /\ host'.asked = host.asked /\ host'.settled = host.settled
    BY <1>7, HostSays DEF Refused, SameHost, HostIs
  <2> HIDE DEF A
  <2> QED BY <1>4, <1>6, <2>1
<1>8. ASSUME NEW r \in Ask, Heard(r)
      PROVE  /\ 1 .. host.asked \subseteq 1 .. host'.asked
             /\ AskedApart(client', host'.settled, net'.down, 1 .. host'.asked)
  <2> DEFINE f == RequestEnd(r)
  <2>1. PICK k \in 1 .. Len(net.wire) : net.wire[k] = Answer(r)
    BY <1>8 DEF Heard
  <2>2. net.wire \in Seq(Upto(GuestFrame, A))
    BY <1>1 DEF SocketAsked
  <2>3. Answer(r) \in Upto(GuestFrame, A)
    <3> HIDE DEF Upto
    <3> QED BY <2>1, <2>2
  <2>4. r \in A
    BY <2>3, GuestFrames DEF Upto
  <2>5. /\ f \in HostFrame /\ f.req = r /\ Says(IF TRUE THEN <<f>> ELSE <<>>)
        /\ host'.asked = host.asked /\ host'.settled = host.settled \cup {r}
    BY <1>8, HostSays DEF Heard, HostIs
  <2>6. host'.settled \subseteq A
    BY <1>4, <2>4, <2>5
  <2> HIDE DEF A, f
  <2> QED BY <1>4, <1>6, <2>4, <2>5, <2>6
<1>9. CASE ChunkSent
  <2> DEFINE c == Chunk(Head(host.chunks), Len(host.chunks) = 1)
             a == AfterSnapshot(Len(host.chunks) - 1)
             q == <<c>> \o a
  <2>1. Says(q) /\ q \in Seq(HostFrame) /\ host'.asked = host.asked /\ host'.settled = host.settled
    BY <1>9 DEF ChunkSent, HostIs, Says
  <2>2. c.t = "snapshot-chunk"
    BY DEF Chunk
  <2>3. \A k \in 1 .. Len(a) : a[k].t = "gateway-health-pong"
    BY HostSays DEF AfterSnapshot
  <2>4. Len(a) \in Nat /\ a \in Seq(HostFrame) /\ c \in HostFrame
    <3>1. Head(host.chunks) \in Number
      BY <1>9, ScriptParts, TailIs DEF ChunkSent
    <3>2. (Len(host.chunks) = 1) \in BOOLEAN
      OBVIOUS
    <3>3. c \in HostFrame
      BY <3>1, <3>2, HostSays
    <3> QED BY <3>3, AfterType
  <2> HIDE DEF a, c
  <2>5. \A k \in 1 .. Len(q) : q[k] = c \/ \E j \in 1 .. Len(a) : q[k] = a[j]
    BY <2>4
  <2> HIDE DEF q
  <2>6. \A k \in 1 .. Len(q) :
          q[k].t \in {"ui-request", "ui-request-end", "ui-response"} => q[k].req \in A
    BY <2>2, <2>3, <2>5
  <2>7. A \subseteq A /\ host'.settled \subseteq A
    BY <1>4, <2>1
  <2> HIDE DEF A
  <2>8. AskedApart(client', host'.settled, net'.down, A)
    BY <1>1, <2>1, <2>6, <2>7, SaidAsked
  <2> QED BY <1>3, <2>1, <2>8
<1>10. CASE EntrySent
  <2>1. /\ Entry(host.log + 1) \in HostFrame /\ Entry(host.log + 1).t = "entry"
        /\ Says(IF host.welcomed THEN <<Entry(host.log + 1)>> ELSE <<>>)
        /\ host'.asked = host.asked /\ host'.settled = host.settled
    <3>1. host.log + 1 \in Number
      BY ScriptParts DEF Number
    <3> QED BY <1>10, <3>1, HostSays DEF EntrySent, HostIs
  <2> HIDE DEF A
  <2> QED BY <1>4, <1>6, <2>1
<1>11. CASE AskSent
  <2> DEFINE f == Request(host.asked + 1)
             B == 1 .. host.asked + 1
  <2>1. host.asked + 1 \in Ask
    BY <1>11, TypedParts, HostFields, GuestAssumption DEF AskSent, Ask
  <2>2. /\ f \in HostFrame /\ f.req = host.asked + 1 /\ Says(IF host.welcomed THEN <<f>> ELSE <<>>)
        /\ host'.asked = host.asked + 1 /\ host'.settled = host.settled
    BY <1>11, <2>1, HostSays DEF AskSent, HostIs
  <2>3. A \subseteq B /\ f.req \in B /\ host'.settled \subseteq B
    BY <1>4, <2>2, AskedGrows
  <2>4. B = 1 .. host'.asked
    BY <2>2
  <2> HIDE DEF A, B, f
  <2>5. AskedApart(client', host'.settled, net'.down, B)
    BY <1>1, <1>4, <2>2, <2>3, SaysOneAsked
  <2>6. A \subseteq 1 .. host'.asked
    BY <2>3, <2>4
  <2> QED BY <2>4, <2>5, <2>6 DEF AskedApart, A
<1>12. ASSUME NEW r \in Opens, EndSent(r)
      PROVE  /\ 1 .. host.asked \subseteq 1 .. host'.asked
             /\ AskedApart(client', host'.settled, net'.down, 1 .. host'.asked)
  <2> DEFINE f == RequestEnd(r)
  <2>1. r \in Ask /\ r \in A
    BY OpensAre, AskedGrows
  <2>2. /\ f \in HostFrame /\ f.req = r /\ Says(IF host.welcomed THEN <<f>> ELSE <<>>)
        /\ host'.asked = host.asked /\ host'.settled = host.settled \cup {r}
    BY <1>12, <2>1, HostSays DEF EndSent, HostIs
  <2>3. host'.settled \subseteq A
    BY <1>4, <2>1, <2>2
  <2> HIDE DEF A, f
  <2> QED BY <1>4, <1>6, <2>1, <2>2, <2>3
<1>13. CASE ByeSent
  <2>1. /\ Bye \in HostFrame /\ Bye.t = "bye" /\ Says(IF host.welcomed THEN <<Bye>> ELSE <<>>)
        /\ host'.asked = host.asked /\ host'.settled = host.settled
    BY <1>13, HostSays DEF ByeSent, SameHost, HostIs
  <2> HIDE DEF A
  <2> QED BY <1>4, <1>6, <2>1
<1> QED BY <1>2, <1>5, <1>7, <1>8, <1>9, <1>10, <1>11, <1>12, <1>13 DEF Moves

LEMMA AskedKeeps == Typed /\ AskedHolds /\ [Next]_vars => AskedHolds'
<1> SUFFICES ASSUME Typed, AskedHolds, [Next]_vars PROVE AskedHolds'
  OBVIOUS
<1> DEFINE A == 1 .. host.asked
           B == 1 .. host'.asked
<1>1. Moves /\ Plays
  BY StepMoves
<1>2. A \subseteq B /\ AskedApart(client', host'.settled, net'.down, B)
  BY <1>1, MovesAsked
<1>3. SocketAsked(socket, net.wire, A) /\ ClientAsked(client, A)
  BY DEF AskedHolds
<1>4. /\ Shown(client') /\ ClientAsked(client', B) /\ host'.settled \subseteq B
      /\ net'.down \in Seq(Upto(HostFrame, B))
  BY <1>2 DEF AskedApart
<1>5. ClientAsked(client, B)
  BY <1>2, <1>3 DEF ClientAsked
<1> HIDE DEF A, B
<1>6. SocketAsked(socket, net.wire, B)
  BY <1>2, <1>3, GrownAsked
<1>7. SocketAsked(socket', net'.wire, B)
  BY <1>1, <1>4, <1>5, <1>6, PlaysAsked
<1> QED BY <1>4, <1>7 DEF AskedHolds, B

LEMMA InitIsAsked == Init => AskedHolds
<1> SUFFICES ASSUME Init PROVE AskedHolds
  OBVIOUS
<1> DEFINE A == 1 .. host.asked
<1>1. /\ client.request = None /\ client.queue = <<>> /\ client.pending = None
      /\ host.settled = {} /\ net = NewTransport /\ socket = NewSocket
  BY DEF Init
<1>2. Shown(client) /\ ClientAsked(client, A)
  BY <1>1, NoQueue, NoneIsNoAsk DEF Shown, ClientAsked, Has
<1>3. /\ net.down = <<>> /\ net.wire = <<>> /\ socket.tasks = <<>> /\ socket.held = <<>>
  BY <1>1 DEF NewTransport, NewSocket
<1>4. <<>> \in Seq(Upto(GuestFrame, A)) /\ <<>> \in Seq(Upto(HostFrame, A))
  OBVIOUS
<1> HIDE DEF A
<1>5. SocketAsked(socket, net.wire, A) /\ net.down \in Seq(Upto(HostFrame, A))
  BY <1>3, <1>4 DEF SocketAsked
<1>6. host.settled \subseteq A
  BY <1>1
<1> QED BY <1>2, <1>5, <1>6 DEF AskedHolds, A

-----------------------------------------------------------------------------
(* The questions the client knows, those that are on their way and the host's.              *)

WelcomeIn(s) == \E i \in 1 .. Len(s) : s[i].t = "welcome"

(* Only a settled question is ended, and one that is settled on its way is ended behind it.   *)
Settling(s, settled) ==
  \A i \in 1 .. Len(s) :
    /\ s[i].t = "ui-request-end" => s[i].req \in settled
    /\ s[i].t = "ui-request" /\ s[i].req \in settled =>
         \E j \in 1 .. Len(s) : j > i /\ s[j] = RequestEnd(s[i].req)

(* What is open is known or on its way; once the welcome is read, what is settled and known   *)
(* ends, but for the question whose answer has not been acknowledged.                        *)
Agreed(c, s, opens, settled) ==
  /\ \A r \in opens : In(s, Request(r)) \/ (~WelcomeIn(s) /\ Has(c, r))
  /\ ~WelcomeIn(s) => \A r \in settled : Has(c, r) /\ r # c.pending => In(s, RequestEnd(r))

QuestionsHold ==
  /\ Settling(net.down, host.settled)
  /\ host.welcomed => Agreed(client, net.down, Opens, host.settled)

(* What remains on its way when the first frame is taken.                                    *)
LEMMA InTail ==
  ASSUME NEW S, NEW s \in Seq(S), s # <<>>, NEW f
  PROVE  /\ In(Tail(s), f) => In(s, f)
         /\ In(s, f) /\ f # Head(s) => In(Tail(s), f)
<1> DEFINE z == Tail(s)
           n == Len(s)
           h == Head(s)
<1>1. /\ n \in Nat \ {0} /\ h = s[1] /\ Len(z) = n - 1
      /\ \A i \in 1 .. n - 1 : z[i] = s[i + 1]
  BY TailIs
<1> HIDE DEF z, h
<1>2. ASSUME In(z, f) PROVE In(s, f)
  <2>1. PICK i \in 1 .. n - 1 : z[i] = f
    BY <1>1, <1>2 DEF In
  <2>2. i + 1 \in 1 .. n /\ s[i + 1] = f
    BY <1>1, <2>1
  <2> QED BY <2>2 DEF In
<1>3. ASSUME In(s, f), f # h PROVE In(z, f)
  <2>1. PICK i \in 1 .. n : s[i] = f
    BY <1>3 DEF In
  <2>2. i - 1 \in 1 .. n - 1 /\ i - 1 + 1 = i
    BY <1>1, <1>3, <2>1
  <2>3. z[i - 1] = f
    BY <1>1, <2>1, <2>2
  <2> QED BY <1>1, <2>2, <2>3 DEF In
<1> QED BY <1>2, <1>3 DEF z, h

LEMMA WelcomeInTail ==
  ASSUME NEW S, NEW s \in Seq(S), s # <<>>
  PROVE  /\ WelcomeIn(Tail(s)) => WelcomeIn(s)
         /\ Head(s).t = "welcome" => WelcomeIn(s)
         /\ WelcomeIn(s) /\ Head(s).t # "welcome" => WelcomeIn(Tail(s))
<1> DEFINE z == Tail(s)
           n == Len(s)
           h == Head(s)
<1>1. /\ n \in Nat \ {0} /\ h = s[1] /\ Len(z) = n - 1
      /\ \A i \in 1 .. n - 1 : z[i] = s[i + 1]
  BY TailIs
<1> HIDE DEF z, h
<1>2. ASSUME WelcomeIn(z) PROVE WelcomeIn(s)
  <2>1. PICK i \in 1 .. n - 1 : z[i].t = "welcome"
    BY <1>1, <1>2 DEF WelcomeIn
  <2>2. i + 1 \in 1 .. n /\ s[i + 1].t = "welcome"
    BY <1>1, <2>1
  <2> QED BY <2>2 DEF WelcomeIn
<1>3. ASSUME WelcomeIn(s), h.t # "welcome" PROVE WelcomeIn(z)
  <2>1. PICK i \in 1 .. n : s[i].t = "welcome"
    BY <1>3 DEF WelcomeIn
  <2>2. i - 1 \in 1 .. n - 1 /\ i - 1 + 1 = i
    BY <1>1, <1>3, <2>1
  <2>3. z[i - 1].t = "welcome"
    BY <1>1, <2>1, <2>2
  <2> QED BY <1>1, <2>2, <2>3 DEF WelcomeIn
<1>4. ASSUME h.t = "welcome" PROVE WelcomeIn(s)
  <2>1. 1 \in 1 .. n
    BY <1>1
  <2> QED BY <1>1, <1>4, <2>1 DEF WelcomeIn
<1> QED BY <1>2, <1>3, <1>4 DEF z, h

LEMMA SettlingTail ==
  ASSUME NEW S, NEW s \in Seq(S), s # <<>>, NEW settled, Settling(s, settled)
  PROVE  /\ Settling(Tail(s), settled)
         /\ Head(s).t = "ui-request-end" => Head(s).req \in settled
         /\ Head(s).t = "ui-request" /\ Head(s).req \in settled =>
              In(Tail(s), RequestEnd(Head(s).req))
<1> DEFINE z == Tail(s)
           n == Len(s)
           h == Head(s)
<1>1. /\ n \in Nat \ {0} /\ h = s[1] /\ Len(z) = n - 1
      /\ \A i \in 1 .. n - 1 : z[i] = s[i + 1]
  BY TailIs
<1> HIDE DEF z, h
<1>2. ASSUME NEW i \in 1 .. n, s[i].t = "ui-request", s[i].req \in settled
      PROVE  \E j \in 1 .. n - 1 : j > i - 1 /\ z[j] = RequestEnd(s[i].req)
  <2>1. PICK j \in 1 .. n : j > i /\ s[j] = RequestEnd(s[i].req)
    BY <1>2 DEF Settling
  <2>2. j - 1 \in 1 .. n - 1 /\ j - 1 > i - 1 /\ j - 1 + 1 = j
    BY <1>1, <2>1
  <2>3. z[j - 1] = RequestEnd(s[i].req)
    BY <1>1, <2>1, <2>2
  <2> QED BY <2>2, <2>3
<1>3. Settling(z, settled)
  <2> SUFFICES ASSUME NEW i \in 1 .. n - 1
               PROVE  /\ z[i].t = "ui-request-end" => z[i].req \in settled
                      /\ z[i].t = "ui-request" /\ z[i].req \in settled =>
                           \E j \in 1 .. n - 1 : j > i /\ z[j] = RequestEnd(z[i].req)
    BY <1>1 DEF Settling
  <2>1. i + 1 \in 1 .. n /\ z[i] = s[i + 1] /\ i + 1 - 1 = i
    BY <1>1
  <2>2. s[i + 1].t = "ui-request-end" => s[i + 1].req \in settled
    BY <2>1 DEF Settling
  <2> QED BY <1>2, <2>1, <2>2
<1>4. 1 \in 1 .. n
  BY <1>1
<1>5. h.t = "ui-request-end" => h.req \in settled
  BY <1>1, <1>4 DEF Settling
<1>6. h.t = "ui-request" /\ h.req \in settled => In(z, RequestEnd(h.req))
  <2>1. ASSUME h.t = "ui-request", h.req \in settled
        PROVE  \E j \in 1 .. n - 1 : z[j] = RequestEnd(h.req)
    BY <1>1, <1>2, <1>4, <2>1
  <2> QED BY <1>1, <2>1 DEF In
<1> QED BY <1>3, <1>5, <1>6 DEF z, h

(* What is on its way when frames are added.                                                 *)
LEMMA InThen ==
  ASSUME NEW S, NEW s \in Seq(S), NEW q \in Seq(S), NEW f
  PROVE  In(Then(s, q), f) <=> In(s, f) \/ In(q, f)
<1> DEFINE z == Then(s, q)
<1>1. /\ z \in Seq(S) /\ Len(z) = Len(s) + Len(q)
      /\ \A i \in 1 .. Len(s) : z[i] = s[i]
      /\ \A i \in 1 .. Len(z) :
           i \in 1 .. Len(s) \/ \E k \in 1 .. Len(q) : i = Len(s) + k /\ z[i] = q[k]
      /\ \A k \in 1 .. Len(q) : Len(s) + k \in 1 .. Len(z) /\ z[Len(s) + k] = q[k]
  BY ThenIs
<1>2. \A i \in 1 .. Len(s) : i \in 1 .. Len(z)
  BY <1>1
<1> HIDE DEF z
<1>3. In(z, f) => In(s, f) \/ In(q, f)
  BY <1>1 DEF In
<1>4. In(s, f) => In(z, f)
  BY <1>1, <1>2 DEF In
<1>5. In(q, f) => In(z, f)
  BY <1>1 DEF In
<1> QED BY <1>3, <1>4, <1>5 DEF z

LEMMA WelcomeInThen ==
  ASSUME NEW S, NEW s \in Seq(S), NEW q \in Seq(S)
  PROVE  WelcomeIn(Then(s, q)) <=> WelcomeIn(s) \/ WelcomeIn(q)
<1> DEFINE z == Then(s, q)
<1>1. /\ z \in Seq(S) /\ Len(z) = Len(s) + Len(q)
      /\ \A i \in 1 .. Len(s) : z[i] = s[i]
      /\ \A i \in 1 .. Len(z) :
           i \in 1 .. Len(s) \/ \E k \in 1 .. Len(q) : i = Len(s) + k /\ z[i] = q[k]
      /\ \A k \in 1 .. Len(q) : Len(s) + k \in 1 .. Len(z) /\ z[Len(s) + k] = q[k]
  BY ThenIs
<1>2. \A i \in 1 .. Len(s) : i \in 1 .. Len(z)
  BY <1>1
<1> HIDE DEF z
<1>3. ASSUME WelcomeIn(z) PROVE WelcomeIn(s) \/ WelcomeIn(q)
  <2>1. PICK i \in 1 .. Len(z) : z[i].t = "welcome"
    BY <1>3 DEF WelcomeIn
  <2>2. CASE i \in 1 .. Len(s)
    <3>1. z[i] = s[i]
      BY <1>1, <2>2
    <3> QED BY <2>1, <2>2, <3>1 DEF WelcomeIn
  <2>3. CASE \E k \in 1 .. Len(q) : i = Len(s) + k /\ z[i] = q[k]
    BY <2>1, <2>3 DEF WelcomeIn
  <2> QED BY <1>1, <2>1, <2>2, <2>3
<1>4. ASSUME WelcomeIn(s) PROVE WelcomeIn(z)
  <2>1. PICK i \in 1 .. Len(s) : s[i].t = "welcome"
    BY <1>4 DEF WelcomeIn
  <2>2. i \in 1 .. Len(z) /\ z[i] = s[i]
    BY <1>1, <1>2, <2>1
  <2> QED BY <2>1, <2>2 DEF WelcomeIn
<1>5. ASSUME WelcomeIn(q) PROVE WelcomeIn(z)
  <2>1. PICK k \in 1 .. Len(q) : q[k].t = "welcome"
    BY <1>5 DEF WelcomeIn
  <2>2. Len(s) + k \in 1 .. Len(z) /\ z[Len(s) + k] = q[k]
    BY <1>1, <2>1
  <2> QED BY <2>1, <2>2 DEF WelcomeIn
<1> QED BY <1>3, <1>4, <1>5 DEF z

(* Frames are added: the ends of questions that are now settled, and questions that are not.   *)
Adds(q, s, settled, now) ==
  /\ settled \subseteq now
  /\ \A k \in 1 .. Len(q) : /\ q[k].t = "ui-request-end" => q[k].req \in now
                            /\ q[k].t = "ui-request" => q[k].req \notin now
  /\ \A i \in 1 .. Len(s) :
       s[i].t = "ui-request" /\ s[i].req \in now =>
         s[i].req \in settled \/ In(q, RequestEnd(s[i].req))

LEMMA SettlingThen ==
  ASSUME NEW S, NEW s \in Seq(S), NEW q \in Seq(S), NEW settled, NEW now,
         Settling(s, settled), Adds(q, s, settled, now)
  PROVE  Settling(Then(s, q), now)
<1> DEFINE z == Then(s, q)
           n == Len(s)
<1>1. /\ z \in Seq(S) /\ n \in Nat /\ Len(z) = n + Len(q) /\ Len(q) \in Nat
      /\ \A i \in 1 .. n : z[i] = s[i]
      /\ \A i \in 1 .. Len(z) :
           i \in 1 .. n \/ \E k \in 1 .. Len(q) : i = n + k /\ z[i] = q[k]
      /\ \A k \in 1 .. Len(q) : n + k \in 1 .. Len(z) /\ z[n + k] = q[k]
  BY ThenIs
<1>2. \A i \in 1 .. n : i \in 1 .. Len(z)
  BY <1>1
<1> HIDE DEF z, n
<1> SUFFICES ASSUME NEW i \in 1 .. Len(z)
             PROVE  /\ z[i].t = "ui-request-end" => z[i].req \in now
                    /\ z[i].t = "ui-request" /\ z[i].req \in now =>
                         \E j \in 1 .. Len(z) : j > i /\ z[j] = RequestEnd(z[i].req)
  BY DEF Settling, z
<1>3. CASE i \in 1 .. n
  <2>1. z[i] = s[i] /\ i \in 1 .. Len(s)
    BY <1>1, <1>3 DEF n
  <2>2. s[i].t = "ui-request-end" => s[i].req \in now
    BY <2>1 DEF Settling, Adds
  <2>3. ASSUME s[i].t = "ui-request", s[i].req \in now
        PROVE  \E j \in 1 .. Len(z) : j > i /\ z[j] = RequestEnd(s[i].req)
    <3>1. CASE s[i].req \in settled
      <4>1. PICK j \in 1 .. Len(s) : j > i /\ s[j] = RequestEnd(s[i].req)
        BY <2>1, <2>3, <3>1 DEF Settling
      <4>2. j \in 1 .. Len(z) /\ z[j] = s[j]
        BY <1>1, <1>2 DEF n
      <4> QED BY <4>1, <4>2
    <3>2. CASE In(q, RequestEnd(s[i].req))
      <4>1. PICK k \in 1 .. Len(q) : q[k] = RequestEnd(s[i].req)
        BY <3>2 DEF In
      <4>2. n + k \in 1 .. Len(z) /\ z[n + k] = q[k] /\ n + k > i
        BY <1>1, <1>3
      <4> QED BY <4>1, <4>2
    <3> QED BY <2>1, <2>3, <3>1, <3>2 DEF Adds
  <2> QED BY <2>1, <2>2, <2>3
<1>4. ASSUME NEW k \in 1 .. Len(q), z[i] = q[k]
      PROVE  /\ z[i].t = "ui-request-end" => z[i].req \in now
             /\ ~(z[i].t = "ui-request" /\ z[i].req \in now)
  BY <1>4 DEF Adds
<1> QED BY <1>1, <1>3, <1>4

(* No welcome comes to a guest that has read its own.                                        *)
LEMMA NoWelcomeWhile ==
  ASSUME NEW c, NEW s, NEW chunks, NEW log, Loading(c, s, chunks, log) \/ Showing(c, s, chunks, log)
  PROVE  ~WelcomeIn(s)
<1>1. PICK g, n, m : Carries(s, chunks, log, 0, g, n, m)
  BY DEF Loading, Showing
<1>2. \A i \in Of(s, 0, "welcome") : s[i].entry \in 0 + 1 .. 0
  BY <1>1 DEF Carries, Row
<1>3. 0 + 1 .. 0 = {}
  OBVIOUS
<1>4. \A i \in 1 .. Len(s) : s[i].t # "welcome"
  BY <1>2, <1>3 DEF Of
<1> QED BY <1>4 DEF WelcomeIn

(* Before the welcome there are only answers.                                                *)
LEMMA AnswersComeFirst ==
  ASSUME NEW c \in Client, NEW s \in Seq(HostFrame), s # <<>>, NEW chunks, NEW log,
         Welcoming(c, s, chunks, log)
  PROVE  ~WelcomeIn(s) \/ Head(s).t = "welcome" \/ Answering(Head(s))
<1>1. CASE Greeting(c, s, chunks, log)
  <2>1. PICK w \in 1 .. Len(s) : Comes(s, chunks, log, w)
    BY <1>1 DEF Greeting
  <2>2. Head(s) = s[1] /\ Len(s) \in Nat
    BY TailIs
  <2>3. CASE w = 1
    BY <2>1, <2>2, <2>3 DEF Comes
  <2>4. CASE w # 1
    <3>1. 1 \in 1 .. w - 1
      BY <2>2, <2>4
    <3> QED BY <2>1, <2>2, <3>1 DEF Comes
  <2> QED BY <2>3, <2>4
<1> QED BY <1>1, NoWelcomeWhile DEF Welcoming

LEMMA RequestFrames ==
  ASSUME NEW r \in Ask, NEW f \in HostFrame
  PROVE  /\ Request(r) = f => f.t = "ui-request" /\ f.req = r
         /\ RequestEnd(r) = f => f.t = "ui-request-end" /\ f.req = r
BY HostSays

LEMMA AgreedTakes ==
  ASSUME NEW c \in Client, Shown(c), NEW s \in Seq(HostFrame), s # <<>>,
         NEW opens \in SUBSET Ask, NEW settled \in SUBSET Ask, opens \cap settled = {},
         Settling(s, settled), Agreed(c, s, opens, settled),
         ~WelcomeIn(s) \/ Head(s).t = "welcome" \/ Answering(Head(s))
  PROVE  Agreed(Applied(c, Head(s)), Tail(s), opens, settled)
<1> DEFINE f == Head(s)
           z == Tail(s)
           d == Applied(c, f)
<1>1. f \in HostFrame /\ z \in Seq(HostFrame)
  BY TailIs
<1>2. \A g : In(s, g) /\ g # f => In(z, g)
  BY InTail
<1>3. /\ WelcomeIn(z) => WelcomeIn(s)
      /\ f.t = "welcome" => WelcomeIn(s)
      /\ WelcomeIn(s) /\ f.t # "welcome" => WelcomeIn(z)
  BY WelcomeInTail
<1>4. /\ f.t = "ui-request-end" => f.req \in settled
      /\ f.t = "ui-request" /\ f.req \in settled => In(z, RequestEnd(f.req))
  BY SettlingTail
<1>5. /\ \A r \in opens : In(s, Request(r)) \/ (~WelcomeIn(s) /\ Has(c, r))
      /\ ~WelcomeIn(s) => \A r \in settled : Has(c, r) /\ r # c.pending => In(s, RequestEnd(r))
  BY DEF Agreed
<1>6. ~WelcomeIn(s) \/ f.t = "welcome" \/ f.t \in {"error", "ui-request-end"}
  BY DEF Answering
<1> HIDE DEF f, z
<1>7. CASE f.t = "welcome"
  <2>1. d.pending = c.pending /\ \A x \in Ask : Has(d, x) <=> x = c.pending
    <3> DEFINE w == OnWelcome(c, f.count)
    <3>1. w.pending = c.pending /\ \A x \in Ask : Has(w, x) <=> x = c.pending
      BY WelcomeAsks
    <3>2. d = w
      BY <1>1, <1>7, AppliedIs
    <3> HIDE DEF w, d
    <3> QED BY <3>1, <3>2
  <2> HIDE DEF d
  <2>2. \A r \in opens : In(z, Request(r))
    BY <1>1, <1>2, <1>3, <1>5, <1>7, RequestFrames
  <2>3. Agreed(d, z, opens, settled)
    BY <2>1, <2>2 DEF Agreed
  <2> QED BY <2>3 DEF d, f, z
<1>8. CASE f.t = "ui-request"
  <2>1. ~WelcomeIn(s) /\ ~WelcomeIn(z)
    BY <1>3, <1>6, <1>8
  <2>2. f.req \in Ask /\ f = Request(f.req)
    BY <1>1, <1>8, HostFrames
  <2>3. d.pending = c.pending /\ \A x \in Ask : Has(d, x) <=> Has(c, x) \/ x = f.req
    <3> DEFINE w == OnRequest(c, f.req)
    <3>1. w.pending = c.pending /\ \A x \in Ask : Has(w, x) <=> Has(c, x) \/ x = f.req
      BY <2>2, RequestAsks
    <3>2. d = w
      BY <1>1, <1>8, AppliedIs
    <3> HIDE DEF w, d
    <3> QED BY <3>1, <3>2
  <2> HIDE DEF d
  <2>4. \A r \in opens : In(z, Request(r)) \/ Has(d, r)
    BY <1>1, <1>2, <1>5, <2>1, <2>3, RequestFrames
  <2>5. ASSUME NEW r \in settled, Has(d, r), r # d.pending PROVE In(z, RequestEnd(r))
    <3>1. CASE r = f.req
      BY <1>4, <1>8, <3>1
    <3>2. CASE r # f.req
      <4>1. In(s, RequestEnd(r))
        BY <1>5, <2>1, <2>3, <2>5, <3>2
      <4> QED BY <1>1, <1>2, <1>8, <4>1, RequestFrames
    <3> QED BY <3>1, <3>2
  <2>6. Agreed(d, z, opens, settled)
    BY <2>1, <2>4, <2>5 DEF Agreed
  <2> QED BY <2>6 DEF d, f, z
<1>9. CASE f.t = "ui-request-end"
  <2> DEFINE e == f.req
  <2>1. e \in Ask /\ e \in settled
    BY <1>1, <1>4, <1>9, HostFrames
  <2>2. WelcomeIn(z) <=> WelcomeIn(s)
    BY <1>3, <1>9
  <2>3. /\ d.pending = IF c.pending = e THEN None ELSE c.pending
        /\ \A x \in Ask : Has(d, x) <=> Has(c, x) /\ x # e
    <3> DEFINE w == OnRequestEnd(c, e)
    <3>1. /\ w.pending = IF c.pending = e THEN None ELSE c.pending
          /\ \A x \in Ask : Has(w, x) <=> Has(c, x) /\ x # e
      <4> HIDE DEF e
      <4> QED BY <2>1, RequestEndAsks
    <3>2. d = w
      BY <1>1, <1>9, AppliedIs
    <3> HIDE DEF w, d
    <3> QED BY <3>1, <3>2
  <2> HIDE DEF d
  <2>4. \A r \in opens : In(z, Request(r)) \/ (~WelcomeIn(z) /\ Has(d, r))
    <3>1. \A r \in opens : r # e
      BY <2>1
    <3>2. \A r \in opens : Request(r) # f
      BY <1>1, <1>9, RequestFrames
    <3> QED BY <1>2, <1>5, <2>2, <2>3, <3>1, <3>2
  <2>5. ASSUME ~WelcomeIn(z), NEW r \in settled, Has(d, r), r # d.pending
        PROVE  In(z, RequestEnd(r))
    <3>1. Has(c, r) /\ r # e
      BY <2>3, <2>5
    <3>2. r # c.pending
      BY <2>3, <2>5, <3>1
    <3>3. In(s, RequestEnd(r))
      BY <1>5, <2>2, <2>5, <3>1, <3>2
    <3>4. RequestEnd(r) # f
      BY <1>1, <3>1, RequestFrames
    <3> QED BY <1>2, <3>3, <3>4
  <2>6. Agreed(d, z, opens, settled)
    BY <2>4, <2>5 DEF Agreed
  <2> QED BY <2>6 DEF d, f, z
<1>10. CASE f.t \notin {"welcome", "ui-request", "ui-request-end"}
  <2>1. WelcomeIn(z) <=> WelcomeIn(s)
    BY <1>3, <1>10
  <2>2. d.pending = c.pending /\ \A x : Has(d, x) <=> Has(c, x)
    <3>1. SameAsks(c, d)
      BY <1>1, <1>10, OtherAsks
    <3> HIDE DEF d
    <3> QED BY <3>1, SameAsksKeeps DEF SameAsks
  <2>3. \A r \in Ask : Request(r) # f /\ RequestEnd(r) # f
    BY <1>1, <1>10, RequestFrames
  <2> HIDE DEF d
  <2>4. Agreed(d, z, opens, settled)
    BY <1>2, <1>5, <2>1, <2>2, <2>3 DEF Agreed
  <2> QED BY <2>4 DEF d, f, z
<1> QED BY <1>7, <1>8, <1>9, <1>10

(* The host says what has changed.                                                            *)
LEMMA AgreedThen ==
  ASSUME NEW c, NEW S, NEW s \in Seq(S), NEW q \in Seq(S), NEW opens, NEW settled,
         NEW unanswered, NEW now,
         \/ /\ Agreed(c, s, opens, settled) /\ ~WelcomeIn(q)
            /\ \A r \in unanswered : r \in opens \/ In(q, Request(r))
            /\ \A r \in now : r \in settled \/ In(q, RequestEnd(r))
         \/ WelcomeIn(q) /\ \A r \in unanswered : In(q, Request(r))
  PROVE  Agreed(c, Then(s, q), unanswered, now)
<1> DEFINE z == Then(s, q)
<1>1. \A f : In(z, f) <=> In(s, f) \/ In(q, f)
  BY InThen
<1>2. WelcomeIn(z) <=> WelcomeIn(s) \/ WelcomeIn(q)
  BY WelcomeInThen
<1> HIDE DEF z
<1>3. Agreed(c, z, unanswered, now)
  BY <1>1, <1>2 DEF Agreed
<1> QED BY <1>3 DEF z

-----------------------------------------------------------------------------
(* Every step keeps it.                                                                      *)

LEMMA QuestionParts ==
  ASSUME Typed, AskedHolds
  PROVE  /\ client \in Client /\ Shown(client) /\ net.down \in Seq(HostFrame)
         /\ host.welcomed \in BOOLEAN /\ Opens \in SUBSET Ask /\ host.settled \in SUBSET Ask
         /\ Opens \cap host.settled = {} /\ host.asked + 1 \notin host.settled
<1>1. host.settled \subseteq 1 .. host.asked /\ Shown(client)
  BY DEF AskedHolds
<1>2. host.asked + 1 \notin 1 .. host.asked
  BY AskedGrows
<1>3. Opens \cap host.settled = {}
  BY DEF Opens
<1> QED BY <1>1, <1>2, <1>3, ScriptParts, OpensAre, TypedParts, HostFields

LEMMA CutsQuestions == ASSUME Cuts PROVE QuestionsHold'
<1>1. net'.down = <<>> /\ host'.welcomed = FALSE
  BY DEF Cuts, HostIs
<1>2. Settling(<<>>, host'.settled)
  BY DEF Settling
<1> QED BY <1>1, <1>2 DEF QuestionsHold

(* Nothing changes but what the client shows of the questions it knows.                       *)
LEMMA QuietQuestions ==
  ASSUME Typed, AskedHolds, WireHolds, QuestionsHold, Joins \/ Stays \/ Responds
  PROVE  QuestionsHold'
<1>1. /\ net'.down = net.down /\ host'.settled = host.settled /\ host'.asked = host.asked
      /\ host'.welcomed = host.welcomed
  BY DEF Joins, Stays, Responds, SameDown, SameHost, HostIs
<1>2. Opens' = Opens
  BY <1>1 DEF Opens
<1>3. CASE ~host.welcomed
  BY <1>1, <1>3 DEF QuestionsHold
<1>4. CASE host.welcomed
  <2>1. Stays \/ Responds
    BY <1>4 DEF Joins, WireHolds
  <2>2. \A x \in Ask : Has(client', x) <=> Has(client, x)
    <3>1. CASE Stays
      BY <3>1 DEF Stays
    <3>2. CASE Responds
      <4>1. /\ client'.request = client.request /\ client'.queue = client.queue
            /\ client'.pending = client.request /\ client.pending = None
        BY <3>2, QuestionParts, PendingIs DEF Responds
      <4> QED BY <4>1, NoneIsNoAsk DEF Has
    <3> QED BY <2>1, <3>1, <3>2
  <2>3. \A x \in Ask : Has(client', x) /\ x # client'.pending => x # client.pending
    <3>1. CASE Stays
      BY <3>1 DEF Stays
    <3>2. CASE Responds
      BY <3>2, NoneIsNoAsk DEF Responds
    <3> QED BY <2>1, <3>1, <3>2
  <2>4. Agreed(client', net.down, Opens, host.settled)
    BY <1>4, <2>2, <2>3, QuestionParts DEF QuestionsHold, Agreed
  <2> QED BY <1>1, <1>2, <2>4 DEF QuestionsHold
<1> QED BY <1>3, <1>4, QuestionParts

LEMMA TakesQuestions ==
  ASSUME Typed, ScriptHolds, AskedHolds, QuestionsHold, Takes
  PROVE  QuestionsHold'
<1> DEFINE s == net.down
<1>1. /\ client' = Applied(client, Head(s)) /\ net'.down = Tail(s) /\ s # <<>>
      /\ host'.settled = host.settled /\ host'.asked = host.asked
      /\ host'.welcomed = host.welcomed
  BY DEF Takes, SameHost, HostIs
<1>2. Opens' = Opens
  BY <1>1 DEF Opens
<1>3. s \in Seq(HostFrame) /\ Settling(s, host.settled)
  BY QuestionParts DEF QuestionsHold
<1>4. host.welcomed => Welcoming(client, s, host.chunks, host.log)
  BY DEF ScriptHolds, Script
<1>5. host.welcomed => Agreed(client, s, Opens, host.settled)
  BY DEF QuestionsHold
<1> HIDE DEF s
<1>6. Settling(Tail(s), host.settled)
  BY <1>1, <1>3, SettlingTail
<1>7. ASSUME host.welcomed PROVE Agreed(Applied(client, Head(s)), Tail(s), Opens, host.settled)
  <2>1. ~WelcomeIn(s) \/ Head(s).t = "welcome" \/ Answering(Head(s))
    BY <1>1, <1>3, <1>4, <1>7, QuestionParts, AnswersComeFirst
  <2> QED BY <1>1, <1>3, <1>5, <1>7, <2>1, QuestionParts, AgreedTakes
<1> QED BY <1>1, <1>2, <1>6, <1>7 DEF QuestionsHold

(* The host says what has changed, if anything.                                               *)
LEMMA SaysQuestions ==
  ASSUME Typed, AskedHolds, QuestionsHold, NEW q \in Seq(HostFrame), Says(q),
         Adds(q, net.down, host.settled, host'.settled),
         \/ /\ host'.welcomed = host.welcomed /\ ~WelcomeIn(q)
            /\ host.welcomed => /\ \A r \in Opens' : r \in Opens \/ In(q, Request(r))
                                /\ \A r \in host'.settled :
                                     r \in host.settled \/ In(q, RequestEnd(r))
         \/ WelcomeIn(q) /\ \A r \in Opens' : In(q, Request(r))
  PROVE  QuestionsHold'
<1>1. client' = client /\ net'.down = Then(net.down, q)
  BY DEF Says, Then
<1>2. net.down \in Seq(HostFrame) /\ Settling(net.down, host.settled)
  BY QuestionParts DEF QuestionsHold
<1>3. Settling(Then(net.down, q), host'.settled)
  BY <1>2, SettlingThen
<1>4. ASSUME host'.welcomed PROVE Agreed(client, Then(net.down, q), Opens', host'.settled)
  <2>1. CASE host'.welcomed = host.welcomed /\ ~WelcomeIn(q)
    <3>1. host.welcomed
      BY <1>4, <2>1
    <3>2. /\ Agreed(client, net.down, Opens, host.settled) /\ ~WelcomeIn(q)
          /\ \A r \in Opens' : r \in Opens \/ In(q, Request(r))
          /\ \A r \in host'.settled : r \in host.settled \/ In(q, RequestEnd(r))
      BY <2>1, <3>1 DEF QuestionsHold
    <3> QED BY <1>2, <3>2, AgreedThen
  <2>2. CASE WelcomeIn(q) /\ \A r \in Opens' : In(q, Request(r))
    BY <1>2, <2>2, AgreedThen
  <2> QED BY <2>1, <2>2
<1> QED BY <1>1, <1>3, <1>4 DEF QuestionsHold

(* The questions are the same.                                                               *)
LEMMA AsideQuestions ==
  ASSUME Typed, AskedHolds, QuestionsHold, NEW q \in Seq(HostFrame), Says(q),
         host'.settled = host.settled, host'.asked = host.asked, host'.welcomed = host.welcomed,
         \A k \in 1 .. Len(q) : q[k].t \notin {"welcome", "ui-request", "ui-request-end"}
  PROVE  QuestionsHold'
<1>1. Opens' = Opens
  BY DEF Opens
<1>2. ~WelcomeIn(q)
  BY DEF WelcomeIn
<1>3. Adds(q, net.down, host.settled, host'.settled)
  BY DEF Adds
<1> QED BY <1>1, <1>2, <1>3, SaysQuestions

LEMMA OneAside ==
  ASSUME Typed, AskedHolds, QuestionsHold, NEW f \in HostFrame, NEW b \in BOOLEAN,
         Says(IF b THEN <<f>> ELSE <<>>), f.t \notin {"welcome", "ui-request", "ui-request-end"},
         host'.settled = host.settled, host'.asked = host.asked, host'.welcomed = host.welcomed
  PROVE  QuestionsHold'
<1> DEFINE q == IF b THEN <<f>> ELSE <<>>
<1>1. /\ q \in Seq(HostFrame) /\ Says(q)
      /\ \A k \in 1 .. Len(q) : q[k] = f
  <2>1. CASE b
    BY <2>1
  <2>2. CASE ~b
    BY <2>2
  <2> QED BY <2>1, <2>2
<1>2. \A k \in 1 .. Len(q) : q[k].t \notin {"welcome", "ui-request", "ui-request-end"}
  BY <1>1
<1> HIDE DEF q
<1> QED BY <1>1, <1>2, AsideQuestions

(* A question is settled, and the guest is told.                                             *)
LEMMA EndQuestions ==
  ASSUME Typed, AskedHolds, QuestionsHold, NEW r \in Ask, Says(<<RequestEnd(r)>>),
         host'.settled = host.settled \cup {r}, host'.asked = host.asked,
         host'.welcomed = host.welcomed
  PROVE  QuestionsHold'
<1> DEFINE f == RequestEnd(r)
           q == <<f>>
<1>1. f \in HostFrame /\ f.t = "ui-request-end" /\ f.req = r
  BY HostSays
<1> HIDE DEF f
<1>2. q \in Seq(HostFrame) /\ Says(q) /\ In(q, f) /\ \A k \in 1 .. Len(q) : q[k] = f
  BY <1>1 DEF In, f
<1> HIDE DEF q
<1>3. ~WelcomeIn(q)
  BY <1>1, <1>2 DEF WelcomeIn
<1>4. \A k \in 1 .. Len(q) : /\ q[k].t = "ui-request-end" => q[k].req \in host'.settled
                             /\ q[k].t # "ui-request"
  BY <1>1, <1>2
<1>5. \A x \in host'.settled : x \in host.settled \/ In(q, RequestEnd(x))
  BY <1>2 DEF f
<1>6. Adds(q, net.down, host.settled, host'.settled)
  BY <1>4, <1>5 DEF Adds
<1>7. \A x \in Opens' : x \in Opens
  BY DEF Opens
<1> QED BY <1>2, <1>3, <1>5, <1>6, <1>7, SaysQuestions

(* The same, and there is nobody to tell.                                                    *)
LEMMA UntoldQuestions ==
  ASSUME Typed, ScriptHolds, AskedHolds, QuestionsHold, ~host.welcomed, Says(<<>>),
         host.settled \subseteq host'.settled, host'.welcomed = host.welcomed
  PROVE  QuestionsHold'
<1> DEFINE q == <<>>
<1>1. q \in Seq(HostFrame) /\ Says(q) /\ \A k \in 1 .. Len(q) : FALSE
  OBVIOUS
<1>2. \A i \in 1 .. Len(net.down) : net.down[i].t # "ui-request"
  BY DEF ScriptHolds, Script, Alone, Answering
<1> HIDE DEF q
<1>3. Adds(q, net.down, host.settled, host'.settled) /\ ~WelcomeIn(q)
  BY <1>1, <1>2 DEF Adds, WelcomeIn
<1> QED BY <1>1, <1>3, SaysQuestions

LEMMA AskQuestions ==
  ASSUME Typed, ScriptHolds, AskedHolds, QuestionsHold, AskSent
  PROVE  QuestionsHold'
<1> DEFINE r == host.asked + 1
           f == Request(r)
           q == <<f>>
<1>1. r \in Ask
  BY TypedParts, HostFields, GuestAssumption DEF AskSent, Ask
<1>2. /\ host'.settled = host.settled /\ host'.asked = r /\ host'.welcomed = host.welcomed
      /\ Says(IF host.welcomed THEN q ELSE <<>>)
  BY DEF AskSent, HostIs
<1>3. CASE ~host.welcomed
  BY <1>2, <1>3, UntoldQuestions
<1>4. CASE host.welcomed
  <2>1. f \in HostFrame /\ f.t = "ui-request" /\ f.req = r
    BY <1>1, HostSays
  <2>2. r \notin host.settled
    BY QuestionParts
  <2>3. \A x \in Opens' : x \in Opens \/ x = r
    BY <1>2, AskedGrows DEF Opens
  <2> HIDE DEF r, f
  <2>4. q \in Seq(HostFrame) /\ Says(q) /\ In(q, f) /\ \A k \in 1 .. Len(q) : q[k] = f
    BY <1>2, <1>4, <2>1 DEF In
  <2> HIDE DEF q
  <2>5. ~WelcomeIn(q)
    BY <2>1, <2>4 DEF WelcomeIn
  <2>6. Adds(q, net.down, host.settled, host'.settled)
    BY <1>2, <2>1, <2>2, <2>4 DEF Adds
  <2>7. \A x \in Opens' : x \in Opens \/ In(q, Request(x))
    BY <2>3, <2>4 DEF f
  <2> QED BY <1>2, <2>4, <2>5, <2>6, <2>7, SaysQuestions
<1> QED BY <1>3, <1>4, QuestionParts

LEMMA GreetedQuestions ==
  ASSUME Typed, AskedHolds, QuestionsHold, Greeted
  PROVE  QuestionsHold'
<1> DEFINE q == <<Welcome(host.log)>> \o SetToSeq(OpenRequests) \o AfterSnapshot(host.log)
<1>1. /\ q \in Seq(HostFrame) /\ q # <<>> /\ q[1].t = "welcome"
      /\ \A k \in 1 .. Len(q) : /\ q[k].t # "ui-request-end" /\ q[k].t # "ui-response"
                                /\ q[k].t = "ui-request" => q[k].req \in Opens
      /\ \A r \in Opens : \E k \in 1 .. Len(q) : q[k] = Request(r)
  BY OpeningAsked
<1>2. Says(q) /\ host'.settled = host.settled /\ host'.asked = host.asked
  BY DEF Greeted, HostIs
<1> HIDE DEF q
<1>3. Opens' = Opens
  BY <1>2 DEF Opens
<1>4. WelcomeIn(q)
  <2>1. 1 \in 1 .. Len(q)
    BY <1>1
  <2> QED BY <1>1, <2>1 DEF WelcomeIn
<1>5. \A r \in Opens' : In(q, Request(r))
  BY <1>1, <1>3 DEF In
<1>6. Adds(q, net.down, host.settled, host'.settled)
  BY <1>1, <1>2 DEF Adds, Opens
<1> QED BY <1>1, <1>2, <1>4, <1>5, <1>6, SaysQuestions

LEMMA QuestionsKeep ==
  Typed /\ WireHolds /\ ScriptHolds /\ AskedHolds /\ QuestionsHold /\ [Next]_vars => QuestionsHold'
<1> SUFFICES ASSUME Typed, WireHolds, ScriptHolds, AskedHolds, QuestionsHold, [Next]_vars
             PROVE  QuestionsHold'
  OBVIOUS
<1>1. Moves
  BY StepMoves
<1>2. host.welcomed \in BOOLEAN /\ TRUE \in BOOLEAN
  BY ScriptParts
<1>3. CASE Cuts
  BY <1>3, CutsQuestions
<1>4. CASE Joins \/ Stays \/ Responds
  BY <1>4, QuietQuestions
<1>5. CASE Takes
  BY <1>5, TakesQuestions
<1>6. CASE Greeted
  BY <1>6, GreetedQuestions
<1>7. CASE Refused
  <2>1. /\ Error \in HostFrame /\ Error.t = "error" /\ Says(IF TRUE THEN <<Error>> ELSE <<>>)
        /\ host'.settled = host.settled /\ host'.asked = host.asked
        /\ host'.welcomed = host.welcomed
    BY <1>7, HostSays DEF Refused, SameHost, HostIs
  <2> QED BY <1>2, <2>1, OneAside
<1>8. ASSUME NEW r \in Ask, Heard(r) PROVE QuestionsHold'
  <2>1. /\ Says(<<RequestEnd(r)>>) /\ host'.settled = host.settled \cup {r}
        /\ host'.asked = host.asked /\ host'.welcomed = host.welcomed
    BY <1>8 DEF Heard, HostIs
  <2> QED BY <2>1, EndQuestions
<1>9. CASE ChunkSent
  <2> DEFINE c == Chunk(Head(host.chunks), Len(host.chunks) = 1)
             a == AfterSnapshot(Len(host.chunks) - 1)
             q == <<c>> \o a
  <2>1. /\ Says(q) /\ q \in Seq(HostFrame) /\ host'.settled = host.settled
        /\ host'.asked = host.asked /\ host'.welcomed = host.welcomed
    BY <1>9 DEF ChunkSent, HostIs, Says
  <2>2. c.t = "snapshot-chunk"
    BY DEF Chunk
  <2>3. \A k \in 1 .. Len(a) : a[k].t = "gateway-health-pong"
    BY HostSays DEF AfterSnapshot
  <2>4. Len(a) \in Nat /\ a \in Seq(HostFrame) /\ c \in HostFrame
    <3>1. Head(host.chunks) \in Number
      BY <1>9, ScriptParts, TailIs DEF ChunkSent
    <3>2. (Len(host.chunks) = 1) \in BOOLEAN
      OBVIOUS
    <3>3. c \in HostFrame
      BY <3>1, <3>2, HostSays
    <3> QED BY <3>3, AfterType
  <2> HIDE DEF a, c
  <2>5. \A k \in 1 .. Len(q) : q[k] = c \/ \E j \in 1 .. Len(a) : q[k] = a[j]
    BY <2>4
  <2> HIDE DEF q
  <2>6. \A k \in 1 .. Len(q) : q[k].t \notin {"welcome", "ui-request", "ui-request-end"}
    BY <2>2, <2>3, <2>5
  <2> QED BY <2>1, <2>6, AsideQuestions
<1>10. CASE EntrySent
  <2>1. host.log + 1 \in Number
    BY ScriptParts DEF Number
  <2>2. /\ Entry(host.log + 1) \in HostFrame /\ Entry(host.log + 1).t = "entry"
        /\ Says(IF host.welcomed THEN <<Entry(host.log + 1)>> ELSE <<>>)
        /\ host'.settled = host.settled /\ host'.asked = host.asked
        /\ host'.welcomed = host.welcomed
    BY <1>10, <2>1, HostSays DEF EntrySent, HostIs
  <2> QED BY <1>2, <2>2, OneAside
<1>11. CASE AskSent
  BY <1>11, AskQuestions
<1>12. ASSUME NEW r \in Opens, EndSent(r) PROVE QuestionsHold'
  <2>1. /\ r \in Ask /\ Says(IF host.welcomed THEN <<RequestEnd(r)>> ELSE <<>>)
        /\ host'.settled = host.settled \cup {r} /\ host'.asked = host.asked
        /\ host'.welcomed = host.welcomed
    BY <1>12, OpensAre DEF EndSent, HostIs
  <2>2. CASE host.welcomed
    BY <2>1, <2>2, EndQuestions
  <2>3. CASE ~host.welcomed
    BY <2>1, <2>3, UntoldQuestions
  <2> QED BY <1>2, <2>2, <2>3
<1>13. CASE ByeSent
  <2>1. /\ Bye \in HostFrame /\ Bye.t = "bye" /\ Says(IF host.welcomed THEN <<Bye>> ELSE <<>>)
        /\ host'.settled = host.settled /\ host'.asked = host.asked
        /\ host'.welcomed = host.welcomed
    BY <1>13, HostSays DEF ByeSent, SameHost, HostIs
  <2> QED BY <1>2, <2>1, OneAside
<1> QED BY <1>1, <1>3, <1>4, <1>5, <1>6, <1>7, <1>8, <1>9, <1>10, <1>11, <1>12, <1>13 DEF Moves

LEMMA InitHasNoQuestion == Init => QuestionsHold
<1> SUFFICES ASSUME Init PROVE QuestionsHold
  OBVIOUS
<1>1. net.down = <<>> /\ host.welcomed = FALSE
  BY NewNet DEF Init
<1>2. Settling(<<>>, host.settled)
  BY DEF Settling
<1> QED BY <1>1, <1>2 DEF QuestionsHold

-----------------------------------------------------------------------------
(* What is shown.                                                                             *)

LEMMA DistinctCounts ==
  ASSUME NEW S, NEW q \in Seq(S), Distinct(q)
  PROVE  Cardinality(ToSet(q)) = Len(q)
<1> DEFINE n == Len(q)
           I == 1 .. n
<1>1. n \in Nat /\ DOMAIN q = I /\ q = [i \in I |-> q[i]]
  OBVIOUS
<1>2. IsFiniteSet(I) /\ Cardinality(I) = n
  <2>1. 1 \in Int /\ n \in Int /\ (IF 1 > n THEN 0 ELSE n - 1 + 1) = n
    BY <1>1
  <2> HIDE DEF n
  <2> QED BY <2>1, FS_Interval
<1>3. q \in Bijection(I, ToSet(q))
  BY <1>1 DEF Bijection, Injection, Surjection, IsInjective, ToSet, Distinct
<1> HIDE DEF I, n
<1>4. ExistsBijection(I, ToSet(q))
  BY <1>3 DEF ExistsBijection
<1>5. Cardinality(ToSet(q)) = Cardinality(I)
  BY <1>2, <1>4, FS_Bijection
<1> QED BY <1>2, <1>5 DEF n

(* The question that is shown, and those that wait.                                            *)
Listed(c) == (IF c.request = None THEN <<>> ELSE <<c.request>>) \o c.queue

LEMMA ListedIs ==
  ASSUME NEW c \in Client, Shown(c)
  PROVE  /\ Listed(c) \in Seq(Ask) /\ Distinct(Listed(c))
         /\ \A r \in Ask : In(Listed(c), r) <=> r = c.request \/ In(c.queue, r)
<1> DEFINE l == Listed(c)
           q == c.queue
<1>1. q \in Seq(Ask) /\ c.request \in Ask \cup {None} /\ Distinct(q) /\ ~In(q, c.request)
  BY ClientFields DEF Shown
<1>2. CASE c.request = None
  <2>1. q = <<>> /\ l = <<>>
    BY <1>2 DEF Shown, Listed
  <2>2. l \in Seq(Ask) /\ Len(l) = 0
    BY <2>1
  <2>3. \A r \in Ask : ~In(l, r) /\ ~In(q, r) /\ r # c.request
    BY <1>2, <2>1, NoQueue, NoneIsNoAsk
  <2>4. Distinct(l)
    BY <2>1, NoQueue
  <2> QED BY <2>2, <2>3, <2>4
<1>3. CASE c.request # None
  <2> DEFINE h == c.request
             n == Len(q)
  <2>1. h \in Ask /\ l = <<h>> \o q
    BY <1>1, <1>3 DEF Listed
  <2>2. /\ l \in Seq(Ask) /\ n \in Nat /\ Len(l) = n + 1 /\ l[1] = h
        /\ \A i \in 2 .. n + 1 : l[i] = q[i - 1]
    <3> HIDE DEF h, q
    <3> QED BY <1>1, <2>1 DEF q
  <2> HIDE DEF l, h, n
  <2>3. ASSUME NEW i \in 1 .. n + 1 PROVE i = 1 \/ (i \in 2 .. n + 1 /\ i - 1 \in 1 .. n)
    BY <2>2
  <2>4. \A i \in 1 .. n : i + 1 \in 2 .. n + 1 /\ i + 1 - 1 = i /\ i + 1 \in 1 .. n + 1
    BY <2>2
  <2>5. 1 \in 1 .. n + 1
    BY <2>2
  <2>6. \A i \in 2 .. n + 1 : l[i] # h
    <3>1. \A k \in 1 .. n : q[k] # h
      BY <1>1 DEF In, h, n
    <3> QED BY <2>2, <3>1
  <2>7. ASSUME NEW i \in 1 .. n + 1, NEW j \in 1 .. n + 1, l[i] = l[j] PROVE i = j
    <3>1. CASE i = 1 \/ j = 1
      BY <2>2, <2>3, <2>6, <2>7, <3>1
    <3>2. CASE i # 1 /\ j # 1
      <4>1. i - 1 \in 1 .. n /\ j - 1 \in 1 .. n /\ q[i - 1] = q[j - 1]
        BY <2>2, <2>3, <2>7, <3>2
      <4>2. i - 1 = j - 1
        BY <1>1, <4>1 DEF Distinct, n
      <4> QED BY <2>2, <4>2
    <3> QED BY <3>1, <3>2
  <2>8. Distinct(l)
    BY <2>2, <2>7 DEF Distinct
  <2>9. ASSUME NEW r \in Ask PROVE In(l, r) <=> r = h \/ In(q, r)
    <3>1. In(l, r) => r = h \/ In(q, r)
      BY <2>2, <2>3 DEF In, n
    <3>2. ASSUME In(q, r) PROVE In(l, r)
      <4>1. PICK k \in 1 .. n : q[k] = r
        BY <3>2 DEF In, n
      <4>2. l[k + 1] = r /\ k + 1 \in 1 .. Len(l)
        BY <2>2, <2>4, <4>1
      <4> QED BY <4>2 DEF In
    <3>3. In(l, h)
      BY <2>2, <2>5 DEF In
    <3> QED BY <3>1, <3>2, <3>3
  <2> QED BY <2>2, <2>8, <2>9 DEF l, h
<1> QED BY <1>2, <1>3

LEMMA HeldQuestionsAgree == Typed /\ ScriptHolds /\ AskedHolds /\ QuestionsHold => QuestionsAgree
<1> SUFFICES ASSUME Typed, ScriptHolds, AskedHolds, QuestionsHold,
                    client.phase = "live", ~QuestionsComing
             PROVE  LET shown == (IF client.request = None THEN <<>> ELSE <<client.request>>)
                                    \o client.queue
                    IN /\ ToSet(shown) \ {client.pending} = Opens \ {client.pending}
                       /\ Cardinality(ToSet(shown)) = Len(shown)
  BY DEF QuestionsAgree
<1> DEFINE l == Listed(client)
           s == net.down
           p == client.pending
<1>1. /\ client \in Client /\ Shown(client) /\ s \in Seq(HostFrame)
      /\ Opens \in SUBSET Ask /\ host.settled \in SUBSET Ask /\ DOMAIN s = 1 .. Len(s)
  BY QuestionParts
<1>2. /\ l \in Seq(Ask) /\ Distinct(l)
      /\ \A r \in Ask : In(l, r) <=> r = client.request \/ In(client.queue, r)
  BY <1>1, ListedIs
<1>3. host.welcomed /\ ~WelcomeIn(s)
  <2>1. host.welcomed /\ Showing(client, s, host.chunks, host.log)
    BY DEF ScriptHolds, Script, Welcoming, Greeting, Loading, Alone, Silent
  <2> QED BY <2>1, NoWelcomeWhile
<1>4. \A r \in Ask : ~In(s, Request(r)) /\ ~In(s, RequestEnd(r))
  BY <1>1, HostSays DEF QuestionsComing, In
<1>5. /\ \A r \in Opens : Has(client, r)
      /\ \A r \in host.settled : Has(client, r) => r = p
  BY <1>1, <1>3, <1>4 DEF QuestionsHold, Agreed
<1>6. \A r \in Ask : Has(client, r) => r \in Opens \/ r \in host.settled
  BY DEF AskedHolds, ClientAsked, Opens
<1>7. \A r \in Ask : In(l, r) => Has(client, r)
  BY <1>2 DEF Has
<1>8. \A r \in Ask : Has(client, r) /\ r # p => In(l, r)
  BY <1>2 DEF Has
<1> HIDE DEF l, p
<1>9. ToSet(l) \subseteq Ask /\ \A r : r \in ToSet(l) <=> In(l, r)
  BY <1>2 DEF ToSet, In
<1>10. ToSet(l) \ {p} = Opens \ {p}
  BY <1>1, <1>5, <1>6, <1>7, <1>8, <1>9
<1>11. Cardinality(ToSet(l)) = Len(l)
  BY <1>2, DistinctCounts
<1> QED BY <1>10, <1>11 DEF l, p, Listed

(* Once nothing of questions is on its way, a live guest is asked exactly what is open at the     *)
(* host, each question once, besides the one whose answer has not been acknowledged              *)
(* (#applyFrame of client.ts: ui-request and ui-request-end, and #restorePendingUiRequest).      *)
THEOREM QuestionsAlwaysAgree == Spec => []QuestionsAgree
<1>1. IInv /\ [Next]_vars => IInv'
  BY StepKeeps
<1>2. Init => WireHolds
  BY InitIsWired
<1> QED BY InitIsCounted, InitIsTyped, InitIsScripted, InitIsAsked, InitHasNoQuestion,
           PageStepsAside, TypedKeeps, WireKeeps, ScriptKeeps, AskedKeeps, QuestionsKeep, HeldQuestionsAgree, <1>1, <1>2,
           PTL DEF Spec
=============================================================================
