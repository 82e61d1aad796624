----------------------------- MODULE GuestSession -----------------------------
(***************************************************************************)
(* A guest of a coding session over the relay: packages/collab-client/        *)
(* upstream/src/lib/client.ts on its socket, against a host that is read from  *)
(* how the client uses it (docs/PROTOCOL.md names what the host owes).         *)
(*                                                                         *)
(* The host welcomes a guest whose hello it reads, sends the transcript of     *)
(* that moment in chunks and whatever happens since as it happens.  The         *)
(* session's transcript is 1, 2, 3, ...; a question of the host (a UI request)  *)
(* is a number too.                                                         *)
(*                                                                         *)
(* Abstracted: what the frames carry, the frames that only replace a rendered   *)
(* field (state, agents, events), transcripts of subagents, delays.  Relay       *)
(* probes are in PathRecovery; here the transport they replace is one that is    *)
(* deaf.                                                                    *)
(***************************************************************************)
EXTENDS CollabSocket, FiniteSets, SequencesExt

CONSTANTS
  MaxAsks,  (* bound: questions of the host                                  *)
  Budgets   (* bounds: how often the world may act, one budget per behaviour  *)

(* Entries the transcript begins with, entries appended, questions, prompts, and       *)
(* faults: transports lost, refused, refreshed or gone deaf, rooms closed, ...        *)
Budget == [log : Nat, appends : Nat, asks : 0 .. MaxAsks, prompts : Nat, faults : Nat]

ASSUME GuestAssumption == MaxAsks \in Nat /\ Budgets \subseteq Budget

VARIABLES
  socket,  (* CollabSocket                                                  *)
  net,     (* its transport                                                 *)
  client,  (* GuestClient                                                   *)
  host,    (* the host and its room                                         *)
  left,    (* what is left of the budget                                    *)
  closings, (* history: rooms closed since the last welcome                 *)
  paused    (* #relayProbesPaused: the page keeps the probes back           *)

vars == <<socket, net, client, host, left, closings>>

Number == Nat \ {0}
Ask == 1 .. MaxAsks
Prompt(n) == [t |-> "prompt", n |-> n]
Answer(r) == [t |-> "ui-response", req |-> r]
AppFrame ==
  [t : {"prompt"}, n : UNION {1 .. b.prompts : b \in Budgets}]
    \cup [t : {"ui-response"}, req : Ask]
GuestFrame == AppFrame \cup {Hello}

Welcome(n) == [t |-> "welcome", count |-> n]
Chunk(e, final) == [t |-> "snapshot-chunk", entry |-> e, final |-> final]
Entry(e) == [t |-> "entry", entry |-> e]
Request(r) == [t |-> "ui-request", req |-> r]
RequestEnd(r) == [t |-> "ui-request-end", req |-> r]
Bye == [t |-> "bye"]
Error == [t |-> "error"]
Pong == [t |-> "gateway-health-pong"]

HostFrame ==
  [t : {"welcome"}, count : Nat] \cup [t : {"snapshot-chunk"}, entry : Number, final : BOOLEAN]
    \cup [t : {"entry"}, entry : Number] \cup [t : {"ui-request", "ui-request-end"}, req : Ask]
    \cup {Bye, Error, Pong}

Socket ==
  [ws : {"none", "connecting", "open"}, retry : BOOLEAN, closed : BOOLEAN,
   awaiting : BOOLEAN, established : BOOLEAN, tries : 0 .. MaxRoomTries,
   tasks : Seq(GuestFrame), held : Seq(AppFrame)]

Transport ==
  [wire : Seq(GuestFrame), heard : Nat, down : Seq(HostFrame), deaf : BOOLEAN]

Snapshot == [got : Seq(Number), live : Seq(Number), total : Number]

Client ==
  [phase : {"connecting", "waiting", "reconnecting", "live", "ended"},
   welcomed : BOOLEAN,
   everConnected : BOOLEAN,
   welcomeTimer : BOOLEAN,
   snapshotTimer : BOOLEAN,
   probes : BOOLEAN,                    (* #relayProbeSupported              *)
   entries : Seq(Number),          (* #publishedEntries                 *)
   snapshot : Snapshot \cup {None},     (* #pendingSnapshot                  *)
   request : Ask \cup {None},           (* #uiRequest                        *)
   queue : Seq(Ask),                    (* #uiRequestQueue                   *)
   pending : Ask \cup {None}]           (* #pendingUiResponse                *)

Host ==
  [log : Nat,
   asked : 0 .. MaxAsks,
   settled : SUBSET Ask,
   welcomed : BOOLEAN,                  (* the guest at the end of net       *)
   chunks : Seq(Number),           (* of its snapshot, still to be sent *)
   gone : BOOLEAN]                      (* it has said bye                   *)

ASSUME NoneIsNoValue == None \notin Ask \cup Snapshot

SessionTypeOK ==
  /\ socket \in Socket /\ Len(socket.held) <= MaxHeld
  /\ net \in Transport /\ net.heard <= Len(net.wire)
  /\ client \in Client
  /\ host \in Host
  /\ left \in Budget
  /\ closings \in Nat

GuestTypeOK == SessionTypeOK /\ paused \in BOOLEAN

Init ==
  /\ socket = NewSocket
  /\ net = NewTransport
  /\ client = [phase |-> "connecting", welcomed |-> FALSE, everConnected |-> FALSE,
               welcomeTimer |-> TRUE, snapshotTimer |-> FALSE, probes |-> FALSE,
               entries |-> <<>>, snapshot |-> None, request |-> None, queue |-> <<>>, pending |-> None]
  /\ left \in Budgets
  /\ host = [log |-> left.log, asked |-> 0, settled |-> {}, welcomed |-> FALSE,
             chunks |-> <<>>, gone |-> FALSE]
  /\ closings = 0
  /\ paused \in BOOLEAN

Opens == {r \in 1 .. host.asked : r \notin host.settled}

-----------------------------------------------------------------------------
(* The client's handlers, as functions.                                        *)

(* Mutant of Connected: only the first handshake has a deadline.                *)
ConnectedUntimed(c) ==
  [c EXCEPT !.welcomed = FALSE, !.welcomeTimer = ~c.everConnected, !.everConnected = TRUE,
            !.probes = FALSE, !.phase = IF c.everConnected THEN "reconnecting" ELSE "waiting"]

(* #handleOpen, but for the hello.                                            *)
Connected(c) ==
  [c EXCEPT !.welcomed = FALSE, !.welcomeTimer = TRUE, !.everConnected = TRUE,
            !.probes = FALSE, !.phase = IF c.everConnected THEN "reconnecting" ELSE "waiting"]

(* #handleClose of a close that is retried.                                     *)
Dropped(c) ==
  [c EXCEPT !.welcomeTimer = FALSE, !.snapshotTimer = FALSE, !.phase = "reconnecting",
            !.snapshot = None, !.probes = FALSE]

(* #end.                                                                       *)
Finished(c) ==
  [c EXCEPT !.welcomeTimer = FALSE, !.snapshotTimer = FALSE, !.phase = "ended",
            !.snapshot = None, !.request = None, !.queue = <<>>, !.pending = None,
            !.probes = FALSE]

(* Mutant of Restored: the questions that waited are kept.                       *)
RestoredAll(c) == [c EXCEPT !.request = IF c.pending # None THEN c.pending ELSE c.request]

(* #restorePendingUiRequest.                                                    *)
Restored(c) == [c EXCEPT !.request = c.pending, !.queue = <<>>]

OnWelcome(c, count) ==
  LET w == [Restored(c) EXCEPT !.welcomed = TRUE, !.welcomeTimer = FALSE]
  IN IF count = 0
     THEN [w EXCEPT !.entries = <<>>, !.snapshot = None, !.snapshotTimer = FALSE,
                    !.phase = "live"]
     ELSE [w EXCEPT !.snapshot = [got |-> <<>>, live |-> <<>>, total |-> count],
                    !.snapshotTimer = TRUE]

(* A chunk: of the snapshot that is loading, or of none.                         *)
OnChunk(c, e, final) ==
  LET got == Append(c.snapshot.got, e)
  IN IF ~final /\ Len(got) < c.snapshot.total
     THEN [c EXCEPT !.snapshot.got = got, !.snapshotTimer = TRUE]
     ELSE [c EXCEPT !.entries = got \o c.snapshot.live, !.snapshot = None,
                    !.snapshotTimer = FALSE, !.phase = "live"]

(* Mutant of OnEntry: a live entry is shown at once, and the snapshot replaces it.   *)
OnEntryShown(c, e) == [c EXCEPT !.entries = Append(@, e)]

OnEntry(c, e) ==
  IF c.snapshot # None THEN [c EXCEPT !.snapshot.live = Append(@, e)]
                       ELSE [c EXCEPT !.entries = Append(@, e)]

Known(c, r) == r \in {c.pending, c.request} \cup ToSet(c.queue)

OnRequest(c, r) ==
  IF Known(c, r) THEN c
  ELSE IF c.request # None THEN [c EXCEPT !.queue = Append(@, r)]
  ELSE [c EXCEPT !.request = r]

(* #showNextUiRequest.                                                           *)
NextShown(c) ==
  [c EXCEPT !.request = IF c.queue = <<>> THEN None ELSE Head(c.queue),
            !.queue = IF c.queue = <<>> THEN @ ELSE Tail(@)]

(* The filter drops one at most: a question that is known is not queued again.     *)
OnRequestEnd(c, r) ==
  LET d == [c EXCEPT !.pending = IF @ = r THEN None ELSE @]
  IN IF d.request = r THEN NextShown(d) ELSE [d EXCEPT !.queue = RemoveFirst(@, r)]

(* #applyFrame, but for the frames that end the session.                          *)
Applied(c, f) ==
  CASE f.t = "welcome" -> OnWelcome(c, f.count)
    [] f.t = "snapshot-chunk" /\ c.snapshot # None -> OnChunk(c, f.entry, f.final)
    [] f.t = "entry" -> OnEntry(c, f.entry)
    [] f.t = "ui-request" -> OnRequest(c, f.req)
    [] f.t = "ui-request-end" -> OnRequestEnd(c, f.req)
    [] f = Pong -> [c EXCEPT !.probes = TRUE]
    [] OTHER -> c

(* Frames after which the session is over: bye, and an error that answers the hello. *)
Ends(c, f) == f.t = "bye" \/ (f.t = "error" /\ ~c.welcomed)

(* Mutant of Answers: the answer is not sent again.                               *)
NoAnswers(c, d) == <<>>

(* #resendPendingUiResponse, when the frame has made the session live.             *)
Answers(c, d) ==
  IF c.phase # "live" /\ d.phase = "live" /\ d.pending # None
  THEN <<Answer(d.pending)>> ELSE <<>>

-----------------------------------------------------------------------------
(* What happens to the session.                                                   *)

(* Something of the budget is used.                                               *)
Uses(what) == left[what] > 0 /\ left' = [left EXCEPT ![what] = @ - 1]

(* A transport is given up: what was on its way is lost, and the host forgets the    *)
(* guest that was at its end.                                                      *)
Severed ==
  /\ net' = Cut(net)
  /\ host' = [host EXCEPT !.welcomed = FALSE, !.chunks = <<>>]

(* The session is over, whoever ended it.                                           *)
End ==
  /\ client' = Finished(client)
  /\ socket' = Closed(socket)
  /\ Severed

Running == ~socket.closed

AttemptOpens ==
  /\ socket.ws = "connecting"
  /\ socket' = Queued(Opened(socket), Hello)
  /\ client' = Connected(client)
  /\ UNCHANGED <<net, host, left, closings>>

RetryFires ==
  /\ socket.retry
  /\ socket' = Retried(socket)
  /\ UNCHANGED <<net, client, host, left, closings>>

(* The transport is lost, or an attempt at one is refused or times out.               *)
Lost ==
  /\ Running /\ socket.ws # "none" /\ Uses("faults")
  /\ socket' = Retrying(socket)
  /\ client' = Dropped(client)
  /\ Severed
  /\ UNCHANGED closings

(* The relay closes the room: 4001 or 4004.  A room whose host has said bye is gone    *)
(* for good.                                                                        *)
RoomCloses ==
  /\ Running /\ socket.ws = "open"
  /\ IF host.gone THEN UNCHANGED left ELSE Uses("faults")
  /\ closings' = closings + 1
  /\ IF Recoverable(socket)
     THEN socket' = RoomRetried(socket) /\ client' = Dropped(client) /\ Severed
     ELSE End

(* A close that is never retried, or a frame that does not open: even one of a transport   *)
(* that was replaced while it was opened.                                              *)
FatalClose == Running /\ End /\ UNCHANGED <<left, closings>>

(* The transport stays open and carries nothing.                                       *)
GoesDeaf ==
  /\ socket.ws = "open" /\ ~net.deaf /\ Uses("faults")
  /\ net' = [net EXCEPT !.deaf = TRUE]
  /\ UNCHANGED <<socket, client, host, closings>>

(* refreshConnection.                                                                 *)
Refreshed ==
  /\ client.phase # "ended"
  /\ socket' = Reconnected(socket)
  /\ client' = Dropped(client)
  /\ Severed
  /\ UNCHANGED closings

(* The page asks for a fresh transport.                                                *)
Refresh == Uses("faults") /\ Refreshed

(* Two relay probes in a row go unanswered.  Only a host that has sent a pong is probed,   *)
(* and only while the page does not keep the probes back.                              *)
ProbesMiss ==
  /\ client.phase = "live" /\ client.probes /\ ~paused /\ net.deaf
  /\ Refreshed
  /\ UNCHANGED left

(* setRelayProbesPaused: the page is hidden, or it is shown and the gateway has answered it. *)
(* PathRecovery says when.                                                              *)
Pauses == paused' = ~paused

(* The head of the send chain is sealed.                                               *)
SealDone ==
  /\ socket.tasks # <<>>
  /\ LET frame == Head(socket.tasks)
     IN /\ net' = [net EXCEPT !.wire = @ \o Emitted(socket, frame)]
        /\ socket' = Sealed(socket, frame)
  /\ UNCHANGED <<client, host, left, closings>>

(* A frame is opened and applied.                                                      *)
Receive ==
  /\ Running /\ ~net.deaf /\ net.down # <<>>
  /\ LET f == Head(net.down)
         d == Applied(client, f)
     IN IF Ends(client, f) THEN End
        ELSE /\ client' = d
             /\ socket' = LET s == IF f.t = "welcome" THEN Welcomed(socket) ELSE socket
                          IN [s EXCEPT !.tasks = @ \o Answers(client, d)]
             /\ net' = [net EXCEPT !.down = Tail(@)]
             /\ UNCHANGED host
  /\ closings' = IF Head(net.down).t = "welcome" THEN 0 ELSE closings
  /\ UNCHANGED left

WelcomeTimeout == client.welcomeTimer /\ End /\ UNCHANGED <<left, closings>>

SnapshotTimeout == client.snapshotTimer /\ End /\ UNCHANGED <<left, closings>>

-----------------------------------------------------------------------------
(* The user.                                                                             *)

SendPrompt ==
  /\ Running /\ Uses("prompts")
  /\ socket' = Queued(socket, Prompt(left.prompts))
  /\ UNCHANGED <<net, client, host, closings>>

SendUiResponse ==
  /\ client.pending = None /\ client.request # None
  /\ client' = [client EXCEPT !.pending = client.request]
  /\ socket' = Queued(socket, Answer(client.request))
  /\ UNCHANGED <<net, host, left, closings>>

Leave == client.phase # "ended" /\ End /\ UNCHANGED <<left, closings>>

-----------------------------------------------------------------------------
(* The host (external).                                                                  *)

ToGuest(frames) == net' = [net EXCEPT !.down = @ \o frames]

(* The host answers a hello with a welcome, the open questions and, when the transcript has  *)
(* been sent, a first pong; or with an error.                                            *)
AfterSnapshot(n) == IF n = 0 THEN <<Pong>> ELSE <<>>

Greets ==
  /\ host' = [host EXCEPT !.welcomed = TRUE, !.chunks = [i \in 1 .. host.log |-> i]]
  /\ net' = [net EXCEPT !.heard = @ + 1,
                        !.down = @ \o <<Welcome(host.log)>>
                                   \o SetToSeq({Request(r) : r \in Opens})
                                   \o AfterSnapshot(host.log)]
  /\ UNCHANGED left

Refuses ==
  /\ Uses("faults")
  /\ net' = [net EXCEPT !.heard = @ + 1, !.down = Append(@, Error)]
  /\ UNCHANGED host

Settled(r) ==
  /\ host' = [host EXCEPT !.settled = @ \cup {r}]
  /\ UNCHANGED left

HostHears ==
  /\ ~net.deaf /\ ~host.gone /\ net.heard < Len(net.wire)
  /\ LET f == net.wire[net.heard + 1]
     IN \/ f = Hello /\ ~host.welcomed /\ (Greets \/ Refuses)
        \/ /\ f.t = "prompt"
           /\ net' = [net EXCEPT !.heard = @ + 1]
           /\ UNCHANGED <<host, left>>
        \/ /\ f.t = "ui-response" /\ Settled(f.req)
           /\ net' = [net EXCEPT !.heard = @ + 1, !.down = Append(@, RequestEnd(f.req))]
  /\ UNCHANGED <<socket, client, closings>>

HostSendsChunk ==
  /\ host.chunks # <<>>
  /\ ToGuest(<<Chunk(Head(host.chunks), Len(host.chunks) = 1)>>
               \o AfterSnapshot(Len(host.chunks) - 1))
  /\ host' = [host EXCEPT !.chunks = Tail(@)]
  /\ UNCHANGED <<socket, client, left, closings>>

HostAppends ==
  /\ Uses("appends")
  /\ host' = [host EXCEPT !.log = @ + 1]
  /\ ToGuest(IF host.welcomed THEN <<Entry(host.log + 1)>> ELSE <<>>)
  /\ UNCHANGED <<socket, client, closings>>

HostAsks ==
  /\ host.asked < MaxAsks /\ Uses("asks")
  /\ host' = [host EXCEPT !.asked = @ + 1]
  /\ ToGuest(IF host.welcomed THEN <<Request(host.asked + 1)>> ELSE <<>>)
  /\ UNCHANGED <<socket, client, closings>>

(* The question is answered at the host, or by another guest.                               *)
HostSettles ==
  /\ \E r \in Opens : /\ Settled(r)
                      /\ ToGuest(IF host.welcomed THEN <<RequestEnd(r)>> ELSE <<>>)
  /\ UNCHANGED <<socket, client, closings>>

HostLeaves ==
  /\ Running /\ ~host.gone /\ Uses("faults")
  /\ host' = [host EXCEPT !.gone = TRUE]
  /\ ToGuest(IF host.welcomed THEN <<Bye>> ELSE <<>>)
  /\ UNCHANGED <<socket, client, closings>>

(* What the host does once the guest has left is left out.                                    *)
HostStep == Running /\ ~host.gone /\ (HostSendsChunk \/ HostAppends \/ HostAsks \/ HostSettles)

Next ==
  \/ AttemptOpens \/ RetryFires \/ Lost \/ RoomCloses \/ FatalClose
  \/ GoesDeaf \/ Refresh \/ ProbesMiss
  \/ SealDone \/ Receive
  \/ WelcomeTimeout \/ SnapshotTimeout
  \/ SendPrompt \/ SendUiResponse \/ Leave
  \/ HostHears \/ HostLeaves \/ HostStep

(* The page, beside the session.                                                            *)
PagedNext == (Next /\ UNCHANGED paused) \/ (Pauses /\ UNCHANGED vars)

Spec == Init /\ [][PagedNext]_<<vars, paused>>

(* Timers fire, what is being sealed or opened is, a live session's probes notice a deaf     *)
(* transport while they run; the relay answers and the host reads what it gets.  Nothing     *)
(* makes the page resume them.                                                             *)
Progress ==
  \/ AttemptOpens \/ RetryFires \/ SealDone \/ Receive
  \/ WelcomeTimeout \/ SnapshotTimeout \/ ProbesMiss
  \/ HostHears \/ (~host.gone /\ HostSendsChunk) \/ (host.gone /\ RoomCloses)

FairSpec == Spec /\ WF_vars(Progress /\ UNCHANGED paused)

-----------------------------------------------------------------------------
(* The socket keeps what RelayChannel promises of every transport: the hello first and      *)
(* once, then what was accepted for this transport, in order.  A transport queues one hello. *)
Channel == INSTANCE RelayChannel WITH
  Frame <- AppFrame,
  Capacity <- MaxHeld,
  line <- IF socket.ws = "open" THEN "up" ELSE "down",
  owed <- IF socket.closed THEN <<>>
          ELSE socket.held \o RemoveFirst(socket.tasks, Hello),
  sent <- net.wire

InOrder == Channel!ChannelSpec

FirstEntries(n) == [i \in 1 .. n |-> i]

(* Where a transport still carries entries to the guest.                                    *)
EntriesComing == {i \in DOMAIN net.down : net.down[i].t = "entry"}

(* What the guest shows is always the beginning of the session's transcript, with no entry     *)
(* missing, repeated or out of order, whatever snapshots were interrupted and however live     *)
(* entries fell between their chunks; once live, it lacks exactly what is still on its way,      *)
(* each entry once and in order.                                                            *)
TranscriptFaithful ==
  /\ client.entries = FirstEntries(Len(client.entries))
  /\ client.phase = "live" =>
       /\ Len(client.entries) <= host.log
       /\ {net.down[i].entry : i \in EntriesComing} = Len(client.entries) + 1 .. host.log
       /\ \A i, j \in EntriesComing : i < j => net.down[i].entry < net.down[j].entry

QuestionsComing ==
  \E i \in DOMAIN net.down : net.down[i].t \in {"ui-request", "ui-request-end"}

(* Once everything has arrived, a live guest is asked exactly what is open at the host, each    *)
(* question once, besides the one whose answer has not been acknowledged.                      *)
QuestionsAgree ==
  client.phase = "live" /\ ~QuestionsComing =>
    LET shown == (IF client.request = None THEN <<>> ELSE <<client.request>>) \o client.queue
    IN /\ ToSet(shown) \ {client.pending} = Opens \ {client.pending}
       /\ Cardinality(ToSet(shown)) = Len(shown)

(* A room that closes is retried at most MaxRoomTries times without a welcome in between, and    *)
(* never before the first welcome; then the session is over.                                   *)
RoomTriesBounded ==
  /\ closings <= MaxRoomTries + 1
  /\ closings > 0 /\ (~socket.established \/ closings > MaxRoomTries)
       => client.phase = "ended"

(* A session is never left between two states: whatever transports are lost, refused or deaf,    *)
(* interrupted in the handshake or in the snapshot, it becomes live or ends.                    *)
Over == client.phase \in {"live", "ended"}
SessionSettles == []<>Over

(* An answer the user has given is settled at the host and acknowledged, whatever transports     *)
(* are lost on its way, unless the session ends; or its transport went deaf before the host's    *)
(* first pong on it: nothing probes that one.  It holds where the page comes to let the probes *)
(* run: while it is hidden, and until the gateway has answered a page that is shown again, an   *)
(* answer on a deaf transport waits (browser-recovery.ts 178-191, 219).                         *)
Unprobed == net.deaf /\ ~client.probes
AnswerSettles ==
  <>[]~paused =>
    \A r \in Ask :
      client.pending = r ~>
        client.phase = "ended" \/ Unprobed \/ (r \in host.settled /\ client.pending # r)
=============================================================================
