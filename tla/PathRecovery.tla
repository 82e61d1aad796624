----------------------------- MODULE PathRecovery -----------------------------
(***************************************************************************)
(* How an open session notices a broken path and repairs it:                *)
(* packages/collab-client/upstream/src/lib/browser-recovery.ts probes the     *)
(* gateway over HTTP, and the relay probes of client.ts measure the way to      *)
(* the host.  Each may replace the relay's transport; while the page is hidden   *)
(* both are silent, and the first starts the second again.                    *)
(*                                                                         *)
(* Abstracted: delays, round-trip times and the backoff of the probes; what      *)
(* GuestSession says of the transport (here: live, or on its way to it).  A       *)
(* relay probe's number matters only by whether it is the one that is awaited.     *)
(***************************************************************************)
EXTENDS Naturals, FiniteSets

CONSTANT MaxEvents  (* bound: what the browser, the network and the gateway do  *)

ASSUME PathAssumption == MaxEvents \in Nat

VARIABLES
  hidden,    (* document.visibilityState                                    *)
  up,        (* does the gateway answer?                                    *)
  deaf,      (* the relay transport is half-open                            *)
  recovery,  (* installBrowserConnectionRecovery                            *)
  relay,     (* the probes of GuestClient                                   *)
  events,    (* events so far                                               *)
  since      (* history: since the last failed probe, how many succeeded     *)
             (* (at most 2) and was the transport replaced?                 *)

vars == <<hidden, up, deaf, recovery, relay, events, since>>

Recovery ==
  [disposed : BOOLEAN,
   health : {"checking", "healthy", "degraded", "unreachable"},
   failing : BOOLEAN,      (* health.failureSince is set                     *)
   failures : 0 .. 2,      (* consecutiveFailures, counted to 2              *)
   successes : 0 .. 1,     (* recoverySuccesses                             *)
   inFlight : BOOLEAN,     (* probeInFlight                                 *)
   superseded : BOOLEAN,   (* the probe in flight is in supersededProbes     *)
   requested : BOOLEAN,    (* probeRequested                                *)
   relayCheck : BOOLEAN,   (* relayCheckRequested                           *)
   timer : BOOLEAN,        (* probeTimer is armed                           *)
   recent : BOOLEAN]       (* less than REFRESH_DEBOUNCE_MS since a refresh   *)

Relay ==
  [phase : {"joining", "live"},
   supported : BOOLEAN,    (* #relayProbeSupported                          *)
   paused : BOOLEAN,       (* #relayProbesPaused                            *)
   idle : BOOLEAN,         (* #relayProbeTimer is armed                     *)
   pending : BOOLEAN,      (* #pendingRelayProbe, and its timeout             *)
   misses : 0 .. 1,        (* #relayConsecutiveMisses                        *)
   coming : SUBSET {"now", "old"}]  (* pings and pongs on the transport: of     *)
                                    (* the pending probe, of others             *)

PathTypeOK ==
  /\ {hidden, up, deaf} \subseteq BOOLEAN
  /\ recovery \in Recovery /\ relay \in Relay
  /\ relay.pending => relay.supported /\ relay.phase = "live"
  /\ "now" \in relay.coming => relay.pending
  /\ events \in 0 .. MaxEvents
  /\ since \in [good : 0 .. 2, replaced : BOOLEAN]

Init ==
  /\ hidden \in BOOLEAN /\ up \in BOOLEAN /\ deaf = FALSE
  /\ recovery = [disposed |-> FALSE, health |-> "checking", failing |-> FALSE,
                 failures |-> 0, successes |-> 0, inFlight |-> FALSE,
                 superseded |-> FALSE, requested |-> FALSE, relayCheck |-> FALSE,
                 timer |-> ~hidden, recent |-> FALSE]
  /\ relay = [phase |-> "joining", supported |-> FALSE, paused |-> hidden, idle |-> FALSE,
              pending |-> FALSE, misses |-> 0, coming |-> {}]
  /\ events = 0
  /\ since = [good |-> 0, replaced |-> FALSE]

-----------------------------------------------------------------------------
(* The relay probes, as functions.                                             *)

(* The pending probe is forgotten; its pong would be a stale one.               *)
Forgotten(c) ==
  [c EXCEPT !.pending = FALSE, !.coming = IF "now" \in @ THEN {"old"} ELSE @]

(* #clearRelayProbe.                                                          *)
Cleared(c) == [Forgotten(c) EXCEPT !.idle = FALSE, !.misses = 0]

(* The transport is lost or replaced: #handleClose, #handleOpen.                 *)
Rejoining(c) ==
  [Cleared(c) EXCEPT !.phase = "joining", !.supported = FALSE, !.coming = {}]

(* Mutant of Probed: #scheduleRelayProbe does not know that probes are paused.    *)
ProbedAlways(c) == c.supported /\ c.phase = "live"

(* May a probe be scheduled or sent?  A hidden page has its probes paused.        *)
Probed(c) == c.supported /\ c.phase = "live" /\ ~c.paused

(* #scheduleRelayProbe.                                                        *)
Idle(c) == [c EXCEPT !.idle = Probed(c) /\ ~c.pending]

(* #sendRelayProbe.                                                            *)
Pinged(c) ==
  IF Probed(c) THEN [c EXCEPT !.pending = TRUE, !.coming = @ \cup {"now"}] ELSE c

(* setRelayProbesPaused.                                                       *)
Paused(c) == IF c.paused THEN c ELSE [Cleared(c) EXCEPT !.paused = TRUE]
Resumed(c) == IF c.paused THEN Idle([c EXCEPT !.paused = FALSE]) ELSE c

(* remeasureRelay.                                                             *)
Remeasured(c) ==
  IF Probed(c) /\ ~c.pending THEN Pinged([c EXCEPT !.idle = FALSE]) ELSE c

(* #recordRelayActivity and the scheduling that follows it.                      *)
Heard(c, satisfied) ==
  IF c.pending /\ ~satisfied THEN Idle(c)
  ELSE Idle([Forgotten(c) EXCEPT !.misses = 0])

-----------------------------------------------------------------------------
(* The gateway probes, as functions.                                            *)

(* probeGateway, up to its fetch.                                              *)
Probing(r) ==
  IF r.inFlight \/ hidden THEN r ELSE [r EXCEPT !.inFlight = TRUE, !.superseded = FALSE]

(* requestProbe.                                                               *)
Requested(r) ==
  LET q == [r EXCEPT !.relayCheck = TRUE, !.timer = FALSE]
  IN IF r.inFlight THEN [q EXCEPT !.requested = TRUE] ELSE Probing(q)

(* A probe is aborted, and its result will not count.                            *)
Superseded(r) == [r EXCEPT !.superseded = r.inFlight]

(* Mutant of Ended: a superseded probe leaves no timer behind.                    *)
EndedQuietly(r) == [r EXCEPT !.inFlight = FALSE, !.requested = FALSE, !.timer = ~r.superseded]

(* The fetch is over and the next probe scheduled.                               *)
Ended(r) == [r EXCEPT !.inFlight = FALSE, !.requested = FALSE, !.timer = TRUE]

(* Mutant of Failed: the recovery goes on where it was.                           *)
FailedOnce(r) ==
  [r EXCEPT !.failures = IF @ = 2 THEN 2 ELSE @ + 1, !.failing = TRUE,
            !.health = IF r.failures >= 1 THEN "unreachable" ELSE "degraded"]

Failed(r) == [FailedOnce(r) EXCEPT !.successes = 0]

(* Mutant of HalfRecovered: the relay's check is taken for done.                  *)
HalfRecoveredUnchecked(r) ==
  [r EXCEPT !.failures = 0, !.successes = 1, !.health = "checking", !.recent = TRUE,
            !.relayCheck = FALSE]

(* The first success after a failure.                                           *)
HalfRecovered(r) ==
  [r EXCEPT !.failures = 0, !.successes = 1, !.health = "checking", !.recent = TRUE]

Healthy(r) ==
  [r EXCEPT !.failures = 0, !.successes = 0, !.health = "healthy", !.failing = FALSE,
            !.relayCheck = FALSE]

-----------------------------------------------------------------------------
Event == events < MaxEvents /\ events' = events + 1

(* The page goes to the background, and its visibilitychange is heard.             *)
Hide ==
  /\ ~hidden /\ Event
  /\ hidden' = TRUE
  /\ IF recovery.disposed THEN UNCHANGED <<recovery, relay>>
     ELSE /\ relay' = Paused(relay)
          /\ recovery' = [Superseded(recovery) EXCEPT !.timer = FALSE]
  /\ UNCHANGED <<up, deaf, since>>

Show ==
  /\ hidden /\ Event
  /\ hidden' = FALSE
  /\ recovery' =
       IF recovery.disposed THEN recovery
       ELSE LET q == [recovery EXCEPT !.relayCheck = TRUE, !.timer = FALSE]
            IN IF recovery.inFlight THEN [q EXCEPT !.requested = TRUE]
               ELSE [q EXCEPT !.inFlight = TRUE, !.superseded = FALSE]
  /\ UNCHANGED <<up, deaf, relay, since>>

(* online, pageshow, or a change of the connection.                               *)
PathChanges ==
  /\ ~recovery.disposed /\ Event
  /\ recovery' = Requested(recovery)
  /\ UNCHANGED <<hidden, up, deaf, relay, since>>

Offline ==
  /\ ~recovery.disposed /\ Event
  /\ recovery' = Requested(Superseded(recovery))
  /\ UNCHANGED <<hidden, up, deaf, relay, since>>

ProbeTimer ==
  /\ recovery.timer
  /\ recovery' = Probing([recovery EXCEPT !.timer = FALSE])
  /\ UNCHANGED <<hidden, up, deaf, relay, events, since>>

(* REFRESH_DEBOUNCE_MS have passed.                                              *)
RefreshAges ==
  /\ recovery.recent
  /\ recovery' = [recovery EXCEPT !.recent = FALSE]
  /\ UNCHANGED <<hidden, up, deaf, relay, events, since>>

(* A probe whose result does not count.                                          *)
ProbeWasted ==
  /\ recovery.inFlight
  /\ hidden \/ recovery.disposed \/ recovery.superseded
  /\ recovery' = IF hidden \/ recovery.disposed THEN [recovery EXCEPT !.inFlight = FALSE]
                 ELSE Ended(recovery)
  /\ UNCHANGED <<hidden, up, deaf, relay, events, since>>

ProbeCounts == recovery.inFlight /\ ~hidden /\ ~recovery.disposed /\ ~recovery.superseded

ProbeFails ==
  /\ ProbeCounts /\ ~up
  /\ recovery' = Failed(Ended(recovery))
  /\ since' = [good |-> 0, replaced |-> FALSE]
  /\ UNCHANGED <<hidden, up, deaf, relay, events>>

Succeeded(replaced) ==
  since' = [good |-> IF since.good = 2 THEN 2 ELSE since.good + 1,
            replaced |-> since.replaced \/ replaced]

(* The first success after a failure replaces the transport, unless that was done     *)
(* just before.                                                                     *)
ProbeRecovers ==
  /\ ProbeCounts /\ up /\ recovery.failing /\ recovery.successes = 0
  /\ recovery' = HalfRecovered(Ended(recovery))
  /\ relay' = IF recovery.recent THEN relay ELSE Rejoining(relay)
  /\ deaf' = (deaf /\ recovery.recent)
  /\ Succeeded(TRUE)
  /\ UNCHANGED <<hidden, up, events>>

ProbeSucceeds ==
  /\ ProbeCounts /\ up /\ ~(recovery.failing /\ recovery.successes = 0)
  /\ recovery' = Healthy(Ended(recovery))
  /\ relay' = IF recovery.relayCheck THEN Remeasured(Resumed(relay)) ELSE relay
  /\ Succeeded(FALSE)
  /\ UNCHANGED <<hidden, up, deaf, events>>

(* The session is over: the recovery is disposed of.                               *)
SessionEnds ==
  /\ ~recovery.disposed
  /\ recovery' = [recovery EXCEPT !.disposed = TRUE, !.timer = FALSE]
  /\ relay' = Paused(Rejoining(relay))
  /\ deaf' = FALSE
  /\ UNCHANGED <<hidden, up, events, since>>

-----------------------------------------------------------------------------
(* The relay's side.                                                              *)

(* A fresh transport is welcomed; the host's first pong follows.                    *)
Rejoins ==
  /\ relay.phase = "joining" /\ ~recovery.disposed
  /\ relay' = [relay EXCEPT !.phase = "live", !.coming = {"old"}]
  /\ UNCHANGED <<hidden, up, deaf, recovery, events, since>>

Hears == relay.phase = "live" /\ ~deaf

FrameArrives ==
  /\ Hears /\ relay' = Heard(relay, FALSE)
  /\ UNCHANGED <<hidden, up, deaf, recovery, events, since>>

PongArrives ==
  /\ Hears
  /\ \E pong \in relay.coming :
       relay' = Heard([relay EXCEPT !.supported = TRUE, !.coming = @ \ {pong}], pong = "now")
  /\ UNCHANGED <<hidden, up, deaf, recovery, events, since>>

IdleTimer ==
  /\ relay.idle
  /\ relay' = Pinged([relay EXCEPT !.idle = FALSE])
  /\ UNCHANGED <<hidden, up, deaf, recovery, events, since>>

(* The pending probe times out, perhaps only because its pong is late.                *)
RelayMiss ==
  /\ relay.pending /\ relay.misses = 0
  /\ relay' = Pinged([Forgotten(relay) EXCEPT !.misses = 1])
  /\ UNCHANGED <<hidden, up, deaf, recovery, events, since>>

SecondMiss ==
  /\ relay.pending /\ relay.misses = 1
  /\ relay' = Rejoining(relay)
  /\ deaf' = FALSE
  /\ UNCHANGED <<hidden, up, recovery, events, since>>

Lost ==
  /\ relay.phase = "live" /\ Event
  /\ relay' = Rejoining(relay)
  /\ deaf' = FALSE
  /\ UNCHANGED <<hidden, up, recovery, since>>

GoesDeaf ==
  /\ relay.phase = "live" /\ ~deaf /\ Event
  /\ deaf' = TRUE
  /\ UNCHANGED <<hidden, up, recovery, relay, since>>

GatewayChanges ==
  /\ Event
  /\ up' = ~up
  /\ UNCHANGED <<hidden, deaf, recovery, relay, since>>

Next ==
  \/ Hide \/ Show \/ PathChanges \/ Offline
  \/ ProbeTimer \/ RefreshAges \/ ProbeWasted \/ ProbeFails \/ ProbeRecovers \/ ProbeSucceeds
  \/ SessionEnds
  \/ Rejoins \/ FrameArrives \/ PongArrives \/ IdleTimer \/ RelayMiss \/ SecondMiss
  \/ Lost \/ GoesDeaf \/ GatewayChanges

Spec == Init /\ [][Next]_vars

(* Timers fire and fetches end (they are aborted in time).                            *)
FairSpec ==
  /\ Spec
  /\ WF_vars(ProbeTimer)
  /\ WF_vars(ProbeWasted \/ ProbeFails \/ ProbeRecovers \/ ProbeSucceeds)
  /\ WF_vars(IdleTimer) /\ WF_vars(RelayMiss \/ SecondMiss)

-----------------------------------------------------------------------------
(* A hidden page, and a session that is over, neither probe nor have a probe to come: no     *)
(* timer is armed, no relay probe is pending, and a fetch still in flight will not count.    *)
HiddenIsQuiet ==
  hidden \/ recovery.disposed =>
    /\ ~recovery.timer
    /\ ~relay.idle /\ ~relay.pending
    /\ recovery.inFlight => recovery.superseded \/ recovery.disposed

(* After a failed probe the gateway is called healthy only when two probes in a row have      *)
(* succeeded, and the transport that may have broken with it has been replaced since (or       *)
(* within half a second before).                                                          *)
RecoveredTwice ==
  [][recovery.failing /\ ~recovery'.failing => since'.good = 2 /\ since'.replaced]_vars

Attentive == ~hidden /\ ~recovery.disposed

(* The verdict on the gateway follows the gateway while the page is in view: the probes       *)
(* never stop, whatever requests, aborts and changes of visibility fall upon them.            *)
VerdictFollows ==
  /\ Attentive /\ up ~> ~Attentive \/ ~up \/ recovery.health = "healthy"
  /\ Attentive /\ ~up ~> ~Attentive \/ up \/ recovery.health = "unreachable"

(* A half-open relay transport is replaced while the page is in view, if its host answers     *)
(* probes: also one that broke while the page was hidden, once the gateway answers.            *)
DeafIsReplaced ==
  deaf /\ relay.supported ~> ~deaf \/ ~Attentive \/ (~up /\ relay.paused)
=============================================================================
