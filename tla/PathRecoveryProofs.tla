-------------------------- MODULE PathRecoveryProofs --------------------------
(* That a page out of sight, or whose session is over, stays quiet, and that a gateway *)
(* is healthy again only after two successes: proved for any number of events.       *)
EXTENDS PathRecovery, TLAPS

(* What is said of the relay's probes after each call.  While they are paused no   *)
(* timer runs and no probe is pending: Paused clears both, and only Idle and        *)
(* Pinged set them.                                                            *)
Sound(c) ==
  /\ c \in Relay
  /\ c.pending => c.supported /\ c.phase = "live"
  /\ "now" \in c.coming => c.pending
  /\ c.paused => ~c.idle /\ ~c.pending

(* Out of sight, or disposed, the relay's probes are paused and the gateway's have   *)
(* neither a timer nor a fetch that counts.                                       *)
Silent(h, r, c) ==
  h \/ r.disposed =>
    /\ ~r.timer /\ c.paused
    /\ r.inFlight => r.superseded \/ r.disposed

IInv == PathTypeOK /\ Sound(relay) /\ Silent(hidden, recovery, relay)

-----------------------------------------------------------------------------
(* The calls on the relay's probes keep Sound, and but for Paused and Resumed they    *)
(* leave alone whether the probes are paused.                                      *)

LEMMA ForgottenIsSound ==
  ASSUME NEW c, Sound(c)
  PROVE  Sound(Forgotten(c)) /\ Forgotten(c).paused = c.paused /\ ~Forgotten(c).pending
BY DEF Sound, Forgotten, Relay

LEMMA ClearedIsSound ==
  ASSUME NEW c, Sound(c)
  PROVE  /\ Sound(Cleared(c)) /\ Cleared(c).paused = c.paused
         /\ ~Cleared(c).pending /\ ~Cleared(c).idle /\ "now" \notin Cleared(c).coming
<1> DEFINE f == Forgotten(c)
<1>1. Sound(f) /\ f.paused = c.paused /\ ~f.pending
  BY ForgottenIsSound
<1>2. Cleared(c) = [f EXCEPT !.idle = FALSE, !.misses = 0]
  BY DEF Cleared
<1>3. 0 \in 0 .. 1
  OBVIOUS
<1> HIDE DEF f
<1>4. /\ Cleared(c) \in Relay /\ Cleared(c).coming = f.coming
      /\ ~Cleared(c).pending /\ ~Cleared(c).idle /\ Cleared(c).paused = f.paused
  BY <1>1, <1>2, <1>3, ZenonT(60) DEF Sound, Relay
<1> QED BY <1>1, <1>4 DEF Sound

LEMMA RejoiningIsSound ==
  ASSUME NEW c, Sound(c)
  PROVE  Sound(Rejoining(c)) /\ Rejoining(c).paused = c.paused
<1> DEFINE f == Cleared(c)
<1>1. Sound(f) /\ f.paused = c.paused /\ ~f.pending /\ ~f.idle
  BY ClearedIsSound
<1>2. Rejoining(c) = [f EXCEPT !.phase = "joining", !.supported = FALSE, !.coming = {}]
  BY DEF Rejoining
<1> HIDE DEF f
<1> QED BY <1>1, <1>2 DEF Sound, Relay

LEMMA IdleIsSound ==
  ASSUME NEW c \in Relay,
         c.pending => c.supported /\ c.phase = "live",
         "now" \in c.coming => c.pending,
         c.paused => ~c.pending
  PROVE  Sound(Idle(c)) /\ Idle(c).paused = c.paused
BY DEF Idle, Probed, Sound, Relay

LEMMA PingedIsSound ==
  ASSUME NEW c, Sound(c)
  PROVE  Sound(Pinged(c)) /\ Pinged(c).paused = c.paused
<1>1. CASE Probed(c)
  BY <1>1 DEF Pinged, Probed, Sound, Relay
<1>2. CASE ~Probed(c)
  BY <1>2 DEF Pinged
<1> QED BY <1>1, <1>2

LEMMA PausedIsSound ==
  ASSUME NEW c, Sound(c)
  PROVE  Sound(Paused(c)) /\ Paused(c).paused
<1>1. CASE c.paused
  BY <1>1 DEF Paused
<1>2. CASE ~c.paused
  <2> DEFINE f == Cleared(c)
  <2>1. Sound(f) /\ ~f.pending /\ ~f.idle
    BY ClearedIsSound
  <2>2. Paused(c) = [f EXCEPT !.paused = TRUE]
    BY <1>2 DEF Paused
  <2> HIDE DEF f
  <2> QED BY <2>1, <2>2 DEF Sound, Relay
<1> QED BY <1>1, <1>2

LEMMA ResumedIsSound ==
  ASSUME NEW c, Sound(c)
  PROVE  Sound(Resumed(c))
<1>1. CASE ~c.paused
  BY <1>1 DEF Resumed
<1>2. CASE c.paused
  <2> DEFINE f == [c EXCEPT !.paused = FALSE]
  <2>1. /\ f \in Relay /\ ~f.pending /\ "now" \notin f.coming
    BY <1>2 DEF Sound, Relay
  <2>2. Resumed(c) = Idle(f)
    BY <1>2 DEF Resumed
  <2> HIDE DEF f
  <2> QED BY <2>1, <2>2, IdleIsSound
<1> QED BY <1>1, <1>2

LEMMA RemeasuredIsSound ==
  ASSUME NEW c, Sound(c)
  PROVE  Sound(Remeasured(c))
<1> DEFINE f == [c EXCEPT !.idle = FALSE]
<1>1. Sound(f)
  BY DEF Sound, Relay
<1> HIDE DEF f
<1>2. Sound(Pinged(f))
  BY <1>1, PingedIsSound
<1> QED BY <1>2 DEF Remeasured, f

LEMMA HeardIsSound ==
  ASSUME NEW c, Sound(c), NEW satisfied \in BOOLEAN
  PROVE  Sound(Heard(c, satisfied)) /\ Heard(c, satisfied).paused = c.paused
<1>1. CASE c.pending /\ ~satisfied
  <2>1. Sound(Idle(c)) /\ Idle(c).paused = c.paused
    BY IdleIsSound DEF Sound
  <2> QED BY <1>1, <2>1 DEF Heard
<1>2. CASE ~(c.pending /\ ~satisfied)
  <2> DEFINE f == Forgotten(c)
             g == [f EXCEPT !.misses = 0]
  <2>1. Sound(f) /\ f.paused = c.paused /\ ~f.pending
    BY ForgottenIsSound
  <2> HIDE DEF f
  <2>2. /\ g \in Relay /\ ~g.pending /\ "now" \notin g.coming /\ g.paused = c.paused
    BY <2>1 DEF Sound, Relay
  <2>3. Heard(c, satisfied) = Idle(g)
    BY <1>2 DEF Heard, f
  <2> HIDE DEF g
  <2> QED BY <2>2, <2>3, IdleIsSound
<1> QED BY <1>1, <1>2

-----------------------------------------------------------------------------
(* The calls on the gateway's probes.                                          *)

LEMMA ProbingIsTyped ==
  ASSUME NEW r \in Recovery
  PROVE  /\ Probing(r) \in Recovery
         /\ Probing(r).timer = r.timer /\ Probing(r).disposed = r.disposed
         /\ hidden => Probing(r) = r
BY DEF Probing, Recovery

LEMMA SupersededIsTyped ==
  ASSUME NEW r \in Recovery
  PROVE  /\ Superseded(r) \in Recovery
         /\ Superseded(r).superseded = r.inFlight /\ Superseded(r).inFlight = r.inFlight
         /\ Superseded(r).timer = r.timer /\ Superseded(r).disposed = r.disposed
BY DEF Superseded, Recovery

LEMMA RequestedIsTyped ==
  ASSUME NEW r \in Recovery
  PROVE  /\ Requested(r) \in Recovery /\ Requested(r).disposed = r.disposed
         /\ ~Requested(r).timer
         /\ hidden => /\ Requested(r).inFlight = r.inFlight
                      /\ Requested(r).superseded = r.superseded
<1> DEFINE q == [r EXCEPT !.relayCheck = TRUE, !.timer = FALSE]
<1>1. /\ q \in Recovery /\ ~q.timer /\ q.disposed = r.disposed
      /\ q.inFlight = r.inFlight /\ q.superseded = r.superseded
  BY DEF Recovery
<1>2. Requested(r) = IF r.inFlight THEN [q EXCEPT !.requested = TRUE] ELSE Probing(q)
  BY DEF Requested
<1> HIDE DEF q
<1>3. CASE r.inFlight
  BY <1>1, <1>2, <1>3, ZenonT(60) DEF Recovery
<1>4. CASE ~r.inFlight
  BY <1>1, <1>2, <1>4, ProbingIsTyped
<1> QED BY <1>3, <1>4

LEMMA EndedIsTyped ==
  ASSUME NEW r \in Recovery
  PROVE  /\ Ended(r) \in Recovery /\ Ended(r).disposed = r.disposed
         /\ Ended(r).failing = r.failing /\ ~Ended(r).inFlight
BY DEF Ended, Recovery

LEMMA FailedIsTyped ==
  ASSUME NEW r \in Recovery
  PROVE  Failed(r) \in Recovery /\ Failed(r).disposed = r.disposed
<1> DEFINE f == FailedOnce(r)
<1>1. f \in Recovery /\ f.disposed = r.disposed
  <2> DEFINE n == IF r.failures = 2 THEN 2 ELSE r.failures + 1
             h == IF r.failures >= 1 THEN "unreachable" ELSE "degraded"
  <2>1. n \in 0 .. 2
    BY DEF Recovery
  <2>2. h \in {"checking", "healthy", "degraded", "unreachable"}
    OBVIOUS
  <2>3. f = [r EXCEPT !.failures = n, !.failing = TRUE, !.health = h]
    BY DEF FailedOnce
  <2> HIDE DEF n, h, f
  <2> QED BY <2>1, <2>2, <2>3 DEF Recovery
<1>2. Failed(r) = [f EXCEPT !.successes = 0]
  BY DEF Failed
<1>3. 0 \in 0 .. 1
  OBVIOUS
<1> HIDE DEF f
<1> QED BY <1>1, <1>2, <1>3 DEF Recovery

LEMMA HalfRecoveredIsTyped ==
  ASSUME NEW r \in Recovery
  PROVE  HalfRecovered(r) \in Recovery /\ HalfRecovered(r).disposed = r.disposed
<1>1. 0 \in 0 .. 2 /\ 1 \in 0 .. 1
  OBVIOUS
<1> QED BY <1>1 DEF HalfRecovered, Recovery

LEMMA HealthyIsTyped ==
  ASSUME NEW r \in Recovery
  PROVE  Healthy(r) \in Recovery /\ Healthy(r).disposed = r.disposed
<1>1. 0 \in 0 .. 2 /\ 0 \in 0 .. 1
  OBVIOUS
<1> QED BY <1>1 DEF Healthy, Recovery

LEMMA EventIsCounted ==
  ASSUME PathTypeOK, Event
  PROVE  events' \in 0 .. MaxEvents
BY PathAssumption DEF PathTypeOK, Event

-----------------------------------------------------------------------------
LEMMA InitIsSound == Init => IInv
<1> SUFFICES ASSUME Init PROVE IInv
  OBVIOUS
<1>1. 0 \in 0 .. MaxEvents /\ 0 \in 0 .. 2 /\ 0 \in 0 .. 1
  BY PathAssumption
<1>2. recovery \in Recovery /\ (hidden => ~recovery.timer) /\ ~recovery.disposed /\ ~recovery.inFlight
  BY <1>1 DEF Init, Recovery
<1>3. Sound(relay) /\ relay.paused = hidden
  BY <1>1 DEF Init, Relay, Sound
<1>4. {hidden, up, deaf} \subseteq BOOLEAN /\ since \in [good : 0 .. 2, replaced : BOOLEAN]
  BY <1>1 DEF Init
<1>5. events \in 0 .. MaxEvents
  BY <1>1 DEF Init
<1>6. PathTypeOK
  BY <1>2, <1>3, <1>4, <1>5 DEF PathTypeOK, Sound
<1>7. Silent(hidden, recovery, relay)
  BY <1>2, <1>3 DEF Silent
<1> QED BY <1>3, <1>6, <1>7 DEF IInv

(* PathTypeOK of the next state, from the types of what changed.                  *)
LEMMA TypeFollows ==
  ASSUME {hidden', up', deaf'} \subseteq BOOLEAN,
         recovery' \in Recovery, Sound(relay'), events' \in 0 .. MaxEvents,
         since' \in [good : 0 .. 2, replaced : BOOLEAN]
  PROVE  PathTypeOK'
BY DEF PathTypeOK, Sound

LEMMA StepIsSound == IInv /\ [Next]_vars => IInv'
<1> SUFFICES ASSUME IInv, [Next]_vars PROVE IInv'
  OBVIOUS
<1>t. /\ {hidden, up, deaf} \subseteq BOOLEAN
      /\ recovery \in Recovery /\ events \in 0 .. MaxEvents
      /\ since \in [good : 0 .. 2, replaced : BOOLEAN]
  BY DEF IInv, PathTypeOK
<1>s. Sound(relay) /\ Silent(hidden, recovery, relay)
  BY DEF IInv
<1>e. ASSUME Event PROVE events' \in 0 .. MaxEvents
  BY <1>e, EventIsCounted DEF IInv
<1> USE DEF IInv
<1>1. CASE Hide
  <2>1. CASE recovery.disposed
    BY <1>1, <2>1, <1>t, <1>s, <1>e, TypeFollows DEF Hide, Silent
  <2>2. CASE ~recovery.disposed
    <3> DEFINE q == Superseded(recovery)
    <3>1. /\ q \in Recovery /\ q.superseded = recovery.inFlight /\ q.inFlight = recovery.inFlight
      BY <1>t, SupersededIsTyped
    <3>2. recovery' = [q EXCEPT !.timer = FALSE] /\ relay' = Paused(relay)
      BY <1>1, <2>2 DEF Hide
    <3> HIDE DEF q
    <3>3. /\ recovery' \in Recovery /\ ~recovery'.timer
          /\ recovery'.inFlight => recovery'.superseded
      BY <3>1, <3>2 DEF Recovery
    <3>4. Sound(relay') /\ relay'.paused
      BY <1>s, <3>2, PausedIsSound
    <3>5. Silent(hidden, recovery, relay)'
      BY <3>3, <3>4 DEF Silent
    <3>6. PathTypeOK'
      BY <1>1, <1>t, <1>e, <3>3, <3>4, TypeFollows DEF Hide
    <3> QED BY <3>4, <3>5, <3>6
  <2> QED BY <2>1, <2>2
<1>2. CASE Show
  <2>1. recovery' \in Recovery /\ recovery'.disposed = recovery.disposed
    <3>1. CASE recovery.disposed
      BY <1>2, <1>t, <3>1 DEF Show
    <3>2. CASE ~recovery.disposed /\ recovery.inFlight
      BY <1>2, <1>t, <3>2 DEF Show, Recovery
    <3>3. CASE ~recovery.disposed /\ ~recovery.inFlight
      BY <1>2, <1>t, <3>3 DEF Show, Recovery
    <3> QED BY <3>1, <3>2, <3>3
  <2>2. Sound(relay')
    BY <1>2, <1>s DEF Show
  <2>3. PathTypeOK'
    BY <1>2, <1>t, <1>e, <2>1, <2>2, TypeFollows DEF Show
  <2>4. Silent(hidden, recovery, relay)'
    BY <1>2, <1>s, <2>1 DEF Show, Silent
  <2> QED BY <2>2, <2>3, <2>4
<1>3. CASE PathChanges
  <2>1. /\ recovery' \in Recovery /\ recovery'.disposed = recovery.disposed /\ ~recovery'.timer
        /\ hidden => /\ recovery'.inFlight = recovery.inFlight
                     /\ recovery'.superseded = recovery.superseded
    BY <1>3, <1>t, RequestedIsTyped DEF PathChanges
  <2>2. PathTypeOK'
    BY <1>3, <1>t, <1>s, <1>e, <2>1, TypeFollows DEF PathChanges
  <2>3. Silent(hidden, recovery, relay)'
    BY <1>3, <1>s, <2>1 DEF PathChanges, Silent
  <2> QED BY <1>3, <1>s, <2>2, <2>3 DEF PathChanges
<1>4. CASE Offline
  <2> DEFINE q == Superseded(recovery)
  <2>1. /\ q \in Recovery /\ q.disposed = recovery.disposed
        /\ q.superseded = recovery.inFlight /\ q.inFlight = recovery.inFlight
    BY <1>t, SupersededIsTyped
  <2>2. recovery' = Requested(q)
    BY <1>4 DEF Offline
  <2> HIDE DEF q
  <2>3. /\ recovery' \in Recovery /\ recovery'.disposed = q.disposed /\ ~recovery'.timer
        /\ hidden => recovery'.inFlight = q.inFlight /\ recovery'.superseded = q.superseded
    BY <2>1, <2>2, RequestedIsTyped
  <2>4. PathTypeOK'
    BY <1>4, <1>t, <1>s, <1>e, <2>3, TypeFollows DEF Offline
  <2>5. Silent(hidden, recovery, relay)'
    BY <1>4, <1>s, <2>1, <2>3 DEF Offline, Silent
  <2> QED BY <1>4, <1>s, <2>4, <2>5 DEF Offline
<1>5. CASE ProbeTimer
  <2> DEFINE q == [recovery EXCEPT !.timer = FALSE]
  <2>1. q \in Recovery /\ q.disposed = recovery.disposed
    BY <1>t DEF Recovery
  <2>2. recovery' = Probing(q)
    BY <1>5 DEF ProbeTimer
  <2> HIDE DEF q
  <2>3. recovery' \in Recovery /\ recovery'.disposed = recovery.disposed
    BY <2>1, <2>2, ProbingIsTyped
  <2>4. ~hidden /\ ~recovery.disposed
    BY <1>5, <1>s DEF ProbeTimer, Silent
  <2>5. PathTypeOK'
    BY <1>5, <1>t, <1>s, <2>3, TypeFollows DEF ProbeTimer
  <2>6. Silent(hidden, recovery, relay)'
    BY <1>5, <2>3, <2>4 DEF ProbeTimer, Silent
  <2> QED BY <1>5, <1>s, <2>5, <2>6 DEF ProbeTimer
<1>6. CASE RefreshAges
  <2>1. /\ recovery' \in Recovery /\ recovery'.timer = recovery.timer
        /\ recovery'.disposed = recovery.disposed /\ recovery'.inFlight = recovery.inFlight
        /\ recovery'.superseded = recovery.superseded
    BY <1>6, <1>t DEF RefreshAges, Recovery
  <2>2. PathTypeOK'
    BY <1>6, <1>t, <1>s, <2>1, TypeFollows DEF RefreshAges
  <2>3. Silent(hidden, recovery, relay)'
    BY <1>6, <1>s, <2>1 DEF RefreshAges, Silent
  <2> QED BY <1>6, <1>s, <2>2, <2>3 DEF RefreshAges
<1>7. CASE ProbeWasted
  <2>1. recovery' \in Recovery /\ recovery'.disposed = recovery.disposed /\ ~recovery'.inFlight
    <3>1. CASE hidden \/ recovery.disposed
      BY <1>7, <1>t, <3>1 DEF ProbeWasted, Recovery
    <3>2. CASE ~(hidden \/ recovery.disposed)
      BY <1>7, <1>t, <3>2, EndedIsTyped DEF ProbeWasted
    <3> QED BY <3>1, <3>2
  <2>2. hidden \/ recovery.disposed => ~recovery'.timer
    BY <1>7, <1>t, <1>s DEF ProbeWasted, Recovery, Silent
  <2>3. PathTypeOK'
    BY <1>7, <1>t, <1>s, <2>1, TypeFollows DEF ProbeWasted
  <2>4. Silent(hidden, recovery, relay)'
    BY <1>7, <1>s, <2>1, <2>2 DEF ProbeWasted, Silent
  <2> QED BY <1>7, <1>s, <2>3, <2>4 DEF ProbeWasted
<1> DEFINE d == Ended(recovery)
<1>d. d \in Recovery /\ d.disposed = recovery.disposed
  BY <1>t, EndedIsTyped
<1>g. ASSUME NEW replaced \in BOOLEAN, Succeeded(replaced)
      PROVE  since' \in [good : 0 .. 2, replaced : BOOLEAN]
  <2> DEFINE n == IF since.good = 2 THEN 2 ELSE since.good + 1
  <2>1. n \in 0 .. 2
    BY <1>t
  <2>2. since' = [good |-> n, replaced |-> since.replaced \/ replaced]
    BY <1>g DEF Succeeded
  <2> HIDE DEF n
  <2> QED BY <2>1, <2>2
<1>8. CASE ProbeFails
  <2>1. recovery' = Failed(d)
    BY <1>8 DEF ProbeFails
  <2> HIDE DEF d
  <2>2. recovery' \in Recovery /\ recovery'.disposed = recovery.disposed
    BY <1>d, <2>1, FailedIsTyped
  <2>3. since' \in [good : 0 .. 2, replaced : BOOLEAN]
    BY <1>8 DEF ProbeFails
  <2>4. PathTypeOK'
    BY <1>8, <1>t, <1>s, <2>2, <2>3, TypeFollows DEF ProbeFails
  <2>5. Silent(hidden, recovery, relay)'
    BY <1>8, <2>2 DEF ProbeFails, ProbeCounts, Silent
  <2> QED BY <1>8, <1>s, <2>4, <2>5 DEF ProbeFails
<1>9. CASE ProbeRecovers
  <2>1. recovery' = HalfRecovered(d)
    BY <1>9 DEF ProbeRecovers
  <2> HIDE DEF d
  <2>2. recovery' \in Recovery /\ recovery'.disposed = recovery.disposed
    BY <1>d, <2>1, HalfRecoveredIsTyped
  <2>3. since' \in [good : 0 .. 2, replaced : BOOLEAN]
    BY <1>9, <1>g DEF ProbeRecovers
  <2>4. Sound(relay')
    BY <1>9, <1>s, RejoiningIsSound DEF ProbeRecovers
  <2>5. deaf' \in BOOLEAN
    BY <1>9 DEF ProbeRecovers
  <2>6. PathTypeOK'
    BY <1>9, <1>t, <2>2, <2>3, <2>4, <2>5, TypeFollows DEF ProbeRecovers
  <2>7. Silent(hidden, recovery, relay)'
    BY <1>9, <2>2 DEF ProbeRecovers, ProbeCounts, Silent
  <2> QED BY <2>4, <2>6, <2>7
<1>10. CASE ProbeSucceeds
  <2>1. recovery' = Healthy(d)
    BY <1>10 DEF ProbeSucceeds
  <2> HIDE DEF d
  <2>2. recovery' \in Recovery /\ recovery'.disposed = recovery.disposed
    BY <1>d, <2>1, HealthyIsTyped
  <2>3. since' \in [good : 0 .. 2, replaced : BOOLEAN]
    BY <1>10, <1>g DEF ProbeSucceeds
  <2>4. Sound(relay')
    BY <1>10, <1>s, ResumedIsSound, RemeasuredIsSound DEF ProbeSucceeds
  <2>5. PathTypeOK'
    BY <1>10, <1>t, <2>2, <2>3, <2>4, TypeFollows DEF ProbeSucceeds
  <2>6. Silent(hidden, recovery, relay)'
    BY <1>10, <2>2 DEF ProbeSucceeds, ProbeCounts, Silent
  <2> QED BY <2>4, <2>5, <2>6
<1>11. CASE SessionEnds
  <2>1. recovery' \in Recovery /\ recovery'.disposed /\ ~recovery'.timer
    BY <1>11, <1>t DEF SessionEnds, Recovery
  <2>2. Sound(Rejoining(relay))
    BY <1>s, RejoiningIsSound
  <2>3. Sound(relay') /\ relay'.paused
    BY <1>11, <2>2, PausedIsSound DEF SessionEnds
  <2>4. PathTypeOK'
    BY <1>11, <1>t, <2>1, <2>3, TypeFollows DEF SessionEnds
  <2>5. Silent(hidden, recovery, relay)'
    BY <2>1, <2>3 DEF Silent
  <2> QED BY <2>3, <2>4, <2>5
<1>r. ASSUME UNCHANGED <<hidden, up, recovery, since>>, deaf' \in BOOLEAN,
             events' \in 0 .. MaxEvents, Sound(relay'), relay'.paused = relay.paused
      PROVE  IInv'
  <2>1. PathTypeOK'
    BY <1>r, <1>t, TypeFollows
  <2>2. Silent(hidden, recovery, relay)'
    BY <1>r, <1>s DEF Silent
  <2> QED BY <1>r, <2>1, <2>2
<1>12. CASE Rejoins
  <2>1. Sound(relay') /\ relay'.paused = relay.paused
    BY <1>12, <1>s DEF Rejoins, Sound, Relay
  <2> QED BY <1>12, <1>t, <1>r, <2>1 DEF Rejoins
<1>13. CASE FrameArrives
  <2>1. Sound(relay') /\ relay'.paused = relay.paused
    BY <1>13, <1>s, HeardIsSound DEF FrameArrives
  <2> QED BY <1>13, <1>t, <1>r, <2>1 DEF FrameArrives
<1>14. CASE PongArrives
  <2>1. PICK pong \in relay.coming :
          relay' = Heard([relay EXCEPT !.supported = TRUE, !.coming = @ \ {pong}], pong = "now")
    BY <1>14 DEF PongArrives
  <2> DEFINE c == [relay EXCEPT !.supported = TRUE, !.coming = @ \ {pong}]
  <2>2. Sound(c) /\ c.paused = relay.paused
    BY <1>s DEF Sound, Relay
  <2>3. relay' = Heard(c, pong = "now") /\ (pong = "now") \in BOOLEAN
    BY <2>1
  <2> HIDE DEF c
  <2>4. Sound(relay') /\ relay'.paused = relay.paused
    BY <2>2, <2>3, HeardIsSound
  <2> QED BY <1>14, <1>t, <1>r, <2>4 DEF PongArrives
<1>15. CASE IdleTimer
  <2> DEFINE c == [relay EXCEPT !.idle = FALSE]
  <2>1. Sound(c) /\ c.paused = relay.paused
    BY <1>s DEF Sound, Relay
  <2>2. relay' = Pinged(c)
    BY <1>15 DEF IdleTimer
  <2> HIDE DEF c
  <2>3. Sound(relay') /\ relay'.paused = relay.paused
    BY <2>1, <2>2, PingedIsSound
  <2> QED BY <1>15, <1>t, <1>r, <2>3 DEF IdleTimer
<1>16. CASE RelayMiss
  <2> DEFINE f == Forgotten(relay)
             c == [f EXCEPT !.misses = 1]
  <2>1. Sound(f) /\ f.paused = relay.paused
    BY <1>s, ForgottenIsSound
  <2>2. relay' = Pinged(c)
    BY <1>16 DEF RelayMiss
  <2> HIDE DEF f
  <2>3. 1 \in 0 .. 1
    OBVIOUS
  <2>4. Sound(c) /\ c.paused = relay.paused
    BY <2>1, <2>3 DEF Sound, Relay
  <2> HIDE DEF c
  <2>5. Sound(relay') /\ relay'.paused = relay.paused
    BY <2>2, <2>4, PingedIsSound
  <2> QED BY <1>16, <1>t, <1>r, <2>5 DEF RelayMiss
<1>17. CASE SecondMiss
  <2>1. Sound(relay') /\ relay'.paused = relay.paused
    BY <1>17, <1>s, RejoiningIsSound DEF SecondMiss
  <2> QED BY <1>17, <1>t, <1>r, <2>1 DEF SecondMiss
<1>18. CASE Lost
  <2>1. Sound(relay') /\ relay'.paused = relay.paused
    BY <1>18, <1>s, RejoiningIsSound DEF Lost
  <2> QED BY <1>18, <1>e, <1>r, <2>1 DEF Lost
<1>19. CASE GoesDeaf
  BY <1>19, <1>s, <1>e, <1>r DEF GoesDeaf
<1>20. CASE GatewayChanges
  <2>1. PathTypeOK'
    BY <1>20, <1>t, <1>s, <1>e, TypeFollows DEF GatewayChanges
  <2>2. Silent(hidden, recovery, relay)'
    BY <1>20, <1>s DEF GatewayChanges, Silent
  <2> QED BY <1>20, <1>s, <2>1, <2>2 DEF GatewayChanges
<1>21. CASE UNCHANGED vars
  <2>1. PathTypeOK'
    BY <1>21, <1>t, <1>s, TypeFollows DEF vars
  <2>2. Silent(hidden, recovery, relay)'
    BY <1>21, <1>s DEF vars, Silent
  <2> QED BY <1>21, <1>s, <2>1, <2>2 DEF vars
<1> QED
  BY <1>1, <1>2, <1>3, <1>4, <1>5, <1>6, <1>7, <1>8, <1>9, <1>10, <1>11, <1>12, <1>13,
     <1>14, <1>15, <1>16, <1>17, <1>18, <1>19, <1>20, <1>21 DEF Next

LEMMA AlwaysSound == Spec => []IInv
BY InitIsSound, StepIsSound, PTL DEF Spec

(* Whatever the browser, the network, the gateway and the host do, and in any         *)
(* order, the state of the two kinds of probes stays in its type: a relay probe is      *)
(* pending only on a live transport whose host answers probes.                         *)
THEOREM PathIsTyped == Spec => []PathTypeOK
<1>1. IInv => PathTypeOK
  BY DEF IInv
<1> QED BY <1>1, AlwaysSound, PTL

(* visibilitychange and disposal silence both kinds of probes, and nothing that is         *)
(* still on its way - a fetch, a pong, a timer, a rejoined transport - starts them again.   *)
THEOREM HiddenStaysQuiet == Spec => []HiddenIsQuiet
<1>1. IInv => HiddenIsQuiet
  BY DEF IInv, Silent, Sound, HiddenIsQuiet
<1> QED BY <1>1, AlwaysSound, PTL

-----------------------------------------------------------------------------
(* What a half-done recovery stands on: the success that began it, and the transport   *)
(* that it replaced.                                                               *)
HalfWay(r, s) == r.failing /\ r.successes # 0 => s.good \in {1, 2} /\ s.replaced

LEMMA ProbingKeepsCount ==
  ASSUME NEW r \in Recovery
  PROVE  Probing(r).failing = r.failing /\ Probing(r).successes = r.successes
BY DEF Probing, Recovery

LEMMA SupersededKeepsCount ==
  ASSUME NEW r \in Recovery
  PROVE  /\ Superseded(r) \in Recovery
         /\ Superseded(r).failing = r.failing /\ Superseded(r).successes = r.successes
BY DEF Superseded, Recovery

LEMMA RequestedKeepsCount ==
  ASSUME NEW r \in Recovery
  PROVE  Requested(r).failing = r.failing /\ Requested(r).successes = r.successes
<1> DEFINE q == [r EXCEPT !.relayCheck = TRUE, !.timer = FALSE]
<1>1. q \in Recovery /\ q.failing = r.failing /\ q.successes = r.successes
  BY DEF Recovery
<1>2. Requested(r) = IF r.inFlight THEN [q EXCEPT !.requested = TRUE] ELSE Probing(q)
  BY DEF Requested
<1> HIDE DEF q
<1>3. [q EXCEPT !.requested = TRUE].failing = q.failing
      /\ [q EXCEPT !.requested = TRUE].successes = q.successes
  BY <1>1 DEF Recovery
<1> QED BY <1>1, <1>2, <1>3, ProbingKeepsCount

LEMMA EndedKeepsCount ==
  ASSUME NEW r \in Recovery
  PROVE  /\ Ended(r) \in Recovery
         /\ Ended(r).failing = r.failing /\ Ended(r).successes = r.successes
BY DEF Ended, Recovery

(* Every step but the end of a probe that counts leaves the recovery where it was.     *)
LEMMA OnlyProbesCount ==
  ASSUME IInv, Next, ~ProbeFails, ~ProbeRecovers, ~ProbeSucceeds
  PROVE  /\ recovery'.failing = recovery.failing
         /\ recovery'.successes = recovery.successes /\ since' = since
<1>t. recovery \in Recovery
  BY DEF IInv, PathTypeOK
<1>1. CASE Hide
  <2> DEFINE s == Superseded(recovery)
  <2>1. s \in Recovery /\ s.failing = recovery.failing /\ s.successes = recovery.successes
    BY <1>t, SupersededKeepsCount
  <2>2. recovery' = recovery \/ recovery' = [s EXCEPT !.timer = FALSE]
    BY <1>1 DEF Hide
  <2> HIDE DEF s
  <2>3. recovery'.failing = recovery.failing /\ recovery'.successes = recovery.successes
    BY <2>1, <2>2 DEF Recovery
  <2> QED BY <1>1, <2>3 DEF Hide
<1>2. CASE Show
  BY <1>2, <1>t DEF Show, Recovery
<1>3. CASE PathChanges
  BY <1>3, <1>t, RequestedKeepsCount DEF PathChanges
<1>4. CASE Offline
  BY <1>4, <1>t, SupersededKeepsCount, RequestedKeepsCount DEF Offline
<1>5. CASE ProbeTimer
  <2> DEFINE q == [recovery EXCEPT !.timer = FALSE]
  <2>1. q \in Recovery /\ q.failing = recovery.failing /\ q.successes = recovery.successes
    BY <1>t DEF Recovery
  <2>2. recovery' = Probing(q) /\ since' = since
    BY <1>5 DEF ProbeTimer
  <2> HIDE DEF q
  <2> QED BY <2>1, <2>2, ProbingKeepsCount
<1>6. CASE RefreshAges
  BY <1>6, <1>t DEF RefreshAges, Recovery
<1>7. CASE ProbeWasted
  <2>1. [recovery EXCEPT !.inFlight = FALSE].failing = recovery.failing
        /\ [recovery EXCEPT !.inFlight = FALSE].successes = recovery.successes
    BY <1>t DEF Recovery
  <2> QED BY <1>7, <1>t, <2>1, EndedKeepsCount DEF ProbeWasted
<1>8. CASE SessionEnds
  BY <1>8, <1>t DEF SessionEnds, Recovery
<1>9. CASE \/ Rejoins \/ FrameArrives \/ PongArrives \/ IdleTimer \/ RelayMiss
           \/ SecondMiss \/ Lost \/ GoesDeaf \/ GatewayChanges
  BY <1>9 DEF Rejoins, FrameArrives, PongArrives, IdleTimer, RelayMiss, SecondMiss, Lost,
              GoesDeaf, GatewayChanges
<1> QED BY <1>1, <1>2, <1>3, <1>4, <1>5, <1>6, <1>7, <1>8, <1>9 DEF Next

LEMMA FailureStartsOver ==
  ASSUME IInv, ProbeFails
  PROVE  recovery'.failing /\ recovery'.successes = 0
<1> DEFINE d == Ended(recovery)
           f == FailedOnce(d)
<1>1. d \in Recovery
  BY EndedKeepsCount DEF IInv, PathTypeOK
<1>2. recovery' = Failed(d)
  BY DEF ProbeFails
<1>3. Failed(d) = [f EXCEPT !.successes = 0]
  BY DEF Failed
<1> HIDE DEF d
<1>4. f = [d EXCEPT !.failures = f.failures, !.failing = TRUE, !.health = f.health]
  BY <1>1 DEF FailedOnce, Recovery
<1> HIDE DEF f
<1> QED BY <1>1, <1>2, <1>3, <1>4 DEF Recovery

LEMMA SuccessCounts ==
  ASSUME IInv, ProbeRecovers
  PROVE  recovery'.failing = recovery.failing /\ since'.good \in {1, 2} /\ since'.replaced
<1> DEFINE d == Ended(recovery)
<1>1. d \in Recovery /\ d.failing = recovery.failing
  BY EndedKeepsCount DEF IInv, PathTypeOK
<1>2. recovery' = HalfRecovered(d)
  BY DEF ProbeRecovers
<1> HIDE DEF d
<1>3. recovery'.failing = recovery.failing
  BY <1>1, <1>2 DEF HalfRecovered, Recovery
<1>4. since.good \in {0, 1, 2}
  BY DEF IInv, PathTypeOK
<1>5. since' = [good |-> IF since.good = 2 THEN 2 ELSE since.good + 1, replaced |-> TRUE]
  BY DEF ProbeRecovers, Succeeded, IInv, PathTypeOK
<1> QED BY <1>3, <1>4, <1>5

LEMMA SecondSuccessHeals ==
  ASSUME IInv, HalfWay(recovery, since), ProbeSucceeds
  PROVE  ~recovery'.failing /\ (recovery.failing => since'.good = 2 /\ since'.replaced)
<1> DEFINE d == Ended(recovery)
<1>1. d \in Recovery
  BY EndedKeepsCount DEF IInv, PathTypeOK
<1>2. recovery' = Healthy(d)
  BY DEF ProbeSucceeds
<1> HIDE DEF d
<1>3. ~recovery'.failing
  BY <1>1, <1>2 DEF Healthy, Recovery
<1>4. recovery.failing => since.good \in {1, 2} /\ since.replaced
  BY DEF HalfWay, ProbeSucceeds
<1>5. /\ since'.good = IF since.good = 2 THEN 2 ELSE since.good + 1
      /\ since.replaced => since'.replaced
  BY Zenon DEF ProbeSucceeds, Succeeded
<1>6. recovery.failing => since'.good = 2
  BY <1>4, <1>5
<1> QED BY <1>3, <1>4, <1>5, <1>6

(* A gateway that failed is called healthy again only by the second of two probes that      *)
(* succeed in a row, the first of which replaced the transport                             *)
(* (browser-recovery.ts, recoverySuccesses).                          *)
THEOREM HealedByTwo == Spec => RecoveredTwice
<1> DEFINE Heals == recovery.failing /\ ~recovery'.failing => since'.good = 2 /\ since'.replaced
<1>1. Init => HalfWay(recovery, since)
  BY DEF Init, HalfWay
<1>2. ASSUME IInv, HalfWay(recovery, since), [Next]_vars
      PROVE  HalfWay(recovery', since') /\ [Heals]_vars
  <2>1. CASE ProbeFails
    BY <1>2, <2>1, FailureStartsOver DEF HalfWay
  <2>2. CASE ProbeRecovers
    BY <1>2, <2>2, SuccessCounts DEF HalfWay
  <2>3. CASE ProbeSucceeds
    BY <1>2, <2>3, SecondSuccessHeals DEF HalfWay
  <2>4. CASE Next /\ ~ProbeFails /\ ~ProbeRecovers /\ ~ProbeSucceeds
    BY <1>2, <2>4, OnlyProbesCount DEF HalfWay
  <2>5. CASE UNCHANGED vars
    BY <1>2, <2>5 DEF vars, HalfWay
  <2> QED BY <1>2, <2>1, <2>2, <2>3, <2>4, <2>5
<1>3. HalfWay(recovery, since)' <=> HalfWay(recovery', since')
  OBVIOUS
<1> QED BY AlwaysSound, <1>1, <1>2, <1>3, PTL DEF Spec, RecoveredTwice, Heals
=============================================================================
