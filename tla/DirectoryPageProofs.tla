-------------------------- MODULE DirectoryPageProofs --------------------------
(***************************************************************************)
(* What is proved of DirectoryPage for any number of launches, faults,      *)
(* moves and signals: the page always has a way to catch up, and what it     *)
(* shows, runs and has saved agree.                                          *)
(***************************************************************************)
EXTENDS DirectoryPage, TLAPS

(* Trying, of any page.                                                       *)
Tries(p) == p.fetch \/ p.timer \/ p.source \in {"connecting", "open", "retrying"}

(* A page that the user sees tries.                                           *)
TriesInSight(p) == p.life = "visible" /\ ~p.denied /\ p.shell = None => Tries(p)

(* Between pagehide and pageshow only the marker says that a shell was shown; *)
(* at any other time the shell, its client, the address and the saved          *)
(* directory go together.                                                      *)
Agrees(p) ==
  IF p.life = "cached"
  THEN /\ p.clients = {} /\ p.shell = None
       /\ (p.at = "client" <=> p.disposed)
       /\ (p.saved <=> p.disposed)
  ELSE /\ p.clients = {p.shell} \ {None}
       /\ (p.at = "client" <=> p.shell # None)
       /\ (p.saved <=> p.shell # None)
       /\ ~p.disposed

(* What the calls of a handler keep of the page.                               *)
Sound(p) == p \in Page /\ Agrees(p) /\ TriesInSight(p)

IInv == PageTypeOK /\ Sound(page)

-----------------------------------------------------------------------------
(* What the calls of the handlers keep.                                        *)

LEMMA LoadedIsSound ==
  ASSUME NEW life \in {"visible", "hidden", "frozen"},
         NEW launch \in [Launch -> {"unused", "asked", "over"}]
  PROVE  /\ Loaded(life, launch) \in Page
         /\ Tries(Loaded(life, launch))
         /\ Agrees(Loaded(life, launch))
BY DEF Loaded, Page, Tries, Agrees

LEMMA DroppedType ==
  ASSUME NEW resume \in {"none", "waiting"} \cup Launch
  PROVE  Dropped(resume) \in {"none", "waiting"} \cup Launch
BY DEF Dropped

LEMMA ScheduledType ==
  ASSUME NEW p \in Page
  PROVE  Scheduled(p) \in Page
<1>1. CASE p.denied
  BY <1>1 DEF Scheduled
<1>2. CASE ~p.denied
  BY <1>2 DEF Scheduled, Page
<1> QED
  BY <1>1, <1>2

LEMMA ScheduledTries ==
  ASSUME NEW p \in Page
  PROVE  /\ Tries(Scheduled(p)) \/ p.denied
         /\ Tries(p) => Tries(Scheduled(p))
         /\ Scheduled(p).denied <=> p.denied
         /\ Scheduled(p).life = p.life
BY DEF Scheduled, Page, Tries

LEMMA ScheduledAgrees ==
  ASSUME NEW p \in Page, Agrees(p)
  PROVE  Agrees(Scheduled(p))
BY DEF Scheduled, Page, Agrees

LEMMA LooseType ==
  ASSUME NEW p \in Page, NEW resume \in {"none", "waiting"} \cup Launch
  PROVE  [p EXCEPT !.fetch = FALSE, !.source = "none", !.opened = "never", !.wire = "fine",
                   !.timer = FALSE, !.floor = -1, !.resume = resume] \in Page
BY ZenonT(60) DEF Page

LEMMA DisconnectedType ==
  ASSUME NEW p \in Page
  PROVE  Disconnected(p) \in Page
<1> DEFINE resume == Dropped(p.resume)
<1>1. p.resume \in {"none", "waiting"} \cup Launch
  BY DEF Page
<1>2. resume \in {"none", "waiting"} \cup Launch
  BY <1>1, DroppedType
<1>3. Disconnected(p) =
        [p EXCEPT !.fetch = FALSE, !.source = "none", !.opened = "never", !.wire = "fine",
                  !.timer = FALSE, !.floor = -1, !.resume = resume]
  BY DEF Disconnected
<1> HIDE DEF resume
<1> QED
  BY <1>2, <1>3, LooseType

LEMMA DisconnectedAgrees ==
  ASSUME NEW p \in Page
  PROVE  /\ Agrees(p) => Agrees(Disconnected(p))
         /\ Disconnected(p).denied <=> p.denied
         /\ Disconnected(p).life = p.life
BY DEF Disconnected, Page, Agrees

LEMMA FetchingType ==
  ASSUME NEW p \in Page
  PROVE  [p EXCEPT !.fetch = TRUE] \in Page
BY DEF Page

LEMMA RefreshedIsSound ==
  ASSUME NEW p \in Page
  PROVE  /\ Refreshed(p) \in Page
         /\ Tries(Refreshed(p))
         /\ Agrees(p) => Agrees(Refreshed(p))
<1> DEFINE d == Disconnected(p)
<1>1. d \in Page
  BY DisconnectedType
<1> HIDE DEF d
<1>2. [d EXCEPT !.fetch = TRUE] \in Page
  BY <1>1, FetchingType
<1>3. [d EXCEPT !.fetch = TRUE].fetch
  BY <1>1 DEF Page
<1>4. Refreshed(p) \in Page /\ Tries(Refreshed(p))
  BY <1>2, <1>3 DEF Refreshed, d, Tries
<1>5. ASSUME Agrees(p) PROVE Agrees(Refreshed(p))
  <2>1. Agrees(d)
    BY <1>5, DisconnectedAgrees DEF d
  <2>2. Agrees([d EXCEPT !.fetch = TRUE])
    BY <1>1, <2>1 DEF Page, Agrees
  <2> QED
    BY <2>2 DEF Refreshed, d
<1> QED
  BY <1>4, <1>5

LEMMA AppliedIsSound ==
  ASSUME NEW p \in Page, p.life # "cached"
  PROVE  /\ Applied(p) \in Page
         /\ Tries(p) => Tries(Applied(p))
         /\ TriesInSight(p) => TriesInSight(Applied(p))
         /\ Agrees(p) => Agrees(Applied(p))
<1>1. CASE MayReload(p)
  BY <1>1, LoadedIsSound DEF Applied, Page, TriesInSight
<1>2. CASE ~MayReload(p)
  <2> DEFINE q == [p EXCEPT !.reloadTimer = FALSE]
  <2>1. Applied(p) = q
    BY <1>2 DEF Applied
  <2>2. q \in Page
    BY DEF Page
  <2>3. Tries(p) => Tries(q)
    BY DEF Page, Tries
  <2>4. TriesInSight(p) => TriesInSight(q)
    BY DEF Page, Tries, TriesInSight
  <2>5. Agrees(p) => Agrees(q)
    BY DEF Page, Agrees
  <2> HIDE DEF q
  <2> QED
    BY <2>1, <2>2, <2>3, <2>4, <2>5
<1> QED
  BY <1>1, <1>2

(* The page that restoreDirectory refreshes.                                    *)
LEMMA RestoredIsSound ==
  ASSUME NEW p \in Page, p.life # "cached",
         p.clients \subseteq {p.shell}
  PROVE  Restored(p) \in Page /\ Tries(Restored(p)) /\ Agrees(Restored(p))
<1>1. CASE ~p.saved
  BY <1>1, LoadedIsSound DEF Restored, Page
<1>2. CASE p.saved
  <2> DEFINE q == [p EXCEPT !.disposed = FALSE, !.clients = @ \ {p.shell}, !.shell = None,
                            !.at = "directory", !.saved = FALSE]
  <2>1. q \in Page /\ q.life = p.life
    BY ZenonT(60) DEF Page
  <2>2. Agrees(q)
    BY DEF Page, Agrees
  <2> HIDE DEF q
  <2>3. Refreshed(q) \in Page /\ Tries(Refreshed(q)) /\ Agrees(Refreshed(q))
    BY <2>1, <2>2, RefreshedIsSound
  <2>4. Refreshed(q).life # "cached"
    BY <2>1 DEF Refreshed, Disconnected, Page
  <2>5. Restored(p) = Applied(Refreshed(q))
    BY <1>2 DEF Restored, q
  <2> QED
    BY <2>3, <2>4, <2>5, AppliedIsSound
<1> QED
  BY <1>1, <1>2

LEMMA SettledIsSound ==
  ASSUME NEW p \in Page, NEW l \in Launch
  PROVE  /\ Settled(p, l) \in Page
         /\ Settled(p, l) = [p EXCEPT !.launch = [@ EXCEPT ![l] = "over"]]
         /\ Agrees(p) => Agrees(Settled(p, l))
         /\ TriesInSight(p) => TriesInSight(Settled(p, l))
BY DEF Settled, Page, Agrees, TriesInSight, Tries

LEMMA LaunchedIsSound ==
  ASSUME NEW p \in Page, NEW l \in Launch
  PROVE  /\ Launched(p, l) \in Page
         /\ Agrees(p) => Agrees(Launched(p, l))
         /\ TriesInSight(p) => TriesInSight(Launched(p, l))
<1>1. Launched(p, l) \in Page
  BY DEF Launched, Page
<1> QED
  BY <1>1 DEF Launched, Page, Agrees, TriesInSight, Tries

LEMMA InterruptedIsSound ==
  ASSUME NEW p \in Page, NEW source \in {"none", "retrying", "failed"}, Agrees(p)
  PROVE  Sound(Interrupted(p, source))
<1> DEFINE opened == Remembered(p.opened, source)
           q == [p EXCEPT !.source = source, !.wire = "fine", !.opened = opened]
<1>1. opened \in {"never", "once", "again"}
  BY DEF Remembered, Page
<1>2. Interrupted(p, source) = Scheduled(q)
  BY DEF Interrupted, Page
<1> HIDE DEF opened
<1>3. q \in Page
  BY <1>1, ZenonT(60) DEF Page
<1>4. Agrees(q)
  BY <1>1 DEF Page, Agrees
<1> HIDE DEF q
<1>5. Scheduled(q) \in Page /\ Agrees(Scheduled(q)) /\ TriesInSight(Scheduled(q))
  BY <1>3, <1>4, ScheduledType, ScheduledTries, ScheduledAgrees DEF TriesInSight
<1> QED
  BY <1>2, <1>5 DEF Sound

LEMMA FailedIsSound ==
  ASSUME NEW p \in Page, NEW l \in Launch, Sound(p), p.life # "cached"
  PROVE  Sound(Failed(p, l))
<1>1. Sound(Settled(p, l)) /\ Settled(p, l).life # "cached"
  BY SettledIsSound DEF Sound, Page
<1>2. Sound(Applied(Settled(p, l)))
  BY <1>1, AppliedIsSound DEF Sound
<1> QED
  BY <1>1, <1>2 DEF Failed

LEMMA MountedType ==
  ASSUME NEW p \in Page, NEW l \in Launch, NEW clients \in SUBSET Launch,
         NEW resume \in {"none", "waiting"} \cup Launch
  PROVE  [p EXCEPT !.saved = TRUE, !.at = "client", !.shell = l, !.clients = clients,
                   !.fetch = FALSE, !.timer = FALSE, !.disposed = FALSE,
                   !.resume = resume] \in Page
BY ZenonT(60) DEF Page

(* A mounted shell has replaced the one before it, with its client.             *)
LEMMA EnteredIsSound ==
  ASSUME NEW p \in Page, NEW l \in Launch, Agrees(p), p.life # "cached"
  PROVE  /\ Sound(Entered(p, l))
         /\ Entered(p, l).life = p.life
         /\ Entered(p, l).clients = {l} /\ Entered(p, l).shell = l
<1> DEFINE r == Settled(p, l)
           q == [r EXCEPT !.saved = TRUE, !.at = "client", !.shell = l,
                          !.clients = (@ \ {p.shell}) \cup {l},
                          !.fetch = FALSE, !.timer = FALSE, !.disposed = FALSE,
                          !.resume = Dropped(@)]
<1>1. r \in Page /\ r.life = p.life /\ r.clients = p.clients
  BY SettledIsSound DEF Page
<1>2. p.clients \ {p.shell} = {} /\ l # None
  BY PageAssumption DEF Agrees
<1> HIDE DEF r
<1> DEFINE dropped == Dropped(r.resume)
           clients == (r.clients \ {p.shell}) \cup {l}
<1>3. dropped \in {"none", "waiting"} \cup Launch /\ clients = {l}
  <2>1. r.resume \in {"none", "waiting"} \cup Launch
    BY <1>1 DEF Page
  <2>2. r.clients \ {p.shell} = {}
    BY <1>1, <1>2
  <2> QED
    BY <2>1, <2>2, DroppedType
<1>4. q = [r EXCEPT !.saved = TRUE, !.at = "client", !.shell = l, !.clients = clients,
                    !.fetch = FALSE, !.timer = FALSE, !.disposed = FALSE,
                    !.resume = dropped]
  <2> HIDE DEF dropped, clients
  <2>1. dropped = Dropped(r.resume) /\ clients = (r.clients \ {p.shell}) \cup {l}
    BY DEF dropped, clients
  <2> QED
    BY <2>1, SMTT(30)
<1> HIDE DEF dropped, clients
<1>5. /\ q \in Page /\ q.life = p.life /\ q.clients = {l} /\ q.shell = l
      /\ q.at = "client" /\ q.saved /\ ~q.disposed
  <2> HIDE DEF q
  <2>1. clients \in SUBSET Launch
    BY <1>3
  <2>2. q \in Page
    BY <1>1, <1>3, <1>4, <2>1, MountedType
  <2> QED
    BY <1>1, <1>3, <1>4, <2>2 DEF Page
<1> HIDE DEF q
<1>6. Agrees(q) /\ TriesInSight(q)
  BY <1>2, <1>5 DEF Agrees, TriesInSight
<1>7. /\ Scheduled(q) \in Page /\ Agrees(Scheduled(q))
      /\ Scheduled(q).life = p.life
  BY <1>5, <1>6, ScheduledType, ScheduledTries, ScheduledAgrees
<1>8. Scheduled(q).clients = {l} /\ Scheduled(q).shell = l
  BY <1>5 DEF Scheduled, Page
<1>9. Entered(p, l) \in {q, Scheduled(q)}
  BY DEF Entered, q, r
<1> QED
  BY <1>2, <1>5, <1>6, <1>7, <1>8, <1>9 DEF Sound, TriesInSight

LEMMA ResumingIsSound ==
  ASSUME NEW p \in Page, NEW resume \in {"none", "waiting"} \cup Launch,
         Tries(p), Agrees(p)
  PROVE  Sound([p EXCEPT !.resume = resume])
BY DEF Sound, Page, Agrees, TriesInSight, Tries

LEMMA ResumedIsSound ==
  ASSUME NEW p \in Page, Sound(p), NEW q \in Resumed(p)
  PROVE  Sound(q)
BY LaunchedIsSound DEF Resumed, Sound

(* What a snapshot that has arrived leads to.                                   *)
LEMMA RoutedIsSound ==
  ASSUME NEW p \in Page, Sound(p), p.life # "cached", NEW q \in Routed(p)
  PROVE  Sound(q)
<1> DEFINE r == [p EXCEPT !.route = FALSE]
<1>1. r \in Page
  BY DEF Page
<1>2. r.life # "cached"
  BY DEF Page
<1>3. Agrees(r)
  BY DEF Sound, Page, Agrees
<1>4. TriesInSight(r)
  BY DEF Sound, Page, TriesInSight, Tries
<1> HIDE DEF r
<1>5. Sound(Applied(r))
  BY <1>1, <1>2, <1>3, <1>4, AppliedIsSound DEF Sound
<1>6. ASSUME NEW l \in Launch,
             q = [Launched(r, l) EXCEPT !.resume = IF @ = "waiting" THEN l ELSE @]
      PROVE  Sound(q)
  <2> DEFINE s == Launched(r, l)
             n == IF s.resume = "waiting" THEN l ELSE s.resume
  <2>1. s \in Page /\ Agrees(s) /\ TriesInSight(s)
    BY <1>1, <1>3, <1>4, LaunchedIsSound
  <2> HIDE DEF s
  <2>2. n \in {"none", "waiting"} \cup Launch
    BY <2>1 DEF Page
  <2>3. q = [s EXCEPT !.resume = n]
    BY <1>6 DEF s
  <2> HIDE DEF n
  <2> QED
    BY <2>1, <2>2, <2>3 DEF Sound, Page, Agrees, TriesInSight, Tries
<1>7. \/ q = p \/ q = r \/ q = Applied(r)
      \/ \E l \in Launch :
            q = [Launched(r, l) EXCEPT !.resume = IF @ = "waiting" THEN l ELSE @]
  BY DEF Routed, r
<1> QED
  BY <1>1, <1>3, <1>4, <1>5, <1>6, <1>7 DEF Sound


(* A refresh that fails schedules the next.                                      *)
LEMMA GivenUpIsSound ==
  ASSUME PageTypeOK, Sound(page), FetchGivesUp
  PROVE  Sound(page')
<1> DEFINE resume == Dropped(page.resume)
           q == [page EXCEPT !.fetch = FALSE, !.denied = FALSE, !.floor = -1,
                             !.resume = resume]
<1>1. page \in Page /\ resume \in {"none", "waiting"} \cup Launch
  BY DroppedType DEF PageTypeOK, Page
<1>2. page' = Scheduled(q)
  BY <1>1 DEF FetchGivesUp, Page
<1> HIDE DEF resume
<1>3. q \in Page
  BY <1>1 DEF Page
<1>4. Agrees(q) /\ ~q.denied
  BY <1>1 DEF Sound, Agrees, Page
<1> HIDE DEF q
<1> QED
  BY <1>2, <1>3, <1>4, ScheduledType, ScheduledTries, ScheduledAgrees DEF Sound, TriesInSight

(* A page that becomes visible trusts a live stream or fetches.                  *)
LEMMA ShownIsSound ==
  ASSUME NEW p \in Page, p.life \in {"hidden", "frozen"}, Agrees(p)
  PROVE  Sound(Shown(p))
<1> DEFINE q == [p EXCEPT !.life = "visible"]
<1>1. q \in Page
  BY DEF Page
<1>2. Agrees(q)
  BY DEF Page, Agrees
<1> HIDE DEF q
<1>3. StreamIsLive(q) => Tries(q)
  BY <1>1 DEF StreamIsLive, Stale, Tries, Page
<1>4. Sound(Refreshed(q))
  BY <1>1, <1>2, RefreshedIsSound DEF Sound, TriesInSight
<1>5. Shown(p) = IF q.denied \/ StreamIsLive(q) THEN q ELSE Refreshed(q)
  BY DEF Shown, q
<1> QED
  BY <1>1, <1>2, <1>3, <1>4, <1>5 DEF Sound, TriesInSight

(* A page that comes out of the cache rebuilds the directory of a lost shell.    *)
LEMMA ReopenedIsSound ==
  ASSUME NEW p \in Page, p.life = "cached", Agrees(p)
  PROVE  Sound(Reopened(p))
<1> DEFINE q == [p EXCEPT !.life = "visible"]
<1>1. q \in Page
  BY DEF Page
<1>2. q.life # "cached" /\ q.clients = {} /\ q.shell = None
  BY DEF Page, Agrees
<1>3. ~p.disposed => Agrees(q)
  BY DEF Page, Agrees
<1> HIDE DEF q
<1>4. CASE ~p.disposed
  BY <1>1, <1>3, <1>4, RefreshedIsSound DEF Reopened, q, Sound, TriesInSight
<1>5. CASE p.disposed
  <2> DEFINE r == Restored(q)
             resume == IF MayReload([q EXCEPT !.at = "directory"]) THEN "none" ELSE "waiting"
  <2>1. r \in Page /\ Tries(r) /\ Agrees(r)
    BY <1>1, <1>2, RestoredIsSound
  <2>2. Reopened(p) = [r EXCEPT !.resume = resume]
    BY <1>5 DEF Reopened, q
  <2>3. resume \in {"none", "waiting"} \cup Launch
    OBVIOUS
  <2> HIDE DEF r, resume
  <2> QED
    BY <2>1, <2>2, <2>3, ResumingIsSound
<1> QED
  BY <1>4, <1>5

-----------------------------------------------------------------------------
(* The invariant.                                                              *)

LEMMA InitIInv == Init => IInv
<1> SUFFICES ASSUME Init PROVE IInv
  OBVIOUS
<1>1. PICK route \in BOOLEAN :
        page = [Loaded("visible", [l \in Launch |-> "unused"]) EXCEPT !.route = route]
  BY DEF Init
<1> DEFINE p == Loaded("visible", [l \in Launch |-> "unused"])
<1>2. p \in Page /\ Tries(p) /\ Agrees(p)
  BY LoadedIsSound
<1> HIDE DEF p
<1>3. page = [p EXCEPT !.route = route]
  BY <1>1 DEF p
<1>4. Sound(page)
  BY <1>2, <1>3 DEF Sound, Page, Tries, Agrees, TriesInSight
<1> QED
  BY <1>4 DEF Init, IInv, PageTypeOK, Sound

(* The counters and the gateway keep their types.                               *)
LEMMA BoundsStep ==
  ASSUME PageTypeOK, [Next]_vars
  PROVE  /\ gateway' \in [run : Nat, revision : Nat, up : BOOLEAN]
         /\ spent' \in [faults : Nat, moves : Nat, signals : Nat]
<1> USE DEF PageTypeOK
<1>1. CASE Change
  <2>1. gateway' = [gateway EXCEPT !.revision = @ + 1] /\ spent' = spent
    BY <1>1 DEF Change
  <2> QED
    BY <2>1
<1>2. CASE Outage
  <2>1. gateway' = [gateway EXCEPT !.up = FALSE] /\ Spend("faults")
    BY <1>2 DEF Outage
  <2>2. gateway' \in [run : Nat, revision : Nat, up : BOOLEAN]
    BY <2>1
  <2> QED
    BY <2>1, <2>2 DEF Spend
<1>3. CASE Return
  <2>1. CASE gateway' = [gateway EXCEPT !.up = TRUE]
    BY <1>3, <2>1 DEF Return
  <2>2. CASE gateway' = [run |-> gateway.run + 1, revision |-> 0, up |-> TRUE]
    BY <1>3, <2>2 DEF Return
  <2> QED
    BY <1>3, <2>1, <2>2 DEF Return
<1>4. CASE Fetched
  BY <1>4 DEF Fetched, FetchOk, FetchDenied, FetchFails, Spend
<1>5. CASE Retry
  BY <1>5 DEF Retry
<1>6. CASE Stream
  <2>1. CASE MalformedEvent
    BY <2>1 DEF MalformedEvent, Spend
  <2>2. CASE UNCHANGED <<gateway, spent>>
    BY <2>2
  <2>3. MalformedEvent \/ UNCHANGED <<gateway, spent>>
    BY <1>6 DEF Stream, StreamOpens, StreamEvent, StreamError, NativeRetryFails, Silence,
                Keepalive
  <2> QED
    BY <2>1, <2>2, <2>3
<1>7. CASE Ages
  BY <1>7 DEF Ages
<1>8. CASE Lifecycle
  BY <1>8 DEF Lifecycle, Hide, Thaw, Moves, Freeze, Show, PageHide, PageShow, Spend
<1>9. CASE Signals
  BY <1>9 DEF Signals, Online, Offline, Tap, WorkerChanges, Signal, Spend
<1>10. CASE Resume \/ ReloadTimer \/ Back
  BY <1>10 DEF Resume, ReloadTimer, Back
<1>11. ASSUME NEW l \in Launch, Press(l) \/ LaunchAnswered(l) PROVE UNCHANGED <<gateway, spent>>
  BY <1>11 DEF Press, LaunchAnswered, LaunchEnters, LaunchThrows, LaunchFails,
               LaunchDenied, LaunchExpired, Answers
<1>12. CASE UNCHANGED vars
  BY <1>12 DEF vars
<1> QED
  BY <1>1, <1>2, <1>3, <1>4, <1>5, <1>6, <1>7, <1>8, <1>9, <1>10, <1>11, <1>12 DEF Next

LEMMA FreshType ==
  ASSUME NEW p \in Page, NEW shown \in Directory, NEW floor \in Nat
  PROVE  [p EXCEPT !.fetch = FALSE, !.denied = FALSE, !.shown = shown, !.fresh = TRUE,
                   !.floor = floor, !.source = "connecting", !.opened = "never"] \in Page
BY ZenonT(60) DEF Page

LEMMA DeniedType ==
  ASSUME NEW p \in Page, NEW resume \in {"none", "waiting"} \cup Launch
  PROVE  [p EXCEPT !.fetch = FALSE, !.denied = TRUE, !.shown = None, !.resume = resume] \in Page
BY ZenonT(60) DEF Page

LEMMA FetchedStep ==
  ASSUME IInv, Fetched
  PROVE  Sound(page')
<1> USE DEF IInv
<1>1. CASE FetchOk
  <2> DEFINE p == [page EXCEPT !.fetch = FALSE, !.denied = FALSE, !.shown = Now, !.fresh = TRUE,
                               !.floor = gateway.revision, !.source = "connecting",
                               !.opened = "never"]
  <2>1. Now \in Directory /\ gateway.revision \in Nat
    BY DEF PageTypeOK, Now, Directory
  <2>2. p \in Page
    BY <2>1, FreshType DEF PageTypeOK
  <2>3. Agrees(p) /\ p.life # "cached" /\ Tries(p)
    BY <1>1, <2>1 DEF PageTypeOK, Sound, Page, Agrees, FetchOk, Awake, Tries
  <2>4. PICK q \in Routed(p) :
          page' \in IF q.resume = "waiting" THEN Resumed([q EXCEPT !.resume = "none"]) ELSE {q}
    BY <1>1 DEF FetchOk
  <2> HIDE DEF p
  <2>5. Sound(q)
    BY <2>2, <2>3, <2>4, RoutedIsSound DEF Sound, TriesInSight
  <2>6. Sound([q EXCEPT !.resume = "none"])
    BY <2>5 DEF Sound, Page, Agrees, TriesInSight, Tries
  <2> QED
    BY <2>4, <2>5, <2>6, ResumedIsSound DEF Sound
<1>2. CASE FetchDenied
  <2> DEFINE resume == Dropped(page.resume)
  <2>1. resume \in {"none", "waiting"} \cup Launch
    BY DroppedType DEF PageTypeOK, Page
  <2>2. page' = [page EXCEPT !.fetch = FALSE, !.denied = TRUE, !.shown = None, !.resume = resume]
    BY <1>2 DEF FetchDenied, PageTypeOK, Page
  <2> HIDE DEF resume
  <2>3. page' \in Page
    BY <2>1, <2>2, DeniedType DEF PageTypeOK
  <2>4. Agrees(page') /\ page'.denied
    BY <2>2 DEF PageTypeOK, Sound, Page, Agrees
  <2> QED
    BY <2>3, <2>4 DEF Sound, TriesInSight
<1>3. CASE FetchFails
  BY <1>3, GivenUpIsSound DEF FetchFails
<1> QED
  BY <1>1, <1>2, <1>3 DEF Fetched

LEMMA StreamStep ==
  ASSUME IInv, Stream
  PROVE  Sound(page')
<1> USE DEF IInv
<1>1. page \in Page /\ Agrees(page)
  BY DEF PageTypeOK, Sound
<1>2. CASE StreamOpens
  <2>1. page' = Opened(page)
    BY <1>2 DEF StreamOpens
  <2>2. page' \in Page
    <3>1. CASE page.opened = "never"
      <4>1. page' = [page EXCEPT !.source = "open", !.timer = FALSE, !.opened = "once"]
        BY <2>1, <3>1 DEF Opened
      <4> QED
        BY <1>1, <4>1, ZenonT(60) DEF Page
    <3>2. CASE page.opened # "never"
      <4>1. page' = [page EXCEPT !.source = "open", !.timer = FALSE, !.opened = "again",
                                 !.floor = -1]
        BY <2>1, <3>2 DEF Opened
      <4> QED
        BY <1>1, <4>1, ZenonT(60) DEF Page
    <3> QED
      BY <3>1, <3>2
  <2>3. Agrees(page') /\ Tries(page')
    BY <1>1, <2>1 DEF Opened, Page, Agrees, Tries
  <2> QED
    BY <2>2, <2>3 DEF Sound, TriesInSight
<1>3. CASE StreamEvent
  <2>1. Now \in Directory /\ gateway.revision \in Nat
    BY DEF PageTypeOK, Now, Directory
  <2>2. page' \in Page
    BY <1>1, <1>3, <2>1 DEF StreamEvent, Page
  <2>3. Agrees(page') /\ Tries(page')
    BY <1>1, <1>3 DEF StreamEvent, Page, Agrees, Tries
  <2> QED
    BY <2>2, <2>3 DEF Sound, TriesInSight
<1>4. CASE MalformedEvent \/ StreamError \/ NativeRetryFails \/ Silence
  <2>1. PICK source \in {"none", "retrying", "failed"} : page' = Interrupted(page, source)
    BY <1>4 DEF MalformedEvent, StreamError, NativeRetryFails, Silence
  <2> QED
    BY <1>1, <2>1, InterruptedIsSound
<1>5. CASE Keepalive
  <2>1. page' \in Page
    BY <1>1, <1>5 DEF Keepalive, Page
  <2>2. Agrees(page') /\ Tries(page')
    BY <1>1, <1>5 DEF Keepalive, Page, Agrees, Tries
  <2> QED
    BY <2>1, <2>2 DEF Sound, TriesInSight
<1> QED
  BY <1>2, <1>3, <1>4, <1>5 DEF Stream

LEMMA HiddenType ==
  ASSUME NEW p \in Page, NEW wire \in {"fine", "lost", "broken"},
         NEW disposed \in BOOLEAN, NEW clients \in SUBSET Launch
  PROVE  [p EXCEPT !.life = "cached", !.wire = wire, !.disposed = disposed,
                   !.clients = clients, !.shell = None] \in Page
BY ZenonT(60) DEF Page

LEMMA LifecycleStep ==
  ASSUME IInv, Lifecycle
  PROVE  Sound(page')
<1> USE DEF IInv
<1>1. page \in Page /\ Agrees(page)
  BY DEF PageTypeOK, Sound
<1>2. CASE Hide \/ Thaw
  <2>1. page.life # "cached" /\ page' = [page EXCEPT !.life = "hidden"]
    BY <1>2 DEF Hide, Thaw, Moves
  <2>2. page' \in Page
    BY <1>1, <2>1 DEF Page
  <2>3. Agrees(page') /\ page'.life = "hidden"
    BY <1>1, <2>1 DEF Page, Agrees
  <2> QED
    BY <2>2, <2>3 DEF Sound, TriesInSight
<1>3. CASE Freeze
  <2> DEFINE p == Disconnected(page)
  <2>1. p \in Page /\ Agrees(p) /\ p.life = "hidden"
    BY <1>1, <1>3, DisconnectedType, DisconnectedAgrees DEF Freeze
  <2>2. page' = [p EXCEPT !.life = "frozen"]
    BY <1>3 DEF Freeze
  <2> HIDE DEF p
  <2>3. page' \in Page
    BY <2>1, <2>2 DEF Page
  <2>4. Agrees(page') /\ page'.life = "frozen"
    BY <2>1, <2>2 DEF Page, Agrees
  <2> QED
    BY <2>3, <2>4 DEF Sound, TriesInSight
<1>4. CASE Show
  BY <1>1, <1>4, ShownIsSound DEF Show
<1>5. CASE PageHide
  <2> DEFINE wire == IF page.source = "open" THEN "lost" ELSE page.wire
             disposed == page.disposed \/ page.shell # None
             clients == page.clients \ {page.shell}
  <2>1. page' = [page EXCEPT !.life = "cached", !.wire = wire, !.disposed = disposed,
                             !.clients = clients, !.shell = None]
    BY <1>1, <1>5 DEF PageHide, Page
  <2>2. wire \in {"fine", "lost", "broken"} /\ disposed \in BOOLEAN /\ clients \in SUBSET Launch
    BY <1>1 DEF Page
  <2>3. clients = {} /\ (disposed <=> page.shell # None)
    BY <1>1, <1>5 DEF PageHide, Awake, Agrees
  <2> HIDE DEF wire, disposed, clients
  <2>4. page' \in Page
    BY <1>1, <2>1, <2>2, HiddenType
  <2>5. Agrees(page') /\ page'.life = "cached"
    BY <1>1, <1>5, <2>1, <2>3 DEF PageHide, Awake, Page, Agrees
  <2> QED
    BY <2>4, <2>5 DEF Sound, TriesInSight
<1>6. CASE PageShow
  BY <1>1, <1>6, ReopenedIsSound DEF PageShow
<1> QED
  BY <1>2, <1>3, <1>4, <1>5, <1>6 DEF Lifecycle

LEMMA SignalsStep ==
  ASSUME IInv, Signals
  PROVE  Sound(page')
<1> USE DEF IInv
<1>1. page \in Page /\ Agrees(page)
  BY DEF PageTypeOK, Sound
<1>2. CASE Online
  BY <1>1, <1>2, RefreshedIsSound DEF Online, Sound, TriesInSight
<1>3. CASE Offline
  <2> DEFINE p == Disconnected(page)
             q == [p EXCEPT !.denied = FALSE]
  <2>1. p \in Page /\ Agrees(p)
    BY <1>1, DisconnectedType, DisconnectedAgrees
  <2> HIDE DEF p
  <2>2. q \in Page
    BY <2>1 DEF Page
  <2>3. Agrees(q) /\ ~q.denied
    BY <2>1 DEF Page, Agrees
  <2>4. page' = Scheduled(q)
    BY <1>3 DEF Offline, p
  <2> HIDE DEF q
  <2> QED
    BY <2>2, <2>3, <2>4, ScheduledType, ScheduledTries, ScheduledAgrees DEF Sound, TriesInSight
<1>4. CASE Tap
  <2> DEFINE p == Refreshed(page)
  <2>1. p \in Page /\ Agrees(p) /\ Tries(p)
    BY <1>1, RefreshedIsSound
  <2>2. page' = [p EXCEPT !.route = TRUE]
    BY <1>4 DEF Tap
  <2> HIDE DEF p
  <2>3. page' \in Page
    BY <2>1, <2>2 DEF Page
  <2>4. Agrees(page') /\ Tries(page')
    BY <2>1, <2>2 DEF Page, Agrees, Tries
  <2> QED
    BY <2>3, <2>4 DEF Sound, TriesInSight
<1>5. CASE WorkerChanges
  <2>1. page' = [page EXCEPT !.update = TRUE, !.reloadTimer = TRUE]
    BY <1>5 DEF WorkerChanges
  <2>2. page' \in Page
    BY <1>1, <2>1 DEF Page
  <2>3. Agrees(page')
    BY <1>1, <2>1 DEF Page, Agrees
  <2>4. TriesInSight(page')
    BY <1>1, <2>1 DEF Sound, Page, TriesInSight, Tries
  <2> QED
    BY <2>2, <2>3, <2>4 DEF Sound
<1> QED
  BY <1>2, <1>3, <1>4, <1>5 DEF Signals

LEMMA LaunchStep ==
  ASSUME IInv, NEW l \in Launch, Press(l) \/ LaunchAnswered(l)
  PROVE  Sound(page')
<1> USE DEF IInv
<1>1. page \in Page /\ Agrees(page) /\ Sound(page)
  BY DEF PageTypeOK, Sound
<1>2. CASE Press(l)
  BY <1>1, <1>2, LaunchedIsSound DEF Press, Sound
<1>3. ASSUME LaunchAnswered(l) PROVE page.life # "cached"
  BY <1>3 DEF LaunchAnswered, LaunchEnters, LaunchThrows, LaunchFails, LaunchDenied,
              LaunchExpired, Answers, Awake
<1>4. CASE LaunchEnters(l)
  BY <1>1, <1>3, <1>4, EnteredIsSound DEF LaunchEnters, LaunchAnswered
<1>5. CASE LaunchThrows(l)
  <2> DEFINE p == Entered(page, l)
  <2>1. p \in Page /\ p.life # "cached" /\ p.clients \subseteq {p.shell}
    BY <1>1, <1>3, <1>5, EnteredIsSound DEF LaunchAnswered, Sound
  <2>2. page' = Restored(p)
    BY <1>5 DEF LaunchThrows
  <2> HIDE DEF p
  <2> QED
    BY <2>1, <2>2, RestoredIsSound DEF Sound, TriesInSight
<1>6. CASE LaunchFails(l)
  BY <1>1, <1>3, <1>6, FailedIsSound DEF LaunchFails, LaunchAnswered
<1>7. CASE LaunchDenied(l)
  <2> DEFINE p == [page EXCEPT !.denied = TRUE]
  <2>1. p \in Page
    BY <1>1 DEF Page
  <2>2. Agrees(p) /\ p.denied /\ p.life = page.life
    BY <1>1 DEF Page, Agrees
  <2>3. page' = Failed(p, l)
    BY <1>7 DEF LaunchDenied
  <2> HIDE DEF p
  <2>4. Sound(p) /\ p.life # "cached"
    BY <1>3, <1>7, <2>1, <2>2 DEF LaunchAnswered, Sound, TriesInSight
  <2> QED
    BY <2>1, <2>3, <2>4, FailedIsSound
<1>8. CASE LaunchExpired(l)
  <2>1. Sound(Failed(page, l))
    BY <1>1, <1>3, <1>8, FailedIsSound DEF LaunchAnswered
  <2>2. Sound(Refreshed(Failed(page, l)))
    BY <2>1, RefreshedIsSound DEF Sound, TriesInSight
  <2>3. page' \in {Failed(page, l), Refreshed(Failed(page, l))}
    BY <1>8 DEF LaunchExpired
  <2> QED
    BY <2>1, <2>2, <2>3
<1> QED
  BY <1>2, <1>4, <1>5, <1>6, <1>7, <1>8 DEF LaunchAnswered

(* The gateway and the clock.                                                   *)
LEMMA WorldStep ==
  ASSUME IInv, Change \/ Outage \/ Return \/ Ages
  PROVE  Sound(page')
<1> USE DEF IInv
<1>1. page \in Page /\ Agrees(page) /\ TriesInSight(page)
  BY DEF PageTypeOK, Sound
<1>2. CASE Outage
  <2>1. PICK wire \in {"fine", "lost", "broken"} : page' = [page EXCEPT !.wire = wire]
    <3>1. page.wire \in {"fine", "lost", "broken"}
      BY <1>1 DEF Page
    <3> QED
      BY <1>2, <3>1 DEF Outage
  <2>2. page' \in Page
    BY <1>1, <2>1 DEF Page
  <2>3. Agrees(page')
    BY <1>1, <2>1 DEF Page, Agrees
  <2>4. TriesInSight(page')
    BY <1>1, <2>1 DEF Page, TriesInSight, Tries
  <2> QED
    BY <2>2, <2>3, <2>4 DEF Sound
<1>3. CASE Ages
  <2>1. page' = [page EXCEPT !.fresh = FALSE]
    BY <1>3 DEF Ages
  <2>2. page' \in Page
    BY <1>1, <2>1 DEF Page
  <2>3. Agrees(page')
    BY <1>1, <2>1 DEF Page, Agrees
  <2>4. TriesInSight(page')
    BY <1>1, <2>1 DEF Page, TriesInSight, Tries
  <2> QED
    BY <2>2, <2>3, <2>4 DEF Sound
<1> QED
  BY <1>2, <1>3 DEF Change, Return, Sound, PageTypeOK

(* What is left: the timers, the end of a resume, and the way back.             *)
LEMMA RestStep ==
  ASSUME IInv, Retry \/ Resume \/ ReloadTimer \/ Back
  PROVE  Sound(page')
<1> USE DEF IInv
<1>1. page \in Page /\ Agrees(page) /\ TriesInSight(page)
  BY DEF PageTypeOK, Sound
<1>2. CASE Retry
  BY <1>1, <1>2, RefreshedIsSound DEF Retry, Sound, TriesInSight
<1>3. CASE Resume
  <2> DEFINE p == [page EXCEPT !.resume = "none"]
  <2>1. p \in Page
    BY <1>1 DEF Page
  <2>2. Agrees(p)
    BY <1>1 DEF Page, Agrees
  <2>3. TriesInSight(p)
    BY <1>1 DEF Page, TriesInSight, Tries
  <2>4. page' \in Resumed(p)
    BY <1>3 DEF Resume
  <2> HIDE DEF p
  <2> QED
    BY <2>1, <2>2, <2>3, <2>4, ResumedIsSound DEF Sound
<1>4. CASE ReloadTimer
  BY <1>1, <1>4, AppliedIsSound DEF ReloadTimer, Awake, Sound
<1>5. CASE Back
  <2>1. page.clients \subseteq {page.shell} /\ page.life # "cached"
    BY <1>1, <1>5 DEF Back, Awake, Agrees
  <2> QED
    BY <1>1, <1>5, <2>1, RestoredIsSound DEF Back, Sound, TriesInSight
<1> QED
  BY <1>2, <1>3, <1>4, <1>5

LEMMA NextIInv ==
  ASSUME IInv, [Next]_vars
  PROVE  IInv'
<1>1. Sound(page')
  <2>1. CASE Fetched
    BY <2>1, FetchedStep
  <2>2. CASE Stream
    BY <2>2, StreamStep
  <2>3. CASE Lifecycle
    BY <2>3, LifecycleStep
  <2>4. CASE Signals
    BY <2>4, SignalsStep
  <2>5. ASSUME NEW l \in Launch, Press(l) \/ LaunchAnswered(l) PROVE Sound(page')
    BY <2>5, LaunchStep
  <2>6. CASE Change \/ Outage \/ Return \/ Ages
    BY <2>6, WorldStep
  <2>7. CASE Retry \/ Resume \/ ReloadTimer \/ Back
    BY <2>7, RestStep
  <2>8. CASE UNCHANGED vars
    BY <2>8 DEF vars, IInv, Sound
  <2> QED
    BY <2>1, <2>2, <2>3, <2>4, <2>5, <2>6, <2>7, <2>8 DEF Next
<1>2. PageTypeOK'
  BY <1>1, BoundsStep DEF IInv, PageTypeOK, Sound
<1> QED
  BY <1>1, <1>2 DEF IInv

-----------------------------------------------------------------------------
(* The theorems.                                                               *)

LEMMA Invariance == Spec => []IInv
<1>1. IInv /\ [Next]_vars => IInv'
  BY NextIInv
<1> QED
  BY InitIInv, <1>1, PTL DEF Spec

(* The state of the page has its type in every behaviour of app.ts.             *)
THEOREM PageIsTyped == Spec => []PageTypeOK
<1>1. IInv => PageTypeOK
  BY DEF IInv
<1> QED
  BY <1>1, Invariance, PTL

(* However requests, streams, timers, freezes, launches and shells follow each   *)
(* other, a directory that the user sees has a request, a stream or a timer that *)
(* will bring it up to date.                                                     *)
THEOREM PageNeverGivesUp == Spec => []NeverGivesUp
<1>1. IInv => NeverGivesUp
  BY DEF IInv, Sound, TriesInSight, Tries, NeverGivesUp, Trying
<1> QED
  BY <1>1, Invariance, PTL

(* A shell on display has its client and the directory it came from, no client    *)
(* runs beside it, and a page that lost its client in the cache has left the shell. *)
THEOREM PageShellIsAlive == Spec => []ShellIsAlive
<1>1. IInv => ShellIsAlive
  BY DEF IInv, Sound, Agrees, ShellIsAlive, Awake
<1> QED
  BY <1>1, Invariance, PTL

=============================================================================
