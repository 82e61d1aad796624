----------------------------- MODULE DirectoryPage -----------------------------
(***************************************************************************)
(* The page of the web client: apps/web/src/app.ts.                        *)
(*                                                                         *)
(* The page keeps one connection to the gateway: a snapshot is fetched,     *)
(* then an event stream opened; whatever fails is retried by a timer, by   *)
(* the browser's own EventSource, or by the next sign of life of the       *)
(* device.  Beside it run launches, which mount the collaboration client   *)
(* in place of the directory, and the update of the page's worker, which   *)
(* waits until a reload disturbs nothing.                                  *)
(*                                                                         *)
(* A handler runs to completion, so its calls are functions from a page to  *)
(* the page it leaves (Refreshed, Restored, Applied ...), and an action is  *)
(* one handler.  A request that a refresh aborts has no further effect, so  *)
(* at most one snapshot request counts.  Abstracted: which session is       *)
(* launched and why it is refused, the lengths of the delays, the copy the  *)
(* page shows.  A snapshot or an event carries the directory of the moment  *)
(* it arrives (SessionRegistry says what streams may rely on); the address  *)
(* of the page and what it displays change together.                        *)
(***************************************************************************)
EXTENDS Integers, FiniteSets

CONSTANTS
  Launch,      (* launches: each is made once, and names the shell it mounts  *)
  None,
  MaxRevision, (* bound: changes of the directory in one run of the gateway   *)
  MaxFaults,   (* bound: outages, restarts and failed requests                *)
  MaxMoves,    (* bound: times the page is hidden, frozen or left             *)
  MaxSignals   (* bound: taps, network events and worker updates              *)

ASSUME PageAssumption ==
  /\ None \notin Launch
  /\ {MaxRevision, MaxFaults, MaxMoves, MaxSignals} \subseteq Nat

VARIABLES
  gateway, (* its run, the revision of its directory, whether it answers      *)
  page,    (* the state of app.ts                                             *)
  spent    (* how much of each bound is used up                               *)

vars == <<gateway, page, spent>>

Directory == [run : Nat, revision : Nat]

Page ==
  [life : {"visible", "hidden", "frozen", "cached"},
   fetch : BOOLEAN,          (* snapshotController: a request that still counts *)
   source : {"none", "connecting", "open", "retrying", "failed"}, (* events    *)
   opened : {"never", "once", "again"},   (* opened, of this EventSource       *)
   wire : {"fine", "lost", "broken"},     (* what became of the open stream    *)
   timer : BOOLEAN,          (* reconnectTimeout                               *)
   floor : Nat \cup {-1},    (* directoryRevision                              *)
   shown : Directory \cup {None},
   fresh : BOOLEAN,          (* lastFreshAt lies within the liveness window    *)
   denied : BOOLEAN,         (* authorizationDenied                            *)
   at : {"directory", "client"},          (* document.body, location.pathname  *)
   saved : BOOLEAN,          (* dashboardSnapshot                              *)
   shell : Launch \cup {None},            (* activeCollabShell                 *)
   clients : SUBSET Launch,  (* collaboration clients that run                 *)
   disposed : BOOLEAN,       (* collabShellDisposedOnPageHide                  *)
   resume : {"none", "waiting"} \cup Launch, (* resumeDisposedCollabShell: it  *)
                             (* waits for the refresh, then for a tap's launch *)
   launch : [Launch -> {"unused", "asked", "over"}],
   from : [Launch -> Launch \cup {None}], (* sourceShell                       *)
   update : BOOLEAN,         (* workerUpdatePending                            *)
   reloadTimer : BOOLEAN,    (* updateReloadTimeout                            *)
   route : BOOLEAN]          (* pendingNotificationRoute                       *)

PageTypeOK ==
  /\ gateway \in [run : Nat, revision : Nat, up : BOOLEAN]
  /\ page \in Page
  /\ spent \in [faults : Nat, moves : Nat, signals : Nat]

Now == [run |-> gateway.run, revision |-> gateway.revision]

Awake == page.life \in {"visible", "hidden"}
Stale(p) == p.source \in {"retrying", "failed"}
Pending(p) == {l \in Launch : p.launch[l] = "asked"}

(* A document that has just been loaded with these launches used up.          *)
Loaded(life, launch) ==
  [life |-> life, fetch |-> TRUE, source |-> "none", opened |-> "never", wire |-> "fine",
   timer |-> FALSE, floor |-> -1, shown |-> None, fresh |-> FALSE, denied |-> FALSE,
   at |-> "directory", saved |-> FALSE, shell |-> None, clients |-> {},
   disposed |-> FALSE, resume |-> "none",
   launch |-> [l \in Launch |-> IF launch[l] = "asked" THEN "over" ELSE launch[l]],
   from |-> [l \in Launch |-> None],
   update |-> FALSE, reloadTimer |-> FALSE, route |-> FALSE]

Init ==
  /\ gateway = [run |-> 1, revision |-> 0, up |-> TRUE]
  /\ \E route \in BOOLEAN :
       page = [Loaded("visible", [l \in Launch |-> "unused"]) EXCEPT !.route = route]
  /\ spent = [faults |-> 0, moves |-> 0, signals |-> 0]

-----------------------------------------------------------------------------
(* The calls that handlers are made of.                                      *)

(* scheduleReconnect.                                                         *)
Scheduled(p) == IF p.denied THEN p ELSE [p EXCEPT !.timer = TRUE]

(* A resume that waits for a refresh ends with it.                             *)
Dropped(resume) == IF resume = "waiting" THEN "none" ELSE resume

(* The connection is given up: fetch aborted, source closed, timers cleared.  *)
Disconnected(p) ==
  [p EXCEPT !.fetch = FALSE, !.source = "none", !.opened = "never", !.wire = "fine",
            !.timer = FALSE, !.floor = -1, !.resume = Dropped(@)]

(* refreshAndConnect up to its first await.                                    *)
Refreshed(p) == [Disconnected(p) EXCEPT !.fetch = TRUE]

(* What a source that the page has done with remembers is gone with it.        *)
Remembered(opened, source) == IF source = "retrying" THEN opened ELSE "never"

(* markEventStreamInterrupted, and what is left of the source.                 *)
Interrupted(p, source) ==
  Scheduled([p EXCEPT !.source = source, !.wire = "fine",
                      !.opened = Remembered(@, source)])

MayReload(p) ==
  p.update /\ Pending(p) = {} /\ ~p.route /\ p.shell = None /\ p.at = "directory"

(* applyActivatedWorkerUpdate.                                                 *)
Applied(p) ==
  IF MayReload(p) THEN Loaded(p.life, p.launch) ELSE [p EXCEPT !.reloadTimer = FALSE]

(* restoreDirectory: without a saved directory the document is loaded anew.    *)
Restored(p) ==
  IF ~p.saved THEN Loaded(p.life, p.launch)
  ELSE Applied(Refreshed([p EXCEPT
         !.disposed = FALSE, !.clients = @ \ {p.shell}, !.shell = None,
         !.at = "directory", !.saved = FALSE]))

(* launch() until its first await.                                             *)
Launched(p, l) == [p EXCEPT !.launch[l] = "asked", !.from[l] = p.shell]

Settled(p, l) == [p EXCEPT !.launch[l] = "over"]

(* Mutant of Failed: a launch that fails lets a waiting update wait.             *)
FailedQuietly(p, l) == Settled(p, l)

(* fail() keeps the shell that the launch came from.                           *)
Preserved(p, l) == p.from[l] # None /\ p.shell = p.from[l]

Failed(p, l) ==
  IF Preserved(p, l) THEN Settled(p, l) ELSE Applied(Settled(p, l))

(* enterCollabClient.  Its abort of a snapshot request in flight ends that      *)
(* refresh, which schedules another one after the timer has been cleared.       *)
Entered(p, l) ==
  LET q == [Settled(p, l) EXCEPT
              !.saved = TRUE, !.at = "client", !.shell = l,
              !.clients = (@ \ {p.shell}) \cup {l},
              !.fetch = FALSE, !.timer = FALSE, !.disposed = FALSE,
              !.resume = Dropped(@)]
  IN IF p.fetch THEN Scheduled(q) ELSE q

-----------------------------------------------------------------------------
(* The gateway and the network.                                               *)

Spend(what) == spent' = [spent EXCEPT ![what] = @ + 1]

Change ==
  /\ gateway.revision < MaxRevision
  /\ gateway' = [gateway EXCEPT !.revision = @ + 1]
  /\ UNCHANGED <<page, spent>>

(* The gateway stops answering: the open stream breaks, or just falls silent;   *)
(* one on its way to be opened fails, or is connected when the gateway is back. *)
Outage ==
  /\ gateway.up /\ spent.faults < MaxFaults /\ Spend("faults")
  /\ gateway' = [gateway EXCEPT !.up = FALSE]
  /\ page' \in {[page EXCEPT !.wire = wire] :
                  wire \in CASE page.source = "open" -> {"lost", "broken"}
                             [] page.source = "connecting" -> {"fine", "broken"}
                             [] OTHER -> {page.wire}}

(* It answers again, as the same process or as a new one.                       *)
Return ==
  /\ ~gateway.up
  /\ \/ gateway' = [gateway EXCEPT !.up = TRUE]
     \/ gateway' = [run |-> gateway.run + 1, revision |-> 0, up |-> TRUE]
  /\ UNCHANGED <<page, spent>>

-----------------------------------------------------------------------------
(* The snapshot request.                                                       *)

(* resumeDisposedCollabShell launches its session when it is still what it was. *)
Resumed(p) ==
  {p} \cup {Launched(p, l) : l \in {k \in Launch : p.launch[k] = "unused"}}

(* resolvePendingNotificationRoute: the tap launches its session, or finds it   *)
(* shown already, or finds it gone.  A resume goes on when this is over.        *)
Routed(p) ==
  LET q == [p EXCEPT !.route = FALSE]
      opened(l) == [Launched(q, l) EXCEPT !.resume = IF @ = "waiting" THEN l ELSE @]
  IN IF ~p.route THEN {p}
     ELSE {opened(l) : l \in {k \in Launch : q.launch[k] = "unused"}}
          \cup {IF q.shell # None THEN q ELSE Applied(q)}

FetchOk ==
  /\ Awake /\ page.fetch /\ gateway.up
  /\ \E q \in Routed([page EXCEPT
                 !.fetch = FALSE, !.denied = FALSE, !.shown = Now, !.fresh = TRUE,
                 !.floor = gateway.revision, !.source = "connecting",
                 !.opened = "never"]) :
       page' \in IF q.resume = "waiting" THEN Resumed([q EXCEPT !.resume = "none"]) ELSE {q}
  /\ UNCHANGED <<gateway, spent>>

FetchDenied ==
  /\ Awake /\ page.fetch /\ gateway.up
  /\ page' = [page EXCEPT !.fetch = FALSE, !.denied = TRUE, !.shown = None,
                          !.resume = Dropped(@)]
  /\ UNCHANGED <<gateway, spent>>

FetchGivesUp ==
  page' = Scheduled([page EXCEPT !.fetch = FALSE, !.denied = FALSE, !.floor = -1,
                                 !.resume = Dropped(@)])

(* It fails or times out because the gateway is down, or now and then.          *)
FetchFails ==
  /\ Awake /\ page.fetch
  /\ FetchGivesUp
  /\ \/ ~gateway.up /\ UNCHANGED spent
     \/ gateway.up /\ spent.faults < MaxFaults /\ Spend("faults")
  /\ UNCHANGED gateway

(* reconnectTimeout fires.                                                      *)
Retry ==
  /\ Awake /\ page.timer
  /\ page' = Refreshed(page)
  /\ UNCHANGED <<gateway, spent>>

-----------------------------------------------------------------------------
(* The event stream.                                                            *)


(* onopen, of the first connection or of one the browser has made again.  Only a *)
(* source that had opened before forgets the revision: after an error that came  *)
(* first the snapshot's stays.                                                   *)
Opened(p) ==
  IF p.opened = "never"
  THEN [p EXCEPT !.source = "open", !.timer = FALSE, !.opened = "once"]
  ELSE [p EXCEPT !.source = "open", !.timer = FALSE, !.opened = "again", !.floor = -1]

StreamOpens ==
  /\ Awake /\ gateway.up
  /\ page.source \in {"connecting", "retrying"} /\ page.wire = "fine"
  /\ page' = Opened(page)
  /\ UNCHANGED <<gateway, spent>>

(* An event, the stream's initial snapshot among them: applyEvent.              *)
StreamEvent ==
  /\ Awake /\ gateway.up /\ page.source = "open" /\ page.wire = "fine"
  /\ gateway.revision >= page.floor
  /\ page' = [page EXCEPT !.shown = Now, !.floor = gateway.revision, !.fresh = TRUE,
                          !.denied = FALSE]
  /\ UNCHANGED <<gateway, spent>>

(* An event that cannot be read: failEventStream.                                *)
MalformedEvent ==
  /\ Awake /\ gateway.up /\ page.source = "open" /\ page.wire = "fine"
  /\ spent.faults < MaxFaults /\ Spend("faults")
  /\ page' = Interrupted(page, "none")
  /\ UNCHANGED gateway

Keepalive ==
  /\ Awake /\ gateway.up /\ page.source = "open" /\ page.wire = "fine"
  /\ page' = [page EXCEPT !.fresh = TRUE]
  /\ UNCHANGED <<gateway, spent>>

(* onerror: the browser connects again by itself, or has given the source up.   *)
StreamError ==
  /\ Awake /\ page.wire = "broken"
  /\ \E source \in {"retrying", "failed"} : page' = Interrupted(page, source)
  /\ UNCHANGED <<gateway, spent>>

NativeRetryFails ==
  /\ Awake /\ page.source = "retrying" /\ ~gateway.up
  /\ page' = Interrupted(page, "failed")
  /\ UNCHANGED <<gateway, spent>>

(* The liveness timeout: failEventStream.                                       *)
Silence ==
  /\ Awake /\ page.source = "open" /\ page.wire = "lost"
  /\ page' = Interrupted(page, "none")
  /\ UNCHANGED <<gateway, spent>>

(* EVENT_LIVENESS_TIMEOUT_MS pass without a sign of the stream.                 *)
Ages ==
  /\ page.fresh
  /\ page.source # "open" \/ page.wire # "fine" \/ ~Awake
  /\ page' = [page EXCEPT !.fresh = FALSE]
  /\ UNCHANGED <<gateway, spent>>

-----------------------------------------------------------------------------
(* The life of the page.                                                        *)

Moves(from, to) ==
  /\ page.life = from /\ spent.moves < MaxMoves /\ Spend("moves")
  /\ page' = [page EXCEPT !.life = to]
  /\ UNCHANGED gateway

Hide == Moves("visible", "hidden")
Thaw == Moves("frozen", "hidden")

(* The freeze event releases the connection.                                    *)
Freeze ==
  /\ page.life = "hidden"
  /\ page' = [Disconnected(page) EXCEPT !.life = "frozen"]
  /\ UNCHANGED <<gateway, spent>>

(* directoryStreamIsLive.                                                       *)
StreamIsLive(p) == p.source # "none" /\ ~Stale(p) /\ p.fresh

(* Mutant of Shown: a page that is back trusts what it holds.                    *)
ShownTrusting(p) == [p EXCEPT !.life = "visible"]

(* visibilitychange.                                                            *)
Shown(p) ==
  LET q == [p EXCEPT !.life = "visible"]
  IN IF q.denied \/ StreamIsLive(q) THEN q ELSE Refreshed(q)

Show ==
  /\ page.life \in {"hidden", "frozen"}
  /\ page' = Shown(page)
  /\ UNCHANGED <<gateway, spent>>

(* pagehide into the back/forward cache: the shell's client is disposed, the     *)
(* shell's elements and address stay.                                           *)
PageHide ==
  /\ Awake /\ spent.moves < MaxMoves /\ Spend("moves")
  /\ page' = [page EXCEPT !.life = "cached",
                          !.wire = IF page.source = "open" THEN "lost" ELSE @,
                          !.disposed = @ \/ page.shell # None,
                          !.clients = @ \ {page.shell}, !.shell = None]
  /\ UNCHANGED gateway

(* Mutant of Reopened: the shell is left where it was.                           *)
ReopenedInert(p) == Refreshed([p EXCEPT !.life = "visible"])

(* pageshow of a page from the cache.                                           *)
Reopened(p) ==
  LET q == [p EXCEPT !.life = "visible"]
  IN IF ~p.disposed THEN Refreshed(q)
     ELSE [Restored(q) EXCEPT !.resume = IF MayReload([q EXCEPT !.at = "directory"])
                                         THEN "none" ELSE "waiting"]

PageShow ==
  /\ page.life = "cached"
  /\ page' = Reopened(page)
  /\ UNCHANGED <<gateway, spent>>

(* A resume that waited for the launch of a tap.                                 *)
Resume ==
  /\ Awake /\ page.resume \in Launch /\ page.launch[page.resume] = "over"
  /\ page' \in Resumed([page EXCEPT !.resume = "none"])
  /\ UNCHANGED <<gateway, spent>>

Signal == Awake /\ spent.signals < MaxSignals /\ Spend("signals") /\ UNCHANGED gateway

(* The online event, or the user's retry.                                       *)
Online == Signal /\ page' = Refreshed(page)

Offline == Signal /\ page' = Scheduled([Disconnected(page) EXCEPT !.denied = FALSE])

(* acceptNotificationRoute.                                                     *)
Tap == Signal /\ page' = [Refreshed(page) EXCEPT !.route = TRUE]

(* controllerchange.                                                            *)
WorkerChanges == Signal /\ page' = [page EXCEPT !.update = TRUE, !.reloadTimer = TRUE]

ReloadTimer ==
  /\ Awake /\ page.reloadTimer
  /\ page' = Applied(page)
  /\ UNCHANGED <<gateway, spent>>

-----------------------------------------------------------------------------
(* Launches and shells.                                                         *)

(* A card of the directory, or the control button of the shell.                 *)
Press(l) ==
  /\ page.life = "visible" /\ page.launch[l] = "unused"
  /\ page.shown # None \/ page.shell # None
  /\ page' = Launched(page, l)
  /\ UNCHANGED <<gateway, spent>>

Answers(l) == Awake /\ page.launch[l] = "asked" /\ UNCHANGED <<gateway, spent>>

LaunchEnters(l) == Answers(l) /\ gateway.up /\ page' = Entered(page, l)

(* The client cannot be started: enterCollabClient undoes itself, launch fails.  *)
LaunchThrows(l) == Answers(l) /\ gateway.up /\ page' = Restored(Entered(page, l))

LaunchFails(l) == Answers(l) /\ page' = Failed(page, l)

LaunchDenied(l) ==
  Answers(l) /\ gateway.up /\ page' = Failed([page EXCEPT !.denied = TRUE], l)

(* The card was of an earlier time: the directory is refreshed, unless a shell   *)
(* is kept or the page is reloaded.                                             *)
LaunchExpired(l) ==
  /\ Answers(l) /\ gateway.up
  /\ page' = IF Preserved(page, l) \/ MayReload(Settled(page, l))
             THEN Failed(page, l) ELSE Refreshed(Failed(page, l))

(* The user goes back, or the client unmounts itself.                            *)
Back ==
  /\ Awake /\ page.shell # None
  /\ page' = Restored(page)
  /\ UNCHANGED <<gateway, spent>>

-----------------------------------------------------------------------------
LaunchAnswered(l) ==
  LaunchEnters(l) \/ LaunchThrows(l) \/ LaunchFails(l) \/ LaunchDenied(l) \/ LaunchExpired(l)

Fetched == FetchOk \/ FetchDenied \/ FetchFails

Stream ==
  \/ StreamOpens \/ StreamEvent \/ MalformedEvent \/ Keepalive
  \/ StreamError \/ NativeRetryFails \/ Silence

Lifecycle == Hide \/ Thaw \/ Freeze \/ Show \/ PageHide \/ PageShow

Signals == Online \/ Offline \/ Tap \/ WorkerChanges

Next ==
  \/ Change \/ Outage \/ Return
  \/ Fetched \/ Retry \/ Stream \/ Ages
  \/ Lifecycle \/ Signals \/ Resume \/ ReloadTimer
  \/ Back
  \/ \E l \in Launch : Press(l) \/ LaunchAnswered(l)

Spec == Init /\ [][Next]_vars

(* Requests are answered or time out, timers of a page that is awake fire, and   *)
(* a stream that can be read is read.                                            *)
FairSpec ==
  /\ Spec
  /\ WF_vars(Fetched) /\ WF_vars(Retry) /\ WF_vars(ReloadTimer)
  /\ WF_vars(StreamOpens) /\ WF_vars(StreamEvent)
  /\ WF_vars(StreamError) /\ WF_vars(Silence)
  /\ WF_vars(\E l \in Launch : LaunchAnswered(l))

-----------------------------------------------------------------------------
(* Properties.                                                                  *)

(* Something still brings the directory up to date: a request under way, a       *)
(* stream the browser keeps, or a timer.                                         *)
Trying == page.fetch \/ page.timer \/ page.source \in {"connecting", "open", "retrying"}

(* A directory the user sees never gives up: through failed requests, silent and *)
(* broken streams, freezing, aborted refreshes, launches that fail and shells    *)
(* that are left (app.ts 664-700, 2055-2217, 2246-2301).                         *)
NeverGivesUp ==
  page.life = "visible" /\ ~page.denied /\ page.shell = None => Trying

(* The collaboration clients that run are the one of the shell on display, a      *)
(* shell on display has its client and the directory it came from, and a page     *)
(* that has lost its client never stays an inert shell (app.ts 160-165,           *)
(* 1540-1561, 1817-1912).                                                        *)
ShellIsAlive ==
  Awake => /\ page.clients = {page.shell} \ {None}
           /\ (page.at = "client" <=> page.shell # None)
           /\ (page.saved <=> page.shell # None)

Current == page.source = "open" /\ page.wire = "fine" /\ page.shown = Now

(* The first opening of a stream reached a gateway that had restarted since the   *)
(* snapshot was fetched, with or without an error in between: the page keeps the  *)
(* snapshot's revision, the new run's are below it, and its events, the initial   *)
(* snapshot among them, are dropped until the run catches up or the stream breaks *)
(* (app.ts 2036, 2113-2118).  PROTOCOL.md 208 has that snapshot establish the     *)
(* state of every connection; here the code does less than the document says.     *)
Outran ==
  /\ page.source \in {"connecting", "open"} /\ page.opened # "again"
  /\ page.floor > gateway.revision


(* An update of the worker that had to wait for a launch, a shell or a routed     *)
(* tap is applied when they are over (app.ts 307-320, ADR-018).                   *)
UpdateApplies ==
  []<>(\/ ~page.update
       \/ page.life # "visible" \/ page.shell # None
       \/ ~gateway.up \/ page.denied)
=============================================================================
