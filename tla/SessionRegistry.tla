---------------------------- MODULE SessionRegistry ----------------------------
(***************************************************************************)
(* The gateway's live directory of sessions: apps/gateway/src/registry.ts. *)
(*                                                                         *)
(* A poll of the discovery directory is folded into a map of records       *)
(* (Reconcile), records that stay unreadable expire (Sweep), every change  *)
(* spends one revision and is queued as an event, and a serialized         *)
(* dispatcher hands each event to every registered stream.  JavaScript     *)
(* runs a call to completion, but a call is not one step: a listener that  *)
(* is handed an event may call back into the registry (PushService reads   *)
(* snapshot(), which sweeps), so a call is modelled step by step between   *)
(* its emissions, and the monotonic clock may move between any two steps.  *)
(*                                                                         *)
(* Data abstracted: everything a card shows except its generation,         *)
(* activity and ask is one Label; wall-clock stamps are left out; the age  *)
(* of a record (now - receivedAtMs) replaces the clock and saturates at    *)
(* Ttl; a Map is iterated in an arbitrary order (its insertion order is    *)
(* one of them).                                                           *)
(***************************************************************************)
EXTENDS Naturals, Sequences, FiniteSets

CONSTANTS
  Instance,      (* instance identifiers                                    *)
  Generation,    (* generations a host can publish                          *)
  Identity,      (* pid, session id and start time of a host                *)
  Label,         (* title, directory, model, capabilities                   *)
  Activity,      (* what hosts report as busy: true, false, or nothing      *)
  Stream,        (* subscriptions made with subscribeWithSnapshot           *)
  None,          (* no record, no card, no stream                           *)
  Ttl,           (* registry.ttlSeconds, in clock ticks                     *)
  MaxSessions,   (* registry.maxSessions                                    *)
  Reentrant,     (* whether a listener calls back into the registry         *)
  MaxRevision    (* bound: no call that may insert starts beyond it         *)

ASSUME ConstantsAssumption ==
  /\ IsFiniteSet(Instance)
  /\ Generation \subseteq Nat
  /\ Activity \subseteq {"busy", "idle", "unknown"}
  /\ Ttl \in Nat \ {0}
  /\ MaxSessions \in Nat \ {0}
  /\ Reentrant \in BOOLEAN
  /\ MaxRevision \in Nat
  /\ None \notin Stream

VARIABLES
  metadata,   (* #metadata: the record of every published instance          *)
  revision,   (* #revision                                                  *)
  requests,   (* how many attention request ids were minted                 *)
  pending,    (* #pending from #pendingHead on; non-empty = #dispatching    *)
  owed,       (* the streams not yet handed the head of pending             *)
  call,       (* the running call: its loop and what the loop has left      *)
  phase,      (* per stream: closed, admitting, replaying, live             *)
  from,       (* per stream: snapshotRevision                               *)
  seen,       (* per stream: revision of the last event handed over         *)
  handed,     (* history: how many events were handed after the snapshot    *)
  mirror,     (* per stream: the directory its reader has folded            *)
  buffer,     (* per stream: events buffered by the admission gate          *)
  alerts,     (* stop events PushService has queued and not yet sent        *)
  steady,     (* history: stops not contradicted by a later observation     *)
  orphans     (* history: <<instance, generation>> of the upserts announced *)
              (* for a record that a nested sweep had already removed       *)

registryVars == <<metadata, revision, requests, orphans>>
queueVars == <<pending, owed>>
streamVars == <<phase, from, seen, handed, mirror, buffer>>
stopVars == <<alerts, steady>>
vars == <<metadata, revision, requests, orphans, pending, owed, call,
          phase, from, seen, handed, mirror, buffer, alerts, steady>>

-----------------------------------------------------------------------------
(* Records, cards and events. ask is 0 when no input is required, else the  *)
(* request id; stop is activityStopRevision, 0 when undefined.              *)

Record == [generation : Nat, identity : Identity, label : Label,
           busy : {"busy", "idle", "unknown"}, ask : Nat,
           age : 0 .. Ttl, stop : Nat]

Card == [generation : Nat, label : Label,
         busy : {"busy", "idle", "unknown"}, ask : Nat]

Event == [type : {"upsert", "stop"}, revision : Nat, instance : Instance,
          generation : Nat, card : Card]
         \cup
         [type : {"remove"}, revision : Nat, instance : Instance,
          generation : Nat, card : {None}]

ASSUME NoneIsNoCard == None \notin Card \cup Record

(* What OMP answers for one host: ObservedSessionInput.                     *)
Input == [generation : Generation, identity : Identity, label : Label,
          busy : Activity, asking : BOOLEAN]

Calls == {"none", "observing", "retiring", "sweeping", "replaying"}

View(r) == [generation |-> r.generation, label |-> r.label,
            busy |-> r.busy, ask |-> r.ask]

Directory == [i \in Instance |->
                IF metadata[i] = None THEN None ELSE View(metadata[i])]

Published == {i \in Instance : metadata[i] # None}
(* Mutant of Registered: the gate joins the listeners once it is open.       *)
RegisteredOnceLive == {s \in Stream : phase[s] = "live"}

Registered == {s \in Stream : phase[s] # "closed"}
Expired == {i \in Published : metadata[i].age = Ttl}

Idle == call.op = "none" /\ pending = << >>

NoCall == [op |-> "none", left |-> {}, retained |-> {}, live |-> {},
           work |-> [i \in Instance |-> None], target |-> None]

UpsertEvent(i, r, n) ==
  [type |-> "upsert", revision |-> n, instance |-> i,
   generation |-> r.generation, card |-> View(r)]
RemoveEvent(i, g, n) ==
  [type |-> "remove", revision |-> n, instance |-> i,
   generation |-> g, card |-> None]
StopEvent(i, r, n) ==
  [type |-> "stop", revision |-> n, instance |-> i,
   generation |-> r.generation, card |-> View(r)]

(* How a reader folds one event into its directory (web app, applyEvent).   *)
Apply(dir, e) ==
  IF e.type = "upsert" THEN [dir EXCEPT ![e.instance] = e.card]
  ELSE IF dir[e.instance] # None /\ dir[e.instance].generation = e.generation
       THEN [dir EXCEPT ![e.instance] = None]
       ELSE dir

TypeOK ==
  /\ metadata \in [Instance -> Record \cup {None}]
  /\ revision \in Nat
  /\ requests \in Nat
  /\ pending \in Seq(Event)
  /\ owed \subseteq Stream
  /\ call \in [op : Calls, left : SUBSET Instance, retained : SUBSET Instance,
               live : SUBSET Instance, work : [Instance -> Record \cup {None}],
               target : Stream \cup {None}]
  /\ phase \in [Stream -> {"closed", "admitting", "replaying", "live"}]
  /\ from \in [Stream -> Nat]
  /\ seen \in [Stream -> Nat]
  /\ handed \in [Stream -> Nat]
  /\ mirror \in [Stream -> [Instance -> Card \cup {None}]]
  /\ buffer \in [Stream -> Seq(Event)]
  /\ alerts \subseteq Event
  /\ steady \subseteq (Instance \X Nat)
  /\ orphans \subseteq (Instance \X Nat)

Init ==
  /\ metadata = [i \in Instance |-> None]
  /\ revision = 0
  /\ requests = 0
  /\ pending = << >>
  /\ owed = {}
  /\ call = NoCall
  /\ phase = [s \in Stream |-> "closed"]
  /\ from = [s \in Stream |-> 0]
  /\ seen = [s \in Stream |-> 0]
  /\ handed = [s \in Stream |-> 0]
  /\ mirror = [s \in Stream |-> [i \in Instance |-> None]]
  /\ buffer = [s \in Stream |-> << >>]
  /\ alerts = {}
  /\ steady = {}
  /\ orphans = {}

-----------------------------------------------------------------------------
(* Mutations and their emissions.                                           *)

(* #emit: queue the events; the dispatcher, if it was idle, starts with the *)
(* first of them and every stream registered now.                           *)
Emit(events) ==
  /\ pending' = pending \o events
  /\ owed' = IF pending = << >> THEN Registered ELSE owed

(* History only: stop revisions of i contradicted by what was just learnt.  *)
Disturb(i) == steady' = {p \in steady : p[1] # i}

(* Mutant of RemoveRecord: the removal is not announced.                     *)
RemoveRecordSilently(i, g) ==
  /\ metadata' = [metadata EXCEPT ![i] = None]
  /\ revision' = revision + 1
  /\ Disturb(i)
  /\ UNCHANGED <<requests, orphans, pending, owed>>

(* #removeRecord, also for a record a nested sweep has removed already.     *)
RemoveRecord(i, g) ==
  /\ metadata' = [metadata EXCEPT ![i] = None]
  /\ revision' = revision + 1
  /\ Emit(<<RemoveEvent(i, g, revision + 1)>>)
  /\ Disturb(i)
  /\ UNCHANGED <<requests, orphans>>

(* Mutant of ForgetActivity: an unreadable round counts as an observation.    *)
ForgetActivityAndRefresh(i, r) ==
  /\ Disturb(i)
  /\ metadata' = IF metadata[i] = None THEN metadata
                 ELSE [metadata EXCEPT ![i].age = 0]
  /\ UNCHANGED <<requests, orphans, revision, pending, owed>>

(* #forgetActivity(r), where r is the record object the caller holds: it is *)
(* still the published one unless a nested sweep removed it.                *)
ForgetActivity(i, r) ==
  /\ Disturb(i)
  /\ UNCHANGED requests
  /\ \/ /\ r.busy = "unknown"
        /\ UNCHANGED <<metadata, revision, orphans, pending, owed>>
     \/ /\ r.busy # "unknown"
        /\ metadata' = IF metadata[i] = None THEN metadata
                       ELSE [metadata EXCEPT ![i] = [@ EXCEPT !.busy = "unknown", !.stop = 0]]
        /\ revision' = revision + 1
        /\ Emit(<<UpsertEvent(i, [r EXCEPT !.busy = "unknown"], revision + 1)>>)
        /\ orphans' = orphans \cup (IF metadata[i] = None THEN {<<i, r.generation>>} ELSE {})

(* The same host, generation and identity, heard from within the TTL.       *)
Continues(old, in) ==
  /\ old # None
  /\ old.age < Ttl
  /\ old.generation = in.generation
  /\ old.identity = in.identity

(* One attention request keeps one id while the host keeps asking.          *)
RequestFor(old, in) ==
  IF ~in.asking THEN 0
  ELSE IF Continues(old, in) /\ old.ask # 0 THEN old.ask
  ELSE requests + 1

(* The edge that raises an activity stop: known busy to known idle with no  *)
(* ask on either side.                                                      *)
Stopped(old, in) ==
  /\ Continues(old, in)
  /\ old.busy = "busy" /\ old.ask = 0
  /\ in.busy = "idle" /\ ~in.asking

(* Mutant of StopRevision: inherited by whatever record comes next.          *)
StopRevisionInherited(old, in, n) ==
  IF Stopped(old, in) THEN n ELSE IF old # None THEN old.stop ELSE 0

(* activityStopRevision of the record an observation stores at revision n.  *)
StopRevision(old, in, n) ==
  IF Stopped(old, in) THEN n
  ELSE IF Continues(old, in) /\ in.busy = "idle" /\ ~in.asking THEN old.stop
  ELSE 0

Refreshed(old, in, n) ==
  [generation |-> in.generation, identity |-> in.identity, label |-> in.label,
   busy |-> in.busy, ask |-> RequestFor(old, in), age |-> 0,
   stop |-> StopRevision(old, in, n)]

(* History only: the answer leaves a stop of the same run of the same host    *)
(* true: heard without a gap, idle, asking nothing.                          *)
Undisturbed(old, in) ==
  /\ old # None
  /\ old.age < Ttl
  /\ old.generation = in.generation /\ old.identity = in.identity
  /\ in.busy = "idle" /\ ~in.asking

(* #observe past its early returns: the answer becomes the record, silently *)
(* when nothing rendered has moved.                                         *)
Store(i, in) ==
  LET old == metadata[i]
      new == Refreshed(old, in, revision + 1)
  IN /\ requests' = IF new.ask > requests THEN new.ask ELSE requests
     /\ UNCHANGED orphans
     /\ steady' = (IF Undisturbed(old, in) THEN steady
                   ELSE {p \in steady : p[1] # i})
                  \cup (IF Undisturbed(old, in) /\ old.busy = "busy" /\ old.ask = 0
                        THEN {<<i, revision + 1>>} ELSE {})
     /\ \/ /\ Continues(old, in)
           /\ View(old) = View(new)
           /\ metadata' = [metadata EXCEPT ![i] = [new EXCEPT !.stop = old.stop]]
           /\ UNCHANGED <<revision, pending, owed>>
        \/ /\ ~(Continues(old, in) /\ View(old) = View(new))
           /\ metadata' = [metadata EXCEPT ![i] = new]
           /\ revision' = revision + 1
           /\ Emit(IF Stopped(old, in)
                   THEN <<UpsertEvent(i, new, revision + 1),
                          StopEvent(i, new, revision + 1)>>
                   ELSE <<UpsertEvent(i, new, revision + 1)>>)

(* Mutant of ObserveInput: any generation replaces the record.               *)
ObserveAnyGeneration(i, in) ==
  \/ /\ metadata[i] = None /\ Cardinality(Published) >= MaxSessions
     /\ UNCHANGED <<registryVars, queueVars, steady>>
  \/ /\ metadata[i] # None \/ Cardinality(Published) < MaxSessions
     /\ Store(i, in)

(* Mutant of ObserveInput: one session too many fits.                        *)
ObserveOverCapacity(i, in) ==
  \/ /\ metadata[i] # None /\ in.generation < metadata[i].generation
     /\ ForgetActivity(i, metadata[i])
  \/ /\ metadata[i] = None /\ Cardinality(Published) > MaxSessions
     /\ UNCHANGED <<registryVars, queueVars, steady>>
  \/ /\ IF metadata[i] = None THEN Cardinality(Published) <= MaxSessions
        ELSE in.generation >= metadata[i].generation
     /\ Store(i, in)

(* #observe.                                                                *)
ObserveInput(i, in) ==
  \/ /\ metadata[i] # None /\ in.generation < metadata[i].generation
     /\ ForgetActivity(i, metadata[i])
  \/ /\ metadata[i] = None /\ Cardinality(Published) >= MaxSessions
     /\ UNCHANGED <<registryVars, queueVars, steady>>
  \/ /\ IF metadata[i] = None THEN Cardinality(Published) < MaxSessions
        ELSE in.generation >= metadata[i].generation
     /\ Store(i, in)

-----------------------------------------------------------------------------
(* reconcile(): first every answer, then every record that has none.        *)

Reconcile(live, retained) ==
  /\ Idle
  /\ revision < MaxRevision
  /\ call' = [NoCall EXCEPT !.op = "observing", !.left = live,
                            !.live = live, !.retained = retained]
  /\ UNCHANGED <<registryVars, queueVars, streamVars, stopVars>>

Observe(i, in) ==
  /\ call.op = "observing" /\ pending = << >>
  /\ i \in call.left
  /\ call' = [call EXCEPT !.left = @ \ {i}]
  /\ ObserveInput(i, in)
  /\ UNCHANGED <<streamVars, alerts>>

(* The records without an answer are captured before the first is retired.  *)
ObserveDone ==
  /\ call.op = "observing" /\ pending = << >>
  /\ call.left = {}
  /\ call' = [call EXCEPT !.op = "retiring",
                !.work = [i \in Instance |->
                            IF i \in call.live THEN None ELSE metadata[i]]]
  /\ UNCHANGED <<registryVars, queueVars, streamVars, stopVars>>

Retire(i) ==
  /\ call.op = "retiring" /\ pending = << >>
  /\ call.work[i] # None
  /\ call' = [call EXCEPT !.work[i] = None]
  /\ IF i \in call.retained THEN ForgetActivity(i, call.work[i])
     ELSE RemoveRecord(i, call.work[i].generation)
  /\ UNCHANGED <<streamVars, alerts>>

RetireDone ==
  /\ call.op = "retiring" /\ pending = << >>
  /\ \A i \in Instance : call.work[i] = None
  /\ call' = NoCall
  /\ UNCHANGED <<registryVars, queueVars, streamVars, stopVars>>

-----------------------------------------------------------------------------
(* sweepExpired(), snapshot(), authorizeLaunch() and clear(): the records to *)
(* remove are captured first, then removed one by one.                       *)

StartSweep(doomed, s) ==
  call' = [NoCall EXCEPT !.op = "sweeping", !.target = s,
             !.work = [i \in Instance |->
                         IF i \in doomed THEN metadata[i] ELSE None]]

Sweep ==
  /\ Idle
  /\ StartSweep(Expired, None)
  /\ UNCHANGED <<registryVars, queueVars, streamVars, stopVars>>

Clear ==
  /\ Idle
  /\ StartSweep(Published, None)
  /\ UNCHANGED <<registryVars, queueVars, streamVars, stopVars>>

SweepRemove(i) ==
  /\ call.op = "sweeping" /\ pending = << >>
  /\ call.work[i] # None
  /\ call' = [call EXCEPT !.work[i] = None]
  /\ RemoveRecord(i, call.work[i].generation)
  /\ UNCHANGED <<streamVars, alerts>>

SweepDone ==
  /\ call.op = "sweeping" /\ pending = << >>
  /\ call.target = None
  /\ \A i \in Instance : call.work[i] = None
  /\ call' = NoCall
  /\ UNCHANGED <<registryVars, queueVars, streamVars, stopVars>>

-----------------------------------------------------------------------------
(* subscribeWithSnapshot(): the gate is registered, the snapshot read (which *)
(* sweeps), handed over, the buffered events replayed, the gate opened.      *)

Admit(s) ==
  /\ Idle
  /\ phase[s] = "closed"
  /\ phase' = [phase EXCEPT ![s] = "admitting"]
  /\ StartSweep(Expired, s)
  /\ UNCHANGED <<registryVars, queueVars, from, seen, handed, mirror, buffer, stopVars>>

TakeSnapshot(s) ==
  /\ call.op = "sweeping" /\ pending = << >>
  /\ call.target = s
  /\ \A i \in Instance : call.work[i] = None
  /\ call' = [call EXCEPT !.op = "replaying"]
  /\ phase' = [phase EXCEPT ![s] = "replaying"]
  /\ from' = [from EXCEPT ![s] = revision]
  /\ seen' = [seen EXCEPT ![s] = revision]
  /\ handed' = [handed EXCEPT ![s] = 0]
  /\ mirror' = [mirror EXCEPT ![s] = Directory]
  /\ UNCHANGED <<registryVars, queueVars, buffer, stopVars>>

(* The listener mutates the registry while it is handed the snapshot or a    *)
(* replayed event: it reads the directory, which sweeps a record, or polls.  *)
MutateDuringReplay(i) ==
  /\ Reentrant
  /\ call.op = "replaying" /\ pending = << >>
  /\ \/ i \in Expired /\ RemoveRecord(i, metadata[i].generation)
     \/ revision < MaxRevision /\ \E in \in Input : ObserveInput(i, in)
  /\ UNCHANGED <<call, streamVars, alerts>>

(* Mutant of Passes: what the snapshot represents is handed over once more.  *)
PassesAgain(s, e) == e.revision >= from[s]

(* The gate's filter: what the snapshot already represents is dropped.       *)
Passes(s, e) == e.revision > from[s]

(* The listener is handed the event: its reader folds it.                    *)
Hand(s, e) ==
  /\ seen' = [seen EXCEPT ![s] = e.revision]
  /\ handed' = [handed EXCEPT ![s] = @ + 1]
  /\ mirror' = [mirror EXCEPT ![s] = Apply(@, e)]

Replay(s) ==
  /\ call.op = "replaying" /\ pending = << >>
  /\ call.target = s
  /\ buffer[s] # << >>
  /\ buffer' = [buffer EXCEPT ![s] = Tail(@)]
  /\ LET e == Head(buffer[s])
     IN IF Passes(s, e)
        THEN Hand(s, e)
        ELSE UNCHANGED <<seen, handed, mirror>>
  /\ UNCHANGED <<registryVars, queueVars, call, phase, from, stopVars>>

GoLive(s) ==
  /\ call.op = "replaying" /\ pending = << >>
  /\ call.target = s
  /\ buffer[s] = << >>
  /\ call' = NoCall
  /\ phase' = [phase EXCEPT ![s] = "live"]
  /\ UNCHANGED <<registryVars, queueVars, from, seen, handed, mirror, buffer, stopVars>>

(* unsubscribe(): nothing of the stream is left in the registry.             *)
Unsubscribe(s) ==
  /\ owed' = owed \ {s}
  /\ phase' = [phase EXCEPT ![s] = "closed"]
  /\ from' = [from EXCEPT ![s] = 0]
  /\ seen' = [seen EXCEPT ![s] = 0]
  /\ handed' = [handed EXCEPT ![s] = 0]
  /\ mirror' = [mirror EXCEPT ![s] = [i \in Instance |-> None]]
  /\ buffer' = [buffer EXCEPT ![s] = << >>]

(* The listener throws on its snapshot or on a replayed event.               *)
AdmissionThrows(s) ==
  /\ call.op = "replaying" /\ pending = << >>
  /\ call.target = s
  /\ call' = NoCall
  /\ Unsubscribe(s)
  /\ UNCHANGED <<registryVars, pending, stopVars>>

(* The browser goes away, or eventStream closes it for backpressure.         *)
Close(s) ==
  /\ phase[s] = "live"
  /\ Unsubscribe(s)
  /\ UNCHANGED <<registryVars, pending, call, stopVars>>

-----------------------------------------------------------------------------
(* The serialized dispatcher: #emit's loop over #notify.                     *)

Deliver(s) ==
  /\ pending # << >>
  /\ Head(pending).type # "stop"
  /\ s \in owed
  /\ owed' = owed \ {s}
  /\ LET e == Head(pending)
     IN \/ /\ phase[s] = "live" /\ Passes(s, e)
           /\ Hand(s, e)
           /\ UNCHANGED buffer
        \/ /\ phase[s] = "live" /\ ~Passes(s, e)
           /\ UNCHANGED <<seen, handed, mirror, buffer>>
        \/ /\ phase[s] # "live"
           /\ buffer' = [buffer EXCEPT ![s] = Append(@, e)]
           /\ UNCHANGED <<seen, handed, mirror>>
  /\ UNCHANGED <<registryVars, pending, call, phase, from, stopVars>>

NextEvent ==
  /\ pending # << >>
  /\ \/ /\ Head(pending).type # "stop"
        /\ owed = {}
        /\ UNCHANGED alerts
     \/ /\ Head(pending).type = "stop"
        /\ alerts' = alerts \cup {Head(pending)}
  /\ pending' = Tail(pending)
  /\ owed' = IF Tail(pending) = << >> THEN {} ELSE Registered
  /\ UNCHANGED <<registryVars, call, streamVars, steady>>

(* A listener reads snapshot() or authorizeLaunch() while it is handed an     *)
(* event: the removals are queued behind the event being dispatched.          *)
SweepDuringDispatch ==
  /\ Reentrant
  /\ pending # << >>
  /\ Expired # {}
  /\ \E order \in [1 .. Cardinality(Expired) -> Expired] :
       /\ \A i \in Expired : \E k \in DOMAIN order : order[k] = i
       /\ pending' = pending \o
            [k \in DOMAIN order |->
               RemoveEvent(order[k], metadata[order[k]].generation, revision + k)]
  /\ metadata' = [i \in Instance |-> IF i \in Expired THEN None ELSE metadata[i]]
  /\ revision' = revision + Cardinality(Expired)
  /\ steady' = {p \in steady : p[1] \notin Expired}
  /\ UNCHANGED <<requests, orphans, owed, call, streamVars, alerts>>

(* A listener subscribes another one. Its sweep has run (Expired is empty);   *)
(* nothing can be delivered before it returns, so admission is one step. The  *)
(* loop over the Set of listeners reaches it for the event under way.         *)
AdmitDuringDispatch(s) ==
  /\ Reentrant
  /\ pending # << >>
  /\ Expired = {}
  /\ phase[s] = "closed"
  /\ phase' = [phase EXCEPT ![s] = "live"]
  /\ from' = [from EXCEPT ![s] = revision]
  /\ seen' = [seen EXCEPT ![s] = revision]
  /\ handed' = [handed EXCEPT ![s] = 0]
  /\ mirror' = [mirror EXCEPT ![s] = Directory]
  /\ owed' = IF Head(pending).type = "stop" THEN owed ELSE owed \cup {s}
  /\ UNCHANGED <<registryVars, pending, call, buffer, stopVars>>

-----------------------------------------------------------------------------
(* The clock, and the deferred delivery of a stop.                            *)

Tick ==
  /\ \E i \in Published : metadata[i].age < Ttl
  /\ metadata' = [i \in Instance |->
                    IF metadata[i] # None /\ metadata[i].age < Ttl
                    THEN [metadata[i] EXCEPT !.age = @ + 1] ELSE metadata[i]]
  /\ UNCHANGED <<revision, requests, orphans, queueVars, call, streamVars, stopVars>>

(* isCurrentActivityStop, after its sweep.                                    *)
CurrentStop(e) ==
  /\ metadata[e.instance] # None
  /\ metadata[e.instance].age < Ttl
  /\ metadata[e.instance].stop = e.revision
  /\ metadata[e.instance].generation = e.generation

(* PushService takes a queued stop up, once, at any later time: sent when     *)
(* CurrentStop, dropped otherwise.                                            *)
SettleAlert(e) ==
  /\ Idle
  /\ e \in alerts
  /\ alerts' = alerts \ {e}
  /\ UNCHANGED <<registryVars, queueVars, call, streamVars, steady>>

-----------------------------------------------------------------------------
Poll == \E live, retained \in SUBSET Instance :
          live \cap retained = {} /\ Reconcile(live, retained)

(* The rest of a call that has started.                                       *)
RunCall ==
  \/ \E i \in Instance, in \in Input : Observe(i, in)
  \/ ObserveDone
  \/ \E i \in Instance : Retire(i)
  \/ RetireDone
  \/ \E i \in Instance : SweepRemove(i)
  \/ SweepDone
  \/ \E s \in Stream : TakeSnapshot(s) \/ Replay(s) \/ GoLive(s) \/ AdmissionThrows(s)

Dispatch == NextEvent \/ \E s \in Stream : Deliver(s)

Reenter ==
  \/ SweepDuringDispatch
  \/ \E i \in Instance : MutateDuringReplay(i)
  \/ \E s \in Stream : AdmitDuringDispatch(s)

Next ==
  \/ Poll
  \/ Sweep
  \/ Clear
  \/ \E s \in Stream : Admit(s) \/ Close(s)
  \/ RunCall
  \/ Dispatch
  \/ Reenter
  \/ Tick
  \/ \E e \in alerts : SettleAlert(e)

Spec == Init /\ [][Next]_vars

(* A call that has started runs to its end, the clock moves, and the          *)
(* sweeper's interval fires again and again (cli.ts) whatever else runs.      *)
FairSpec ==
  /\ Spec
  /\ WF_vars(RunCall)
  /\ WF_vars(Dispatch)
  /\ WF_vars(Tick)
  /\ SF_vars(Sweep)

-----------------------------------------------------------------------------
(* Properties.                                                               *)

(* Every variable keeps its type, and never more sessions are published than  *)
(* registry.maxSessions, whatever polls, sweeps and re-entrant calls are      *)
(* interleaved (the capacity check of #observe, registry.ts 219).             *)
WithinCapacity == TypeOK /\ Cardinality(Published) <= MaxSessions

(* k is the last of the positions in S.                                      *)
IsLast(k, S) == k \in S /\ \A j \in S : j <= k

(* Positions in pending, and in the admission buffer, of the events on i      *)
(* that stream s has still to be handed and will not filter out.              *)
Due(s, i) == {k \in 1 .. Len(pending) :
                /\ k > 1 \/ s \in owed
                /\ pending[k].type # "stop"
                /\ pending[k].instance = i
                /\ pending[k].revision > from[s]}

Kept(s, i) == {k \in 1 .. Len(buffer[s]) :
                 /\ buffer[s][k].instance = i
                 /\ buffer[s][k].revision > from[s]}

(* Stream s holds, or is still owed as its last word on i, the card c.        *)
WillShow(s, i, c) ==
  /\ \A k \in 1 .. Len(pending) : IsLast(k, Due(s, i)) => pending[k].card = c
  /\ Due(s, i) = {} => \A k \in 1 .. Len(buffer[s]) :
                         IsLast(k, Kept(s, i)) => buffer[s][k].card = c
  /\ Due(s, i) = {} /\ Kept(s, i) = {} => mirror[s][i] = c

(* No published session is hidden from, or misstated to, a stream: whatever   *)
(* interleaving of admission, dispatch and re-entrant calls a stream went     *)
(* through, the events it is still owed bring its card of every published     *)
(* session to the registry's (registry.ts 148-183 and 331-366).               *)
CardsAgree ==
  \A s \in Stream : phase[s] \in {"replaying", "live"} =>
    \A i \in Published : WillShow(s, i, View(metadata[i]))

(* Between calls no live stream still shows a session the registry dropped:   *)
(* what OMP stopped publishing, or what the TTL expired, is off every         *)
(* directory (registry.ts 185-211, 306-323). False where a listener reads the *)
(* directory while it is handed an event, as PushService does.                *)
NoGhosts ==
  Idle => \A s \in Stream : phase[s] = "live" =>
            \A i \in Instance \ Published : mirror[s][i] = None

(* With listeners that call back, a live stream still shows a dropped session *)
(* between calls in one case only: the card has the generation of a record    *)
(* that retain-and-forget announced after a nested sweep had removed it       *)
(* (registry.ts 203-207, 262-269).                                            *)
GhostsAreOrphans ==
  Idle => \A s \in Stream : phase[s] = "live" =>
            \A i \in Instance \ Published :
              mirror[s][i] # None => <<i, mirror[s][i].generation>> \in orphans

(* A stream is handed one snapshot and then every later revision exactly      *)
(* once, in order: the k-th event handed after a snapshot of revision r has   *)
(* revision r + k (none twice, none skipped, none early), and between calls   *)
(* no revision is left to hand. Whatever listeners sweep, subscribe or mutate *)
(* meanwhile (the comments at registry.ts 140-147 and 325-330).               *)
EachEventOnce ==
  \A s \in Stream : phase[s] \in {"replaying", "live"} =>
    /\ seen[s] = from[s] + handed[s]
    /\ (phase[s] = "live" /\ Idle) => seen[s] = revision

(* A card never falls back to an earlier generation without being removed in  *)
(* between: a reader that holds generation n is not handed the card of a      *)
(* host OMP has superseded (registry.ts 215-218, 319-323). The one exception  *)
(* is a card left by an announcement of a record already removed.             *)
CardsNeverRegress ==
  [][\A s \in Stream, i \in Instance :
       (/\ phase[s] = "live" /\ phase'[s] = "live"
        /\ mirror[s][i] # None /\ mirror'[s][i] # None
        /\ <<i, mirror[s][i].generation>> \notin orphans)
       => mirror'[s][i].generation >= mirror[s][i].generation]_streamVars

(* A queued stop that passes isCurrentActivityStop, however late, is still    *)
(* true: since its edge nothing was heard of the session but idle, without    *)
(* an ask, from the same run, and without a gap (registry.ts 133-138,         *)
(* 245-254, 262-269).                                                         *)
StopStillTrue ==
  \A e \in alerts : CurrentStop(e) => <<e.instance, e.revision>> \in steady

(* A session that is never answered for again leaves the directory: polls     *)
(* that retain it cannot keep it alive (registry.ts 38-48, cli.ts 226-231).   *)
RetainedExpires ==
  \A i \in Instance :
    \/ []<><<MutateDuringReplay(i) \/ \E in \in Input : Observe(i, in)>>_vars
    \/ []<>(metadata[i] = None)
=============================================================================
