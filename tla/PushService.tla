------------------------------ MODULE PushService ------------------------------
(***************************************************************************)
(* Web Push at the gateway: apps/gateway/src/push.ts.                      *)
(*                                                                         *)
(* The service mirrors the asks of the registry and turns every change     *)
(* into messages, which one delivery chain per instance sends in order to  *)
(* the subscriptions stored at that moment.  Subscriptions change through  *)
(* one queue of mutations, each written to the state file before it is     *)
(* taken into memory, by the browser's requests and by push services that  *)
(* say an endpoint is gone.  A crash loses everything but the file.        *)
(*                                                                         *)
(* Data abstracted: the requests of an instance are numbered in the order  *)
(* the registry makes them, a message is its kind, request and count, and  *)
(* the registry hands over each change before it makes the next one        *)
(* (SessionRegistry says what streams may rely on).                        *)
(***************************************************************************)
EXTENDS Naturals, Sequences, FiniteSets
LOCAL INSTANCE SequencesExt

CONSTANTS
  Instance,         (* sessions                                              *)
  Device,           (* push endpoints                                        *)
  Level,            (* detail levels, "session" among them                   *)
  None,
  InitialSubs,      (* what the state file holds at the first start          *)
  MaxSubscriptions, (* MAX_PUSH_SUBSCRIPTIONS                                *)
  MaxKeys,          (* bound: times an endpoint's keys are renewed           *)
  MaxAsks,          (* bound: requests of an instance                        *)
  MaxRenewals,      (* bound: upserts of an instance that change no ask      *)
  MaxStops,         (* bound: activity stops of an instance                  *)
  MaxRequests,      (* bound: subscription requests browsers make            *)
  MaxCrashes        (* bound: crashes                                        *)

Sub == [device : Device, keys : 1 .. MaxKeys, level : Level]

ASSUME PushAssumption ==
  /\ "session" \in Level
  /\ None \notin Level \cup Instance
  /\ IsFiniteSet(Instance)
  /\ IsFiniteSet(InitialSubs) /\ InitialSubs \subseteq Sub
  /\ \A s, t \in InitialSubs : s.device = t.device => s = t
  /\ Cardinality(InitialSubs) <= MaxSubscriptions
  /\ {MaxSubscriptions, MaxKeys, MaxAsks, MaxRenewals, MaxStops, MaxRequests,
      MaxCrashes} \subseteq Nat

VARIABLES
  ask,       (* the registry's pending request of each instance, 0 for none  *)
  made,      (* requests, quiet upserts and stops made so far                *)
  subs,      (* #subscriptions                                               *)
  stored,    (* the subscriptions in the state file                          *)
  mutations, (* #mutationTail: subscription changes in arrival order         *)
  writing,   (* the change at its head: not started, its result, or written  *)
  chain,     (* #deliveryChains: what each instance's chain has still to send *)
  sending,   (* the sends in flight of each chain                            *)
  keys,      (* the newest keys of each endpoint in its browser              *)
  live,      (* endpoints whose newest keys the push service accepts         *)
  requested, (* subscription requests made so far                            *)
  crashes,
  acked,     (* history: the subscription each browser was last told is kept *)
  tried,     (* history: requests each endpoint was sent an attention of     *)
  told       (* history: those it accepted and was not sent a clear of       *)

registryVars == <<ask, made>>
storeVars == <<subs, stored, mutations, writing>>
deviceVars == <<keys, live, requested>>
history == <<acked, tried, told>>
vars == <<ask, made, subs, stored, mutations, writing, chain, sending, keys, live,
          requested, crashes, acked, tried, told>>

Delivery == [type : {"attention", "clear", "stop"}, instance : Instance,
             request : 0 .. MaxAsks, count : 0 .. Cardinality(Instance),
             to : (SUBSET Sub) \cup {{None}}]
Op == [op : {"add"}, device : Device, keys : 1 .. MaxKeys, level : Level \cup {None}]
      \cup [op : {"remove"}, device : Device]
      \cup [op : {"drop"}, stale : SUBSET Sub, of : Instance]

NotWriting == [stage |-> "idle", next |-> {}]
NotSending == [stage |-> "idle", left |-> {}, stale |-> {}]

DevicesOf(ss) == {s.device : s \in ss}

TypeOK ==
  /\ ask \in [Instance -> 0 .. MaxAsks]
  /\ subs \subseteq Sub /\ stored \subseteq Sub
  /\ \A s, t \in subs : s.device = t.device => s = t
  /\ \A s, t \in stored : s.device = t.device => s = t
  /\ Cardinality(subs) <= MaxSubscriptions /\ Cardinality(stored) <= MaxSubscriptions
  /\ mutations \in Seq(Op)
  /\ writing \in [stage : {"idle", "writing", "written"}, next : SUBSET Sub]
  /\ chain \in [Instance -> Seq(Delivery)]
  /\ sending \in [Instance -> [stage : {"idle", "sending", "dropping"},
                               left : SUBSET Sub, stale : SUBSET Sub]]
  /\ keys \in [Device -> 0 .. MaxKeys] /\ live \subseteq Device
  /\ acked \in [Device -> Sub \cup {None}]

KeysIn(ss, d) == IF d \in DevicesOf(ss) THEN (CHOOSE s \in ss : s.device = d).keys ELSE 0

Init ==
  /\ ask = [i \in Instance |-> 0]
  /\ made = [i \in Instance |-> [asks |-> 0, renewals |-> 0, stops |-> 0]]
  /\ subs = InitialSubs /\ stored = InitialSubs
  /\ mutations = << >> /\ writing = NotWriting
  /\ chain = [i \in Instance |-> << >>]
  /\ sending = [i \in Instance |-> NotSending]
  /\ keys = [d \in Device |-> KeysIn(InitialSubs, d)]
  /\ live = DevicesOf(InitialSubs)
  /\ requested = 0 /\ crashes = 0
  /\ acked = [d \in Device |-> None]
  /\ tried = [d \in Device |-> {}] /\ told = [d \in Device |-> {}]

-----------------------------------------------------------------------------
(* #acceptRegistryEvent.                                                      *)

PendingAskCount(asks) == Cardinality({i \in Instance : asks[i] # 0})

All == {None}

Message(type, i, r, asks, to) ==
  [type |-> type, instance |-> i, request |-> r, count |-> PendingAskCount(asks), to |-> to]

(* Mutant of Announced: a replaced request is not cleared.                    *)
AnnouncedReplaced(i, old, new, asks) ==
  (IF old # 0 /\ new = 0 THEN <<Message("clear", i, old, asks, All)>> ELSE << >>)
    \o (IF new # 0 THEN <<Message("attention", i, new, asks, All)>> ELSE << >>)

(* An instance whose request was old has the request new: the end of the old  *)
(* one is queued before the beginning of the new one.                         *)
Announced(i, old, new, asks) ==
  (IF old # 0 /\ new # old THEN <<Message("clear", i, old, asks, All)>> ELSE << >>)
    \o (IF new # 0 THEN <<Message("attention", i, new, asks, All)>> ELSE << >>)

(* An upsert or a removal leaves instance i with request r.                    *)
RegistryEvent(i, r) ==
  /\ ask' = [ask EXCEPT ![i] = r]
  /\ chain' = [chain EXCEPT ![i] = @ \o Announced(i, ask[i], r, ask')]
  /\ UNCHANGED <<storeVars, sending, deviceVars, crashes, history>>

(* A session starts to wait, or is replaced by one that waits.                 *)
Ask(i) ==
  /\ made[i].asks < MaxAsks
  /\ made' = [made EXCEPT ![i].asks = @ + 1]
  /\ RegistryEvent(i, made[i].asks + 1)

(* The request is resolved, its session removed, or Control withdrawn.         *)
Resolve(i) == ask[i] # 0 /\ RegistryEvent(i, 0) /\ UNCHANGED made

(* An upsert of a session that still waits for the same request.               *)
Renew(i) ==
  /\ ask[i] # 0 /\ made[i].renewals < MaxRenewals
  /\ made' = [made EXCEPT ![i].renewals = @ + 1]
  /\ RegistryEvent(i, ask[i])

(* #queueActivityStop.                                                         *)
ActivityStop(i) ==
  /\ ask[i] = 0 /\ made[i].stops < MaxStops
  /\ made' = [made EXCEPT ![i].stops = @ + 1]
  /\ chain' = [chain EXCEPT ![i] = Append(@, Message("stop", i, 0, ask, All))]
  /\ UNCHANGED <<ask, storeVars, sending, deviceVars, crashes, history>>

-----------------------------------------------------------------------------
(* The chains: #queueDelivery and #deliver.                                    *)

Targets(delivery) == IF delivery.to = All THEN subs ELSE delivery.to

Finish(i) ==
  /\ chain' = [chain EXCEPT ![i] = Tail(@)]
  /\ sending' = [sending EXCEPT ![i] = NotSending]

(* The head of a chain is taken up.  A stop is sent only when nothing has      *)
(* overtaken it, and it counts the asks of that moment.                         *)
StartSend(i) ==
  /\ sending[i].stage = "idle" /\ chain[i] # << >>
  /\ LET d == Head(chain[i])
         gone == d.type = "stop" /\ ask[i] # 0
         fresh == IF d.type = "stop" THEN [d EXCEPT !.count = PendingAskCount(ask)] ELSE d
     IN \/ /\ (d.type = "stop" \/ Targets(d) = {})
           /\ Finish(i)
           /\ UNCHANGED <<tried, told>>
        \/ /\ ~gone /\ Targets(d) # {}
           /\ chain' = [chain EXCEPT ![i] = <<fresh>> \o Tail(@)]
           /\ sending' = [sending EXCEPT ![i] =
                [stage |-> "sending", left |-> Targets(d), stale |-> {}]]
           /\ LET to == DevicesOf(Targets(d))
                  r == <<i, d.request>>
              IN /\ tried' = [e \in Device |-> IF e \in to /\ d.type = "attention"
                                               THEN tried[e] \cup {r} ELSE tried[e]]
                 /\ told' = [e \in Device |-> IF e \in to /\ d.type = "clear"
                                              THEN told[e] \ {r} ELSE told[e]]
  /\ UNCHANGED <<registryVars, storeVars, deviceVars, crashes, acked>>

Sent(i, s) == sending[i].stage = "sending" /\ s \in sending[i].left

(* The push service takes the message.                                         *)
SendOk(i, s) ==
  /\ Sent(i, s)
  /\ s.device \in live /\ s.keys = keys[s.device]
  /\ sending' = [sending EXCEPT ![i].left = @ \ {s}]
  /\ told' = IF Head(chain[i]).type = "attention"
             THEN [told EXCEPT ![s.device] = @ \cup {<<i, Head(chain[i]).request>>}]
             ELSE told
  /\ UNCHANGED <<registryVars, storeVars, chain, deviceVars, crashes, acked, tried>>

(* The push service answers 404 or 410.                                        *)
SendGone(i, s) ==
  /\ Sent(i, s)
  /\ s.device \notin live \/ s.keys # keys[s.device]
  /\ sending' = [sending EXCEPT ![i].left = @ \ {s}, ![i].stale = @ \cup {s}]
  /\ UNCHANGED <<registryVars, storeVars, chain, deviceVars, crashes, history>>

(* Any other failure, or none within PUSH_TIMEOUT_MS: the message is lost.      *)
SendFails(i, s) ==
  /\ Sent(i, s)
  /\ sending' = [sending EXCEPT ![i].left = @ \ {s}]
  /\ UNCHANGED <<registryVars, storeVars, chain, deviceVars, crashes, history>>

(* Every send is answered: endpoints that are gone are dropped before the       *)
(* chain moves on.                                                              *)
SendsDone(i) ==
  /\ sending[i].stage = "sending" /\ sending[i].left = {}
  /\ IF sending[i].stale = {}
     THEN Finish(i) /\ UNCHANGED mutations
     ELSE /\ mutations' = Append(mutations, [op |-> "drop", stale |-> sending[i].stale, of |-> i])
          /\ sending' = [sending EXCEPT ![i].stage = "dropping"]
          /\ UNCHANGED chain
  /\ UNCHANGED <<registryVars, subs, stored, writing, deviceVars, crashes, history>>

-----------------------------------------------------------------------------
(* #mutateSubscriptions: one change at a time.                                 *)

(* Mutant of SameTarget: the endpoint alone.                                   *)
SameEndpoint(s, t) == s.device = t.device

(* isSameDeliveryTarget.                                                       *)
SameTarget(s, t) == s.device = t.device /\ s.keys = t.keys

(* Mutant of Full: one subscription too many.                                  *)
FullPlusOne(others) == Cardinality(others) > MaxSubscriptions

Full(others) == Cardinality(others) >= MaxSubscriptions

Others(op) == {s \in subs : s.device # op.device}

LevelIn(ss, d) ==
  IF d \in DevicesOf(ss) THEN (CHOOSE s \in ss : s.device = d).level ELSE "session"

(* The record a subscription request stores: a level it omits stays as it was. *)
Added(op) ==
  [device |-> op.device, keys |-> op.keys,
   level |-> IF op.level # None THEN op.level ELSE LevelIn(subs, op.device)]

Changed(op) ==
  CASE op.op = "add" -> Others(op) \cup {Added(op)}
    [] op.op = "remove" -> Others(op)
    [] op.op = "drop" -> {s \in subs : ~\E t \in op.stale : SameTarget(s, t)}

(* What a change takes away from what browsers were promised.                  *)
Revoked(op) ==
  [d \in Device |->
     IF acked[d] = None THEN None
     ELSE IF op.op = "drop"
     THEN IF \E t \in op.stale : t.device = d /\ t.keys = acked[d].keys THEN None ELSE acked[d]
     ELSE IF op.device = d THEN None ELSE acked[d]]

MutationStarts ==
  /\ writing.stage = "idle" /\ mutations # << >>
  /\ LET op == Head(mutations)
     IN IF op.op = "add" /\ Full(Others(op))
        THEN mutations' = Tail(mutations) /\ UNCHANGED <<writing, acked>>
        ELSE /\ writing' = [stage |-> "writing", next |-> Changed(op)]
             /\ acked' = Revoked(op)
             /\ UNCHANGED mutations
  /\ UNCHANGED <<registryVars, subs, stored, chain, sending, deviceVars, crashes, tried, told>>

(* The rename of writePrivateTextFile.                                         *)
MutationWritten ==
  /\ writing.stage = "writing"
  /\ stored' = writing.next
  /\ writing' = [writing EXCEPT !.stage = "written"]
  /\ UNCHANGED <<registryVars, subs, mutations, chain, sending, deviceVars, crashes, history>>

(* A chain that waited for its stale endpoints to be dropped moves on.          *)
Unblock(op, chains) ==
  IF op.op = "drop"
  THEN /\ chain' = [chains EXCEPT ![op.of] = Tail(@)]
       /\ sending' = [sending EXCEPT ![op.of] = NotSending]
  ELSE chain' = chains /\ UNCHANGED sending

(* Mutant of CatchUp: a new subscription waits for the next ask.               *)
CatchUpLater(i, s) == << >>

(* What a new subscription is told at once.                                     *)
CatchUp(i, s) ==
  IF ask[i] # 0 THEN <<Message("attention", i, ask[i], ask, {s})>> ELSE << >>

(* The write has succeeded: memory follows, and a subscribe goes on.            *)
MutationKept ==
  /\ writing.stage = "written"
  /\ LET op == Head(mutations)
     IN /\ IF op.op = "add"
           THEN /\ acked' = [acked EXCEPT ![op.device] = Added(op)]
                /\ Unblock(op, [i \in Instance |-> chain[i] \o CatchUp(i, Added(op))])
           ELSE Unblock(op, chain) /\ UNCHANGED acked
  /\ subs' = writing.next
  /\ mutations' = Tail(mutations) /\ writing' = NotWriting
  /\ UNCHANGED <<registryVars, stored, deviceVars, crashes, tried, told>>

(* The write has failed, before or after its rename: memory stays.              *)
MutationFails ==
  /\ writing.stage \in {"writing", "written"}
  /\ Unblock(Head(mutations), chain)
  /\ mutations' = Tail(mutations) /\ writing' = NotWriting
  /\ UNCHANGED <<registryVars, subs, stored, deviceVars, crashes, history>>

-----------------------------------------------------------------------------
(* Browsers and push services.                                                 *)

(* A browser registers its subscription, with the keys it has or fresh ones.    *)
Subscribe(d, k, level) ==
  /\ requested < MaxRequests /\ requested' = requested + 1
  /\ (k = keys[d] /\ d \in live) \/ (k = keys[d] + 1 /\ k <= MaxKeys)
  /\ keys' = [keys EXCEPT ![d] = k] /\ live' = live \cup {d}
  /\ mutations' = Append(mutations, [op |-> "add", device |-> d, keys |-> k, level |-> level])
  /\ told' = IF k = keys[d] THEN told ELSE [told EXCEPT ![d] = {}]
  /\ UNCHANGED <<registryVars, subs, stored, writing, chain, sending, crashes, acked, tried>>

Unsubscribe(d) ==
  /\ requested < MaxRequests /\ requested' = requested + 1
  /\ d \in live
  /\ live' = live \ {d}
  /\ mutations' = Append(mutations, [op |-> "remove", device |-> d])
  /\ told' = [told EXCEPT ![d] = {}]
  /\ UNCHANGED <<registryVars, subs, stored, writing, chain, sending, keys, crashes, acked, tried>>

(* The push service drops an endpoint, or the browser cannot reach the gateway. *)
Lapse(d) ==
  /\ d \in live
  /\ live' = live \ {d}
  /\ told' = [told EXCEPT ![d] = {}]
  /\ UNCHANGED <<registryVars, storeVars, chain, sending, keys, requested, crashes, acked, tried>>

(* The gateway stops and starts again: the registry starts empty, and what is   *)
(* still asking is asked again as a new request.                                *)
Crash ==
  /\ crashes < MaxCrashes
  /\ crashes' = crashes + 1
  /\ ask' = [i \in Instance |-> 0]
  /\ subs' = stored
  /\ mutations' = << >> /\ writing' = NotWriting
  /\ chain' = [i \in Instance |-> << >>]
  /\ sending' = [i \in Instance |-> NotSending]
  /\ told' = [d \in Device |-> {}]
  /\ UNCHANGED <<made, stored, deviceVars, acked, tried>>

-----------------------------------------------------------------------------
Deliver(i) ==
  \/ StartSend(i) \/ SendsDone(i)
  \/ \E s \in Sub : SendOk(i, s) \/ SendGone(i, s) \/ SendFails(i, s)

Mutate == MutationStarts \/ MutationWritten \/ MutationKept \/ MutationFails

Registry == \E i \in Instance : Ask(i) \/ Resolve(i) \/ Renew(i) \/ ActivityStop(i)

Browser ==
  \E d \in Device :
    \/ \E k \in 1 .. MaxKeys, level \in Level \cup {None} : Subscribe(d, k, level)
    \/ Unsubscribe(d) \/ Lapse(d)

Next == Registry \/ (\E i \in Instance : Deliver(i)) \/ Mutate \/ Browser \/ Crash

Spec == Init /\ [][Next]_vars

-----------------------------------------------------------------------------
(* Properties.                                                                *)

(* A subscription a browser was told is kept is in memory and in the file, and  *)
(* stays there over crashes, failed writes, other requests and the gone answers *)
(* of keys it has replaced, until the browser ends it or its own keys are gone  *)
(* (push.ts 194-210, 286-319, 497-516).                                         *)
AckedKept == \A d \in Device : acked[d] # None => acked[d] \in subs \cap stored

Queued(type, i, r, d) ==
  \E k \in DOMAIN chain[i] :
    /\ chain[i][k].type = type /\ chain[i][k].request = r
    /\ \/ chain[i][k].to = All
       \/ d \in DevicesOf(chain[i][k].to)

(* No ask falls between the registry's events and the catch-up of a new         *)
(* subscription: a subscribed device has been sent the pending request of every *)
(* instance, or is about to be (push.ts 300-305, 367-377, 471-478).             *)
NoAskMissed ==
  \A s \in subs, i \in Instance :
    ask[i] # 0 => <<i, ask[i]>> \in tried[s.device] \/ Queued("attention", i, ask[i], s.device)

(* A subscribed device that has been alerted to a request that is over has been *)
(* sent its clear, or is about to be: no race of replacement, catch-up and      *)
(* mutation leaves an alert behind (push.ts 357-382, 445-456).                  *)
EndIsTold ==
  \A s \in subs, i \in Instance :
    \A r \in 1 .. MaxAsks :
      <<i, r>> \in told[s.device] /\ ask[i] # r => Queued("clear", i, r, s.device)
=============================================================================
