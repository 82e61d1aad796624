------------------------- MODULE SessionRegistryProofs -------------------------
(***************************************************************************)
(* What is proved of SessionRegistry for every number of sessions and      *)
(* streams, every TTL and capacity, with and without re-entrant listeners. *)
(***************************************************************************)
EXTENDS SessionRegistry, FiniteSetTheorems, SequenceTheorems, TLAPS

LEMMA ExpiredFinite == Cardinality(Expired) \in Nat
<1>1. IsFiniteSet(Expired)
  BY ConstantsAssumption, FS_Subset, Expired \subseteq Instance DEF Expired, Published
<1> QED
  BY <1>1, FS_CardinalityType

LEMMA ViewType == ASSUME NEW r \in Record PROVE View(r) \in Card
BY DEF Record, Card, View

(* The events built by the emissions are events.                            *)
LEMMA EventTypes ==
  ASSUME NEW i \in Instance, NEW r \in Record, NEW n \in Nat, NEW g \in Nat
  PROVE  /\ UpsertEvent(i, r, n) \in Event
         /\ StopEvent(i, r, n) \in Event
         /\ RemoveEvent(i, g, n) \in Event
BY ViewType DEF Event, UpsertEvent, StopEvent, RemoveEvent, Record

LEMMA EmitType ==
  ASSUME TypeOK, NEW events \in Seq(Event), Emit(events)
  PROVE  pending' \in Seq(Event) /\ owed' \subseteq Stream
BY ConcatProperties DEF TypeOK, Emit, Registered

LEMMA RemoveType ==
  ASSUME TypeOK, NEW i \in Instance, NEW g \in Nat, RemoveRecord(i, g)
  PROVE  /\ metadata' \in [Instance -> Record \cup {None}]
         /\ revision' \in Nat /\ requests' \in Nat
         /\ pending' \in Seq(Event) /\ owed' \subseteq Stream
         /\ steady' \subseteq (Instance \X Nat)
         /\ orphans' \subseteq (Instance \X Nat)
<1>1. revision + 1 \in Nat
  BY DEF TypeOK
<1>2. RemoveEvent(i, g, revision + 1) \in Event
  BY <1>1 DEF Event, RemoveEvent
<1>3. <<RemoveEvent(i, g, revision + 1)>> \in Seq(Event)
  BY <1>2
<1>4. pending' \in Seq(Event) /\ owed' \subseteq Stream
  BY <1>3, EmitType DEF RemoveRecord
<1> QED
  BY <1>1, <1>4 DEF TypeOK, RemoveRecord, Disturb

LEMMA ForgetType ==
  ASSUME TypeOK, NEW i \in Instance, NEW r \in Record, ForgetActivity(i, r)
  PROVE  /\ metadata' \in [Instance -> Record \cup {None}]
         /\ revision' \in Nat /\ requests' \in Nat
         /\ pending' \in Seq(Event) /\ owed' \subseteq Stream
         /\ steady' \subseteq (Instance \X Nat)
         /\ orphans' \subseteq (Instance \X Nat)
<1>1. revision + 1 \in Nat
  BY DEF TypeOK
<1> DEFINE q == [r EXCEPT !.busy = "unknown"]
<1>2. q \in Record
  BY DEF Record
<1>3. <<UpsertEvent(i, q, revision + 1)>> \in Seq(Event)
  BY <1>1, <1>2, EventTypes
<1>4. CASE r.busy = "unknown"
  BY <1>4 DEF ForgetActivity, TypeOK, Disturb
<1>5. CASE r.busy # "unknown"
  <2>1. pending' \in Seq(Event) /\ owed' \subseteq Stream
    BY <1>3, <1>5, EmitType DEF ForgetActivity
  <2>2. metadata' \in [Instance -> Record \cup {None}]
    <3>1. CASE metadata[i] = None
      BY <1>5, <3>1 DEF ForgetActivity, TypeOK
    <3>2. CASE metadata[i] # None
      <4> DEFINE kept == [metadata[i] EXCEPT !.busy = "unknown", !.stop = 0]
      <4>1. metadata[i] \in Record
        BY <3>2 DEF TypeOK
      <4>2. kept \in Record
        BY <4>1 DEF Record
      <4>3. metadata' = [metadata EXCEPT ![i] = kept]
        BY <1>5, <3>2 DEF ForgetActivity
      <4> QED
        BY <4>2, <4>3 DEF TypeOK
    <3> QED
      BY <3>1, <3>2
  <2> QED
    <3>1. r.generation \in Nat
      BY DEF Record
    <3> QED
      BY <1>1, <1>5, <2>1, <2>2, <3>1 DEF ForgetActivity, TypeOK, Disturb
<1> QED
  BY <1>4, <1>5

(* What an observation stores is a record.                                  *)
LEMMA StoreNew ==
  ASSUME TypeOK, NEW i \in Instance, NEW in \in Input
  PROVE  Refreshed(metadata[i], in, revision + 1) \in Record
<1> DEFINE old == metadata[i]
           new == Refreshed(old, in, revision + 1)
<1>1. revision + 1 \in Nat /\ requests + 1 \in Nat
  BY DEF TypeOK
<1>2. old = None \/ old \in Record
  BY DEF TypeOK
<1>3. RequestFor(old, in) \in Nat
  BY <1>1, <1>2 DEF RequestFor, Continues, Record
<1>4. StopRevision(old, in, revision + 1) \in Nat
  BY <1>1, <1>2 DEF StopRevision, Continues, Record
<1>5. 0 \in 0 .. Ttl
  BY ConstantsAssumption
<1>6. in \in [generation : Generation, identity : Identity, label : Label,
             busy : Activity, asking : BOOLEAN]
  BY DEF Input
<1>7. /\ in.generation \in Nat /\ in.identity \in Identity /\ in.label \in Label
      /\ in.busy \in {"busy", "idle", "unknown"}
  BY <1>6, ConstantsAssumption
<1> QED
  BY <1>3, <1>4, <1>5, <1>7 DEF Refreshed, Record

LEMMA StoreType ==
  ASSUME TypeOK, NEW i \in Instance, NEW in \in Input, Store(i, in)
  PROVE  /\ metadata' \in [Instance -> Record \cup {None}]
         /\ revision' \in Nat /\ requests' \in Nat
         /\ pending' \in Seq(Event) /\ owed' \subseteq Stream
         /\ steady' \subseteq (Instance \X Nat)
         /\ orphans' \subseteq (Instance \X Nat)
<1> DEFINE old == metadata[i]
           new == Refreshed(old, in, revision + 1)
<1>1. revision + 1 \in Nat /\ requests + 1 \in Nat
  BY DEF TypeOK
<1>2. old = None \/ old \in Record
  BY DEF TypeOK
<1>5. new \in Record
  BY StoreNew
<1>6. [new EXCEPT !.stop = old.stop] \in Record \/ old = None
  BY <1>2, <1>5 DEF Record
<1>7. new.ask \in Nat
  BY <1>5 DEF Record
<1>8. requests' \in Nat
  BY <1>7 DEF Store, TypeOK
<1>9. steady' \subseteq (Instance \X Nat)
  BY <1>1 DEF Store, TypeOK
<1>12. orphans' \subseteq (Instance \X Nat)
  BY DEF Store, TypeOK
<1>10. CASE Continues(old, in) /\ View(old) = View(new)
  <2>1. /\ metadata' = [metadata EXCEPT ![i] = [new EXCEPT !.stop = old.stop]]
        /\ UNCHANGED <<revision, pending, owed>>
    BY <1>10 DEF Store
  <2>2. [new EXCEPT !.stop = old.stop] \in Record
    BY <1>6, <1>10 DEF Continues
  <2>3. metadata \in [Instance -> Record \cup {None}]
    BY DEF TypeOK
  <2> HIDE DEF old, new
  <2>4. metadata' \in [Instance -> Record \cup {None}]
    BY <2>1, <2>2, <2>3
  <2>5. revision' \in Nat /\ pending' \in Seq(Event) /\ owed' \subseteq Stream
    BY <2>1 DEF TypeOK
  <2> QED
    BY <1>8, <1>9, <1>12, <2>4, <2>5
<1>11. CASE ~(Continues(old, in) /\ View(old) = View(new))
  <2> DEFINE events == IF Stopped(old, in)
                       THEN <<UpsertEvent(i, new, revision + 1),
                              StopEvent(i, new, revision + 1)>>
                       ELSE <<UpsertEvent(i, new, revision + 1)>>
  <2>1. /\ UpsertEvent(i, new, revision + 1) \in Event
        /\ StopEvent(i, new, revision + 1) \in Event
    BY <1>1, <1>5, EventTypes
  <2>2. events \in Seq(Event)
    BY <2>1
  <2>3. Emit(events) /\ revision' = revision + 1
        /\ metadata' = [metadata EXCEPT ![i] = new]
    BY <1>11 DEF Store
  <2>4. pending' \in Seq(Event) /\ owed' \subseteq Stream
    BY <2>2, <2>3, EmitType
  <2> QED
    BY <1>1, <1>5, <1>8, <1>9, <1>12, <2>3, <2>4 DEF TypeOK
<1> QED
  BY <1>10, <1>11

LEMMA ObserveType ==
  ASSUME TypeOK, NEW i \in Instance, NEW in \in Input, ObserveInput(i, in)
  PROVE  /\ metadata' \in [Instance -> Record \cup {None}]
         /\ revision' \in Nat /\ requests' \in Nat
         /\ pending' \in Seq(Event) /\ owed' \subseteq Stream
         /\ steady' \subseteq (Instance \X Nat)
         /\ orphans' \subseteq (Instance \X Nat)
<1>1. CASE metadata[i] # None /\ ForgetActivity(i, metadata[i])
  <2>1. metadata[i] \in Record
    BY <1>1 DEF TypeOK
  <2> QED
    BY <1>1, <2>1, ForgetType
<1>2. CASE UNCHANGED <<registryVars, queueVars, steady>>
  BY <1>2 DEF registryVars, queueVars, TypeOK
<1>3. CASE Store(i, in)
  BY <1>3, StoreType
<1> QED
  BY <1>1, <1>2, <1>3 DEF ObserveInput

LEMMA HandType ==
  ASSUME seen \in [Stream -> Nat], handed \in [Stream -> Nat], NEW C,
         mirror \in [Stream -> C], NEW s \in Stream, NEW e, e.revision \in Nat,
         Apply(mirror[s], e) \in C, Hand(s, e)
  PROVE  /\ seen' \in [Stream -> Nat] /\ handed' \in [Stream -> Nat]
         /\ mirror' \in [Stream -> C]
<1>1. handed[s] + 1 \in Nat
  OBVIOUS
<1>2. handed' = [handed EXCEPT ![s] = handed[s] + 1]
  BY DEF Hand
<1>3. handed' \in [Stream -> Nat]
  BY <1>1, <1>2
<1> QED
  BY <1>3 DEF Hand

LEMMA RemainsTyped ==
  ASSUME TypeOK, UNCHANGED <<registryVars, queueVars, streamVars, stopVars>>,
         call' = NoCall \/ UNCHANGED call
  PROVE  TypeOK'
BY DEF TypeOK, registryVars, queueVars, streamVars, stopVars, NoCall, Calls

THEOREM TypeInvariant == Spec => []TypeOK
<1>1. Init => TypeOK
  BY EmptySeq DEF Init, TypeOK, NoCall, Calls
<1>2. ASSUME TypeOK, [Next]_vars PROVE TypeOK'
  <2>1. ASSUME NEW live \in SUBSET Instance, NEW retained \in SUBSET Instance,
               Reconcile(live, retained)
        PROVE  TypeOK'
    BY <1>2, <2>1 DEF TypeOK, Reconcile, NoCall, Calls,
       registryVars, queueVars, streamVars, stopVars
  <2>2. ASSUME NEW i \in Instance, NEW in \in Input, Observe(i, in) PROVE TypeOK'
    <3>1. call' \in [op : Calls, left : SUBSET Instance, retained : SUBSET Instance,
                     live : SUBSET Instance, work : [Instance -> Record \cup {None}],
                     target : Stream \cup {None}]
      BY <1>2, <2>2 DEF TypeOK, Observe
    <3>2. ObserveInput(i, in) /\ UNCHANGED <<streamVars, alerts>>
      BY <2>2 DEF Observe
    <3> QED
      BY <1>2, <3>1, <3>2, ObserveType DEF TypeOK, streamVars
  <2>3. ASSUME ObserveDone PROVE TypeOK'
    BY <1>2, <2>3 DEF TypeOK, ObserveDone, Calls,
       registryVars, queueVars, streamVars, stopVars
  <2>4. ASSUME NEW i \in Instance, Retire(i) PROVE TypeOK'
    <3>1. call.work[i] \in Record /\ call.work[i].generation \in Nat
      BY <1>2, <2>4 DEF TypeOK, Retire, Record
    <3>2. call' \in [op : Calls, left : SUBSET Instance, retained : SUBSET Instance,
                     live : SUBSET Instance, work : [Instance -> Record \cup {None}],
                     target : Stream \cup {None}]
      BY <1>2, <2>4 DEF TypeOK, Retire
    <3>3. /\ \/ ForgetActivity(i, call.work[i])
             \/ RemoveRecord(i, call.work[i].generation)
          /\ UNCHANGED <<streamVars, alerts>>
      BY <2>4 DEF Retire
    <3> QED
      BY <1>2, <3>1, <3>2, <3>3, ForgetType, RemoveType DEF TypeOK, streamVars
  <2>5. ASSUME RetireDone PROVE TypeOK'
    BY <1>2, <2>5, RemainsTyped DEF RetireDone
  <2>6. ASSUME NEW doomed \in SUBSET Instance, NEW s \in Stream \cup {None},
               StartSweep(doomed, s),
               UNCHANGED <<registryVars, queueVars, from, seen, handed, mirror, buffer, stopVars>>,
               phase' \in [Stream -> {"closed", "admitting", "replaying", "live"}]
        PROVE  TypeOK'
    BY <1>2, <2>6 DEF TypeOK, StartSweep, NoCall, Calls,
       registryVars, queueVars, streamVars, stopVars
  <2>7. ASSUME Sweep \/ Clear PROVE TypeOK'
    <3>1. PICK doomed \in SUBSET Instance : StartSweep(doomed, None)
      BY <2>7 DEF Sweep, Clear, Expired, Published
    <3>2. UNCHANGED <<registryVars, queueVars, streamVars, stopVars>>
      BY <2>7 DEF Sweep, Clear
    <3> QED
      BY <1>2, <2>6, <3>1, <3>2 DEF streamVars, TypeOK
  <2>8. ASSUME NEW s \in Stream, Admit(s) PROVE TypeOK'
    BY <1>2, <2>6, <2>8 DEF Admit, Expired, Published, TypeOK
  <2>9. ASSUME NEW i \in Instance, SweepRemove(i) PROVE TypeOK'
    <3>1. call.work[i].generation \in Nat
      BY <1>2, <2>9 DEF TypeOK, SweepRemove, Record
    <3>2. call' \in [op : Calls, left : SUBSET Instance, retained : SUBSET Instance,
                     live : SUBSET Instance, work : [Instance -> Record \cup {None}],
                     target : Stream \cup {None}]
      BY <1>2, <2>9 DEF TypeOK, SweepRemove
    <3>3. RemoveRecord(i, call.work[i].generation) /\ UNCHANGED <<streamVars, alerts>>
      BY <2>9 DEF SweepRemove
    <3> QED
      BY <1>2, <3>1, <3>2, <3>3, RemoveType DEF TypeOK, streamVars
  <2>10. ASSUME SweepDone PROVE TypeOK'
    BY <1>2, <2>10, RemainsTyped DEF SweepDone
  <2>11. Directory \in [Instance -> Card \cup {None}]
    BY <1>2, ViewType DEF Directory, TypeOK
  <2>12. ASSUME NEW s \in Stream, TakeSnapshot(s) PROVE TypeOK'
    BY <1>2, <2>11, <2>12 DEF TypeOK, TakeSnapshot, Calls,
       registryVars, queueVars, stopVars
  <2>13. ASSUME NEW i \in Instance, MutateDuringReplay(i) PROVE TypeOK'
    <3>1. UNCHANGED <<call, streamVars, alerts>>
      BY <2>13 DEF MutateDuringReplay
    <3>2. CASE i \in Expired /\ RemoveRecord(i, metadata[i].generation)
      <4>1. metadata[i].generation \in Nat
        BY <1>2, <3>2 DEF TypeOK, Expired, Published, Record
      <4> QED
        BY <1>2, <3>1, <3>2, <4>1, RemoveType DEF TypeOK, streamVars
    <3>3. CASE \E in \in Input : ObserveInput(i, in)
      BY <1>2, <3>1, <3>3, ObserveType DEF TypeOK, streamVars
    <3> QED
      BY <2>13, <3>2, <3>3 DEF MutateDuringReplay
  <2>14. ASSUME NEW dir \in [Instance -> Card \cup {None}], NEW e \in Event
         PROVE  Apply(dir, e) \in [Instance -> Card \cup {None}]
    BY DEF Apply, Event
  <2>15. ASSUME NEW s \in Stream, Replay(s) PROVE TypeOK'
    <3> DEFINE e == Head(buffer[s])
    <3>1. e \in Event /\ Tail(buffer[s]) \in Seq(Event)
      BY <1>2, <2>15, HeadTailProperties DEF TypeOK, Replay
    <3>2. buffer' \in [Stream -> Seq(Event)]
      BY <1>2, <2>15, <3>1 DEF TypeOK, Replay
    <3>3. e.revision \in Nat /\ Apply(mirror[s], e) \in [Instance -> Card \cup {None}]
      BY <1>2, <2>14, <3>1 DEF TypeOK, Event
    <3>6. Hand(s, e) \/ UNCHANGED <<seen, handed, mirror>>
      BY <2>15 DEF Replay
    <3>4. /\ seen' \in [Stream -> Nat]
          /\ mirror' \in [Stream -> [Instance -> Card \cup {None}]]
          /\ handed' \in [Stream -> Nat]
      <4> HIDE DEF e
      <4>1. /\ seen \in [Stream -> Nat] /\ handed \in [Stream -> Nat]
            /\ mirror \in [Stream -> [Instance -> Card \cup {None}]]
        BY <1>2 DEF TypeOK
      <4> QED
        BY <3>3, <3>6, <4>1, HandType
    <3> QED
      BY <1>2, <2>15, <3>2, <3>4 DEF TypeOK, Replay, registryVars, queueVars, stopVars
  <2>16. ASSUME NEW s \in Stream, GoLive(s) PROVE TypeOK'
    BY <1>2, <2>16 DEF TypeOK, GoLive, NoCall, Calls, registryVars, queueVars, stopVars
  <2>17. ASSUME NEW s \in Stream, Close(s) \/ AdmissionThrows(s) PROVE TypeOK'
    <3>1. /\ Unsubscribe(s) /\ UNCHANGED <<registryVars, pending, stopVars>>
          /\ call' = call \/ call' = NoCall
      BY <2>17 DEF Close, AdmissionThrows
    <3>2. << >> \in Seq(Event)
      OBVIOUS
    <3>3. buffer' \in [Stream -> Seq(Event)]
      BY <1>2, <3>1, <3>2 DEF TypeOK, Unsubscribe
    <3>4. /\ mirror' \in [Stream -> [Instance -> Card \cup {None}]]
          /\ phase' \in [Stream -> {"closed", "admitting", "replaying", "live"}]
          /\ from' \in [Stream -> Nat] /\ seen' \in [Stream -> Nat]
          /\ handed' \in [Stream -> Nat] /\ owed' \subseteq Stream
      BY <1>2, <3>1 DEF TypeOK, Unsubscribe
    <3>5. call' \in [op : Calls, left : SUBSET Instance, retained : SUBSET Instance,
                     live : SUBSET Instance, work : [Instance -> Record \cup {None}],
                     target : Stream \cup {None}]
      BY <1>2, <3>1 DEF TypeOK, NoCall, Calls
    <3> QED
      BY <1>2, <3>1, <3>3, <3>4, <3>5 DEF TypeOK, registryVars, stopVars
  <2>18. ASSUME NEW s \in Stream, Deliver(s) PROVE TypeOK'
    <3> DEFINE e == Head(pending)
    <3>1. e \in Event
      BY <1>2, <2>18, HeadTailProperties DEF TypeOK, Deliver
    <3>2. /\ e.revision \in Nat
          /\ Apply(mirror[s], e) \in [Instance -> Card \cup {None}]
          /\ Append(buffer[s], e) \in Seq(Event)
      BY <1>2, <2>14, <3>1, AppendProperties DEF TypeOK, Event
    <3>3. \/ UNCHANGED <<seen, mirror, buffer>>
          \/ /\ seen' = [seen EXCEPT ![s] = e.revision]
             /\ mirror' = [mirror EXCEPT ![s] = Apply(mirror[s], e)]
             /\ UNCHANGED buffer
          \/ /\ buffer' = [buffer EXCEPT ![s] = Append(buffer[s], e)]
             /\ UNCHANGED <<seen, mirror>>
      BY <2>18 DEF Deliver, Hand
    <3>6. Hand(s, e) \/ UNCHANGED handed
      BY <2>18 DEF Deliver
    <3>5. handed' \in [Stream -> Nat]
      <4> HIDE DEF e
      <4>1. /\ seen \in [Stream -> Nat] /\ handed \in [Stream -> Nat]
            /\ mirror \in [Stream -> [Instance -> Card \cup {None}]]
        BY <1>2 DEF TypeOK
      <4> QED
        BY <3>2, <3>6, <4>1, HandType
    <3> HIDE DEF e
    <3>4. /\ seen' \in [Stream -> Nat]
          /\ mirror' \in [Stream -> [Instance -> Card \cup {None}]]
          /\ buffer' \in [Stream -> Seq(Event)]
      <4>1. seen \in [Stream -> Nat] /\ buffer \in [Stream -> Seq(Event)]
        BY <1>2 DEF TypeOK
      <4>2. mirror \in [Stream -> [Instance -> Card \cup {None}]]
        BY <1>2 DEF TypeOK
      <4> DEFINE C == [Instance -> Card \cup {None}]
                 a == Apply(mirror[s], e)
                 b == Append(buffer[s], e)
      <4>3. a \in C /\ b \in Seq(Event)
        BY <3>2
      <4> HIDE DEF a, b, C
      <4>4. mirror \in [Stream -> C]
        BY <4>2 DEF C
      <4>5. mirror' \in [Stream -> C]
        BY <3>3, <4>3, <4>4 DEF a
      <4>6. seen' \in [Stream -> Nat]
        BY <3>2, <3>3, <4>1
      <4>7. buffer' \in [Stream -> Seq(Event)]
        BY <3>3, <4>1, <4>3 DEF b
      <4> QED
        BY <4>5, <4>6, <4>7 DEF C
    <3> QED
      BY <1>2, <2>18, <3>4, <3>5 DEF TypeOK, Deliver, registryVars, stopVars
  <2>19. ASSUME NextEvent PROVE TypeOK'
    <3>1. Head(pending) \in Event /\ Tail(pending) \in Seq(Event)
      BY <1>2, <2>19, HeadTailProperties DEF TypeOK, NextEvent
    <3> QED
      BY <1>2, <2>19, <3>1 DEF TypeOK, NextEvent, registryVars, streamVars, Registered
  <2>20. ASSUME SweepDuringDispatch PROVE TypeOK'
    <3>1. PICK order \in [1 .. Cardinality(Expired) -> Expired] :
            pending' = pending \o
              [k \in DOMAIN order |->
                 RemoveEvent(order[k], metadata[order[k]].generation, revision + k)]
      BY <2>20 DEF SweepDuringDispatch
    <3> DEFINE n == Cardinality(Expired)
               removal(k) == RemoveEvent(order[k], metadata[order[k]].generation, revision + k)
    <3>2. n \in Nat
      BY ExpiredFinite
    <3>3. ASSUME NEW k \in 1 .. n PROVE removal(k) \in Event
      <4>0. order[k] \in Expired
        BY <3>3
      <4>1. order[k] \in Instance /\ metadata[order[k]] \in Record
        BY <1>2, <4>0 DEF TypeOK, Expired, Published
      <4>2. metadata[order[k]].generation \in Nat /\ revision + k \in Nat
        BY <1>2, <3>2, <3>3, <4>1 DEF TypeOK, Record
      <4> QED
        BY <4>1, <4>2 DEF Event, RemoveEvent
    <3>4. [k \in 1 .. n |-> removal(k)] \in Seq(Event)
      BY <3>2, <3>3, IsASeq
    <3>5. pending' \in Seq(Event)
      BY <1>2, <3>1, <3>4, ConcatProperties DEF TypeOK
    <3>6. revision' \in Nat
      BY <1>2, <2>20, <3>2 DEF TypeOK, SweepDuringDispatch
    <3> QED
      BY <1>2, <2>20, <3>5, <3>6 DEF TypeOK, SweepDuringDispatch, streamVars
  <2>21. ASSUME NEW s \in Stream, AdmitDuringDispatch(s) PROVE TypeOK'
    BY <1>2, <2>11, <2>21 DEF TypeOK, AdmitDuringDispatch, registryVars, stopVars
  <2>22. ASSUME Tick PROVE TypeOK'
    <3>1. ASSUME NEW r \in Record, r.age < Ttl
          PROVE  [r EXCEPT !.age = @ + 1] \in Record
      <4>1. r.age + 1 \in 0 .. Ttl
        BY <3>1, ConstantsAssumption DEF Record
      <4> QED
        BY <4>1 DEF Record
    <3>2. metadata' \in [Instance -> Record \cup {None}]
      BY <1>2, <2>22, <3>1 DEF TypeOK, Tick
    <3> QED
      BY <1>2, <2>22, <3>2 DEF TypeOK, Tick, queueVars, streamVars, stopVars
  <2>23. ASSUME NEW e \in alerts, SettleAlert(e) PROVE TypeOK'
    BY <1>2, <2>23 DEF TypeOK, SettleAlert, registryVars, queueVars, streamVars
  <2>24. CASE UNCHANGED vars
    BY <1>2, <2>24 DEF TypeOK, vars
  <2> QED
    BY <1>2, <2>1, <2>2, <2>3, <2>4, <2>5, <2>7, <2>8, <2>9, <2>10, <2>12, <2>13,
       <2>15, <2>16, <2>17, <2>18, <2>19, <2>20, <2>21, <2>22, <2>23, <2>24
       DEF Next, Poll, RunCall, Dispatch, Reenter
<1> QED
  BY <1>1, <1>2, PTL DEF Spec

-----------------------------------------------------------------------------
(* The inductive invariant behind CardsAgree.                               *)

(* Nothing queued, buffered or filtered by is ahead of the registry, and a    *)
(* stop never reaches an admission buffer.                                    *)
Bounds ==
  /\ \A k \in 1 .. Len(pending) : pending[k].revision <= revision
  /\ \A s \in Stream : from[s] <= revision
  /\ \A s \in Stream : \A k \in 1 .. Len(buffer[s]) :
       buffer[s][k].revision <= revision /\ buffer[s][k].type # "stop"

(* Only a stream under admission holds buffered events, only a registered   *)
(* one is owed the head, and the admitting call knows its stream's phase.   *)
Gates ==
  /\ \A s \in Stream : phase[s] \in {"closed", "live"} => buffer[s] = << >>
  /\ \A s \in owed : phase[s] # "closed"
  /\ call.op = "replaying" => /\ call.target \in Stream
                             /\ phase[call.target] = "replaying"
  /\ call.op = "sweeping" /\ call.target # None =>
       phase[call.target] = "admitting"

(* A record waiting to be retired still looks as it did when captured.      *)
Captured ==
  call.op = "retiring" =>
    \A i \in Instance : call.work[i] # None /\ metadata[i] # None =>
      View(call.work[i]) = View(metadata[i])

IInv == TypeOK /\ Bounds /\ Gates /\ Captured /\ CardsAgree

(* One mutation of instance i announced by an idle dispatcher.              *)
LEMMA AnnounceAgrees ==
  ASSUME IInv, TypeOK', NEW i \in Instance, NEW events \in Seq(Event),
         pending = << >>, Emit(events), UNCHANGED streamVars,
         revision' = revision + 1,
         \A j \in Instance : j # i => metadata'[j] = metadata[j],
         Len(events) >= 1, events[1].type # "stop",
         \A k \in 1 .. Len(events) : /\ events[k].instance = i
                                     /\ events[k].revision = revision + 1
                                     /\ k > 1 => events[k].type = "stop",
         metadata'[i] # None => events[1].card = View(metadata'[i])
  PROVE  Bounds' /\ CardsAgree' /\ (\A s \in owed' : phase'[s] # "closed")
<1>1. pending' = events /\ owed' = Registered
  BY ConcatEmptySeq DEF Emit
<1>2. UNCHANGED <<phase, from, seen, mirror, buffer>>
  BY DEF streamVars
<1>3. revision \in Nat /\ from \in [Stream -> Nat]
  BY DEF IInv, TypeOK
<1>4. Bounds'
  <2>1. \A k \in 1 .. Len(pending') : pending'[k].revision <= revision'
    BY <1>1, <1>3
  <2>2. \A s \in Stream : from'[s] <= revision'
    BY <1>2, <1>3 DEF IInv, Bounds
  <2>3. ASSUME NEW s \in Stream, NEW k \in 1 .. Len(buffer'[s])
        PROVE  buffer'[s][k].revision <= revision' /\ buffer'[s][k].type # "stop"
    <3>1. buffer[s] \in Seq(Event)
      BY DEF IInv, TypeOK
    <3>2. buffer[s][k].revision \in Nat
      BY <1>2, <2>3, <3>1, ElementOfSeq DEF Event
    <3> QED
      BY <1>2, <1>3, <2>3, <3>2 DEF IInv, Bounds
  <2> QED
    BY <2>1, <2>2, <2>3 DEF Bounds
<1>5. CardsAgree'
  <2> SUFFICES ASSUME NEW s \in Stream, phase'[s] \in {"replaying", "live"},
                      NEW j \in Instance, metadata'[j] # None
               PROVE  WillShow(s, j, View(metadata[j]))'
    BY DEF CardsAgree, Published
  <2>1. s \in owed' /\ from'[s] = from[s] /\ from[s] < revision + 1
    BY <1>1, <1>2, <1>3 DEF Registered, IInv, Bounds
  <2>2. CASE j = i
    <3>1. Due(s, j)' = {1}
      BY <1>1, <2>1, <2>2 DEF Due
    <3> QED
      BY <1>1, <2>2, <3>1 DEF WillShow, IsLast
  <2>3. CASE j # i
    <3>1. Due(s, j)' = {}
      BY <1>1, <2>3 DEF Due
    <3>2. Due(s, j) = {}
      BY EmptySeq DEF Due
    <3>3. Kept(s, j)' = Kept(s, j)
      BY <1>2 DEF Kept
    <3>4. WillShow(s, j, View(metadata[j]))
      BY <1>2, <2>3 DEF IInv, CardsAgree, Published
    <3> QED
      BY <1>2, <2>3, <3>1, <3>2, <3>3, <3>4 DEF WillShow, IsLast
  <2> QED
    BY <2>2, <2>3
<1> QED
  BY <1>1, <1>2, <1>4, <1>5 DEF Registered

LEMMA AnnounceOne ==
  ASSUME IInv, TypeOK', NEW i \in Instance, NEW e \in Event,
         pending = << >>, Emit(<<e>>), UNCHANGED streamVars,
         revision' = revision + 1,
         \A j \in Instance : j # i => metadata'[j] = metadata[j],
         e.instance = i, e.revision = revision + 1, e.type # "stop",
         metadata'[i] # None => e.card = View(metadata'[i])
  PROVE  Bounds' /\ CardsAgree' /\ (\A s \in owed' : phase'[s] # "closed")
<1> DEFINE events == <<e>>
<1>1. /\ events \in Seq(Event) /\ Len(events) >= 1 /\ events[1] = e
      /\ \A k \in 1 .. Len(events) : k = 1
  OBVIOUS
<1>2. Emit(events)
  OBVIOUS
<1> HIDE DEF events
<1>3. /\ events[1].type # "stop"
      /\ metadata'[i] # None => events[1].card = View(metadata'[i])
  BY <1>1
<1>4. \A k \in 1 .. Len(events) : /\ events[k].instance = i
                                  /\ events[k].revision = revision + 1
                                  /\ k > 1 => events[k].type = "stop"
  BY <1>1
<1> QED
  BY <1>1, <1>2, <1>3, <1>4, AnnounceAgrees

(* The part of the invariant a mutation step has to establish.              *)
MutationKeeps == Bounds' /\ CardsAgree' /\ \A s \in owed' : phase'[s] # "closed"

(* Nothing a stream can see has moved.                                      *)
LEMMA SilentKeeps ==
  ASSUME IInv, TypeOK', UNCHANGED <<revision, pending, owed, streamVars>>,
         \A i \in Instance : metadata'[i] # None =>
           metadata[i] # None /\ View(metadata'[i]) = View(metadata[i])
  PROVE  MutationKeeps
<1>1. UNCHANGED <<phase, from, seen, mirror, buffer>>
  BY DEF streamVars
<1>2. Bounds' /\ \A s \in owed' : phase'[s] # "closed"
  BY <1>1 DEF IInv, Bounds, Gates
<1>3. CardsAgree'
  <2> SUFFICES ASSUME NEW s \in Stream, phase'[s] \in {"replaying", "live"},
                      NEW i \in Instance, metadata'[i] # None
               PROVE  WillShow(s, i, View(metadata[i]))'
    BY DEF CardsAgree, Published
  <2>1. WillShow(s, i, View(metadata[i]))
    BY <1>1 DEF IInv, CardsAgree, Published
  <2>2. Due(s, i)' = Due(s, i) /\ Kept(s, i)' = Kept(s, i)
    BY <1>1 DEF Due, Kept
  <2> QED
    BY <1>1, <2>1, <2>2 DEF WillShow, IsLast
<1> QED
  BY <1>2, <1>3 DEF MutationKeeps

LEMMA RemoveKeeps ==
  ASSUME IInv, TypeOK', NEW i \in Instance, NEW g \in Nat, pending = << >>,
         RemoveRecord(i, g), UNCHANGED streamVars
  PROVE  MutationKeeps
<1> DEFINE e == RemoveEvent(i, g, revision + 1)
<1>1. revision + 1 \in Nat
  BY DEF IInv, TypeOK
<1>2. e \in Event /\ e.instance = i /\ e.revision = revision + 1 /\ e.type = "remove"
  BY <1>1 DEF RemoveEvent, Event
<1> HIDE DEF e
<1>4. /\ Emit(<<e>>) /\ revision' = revision + 1
      /\ metadata' = [metadata EXCEPT ![i] = None]
  BY DEF RemoveRecord, e
<1>5. metadata'[i] = None /\ \A j \in Instance : j # i => metadata'[j] = metadata[j]
  BY <1>4 DEF IInv, TypeOK
<1> QED
  BY <1>2, <1>4, <1>5, AnnounceOne DEF MutationKeeps

LEMMA ForgetKeeps ==
  ASSUME IInv, TypeOK', NEW i \in Instance, NEW r \in Record, pending = << >>,
         ForgetActivity(i, r), UNCHANGED streamVars,
         metadata[i] # None => View(r) = View(metadata[i])
  PROVE  MutationKeeps
<1>1. CASE r.busy = "unknown"
  BY <1>1, SilentKeeps DEF ForgetActivity
<1>2. CASE r.busy # "unknown"
  <2> DEFINE q == [r EXCEPT !.busy = "unknown"]
             e == UpsertEvent(i, q, revision + 1)
  <2>0. q \in Record
    BY DEF Record
  <2>1. revision + 1 \in Nat /\ q \in Record
    BY <2>0, SMTT(30) DEF IInv, TypeOK
  <2>2. e \in Event
    BY <2>1, EventTypes
  <2>3. /\ e.instance = i /\ e.revision = revision + 1 /\ e.type = "upsert"
        /\ e.card = View(q)
    BY DEF UpsertEvent
  <2>4. /\ Emit(<<e>>) /\ revision' = revision + 1
        /\ metadata' = IF metadata[i] = None THEN metadata
              ELSE [metadata EXCEPT ![i] = [metadata[i] EXCEPT !.busy = "unknown", !.stop = 0]]
    BY <1>2 DEF ForgetActivity
  <2>5. ASSUME metadata'[i] # None PROVE View(metadata'[i]) = View(q)
    <3>1. metadata[i] \in Record /\ View(r) = View(metadata[i])
      BY <2>4, <2>5 DEF IInv, TypeOK
    <3>2. metadata'[i] = [metadata[i] EXCEPT !.busy = "unknown", !.stop = 0]
      BY <2>4, <2>5, <3>1 DEF IInv, TypeOK
    <3> QED
      BY <3>1, <3>2 DEF View, Record
  <2>6. \A j \in Instance : j # i => metadata'[j] = metadata[j]
    BY <2>4 DEF IInv, TypeOK
  <2> HIDE DEF e, q
  <2>7. metadata'[i] # None => e.card = View(metadata'[i])
    BY <2>3, <2>5
  <2> QED
    BY <2>2, <2>3, <2>4, <2>6, <2>7, AnnounceOne DEF MutationKeeps
<1> QED
  BY <1>1, <1>2

LEMMA StoreKeeps ==
  ASSUME IInv, TypeOK', NEW i \in Instance, NEW in \in Input, pending = << >>,
         Store(i, in), UNCHANGED streamVars
  PROVE  MutationKeeps
<1> DEFINE old == metadata[i]
           new == Refreshed(old, in, revision + 1)
<1>1. CASE Continues(old, in) /\ View(old) = View(new)
  <2>1. /\ metadata' = [metadata EXCEPT ![i] = [new EXCEPT !.stop = old.stop]]
        /\ UNCHANGED <<revision, pending, owed>>
    BY <1>1 DEF Store
  <2>2. old # None
    BY <1>1 DEF Continues
  <2>3. View([new EXCEPT !.stop = old.stop]) = View(new)
    BY DEF View, Refreshed
  <2>4. ASSUME NEW j \in Instance, metadata'[j] # None
        PROVE  metadata[j] # None /\ View(metadata'[j]) = View(metadata[j])
    BY <1>1, <2>1, <2>2, <2>3, <2>4 DEF IInv, TypeOK
  <2> QED
    BY <2>1, <2>4, SilentKeeps
<1>2. CASE ~(Continues(old, in) /\ View(old) = View(new))
  <2> DEFINE u == UpsertEvent(i, new, revision + 1)
             e == StopEvent(i, new, revision + 1)
             events == IF Stopped(old, in) THEN <<u, e>> ELSE <<u>>
  <2>1. /\ metadata' = [metadata EXCEPT ![i] = new]
        /\ revision' = revision + 1
        /\ Emit(events)
    BY <1>2 DEF Store
  <2>2. metadata'[i] = new /\ \A j \in Instance : j # i => metadata'[j] = metadata[j]
    BY <2>1 DEF IInv, TypeOK
  <2>3. revision + 1 \in Nat /\ new \in Record \cup {None}
    BY <2>2 DEF IInv, TypeOK
  <2>4. /\ u.instance = i /\ u.revision = revision + 1 /\ u.type = "upsert"
        /\ u.card = View(new)
        /\ e.instance = i /\ e.revision = revision + 1 /\ e.type = "stop"
    BY DEF UpsertEvent, StopEvent
  <2>5. new \in Record
    BY StoreNew DEF IInv
  <2>6. u \in Event /\ e \in Event
    BY <2>3, <2>5, EventTypes
  <2> HIDE DEF u, e, new
  <2>7. /\ events \in Seq(Event) /\ Len(events) \in {1, 2} /\ events[1] = u
        /\ Len(events) = 2 => events[2] = e
    BY <2>6
  <2> HIDE DEF events
  <2> QED
    BY <2>1, <2>2, <2>4, <2>7, AnnounceAgrees DEF MutationKeeps
<1> QED
  BY <1>1, <1>2

LEMMA ObserveKeeps ==
  ASSUME IInv, TypeOK', NEW i \in Instance, NEW in \in Input, pending = << >>,
         ObserveInput(i, in), UNCHANGED streamVars
  PROVE  MutationKeeps
<1>1. CASE metadata[i] # None /\ ForgetActivity(i, metadata[i])
  <2>1. metadata[i] \in Record
    BY <1>1 DEF IInv, TypeOK
  <2> QED
    BY <1>1, <2>1, ForgetKeeps
<1>2. CASE UNCHANGED <<registryVars, queueVars, steady>>
  BY <1>2, SilentKeeps DEF registryVars, queueVars
<1>3. CASE Store(i, in)
  BY <1>3, StoreKeeps
<1> QED
  BY <1>1, <1>2, <1>3 DEF ObserveInput

(* The dispatcher hands its head event to a stream.                         *)
LEMMA DeliverKeeps ==
  ASSUME IInv, TypeOK', NEW s \in Stream, Deliver(s)
  PROVE  MutationKeeps /\ Gates'
<1> DEFINE e == Head(pending)
<1>1. /\ pending \in Seq(Event) /\ pending # << >>
      /\ e \in Event /\ e = pending[1] /\ 1 \in 1 .. Len(pending) /\ e.type # "stop"
  BY HeadTailProperties DEF IInv, TypeOK, Deliver
<1>2. /\ UNCHANGED <<metadata, revision, pending, call, phase, from>>
      /\ owed' = owed \ {s} /\ s \in owed /\ phase[s] # "closed"
  BY DEF Deliver, registryVars, IInv, Gates
<1>3. \/ /\ phase[s] = "live" /\ Passes(s, e)
         /\ mirror' = [mirror EXCEPT ![s] = Apply(mirror[s], e)]
         /\ UNCHANGED buffer
      \/ /\ phase[s] = "live" /\ ~Passes(s, e)
         /\ UNCHANGED <<mirror, buffer>>
      \/ /\ phase[s] # "live"
         /\ buffer' = [buffer EXCEPT ![s] = Append(buffer[s], e)]
         /\ UNCHANGED mirror
  BY DEF Deliver, Hand
<1>4. /\ mirror \in [Stream -> [Instance -> Card \cup {None}]]
      /\ buffer \in [Stream -> Seq(Event)] /\ revision \in Nat
      /\ from \in [Stream -> Nat]
  BY DEF IInv, TypeOK
<1> HIDE DEF e
<1>5. Gates'
  <2>1. ASSUME NEW t \in Stream, phase'[t] \in {"closed", "live"}
        PROVE  buffer'[t] = << >>
    BY <1>2, <1>3, <1>4, <2>1 DEF IInv, Gates
  <2> QED
    BY <1>2, <2>1 DEF IInv, Gates
<1>6. Bounds'
  <2>1. ASSUME NEW t \in Stream, NEW k \in 1 .. Len(buffer'[t])
        PROVE  buffer'[t][k].revision <= revision /\ buffer'[t][k].type # "stop"
    <3>1. CASE buffer'[t] = buffer[t]
      BY <2>1, <3>1 DEF IInv, Bounds
    <3>2. CASE t = s /\ buffer'[t] = Append(buffer[s], e)
      <4>1. k \in 1 .. Len(buffer[s]) \/ buffer'[t][k] = e
        BY <1>1, <1>4, <2>1, <3>2, AppendProperties
      <4>2. e.revision <= revision
        BY <1>1 DEF IInv, Bounds
      <4> QED
        BY <1>1, <1>4, <2>1, <3>2, <4>1, <4>2, AppendProperties DEF IInv, Bounds
    <3> QED
      BY <1>3, <1>4, <3>1, <3>2
  <2> QED
    BY <1>2, <2>1 DEF IInv, Bounds
<1>7. CardsAgree'
  <2> SUFFICES ASSUME NEW t \in Stream, phase'[t] \in {"replaying", "live"},
                      NEW i \in Instance, metadata'[i] # None
               PROVE  WillShow(t, i, View(metadata[i]))'
    BY DEF CardsAgree, Published
  <2> DEFINE c == View(metadata[i])
  <2>1. WillShow(t, i, c) /\ c' = c
    BY <1>2 DEF IInv, CardsAgree, Published
  <2>2. CASE t # s
    <3>1. UNCHANGED <<Due(t, i), Kept(t, i), buffer[t], mirror[t]>>
      BY <1>2, <1>3, <1>4, <2>2 DEF Due, Kept
    <3> QED
      BY <1>2, <2>1, <3>1 DEF WillShow, IsLast
  <2>3. CASE t = s
    <3>1. Due(s, i)' = Due(s, i) \ {1}
      BY <1>2 DEF Due
    <3>2. \A k \in Due(s, i) : k = 1 \/ k > 1
      BY <1>1 DEF Due
    <3>3. ASSUME NEW k \in 1 .. Len(pending), IsLast(k, Due(s, i))'
          PROVE  IsLast(k, Due(s, i))
      <4>1. k \in Due(s, i) /\ k > 1
        BY <3>1, <3>2, <3>3 DEF IsLast
      <4>2. ASSUME NEW j \in Due(s, i) PROVE j <= k
        BY <3>1, <3>2, <3>3, <4>1, <4>2 DEF IsLast
      <4> QED
        BY <4>1, <4>2 DEF IsLast
    <3>4. \A k \in 1 .. Len(pending') : IsLast(k, Due(s, i))' => pending'[k].card = c
      BY <1>2, <2>1, <2>3, <3>3 DEF WillShow
    <3>5. CASE 1 \notin Due(s, i)
      <4>1. Due(s, i)' = Due(s, i)
        BY <3>1, <3>5
      <4>2. e.instance # i \/ ~Passes(s, e)
        BY <1>1, <1>2, <3>5 DEF Due, Passes
      <4>3. CASE phase[s] = "live"
        <5>1. buffer'[s] = buffer[s] /\ mirror'[s][i] = mirror[s][i]
          BY <1>1, <1>3, <1>4, <4>2, <4>3 DEF Apply, Event
        <5>2. Kept(s, i)' = Kept(s, i)
          BY <1>2, <5>1 DEF Kept
        <5> QED
          BY <1>2, <2>1, <2>3, <3>4, <4>1, <5>1, <5>2 DEF WillShow, IsLast
      <4>4. CASE phase[s] # "live"
        <5>1. buffer'[s] = Append(buffer[s], e) /\ mirror'[s] = mirror[s]
          BY <1>3, <1>4, <4>4
        <5>2. /\ Len(buffer'[s]) = Len(buffer[s]) + 1 /\ Len(buffer[s]) \in Nat
              /\ \A k \in 1 .. Len(buffer[s]) : buffer'[s][k] = buffer[s][k]
              /\ buffer'[s][Len(buffer[s]) + 1] = e
          BY <1>1, <1>4, <5>1, AppendProperties
        <5>3. Kept(s, i)' = Kept(s, i)
          BY <1>2, <4>2, <5>2, SMTT(30) DEF Kept, Passes
        <5>4. \A k \in Kept(s, i) : buffer'[s][k] = buffer[s][k]
          BY <5>2 DEF Kept
        <5>5. ASSUME Due(s, i)' = {}, NEW k \in 1 .. Len(buffer'[s]), IsLast(k, Kept(s, i))'
              PROVE  buffer'[s][k].card = c
          <6>1. k \in Kept(s, i) /\ IsLast(k, Kept(s, i)) /\ k \in 1 .. Len(buffer[s])
            BY <5>3, <5>5 DEF IsLast, Kept
          <6> QED
            BY <2>1, <2>3, <4>1, <5>4, <5>5, <6>1 DEF WillShow
        <5>6. Due(s, i)' = {} /\ Kept(s, i)' = {} => mirror'[s][i] = c
          BY <2>1, <2>3, <4>1, <5>1, <5>3 DEF WillShow
        <5> QED
          BY <2>1, <2>3, <3>4, <5>5, <5>6 DEF WillShow
      <4> QED
        BY <4>3, <4>4
    <3>6. CASE 1 \in Due(s, i)
      <4>1. e.instance = i /\ Passes(s, e)
        BY <1>1, <3>6 DEF Due, Passes
      <4>2. ASSUME Due(s, i)' = {} PROVE e.card = c
        <5>1. IsLast(1, Due(s, i))
          BY <3>1, <3>6, <4>2 DEF IsLast
        <5> QED
          BY <1>1, <2>1, <2>3, <5>1 DEF WillShow
      <4>3. CASE phase[s] = "live"
        <5>1. buffer'[s] = << >>
          BY <1>2, <1>3, <1>4, <4>3 DEF IInv, Gates
        <5>2. Kept(s, i)' = {}
          BY <5>1 DEF Kept
        <5>3. ASSUME Due(s, i)' = {} PROVE mirror'[s][i] = c
          <6>1. e.card = c /\ c \in Card
            BY <1>2, <4>2, <5>3, ViewType DEF IInv, TypeOK
          <6>2. e.type = "upsert"
            BY <1>1, <6>1, NoneIsNoCard DEF Event
          <6>3. mirror'[s] = [mirror[s] EXCEPT ![i] = e.card]
            BY <1>3, <1>4, <4>1, <4>3, <6>2 DEF Apply
          <6> QED
            BY <1>4, <6>1, <6>3
        <5> QED
          BY <2>1, <2>3, <3>4, <5>2, <5>3 DEF WillShow, IsLast
      <4>4. CASE phase[s] # "live"
        <5>1. buffer'[s] = Append(buffer[s], e)
          BY <1>3, <1>4, <4>4
        <5>2. /\ Len(buffer'[s]) = Len(buffer[s]) + 1 /\ Len(buffer[s]) \in Nat
              /\ buffer'[s][Len(buffer[s]) + 1] = e
          BY <1>1, <1>4, <5>1, AppendProperties
        <5> DEFINE m == Len(buffer[s]) + 1
        <5>3. m \in Kept(s, i)' /\ \A k \in Kept(s, i)' : k <= m
          BY <1>2, <4>1, <5>2 DEF Kept, Passes
        <5>4. \A k \in 1 .. Len(buffer'[s]) : IsLast(k, Kept(s, i))' => k = m
          BY <5>2, <5>3 DEF IsLast
        <5> QED
          BY <2>1, <2>3, <3>4, <4>2, <5>2, <5>3, <5>4 DEF WillShow
      <4> QED
        BY <4>3, <4>4
    <3> QED
      BY <2>3, <3>5, <3>6
  <2> QED
    BY <2>2, <2>3
<1>8. \A t \in owed' : phase'[t] # "closed"
  BY <1>2 DEF IInv, Gates
<1> QED
  BY <1>5, <1>6, <1>7, <1>8 DEF MutationKeeps

(* The dispatcher moves on to the next event, owed by every registered      *)
(* stream.                                                                  *)
LEMMA NextEventKeeps ==
  ASSUME IInv, TypeOK', NextEvent
  PROVE  MutationKeeps /\ Gates'
<1>1. /\ pending \in Seq(Event) /\ pending # << >> /\ pending' = Tail(pending)
      /\ Len(pending) \in Nat /\ Len(pending') = Len(pending) - 1
      /\ \A k \in 1 .. Len(pending') : pending'[k] = pending[k + 1]
  BY HeadTailProperties DEF IInv, TypeOK, NextEvent
<1>2. /\ UNCHANGED <<metadata, revision, call, phase, from, mirror, buffer>>
      /\ owed' = IF pending' = << >> THEN {} ELSE Registered
      /\ pending[1].type = "stop" \/ owed = {}
  BY <1>1 DEF NextEvent, registryVars, streamVars
<1>3. Gates' /\ \A s \in owed' : phase'[s] # "closed"
  BY <1>2 DEF IInv, Gates, Registered
<1>4. Bounds'
  BY <1>1, <1>2 DEF IInv, Bounds
<1>5. CardsAgree'
  <2> SUFFICES ASSUME NEW s \in Stream, phase'[s] \in {"replaying", "live"},
                      NEW i \in Instance, metadata'[i] # None
               PROVE  WillShow(s, i, View(metadata[i]))'
    BY DEF CardsAgree, Published
  <2> DEFINE c == View(metadata[i])
  <2>1. WillShow(s, i, c) /\ c' = c
    BY <1>2 DEF IInv, CardsAgree, Published
  <2>2. \A k \in 1 .. Len(pending') : k + 1 \in Due(s, i) <=> k \in Due(s, i)'
    <3> TAKE k \in 1 .. Len(pending')
    <3>1. k + 1 \in 1 .. Len(pending) /\ k + 1 > 1 /\ pending'[k] = pending[k + 1]
      BY <1>1
    <3>2. s \in owed'
      <4>1. pending' # << >>
        BY EmptySeq
      <4> QED
        BY <1>2, <4>1 DEF Registered
    <3> QED
      BY <1>2, <3>1, <3>2 DEF Due
  <2>3. \A k \in Due(s, i) : k - 1 \in 1 .. Len(pending')
    BY <1>1, <1>2 DEF Due
  <2>4. \A k \in Due(s, i)' : k \in 1 .. Len(pending')
    BY DEF Due
  <2>5. Due(s, i) = {} <=> Due(s, i)' = {}
    <3>1. ASSUME NEW k \in Due(s, i) PROVE k - 1 \in Due(s, i)'
      <4>1. k - 1 \in 1 .. Len(pending') /\ (k - 1) + 1 = k
        BY <1>1, <2>3 DEF Due
      <4> QED
        BY <2>2, <4>1
    <3>2. ASSUME NEW k \in Due(s, i)' PROVE k + 1 \in Due(s, i)
      BY <2>2, <2>4
    <3> QED
      BY <3>1, <3>2
  <2>6. ASSUME NEW k \in 1 .. Len(pending'), IsLast(k, Due(s, i))'
        PROVE  pending'[k].card = c
    <3>1. IsLast(k + 1, Due(s, i))
      <4>1. k + 1 \in Due(s, i)
        BY <2>2, <2>6 DEF IsLast
      <4>2. ASSUME NEW j \in Due(s, i) PROVE j <= k + 1
        <5>1. j - 1 \in 1 .. Len(pending') /\ (j - 1) + 1 = j
          BY <1>1, <2>3, <4>2 DEF Due
        <5>2. j - 1 \in Due(s, i)'
          BY <2>2, <5>1
        <5>3. j - 1 <= k
          BY <2>6, <5>2 DEF IsLast
        <5> QED
          BY <1>1, <5>3 DEF Due
      <4> QED
        BY <4>1, <4>2 DEF IsLast
    <3> QED
      BY <1>1, <2>1, <3>1 DEF WillShow
  <2>7. Kept(s, i)' = Kept(s, i)
    BY <1>2 DEF Kept
  <2> QED
    BY <1>2, <2>1, <2>5, <2>6, <2>7 DEF WillShow, IsLast
<1> QED
  BY <1>3, <1>4, <1>5 DEF MutationKeeps

(* Removals queued behind the event being dispatched.                       *)
LEMMA SweepDuringDispatchKeeps ==
  ASSUME IInv, TypeOK', SweepDuringDispatch
  PROVE  MutationKeeps
<1> DEFINE n == Cardinality(Expired)
<1>1. PICK order \in [1 .. n -> Expired] :
        pending' = pending \o
          [k \in 1 .. n |->
             RemoveEvent(order[k], metadata[order[k]].generation, revision + k)]
  BY DEF SweepDuringDispatch
<1>2. n \in Nat
  BY ExpiredFinite
<1> DEFINE removal(k) == RemoveEvent(order[k], metadata[order[k]].generation, revision + k)
           tail == [k \in 1 .. n |-> removal(k)]
<1>3. ASSUME NEW k \in 1 .. n
      PROVE  /\ removal(k) \in Event /\ removal(k).instance \in Expired
             /\ removal(k).revision = revision + k
  <2>1. order[k] \in Expired
    BY <1>3
  <2>2. order[k] \in Instance /\ metadata[order[k]] \in Record
    BY <2>1 DEF IInv, TypeOK, Expired, Published
  <2>3. metadata[order[k]].generation \in Nat /\ revision + k \in Nat
    BY <1>2, <1>3, <2>2 DEF IInv, TypeOK, Record
  <2> QED
    BY <2>1, <2>2, <2>3 DEF Event, RemoveEvent
<1>4. /\ tail \in Seq(Event) /\ Len(tail) = n
      /\ \A k \in 1 .. n : tail[k].instance \in Expired /\ tail[k].revision = revision + k
  <2> HIDE DEF removal, n
  <2>1. \A k \in 1 .. n : removal(k) \in Event
    BY <1>3
  <2>2. tail \in Seq(Event)
    BY <1>2, <2>1, IsASeq
  <2>3. Len(tail) = n
    BY <1>2, <2>2
  <2>4. \A k \in 1 .. n : tail[k] = removal(k)
    OBVIOUS
  <2> QED
    BY <1>3, <2>2, <2>3, <2>4
<1>5. pending' = pending \o tail
  BY <1>1
<1> HIDE DEF tail
<1>6. /\ Len(pending) \in Nat /\ Len(pending') = Len(pending) + n
      /\ \A k \in 1 .. Len(pending) : pending'[k] = pending[k]
      /\ \A k \in 1 .. Len(pending') : k > Len(pending) =>
           pending'[k] = tail[k - Len(pending)] /\ k - Len(pending) \in 1 .. n
  <2> HIDE DEF n
  <2>1. pending \in Seq(Event) /\ tail \in Seq(Event) /\ Len(tail) = n
    BY <1>4 DEF IInv, TypeOK
  <2>2. /\ Len(pending') = Len(pending) + n /\ Len(pending) \in Nat
        /\ \A k \in 1 .. Len(pending) + n :
             pending'[k] = IF k <= Len(pending) THEN pending[k] ELSE tail[k - Len(pending)]
    BY <1>5, <2>1, ConcatProperties
  <2> QED
    BY <1>2, <2>2
<1>7. /\ metadata' = [i \in Instance |-> IF i \in Expired THEN None ELSE metadata[i]]
      /\ revision' = revision + n /\ revision \in Nat
      /\ UNCHANGED <<owed, call, phase, from, seen, mirror, buffer>>
  BY DEF SweepDuringDispatch, streamVars, IInv, TypeOK
<1> HIDE DEF n
<1>8. \A s \in owed' : phase'[s] # "closed"
  BY <1>7 DEF IInv, Gates
<1>9. Bounds'
  <2>1. ASSUME NEW k \in 1 .. Len(pending') PROVE pending'[k].revision <= revision'
    <3>1. CASE k \in 1 .. Len(pending)
      <4>1. pending[k] \in Event
        BY <3>1, ElementOfSeq DEF IInv, TypeOK
      <4>2. pending[k].revision \in Nat
        BY <4>1 DEF Event
      <4>3. pending[k].revision <= revision
        BY <3>1 DEF IInv, Bounds
      <4> QED
        BY <1>2, <1>6, <1>7, <3>1, <4>2, <4>3
    <3>2. CASE k > Len(pending)
      BY <1>2, <1>4, <1>6, <1>7, <2>1, <3>2
    <3> QED
      BY <1>6, <3>1, <3>2
  <2>2. \A s \in Stream : from'[s] <= revision'
    BY <1>2, <1>7 DEF IInv, TypeOK, Bounds
  <2>3. ASSUME NEW s \in Stream, NEW k \in 1 .. Len(buffer'[s])
        PROVE  buffer'[s][k].revision <= revision' /\ buffer'[s][k].type # "stop"
    <3>1. buffer[s] \in Seq(Event) /\ k \in 1 .. Len(buffer[s])
      BY <1>7, <2>3 DEF IInv, TypeOK
    <3>2. buffer[s][k] \in Event
      BY <3>1, ElementOfSeq
    <3>3. buffer[s][k].revision \in Nat
      BY <3>2 DEF Event
    <3> QED
      BY <1>2, <1>7, <3>1, <3>3 DEF IInv, Bounds
  <2> QED
    BY <2>1, <2>2, <2>3 DEF Bounds
<1>10. CardsAgree'
  <2> SUFFICES ASSUME NEW s \in Stream, phase'[s] \in {"replaying", "live"},
                      NEW i \in Instance, metadata'[i] # None
               PROVE  WillShow(s, i, View(metadata[i]))'
    BY DEF CardsAgree, Published
  <2>1. i \notin Expired /\ metadata'[i] = metadata[i]
    BY <1>7
  <2>2. WillShow(s, i, View(metadata[i]))
    BY <1>7, <2>1 DEF IInv, CardsAgree, Published
  <2>3. Due(s, i)' = Due(s, i)
    <3>1. ASSUME NEW k \in Due(s, i)' PROVE k \in Due(s, i)
      <4>1. k \in 1 .. Len(pending)
        <5>1. k \in 1 .. Len(pending') /\ pending'[k].instance = i
          BY <3>1 DEF Due
        <5>2. ASSUME k > Len(pending) PROVE FALSE
          <6>1. pending'[k] = tail[k - Len(pending)] /\ k - Len(pending) \in 1 .. n
            BY <1>6, <5>1, <5>2
          <6> QED
            BY <1>4, <2>1, <5>1, <6>1
        <5> QED
          BY <1>6, <5>1, <5>2
      <4> QED
        BY <1>6, <1>7, <3>1, <4>1 DEF Due
    <3>2. ASSUME NEW k \in Due(s, i) PROVE k \in Due(s, i)'
      BY <1>2, <1>6, <1>7, <3>2 DEF Due
    <3> QED
      BY <3>1, <3>2
  <2>4. Kept(s, i)' = Kept(s, i)
    BY <1>7 DEF Kept
  <2>5. \A k \in Due(s, i) : k \in 1 .. Len(pending) /\ pending'[k] = pending[k]
    BY <1>6 DEF Due
  <2> QED
    BY <1>7, <2>1, <2>2, <2>3, <2>4, <2>5 DEF WillShow, IsLast
<1> QED
  BY <1>8, <1>9, <1>10 DEF MutationKeeps

(* The snapshot represents everything queued or buffered so far.            *)
LEMMA SnapshotKeeps ==
  ASSUME IInv, TypeOK', NEW s \in Stream,
         UNCHANGED <<metadata, revision, pending, buffer>>,
         owed' = owed \/ owed' = owed \cup {s},
         phase' = [phase EXCEPT ![s] = "live"] \/ phase' = [phase EXCEPT ![s] = "replaying"],
         from' = [from EXCEPT ![s] = revision],
         mirror' = [mirror EXCEPT ![s] = Directory]
  PROVE  MutationKeeps
<1>1. /\ phase \in [Stream -> {"closed", "admitting", "replaying", "live"}]
      /\ from \in [Stream -> Nat] /\ revision \in Nat
      /\ mirror \in [Stream -> [Instance -> Card \cup {None}]]
  BY DEF IInv, TypeOK
<1>2. Bounds' /\ \A t \in owed' : phase'[t] # "closed"
  <2>1. \A t \in owed' : phase'[t] # "closed"
    BY <1>1 DEF IInv, Gates, TypeOK
  <2> QED
    BY <1>1, <2>1 DEF IInv, Bounds
<1>3. CardsAgree'
  <2> SUFFICES ASSUME NEW t \in Stream, phase'[t] \in {"replaying", "live"},
                      NEW i \in Instance, metadata'[i] # None
               PROVE  WillShow(t, i, View(metadata[i]))'
    BY DEF CardsAgree, Published
  <2>1. CASE t = s
    <3>1. from'[s] = revision /\ mirror'[s][i] = View(metadata[i])
      BY <1>1 DEF Directory
    <3>2. ASSUME NEW k \in Due(s, i)' PROVE FALSE
      <4>1. k \in 1 .. Len(pending) /\ pending[k].revision > revision
        BY <3>1, <3>2 DEF Due
      <4>2. pending[k] \in Event
        BY <4>1, ElementOfSeq DEF IInv, TypeOK
      <4>3. pending[k].revision \in Nat /\ pending[k].revision <= revision
        BY <4>1, <4>2 DEF Event, IInv, Bounds
      <4> QED
        BY <1>1, <4>1, <4>3
    <3>3. ASSUME NEW k \in Kept(s, i)' PROVE FALSE
      <4>1. k \in 1 .. Len(buffer[s]) /\ buffer[s][k].revision > revision
        BY <3>1, <3>3 DEF Kept
      <4>2. buffer[s][k] \in Event
        BY <4>1, ElementOfSeq DEF IInv, TypeOK
      <4>3. buffer[s][k].revision \in Nat /\ buffer[s][k].revision <= revision
        BY <4>1, <4>2 DEF Event, IInv, Bounds
      <4> QED
        BY <1>1, <4>1, <4>3
    <3> QED
      BY <2>1, <3>1, <3>2, <3>3 DEF WillShow, IsLast
  <2>2. CASE t # s
    <3>1. UNCHANGED <<Due(t, i), Kept(t, i), mirror[t]>>
      BY <1>1, <2>2 DEF Due, Kept
    <3>2. WillShow(t, i, View(metadata[i]))
      BY <1>1, <2>2 DEF IInv, CardsAgree, Published
    <3> QED
      BY <3>1, <3>2 DEF WillShow, IsLast
  <2> QED
    BY <2>1, <2>2
<1> QED
  BY <1>2, <1>3 DEF MutationKeeps
(* A buffered event is replayed: handed over, or filtered like any other.    *)
LEMMA ReplayKeeps ==
  ASSUME IInv, TypeOK', NEW s \in Stream, Replay(s)
  PROVE  MutationKeeps /\ Gates'
<1> DEFINE e == Head(buffer[s])
<1>1. /\ buffer \in [Stream -> Seq(Event)] /\ from \in [Stream -> Nat]
      /\ mirror \in [Stream -> [Instance -> Card \cup {None}]]
  BY DEF IInv, TypeOK
<1>2. /\ buffer[s] \in Seq(Event) /\ buffer[s] # << >>
      /\ buffer'[s] = Tail(buffer[s])
      /\ \A t \in Stream : t # s => buffer'[t] = buffer[t]
  BY <1>1 DEF Replay
<1>3. /\ e = buffer[s][1] /\ e \in Event /\ Len(buffer[s]) \in Nat /\ Len(buffer[s]) > 0
      /\ Len(buffer'[s]) = Len(buffer[s]) - 1
      /\ \A k \in 1 .. Len(buffer'[s]) : buffer'[s][k] = buffer[s][k + 1]
  BY <1>2, HeadTailProperties, EmptySeq
<1>4. /\ UNCHANGED <<metadata, revision, pending, owed, call, phase, from>>
      /\ pending = << >> /\ phase[s] = "replaying"
  BY DEF Replay, registryVars, queueVars, IInv, Gates
<1>5. mirror' = [mirror EXCEPT ![s] = IF Passes(s, e) THEN Apply(mirror[s], e)
                                      ELSE mirror[s]]
  <2>1. IF Passes(s, e) THEN Hand(s, e) ELSE UNCHANGED <<seen, handed, mirror>>
    BY DEF Replay
  <2>2. mirror \in [Stream -> [Instance -> Card \cup {None}]]
    BY DEF IInv, TypeOK
  <2> QED
    BY <2>1, <2>2 DEF Hand
<1> HIDE DEF e
<1>6. Gates'
  <2>1. ASSUME NEW t \in Stream, phase'[t] \in {"closed", "live"}
        PROVE  buffer'[t] = << >>
    BY <1>2, <1>4, <2>1 DEF IInv, Gates
  <2> QED
    BY <1>4, <2>1 DEF IInv, Gates
<1>7. Bounds'
  <2>1. ASSUME NEW t \in Stream, NEW k \in 1 .. Len(buffer'[t])
        PROVE  buffer'[t][k].revision <= revision /\ buffer'[t][k].type # "stop"
    <3>1. CASE t = s
      <4>1. k + 1 \in 1 .. Len(buffer[s]) /\ buffer'[t][k] = buffer[s][k + 1]
        BY <1>3, <2>1, <3>1
      <4> QED
        BY <4>1 DEF IInv, Bounds
    <3>2. CASE t # s
      BY <1>2, <2>1, <3>2 DEF IInv, Bounds
    <3> QED
      BY <3>1, <3>2
  <2> QED
    BY <1>4, <2>1 DEF IInv, Bounds
<1>8. CardsAgree'
  <2> SUFFICES ASSUME NEW t \in Stream, phase'[t] \in {"replaying", "live"},
                      NEW i \in Instance, metadata'[i] # None
               PROVE  WillShow(t, i, View(metadata[i]))'
    BY DEF CardsAgree, Published
  <2> DEFINE c == View(metadata[i])
  <2>1. WillShow(t, i, c) /\ c' = c
    BY <1>4 DEF IInv, CardsAgree, Published
  <2>2. Due(t, i) = {} /\ Due(t, i)' = {} /\ Len(pending') = 0
    BY <1>4, EmptySeq DEF Due
  <2>3. CASE t # s
    <3>1. UNCHANGED <<Kept(t, i), buffer[t], mirror[t]>>
      BY <1>1, <1>2, <1>4, <1>5, <2>3 DEF Kept
    <3> QED
      BY <2>1, <2>2, <3>1 DEF WillShow, IsLast
  <2>4. CASE t = s
    <3>1. \A k \in 1 .. Len(buffer'[s]) : k \in Kept(s, i)' <=> k + 1 \in Kept(s, i)
      BY <1>3, <1>4, SMTT(30) DEF Kept
    <3>2. \A k \in Kept(s, i) : k = 1 \/ (k - 1 \in 1 .. Len(buffer'[s]) /\ (k - 1) + 1 = k)
      BY <1>3 DEF Kept
    <3>3. ASSUME NEW k \in 1 .. Len(buffer'[s]), IsLast(k, Kept(s, i))'
          PROVE  buffer'[s][k].card = c
      <4>1. k + 1 \in Kept(s, i)
        BY <3>1, <3>3 DEF IsLast
      <4>2. ASSUME NEW j \in Kept(s, i) PROVE j <= k + 1
        <5>1. CASE j = 1
          BY <3>3, <5>1
        <5>2. CASE j - 1 \in 1 .. Len(buffer'[s]) /\ (j - 1) + 1 = j
          <6>1. j - 1 \in Kept(s, i)'
            BY <3>1, <4>2, <5>2
          <6>2. j - 1 <= k
            BY <3>3, <6>1 DEF IsLast
          <6> QED
            BY <1>3, <5>2, <6>2
        <5> QED
          BY <3>2, <4>2, <5>1, <5>2
      <4>3. IsLast(k + 1, Kept(s, i))
        BY <4>1, <4>2 DEF IsLast
      <4>4. k + 1 \in 1 .. Len(buffer[s]) /\ buffer'[s][k] = buffer[s][k + 1]
        BY <1>3, <3>3
      <4> QED
        BY <2>1, <2>2, <2>4, <4>3, <4>4 DEF WillShow
    <3>4. ASSUME Kept(s, i)' = {} PROVE mirror'[s][i] = c
      <4>1. Kept(s, i) \subseteq {1}
        BY <3>1, <3>2, <3>4
      <4>2. mirror'[s] = IF Passes(s, e) THEN Apply(mirror[s], e) ELSE mirror[s]
        BY <1>1, <1>5
      <4>3. CASE 1 \in Kept(s, i)
        <5>1. e.instance = i /\ Passes(s, e)
          BY <1>3, <4>3 DEF Kept, Passes
        <5>2. IsLast(1, Kept(s, i)) /\ 1 \in 1 .. Len(buffer[s])
          BY <4>1, <4>3 DEF IsLast, Kept
        <5>3. e.card = c
          BY <1>3, <2>1, <2>2, <2>4, <5>2 DEF WillShow
        <5>4. c \in Card
          BY <1>4, ViewType DEF IInv, TypeOK
        <5>5. e.type = "upsert"
          <6>1. e \in Event /\ e.card = c /\ c \in Card /\ e.type # "stop"
            BY <1>3, <5>2, <5>3, <5>4 DEF IInv, Bounds
          <6> HIDE DEF c
          <6> QED
            BY <6>1, NoneIsNoCard DEF Event
        <5>6. mirror'[s] = [mirror[s] EXCEPT ![i] = e.card]
          BY <4>2, <5>1, <5>5 DEF Apply
        <5> QED
          BY <1>1, <5>3, <5>6
      <4>4. CASE 1 \notin Kept(s, i)
        <5>1. Kept(s, i) = {} /\ mirror[s][i] = c
          BY <2>1, <2>2, <2>4, <4>1, <4>4 DEF WillShow
        <5>2. e.instance # i \/ ~Passes(s, e)
          BY <1>3, <4>4 DEF Kept, Passes
        <5>3. e.instance = i \/ Apply(mirror[s], e)[i] = mirror[s][i]
          BY <1>1 DEF Apply
        <5> QED
          BY <4>2, <5>1, <5>2, <5>3
      <4> QED
        BY <4>3, <4>4
    <3> QED
      BY <2>1, <2>2, <2>4, <3>3, <3>4 DEF WillShow, IsLast
  <2> QED
    BY <2>3, <2>4
<1>9. \A t \in owed' : phase'[t] # "closed"
  BY <1>4 DEF IInv, Gates
<1> QED
  BY <1>6, <1>7, <1>8, <1>9 DEF MutationKeeps

(* A stream turns live, or is closed: the others see nothing of it.          *)
LEMMA PhaseKeeps ==
  ASSUME IInv, TypeOK', NEW s \in Stream,
         UNCHANGED <<metadata, revision, pending>>,
         \/ /\ phase[s] = "replaying" /\ phase' = [phase EXCEPT ![s] = "live"]
            /\ UNCHANGED <<owed, from, mirror, buffer>>
         \/ /\ phase' = [phase EXCEPT ![s] = "admitting"]
            /\ UNCHANGED <<owed, from, mirror, buffer>>
         \/ /\ phase' = [phase EXCEPT ![s] = "closed"]
            /\ owed' = owed \ {s}
            /\ from' = [from EXCEPT ![s] = 0]
            /\ mirror' = [mirror EXCEPT ![s] = [i \in Instance |-> None]]
            /\ buffer' = [buffer EXCEPT ![s] = << >>]
  PROVE  MutationKeeps
<1>1. /\ phase \in [Stream -> {"closed", "admitting", "replaying", "live"}]
      /\ from \in [Stream -> Nat] /\ revision \in Nat
      /\ mirror \in [Stream -> [Instance -> Card \cup {None}]]
      /\ owed \subseteq Stream
  BY DEF IInv, TypeOK
<1>4. ASSUME NEW t \in Stream
      PROVE  /\ from'[t] \in {from[t], 0}
             /\ buffer'[t] \in {buffer[t], << >>}
             /\ phase'[t] \in {"replaying", "live"} =>
                  /\ from'[t] = from[t] /\ mirror'[t] = mirror[t]
                  /\ (t \in owed' <=> t \in owed) /\ buffer'[t] = buffer[t]
                  /\ phase[t] \in {"replaying", "live"}
  <2>1. buffer \in [Stream -> Seq(Event)]
    BY DEF IInv, TypeOK
  <2> QED
    BY <1>1, <2>1
<1>2. Bounds' /\ \A t \in owed' : phase'[t] # "closed"
  <2>1. \A t \in owed' : phase'[t] # "closed"
    BY <1>1 DEF IInv, Gates
  <2>2. \A t \in Stream : from'[t] <= revision'
    BY <1>1, <1>4 DEF IInv, Bounds
  <2>3. \A t \in Stream : buffer'[t] = buffer[t] \/ buffer'[t] = << >>
    BY <1>4
  <2>4. ASSUME NEW t \in Stream, NEW k \in 1 .. Len(buffer'[t])
        PROVE  buffer'[t][k].revision <= revision /\ buffer'[t][k].type # "stop"
    BY <2>3 DEF IInv, Bounds
  <2> QED
    BY <2>1, <2>2, <2>4 DEF IInv, Bounds
<1>3. CardsAgree'
  <2> SUFFICES ASSUME NEW t \in Stream, phase'[t] \in {"replaying", "live"},
                      NEW i \in Instance, metadata'[i] # None
               PROVE  WillShow(t, i, View(metadata[i]))'
    BY DEF CardsAgree, Published
  <2>1. /\ from'[t] = from[t] /\ mirror'[t] = mirror[t] /\ (t \in owed' <=> t \in owed)
        /\ phase[t] \in {"replaying", "live"} /\ buffer'[t] = buffer[t]
    BY <1>4
  <2>2. WillShow(t, i, View(metadata[i]))
    BY <2>1 DEF IInv, CardsAgree, Published
  <2>3. Due(t, i)' = Due(t, i) /\ Kept(t, i)' = Kept(t, i)
    BY <2>1 DEF Due, Kept
  <2> QED
    BY <2>1, <2>2, <2>3 DEF WillShow, IsLast
<1> QED
  BY <1>2, <1>3 DEF MutationKeeps

(* While a call retires records, nobody rewrites one it has captured.        *)
LEMMA CapturedKeeps ==
  ASSUME IInv, TypeOK', call'.op = "retiring" => call.op = "retiring",
         call'.op = "retiring" =>
           \A i \in Instance : call'.work[i] # None /\ metadata'[i] # None =>
             /\ call'.work[i] = call.work[i] /\ metadata[i] # None
             /\ View(metadata'[i]) = View(metadata[i])
  PROVE  Captured'
BY DEF IInv, Captured

LEMMA IInvInit == Init => IInv
<1> SUFFICES ASSUME Init PROVE IInv
  OBVIOUS
<1>1. TypeOK
  <2>1. pending \in Seq(Event) /\ \A s \in Stream : buffer[s] \in Seq(Event)
    BY DEF Init
  <2> QED
    BY <2>1, ConstantsAssumption DEF Init, TypeOK, NoCall, Calls
<1>2. Len(pending) = 0 /\ \A s \in Stream : Len(buffer[s]) = 0
  BY DEF Init
<1>3. Bounds /\ Gates /\ Captured
  BY <1>2 DEF Init, Bounds, Gates, Captured, NoCall
<1>4. CardsAgree
  BY DEF Init, CardsAgree
<1> QED
  BY <1>1, <1>3, <1>4 DEF IInv
(* Every step keeps the inductive invariant.                                 *)
LEMMA IInvStep == ASSUME IInv, TypeOK', [Next]_vars PROVE IInv'
<1> USE DEF registryVars, queueVars, streamVars, stopVars
<1>1. ASSUME NEW live \in SUBSET Instance, NEW retained \in SUBSET Instance,
             Reconcile(live, retained)
      PROVE  IInv'
  <2>1. call'.op = "observing" /\ UNCHANGED <<registryVars, queueVars, streamVars>>
    BY <1>1 DEF Reconcile, NoCall
  <2>2. MutationKeeps
    BY <2>1, SilentKeeps
  <2> QED
    BY <2>1, <2>2 DEF IInv, MutationKeeps, Gates, Captured
<1>2. ASSUME NEW i \in Instance, NEW in \in Input, Observe(i, in) PROVE IInv'
  <2>1. /\ call'.op = "observing" /\ UNCHANGED streamVars
        /\ pending = << >> /\ ObserveInput(i, in)
    BY <1>2 DEF Observe, IInv, TypeOK
  <2>2. MutationKeeps
    BY <2>1, ObserveKeeps
  <2> QED
    BY <2>1, <2>2 DEF IInv, MutationKeeps, Gates, Captured
<1>3. ASSUME ObserveDone PROVE IInv'
  <2>1. /\ call'.op = "retiring" /\ UNCHANGED <<registryVars, queueVars, streamVars>>
        /\ \A i \in Instance : call'.work[i] # None => call'.work[i] = metadata[i]
    BY <1>3 DEF ObserveDone, IInv, TypeOK
  <2>2. MutationKeeps
    BY <2>1, SilentKeeps
  <2> QED
    BY <2>1, <2>2 DEF IInv, MutationKeeps, Gates, Captured
<1>4. ASSUME NEW i \in Instance, Retire(i) PROVE IInv'
  <2>1. /\ call.op = "retiring" /\ call' = [call EXCEPT !.work[i] = None]
        /\ call.work[i] # None /\ pending = << >> /\ UNCHANGED streamVars
    BY <1>4 DEF Retire
  <2>2. /\ call'.op = "retiring" /\ call'.work[i] = None
        /\ \A j \in Instance : j # i => call'.work[j] = call.work[j]
        /\ call.work[i] \in Record
    BY <2>1 DEF IInv, TypeOK
  <2>3. MutationKeeps
    <3>1. CASE ForgetActivity(i, call.work[i])
      BY <2>1, <2>2, <3>1, ForgetKeeps DEF IInv, Captured
    <3>2. CASE RemoveRecord(i, call.work[i].generation)
      BY <2>1, <2>2, <3>2, RemoveKeeps DEF Record
    <3> QED
      BY <1>4, <3>1, <3>2 DEF Retire
  <2>4. \A j \in Instance : j # i => metadata'[j] = metadata[j]
    BY <1>4 DEF Retire, ForgetActivity, RemoveRecord, IInv, TypeOK
  <2>5. Captured'
    BY <2>1, <2>2, <2>4, CapturedKeeps
  <2> QED
    BY <2>1, <2>2, <2>3, <2>5 DEF IInv, MutationKeeps, Gates
<1>5. ASSUME \/ RetireDone \/ SweepDone \/ Sweep \/ Clear
             \/ \E e \in alerts : SettleAlert(e)
      PROVE  IInv'
  <2>1. /\ UNCHANGED <<registryVars, queueVars, streamVars>>
        /\ \/ call'.op \in {"none", "sweeping"} /\ call'.target = None
           \/ call' = call
    <3>1. CASE RetireDone \/ SweepDone
      BY <3>1 DEF RetireDone, SweepDone, NoCall
    <3>2. CASE Sweep \/ Clear
      BY <3>2 DEF Sweep, Clear, StartSweep, NoCall
    <3>3. CASE \E e \in alerts : SettleAlert(e)
      BY <3>3 DEF SettleAlert
    <3> QED
      BY <1>5, <3>1, <3>2, <3>3
  <2>2. MutationKeeps
    BY <2>1, SilentKeeps
  <2> QED
    BY <2>1, <2>2 DEF IInv, MutationKeeps, Gates, Captured
<1>6. ASSUME NEW i \in Instance, SweepRemove(i) PROVE IInv'
  <2>1. /\ call.op = "sweeping" /\ call' = [call EXCEPT !.work[i] = None]
        /\ call.work[i] # None /\ pending = << >> /\ UNCHANGED streamVars
        /\ RemoveRecord(i, call.work[i].generation)
    BY <1>6 DEF SweepRemove
  <2>2. call'.op = "sweeping" /\ call'.target = call.target /\ call.work[i] \in Record
    BY <2>1 DEF IInv, TypeOK
  <2>3. MutationKeeps
    BY <2>1, <2>2, RemoveKeeps DEF Record
  <2> QED
    BY <2>1, <2>2, <2>3 DEF IInv, MutationKeeps, Gates, Captured
<1>7. ASSUME NEW s \in Stream, Admit(s) PROVE IInv'
  <2>1. /\ phase' = [phase EXCEPT ![s] = "admitting"] /\ phase[s] = "closed"
        /\ UNCHANGED <<metadata, revision, pending, owed, from, mirror, buffer>>
        /\ call'.op = "sweeping" /\ call'.target = s /\ pending = << >>
    BY <1>7 DEF Admit, StartSweep, NoCall, Idle
  <2>2. MutationKeeps
    BY <2>1, PhaseKeeps
  <2>3. phase'[s] = "admitting" /\ \A t \in Stream : t # s => phase'[t] = phase[t]
    BY <2>1 DEF IInv, TypeOK
  <2>4. \A t \in Stream : phase'[t] \in {"closed", "live"} => buffer'[t] = << >>
    BY <2>1, <2>3 DEF IInv, Gates
  <2>5. Gates' /\ Captured'
    BY <2>1, <2>2, <2>3, <2>4 DEF MutationKeeps, Gates, Captured
  <2> QED
    BY <2>2, <2>5 DEF IInv, MutationKeeps
<1>8. ASSUME NEW s \in Stream, TakeSnapshot(s) PROVE IInv'
  <2>1. /\ phase' = [phase EXCEPT ![s] = "replaying"]
        /\ from' = [from EXCEPT ![s] = revision]
        /\ mirror' = [mirror EXCEPT ![s] = Directory]
        /\ UNCHANGED <<metadata, revision, pending, owed, buffer>>
        /\ call' = [call EXCEPT !.op = "replaying"] /\ call.target = s
    BY <1>8 DEF TakeSnapshot
  <2>2. MutationKeeps
    BY <2>1, SnapshotKeeps
  <2>3. call'.op = "replaying" /\ call'.target = s
    BY <2>1 DEF IInv, TypeOK
  <2>4. phase'[s] = "replaying" /\ \A t \in Stream : t # s => phase'[t] = phase[t]
    BY <2>1 DEF IInv, TypeOK
  <2> QED
    BY <2>1, <2>2, <2>3, <2>4 DEF IInv, MutationKeeps, Gates, Captured
<1>9. ASSUME NEW i \in Instance, MutateDuringReplay(i) PROVE IInv'
  <2>1. /\ call.op = "replaying" /\ pending = << >> /\ UNCHANGED <<call, streamVars>>
        /\ \/ i \in Expired /\ RemoveRecord(i, metadata[i].generation)
           \/ \E in \in Input : ObserveInput(i, in)
    BY <1>9 DEF MutateDuringReplay
  <2>2. MutationKeeps
    <3>1. CASE i \in Expired /\ RemoveRecord(i, metadata[i].generation)
      <4>1. metadata[i].generation \in Nat
        BY <3>1 DEF Expired, Published, IInv, TypeOK, Record
      <4> QED
        BY <2>1, <3>1, <4>1, RemoveKeeps
    <3>2. CASE \E in \in Input : ObserveInput(i, in)
      BY <2>1, <3>2, ObserveKeeps
    <3> QED
      BY <2>1, <3>1, <3>2
  <2> QED
    BY <2>1, <2>2 DEF IInv, MutationKeeps, Gates, Captured
<1>10. ASSUME NEW s \in Stream, Replay(s) PROVE IInv'
  <2>1. UNCHANGED <<metadata, call>>
    BY <1>10 DEF Replay
  <2> QED
    BY <1>10, <2>1, ReplayKeeps DEF IInv, MutationKeeps, Captured
<1>11. ASSUME NEW s \in Stream, GoLive(s) PROVE IInv'
  <2>1. /\ phase' = [phase EXCEPT ![s] = "live"] /\ phase[s] = "replaying"
        /\ UNCHANGED <<metadata, revision, pending, owed, from, mirror, buffer>>
        /\ call'.op = "none" /\ buffer[s] = << >>
    BY <1>11 DEF GoLive, NoCall, IInv, Gates
  <2>2. MutationKeeps
    BY <2>1, PhaseKeeps
  <2>3. phase'[s] = "live" /\ \A t \in Stream : t # s => phase'[t] = phase[t]
    BY <2>1 DEF IInv, TypeOK
  <2> QED
    BY <2>1, <2>2, <2>3 DEF IInv, MutationKeeps, Gates, Captured
<1>12. ASSUME NEW s \in Stream, Close(s) \/ AdmissionThrows(s) PROVE IInv'
  <2>1. /\ phase' = [phase EXCEPT ![s] = "closed"]
        /\ UNCHANGED <<metadata, revision, pending>>
        /\ owed' = owed \ {s}
        /\ from' = [from EXCEPT ![s] = 0]
        /\ mirror' = [mirror EXCEPT ![s] = [i \in Instance |-> None]]
        /\ buffer' = [buffer EXCEPT ![s] = << >>]
    BY <1>12 DEF Close, AdmissionThrows, Unsubscribe
  <2>6. \/ call' = NoCall
        \/ call' = call /\ phase[s] = "live"
    BY <1>12 DEF Close, AdmissionThrows
  <2>2. MutationKeeps
    BY <2>1, PhaseKeeps
  <2>3. phase'[s] = "closed" /\ \A t \in Stream : t # s => phase'[t] = phase[t]
    BY <2>1 DEF IInv, TypeOK
  <2>4. call'.op = "replaying" => call' = call /\ call.target # s
    BY <2>6 DEF IInv, Gates, NoCall
  <2>5. call'.op = "sweeping" /\ call'.target # None =>
          call' = call /\ call.target \in Stream /\ call.target # s
    BY <2>6 DEF IInv, Gates, TypeOK, NoCall
  <2>7. \A t \in Stream : phase'[t] \in {"closed", "live"} => buffer'[t] = << >>
    BY <2>1, <2>3 DEF IInv, Gates, TypeOK
  <2>8. Captured'
    BY <2>1, <2>6 DEF IInv, Captured, NoCall
  <2>9. Gates'
    BY <2>1, <2>2, <2>3, <2>4, <2>5, <2>7 DEF IInv, MutationKeeps, Gates
  <2> QED
    BY <2>2, <2>8, <2>9 DEF IInv, MutationKeeps
<1>13. ASSUME NEW s \in Stream, Deliver(s) PROVE IInv'
  <2>1. UNCHANGED <<metadata, call>>
    BY <1>13 DEF Deliver
  <2> QED
    BY <1>13, <2>1, DeliverKeeps DEF IInv, MutationKeeps, Captured
<1>14. ASSUME NextEvent PROVE IInv'
  <2>1. UNCHANGED <<metadata, call>>
    BY <1>14 DEF NextEvent
  <2> QED
    BY <1>14, <2>1, NextEventKeeps DEF IInv, MutationKeeps, Captured
<1>15. ASSUME SweepDuringDispatch PROVE IInv'
  <2>1. /\ UNCHANGED <<call, phase, buffer>>
        /\ metadata' = [i \in Instance |-> IF i \in Expired THEN None ELSE metadata[i]]
    BY <1>15 DEF SweepDuringDispatch
  <2>2. Captured'
    BY <2>1 DEF IInv, Captured
  <2> QED
    BY <1>15, <2>1, <2>2, SweepDuringDispatchKeeps DEF IInv, MutationKeeps, Gates
<1>16. ASSUME NEW s \in Stream, AdmitDuringDispatch(s) PROVE IInv'
  <2>1. /\ phase' = [phase EXCEPT ![s] = "live"] /\ phase[s] = "closed"
        /\ from' = [from EXCEPT ![s] = revision]
        /\ mirror' = [mirror EXCEPT ![s] = Directory]
        /\ UNCHANGED <<metadata, revision, pending, call, buffer>>
        /\ owed' = owed \/ owed' = owed \cup {s}
    BY <1>16 DEF AdmitDuringDispatch
  <2>2. MutationKeeps
    BY <2>1, SnapshotKeeps
  <2>3. phase'[s] = "live" /\ \A t \in Stream : t # s => phase'[t] = phase[t]
    BY <2>1 DEF IInv, TypeOK
  <2>4. call.op = "sweeping" /\ call.target # None => call.target \in Stream
    BY DEF IInv, TypeOK
  <2> QED
    BY <2>1, <2>2, <2>3, <2>4 DEF IInv, MutationKeeps, Gates, Captured
<1>17. ASSUME Tick PROVE IInv'
  <2>1. /\ UNCHANGED <<revision, pending, owed, call, streamVars>>
        /\ \A i \in Instance : metadata'[i] # None =>
             metadata[i] # None /\ View(metadata'[i]) = View(metadata[i])
    <3>1. ASSUME NEW i \in Instance, metadata'[i] # None
          PROVE  metadata[i] # None /\ View(metadata'[i]) = View(metadata[i])
      <4>1. metadata[i] # None /\ metadata[i] \in Record
        BY <1>17, <3>1 DEF Tick, IInv, TypeOK
      <4>2. metadata'[i] \in {metadata[i], [metadata[i] EXCEPT !.age = metadata[i].age + 1]}
        BY <1>17 DEF Tick
      <4> QED
        BY <4>1, <4>2 DEF View, Record
    <3> QED
      BY <1>17, <3>1 DEF Tick
  <2>2. MutationKeeps
    BY <2>1, SilentKeeps
  <2>3. Captured'
    BY <2>1 DEF IInv, Captured
  <2> QED
    BY <2>1, <2>2, <2>3 DEF IInv, MutationKeeps, Gates
<1>18. CASE UNCHANGED vars
  <2>1. MutationKeeps
    BY <1>18, SilentKeeps DEF vars
  <2> QED
    BY <1>18, <2>1 DEF vars, IInv, MutationKeeps, Gates, Captured
<1> QED
  BY <1>1, <1>2, <1>3, <1>4, <1>5, <1>6, <1>7, <1>8, <1>9, <1>10, <1>11, <1>12,
     <1>13, <1>14, <1>15, <1>16, <1>17, <1>18
     DEF Next, Poll, RunCall, Dispatch, Reenter

(* However admission, dispatch and re-entrant calls interleave, the events a  *)
(* stream is still owed bring its card of every published session to the      *)
(* registry's (registry.ts subscribeWithSnapshot, #notify, #emit).            *)
THEOREM CardsAlwaysAgree == Spec => []CardsAgree
<1>1. Spec => []TypeOK
  BY TypeInvariant
<1>2. Init => IInv
  BY IInvInit
<1>3. IInv /\ TypeOK' /\ [Next]_vars => IInv'
  BY IInvStep
<1>4. IInv => CardsAgree
  BY DEF IInv
<1> QED
  BY <1>1, <1>2, <1>3, <1>4, PTL DEF Spec

-----------------------------------------------------------------------------
(* Stops: a record keeps the revision of a stop only while nothing has contradicted it. *)

StopsSteady ==
  \A i \in Published : metadata[i].stop # 0 =>
    /\ metadata[i].busy = "idle" /\ metadata[i].ask = 0
    /\ <<i, metadata[i].stop>> \in steady

(* A revision names a mutation, the first of which is 1.                               *)
Numbered ==
  /\ \A k \in 1 .. Len(pending) : pending[k].revision # 0
  /\ \A e \in alerts : e.revision # 0

StopInv == StopsSteady /\ Numbered

LEMMA EmitNumbered ==
  ASSUME TypeOK, Numbered, NEW events \in Seq(Event), Emit(events), UNCHANGED alerts,
         \A k \in 1 .. Len(events) : events[k].revision # 0
  PROVE  Numbered'
<1>1. /\ pending \in Seq(Event) /\ pending' = pending \o events
  BY DEF TypeOK, Emit
<1>2. ASSUME NEW k \in 1 .. Len(pending') PROVE pending'[k].revision # 0
  <2>1. /\ Len(pending') = Len(pending) + Len(events)
        /\ pending'[k] = IF k <= Len(pending) THEN pending[k] ELSE events[k - Len(pending)]
    BY <1>1, <1>2, ConcatProperties
  <2>2. CASE k <= Len(pending)
    BY <1>1, <1>2, <2>1, <2>2 DEF Numbered
  <2>3. CASE ~(k <= Len(pending))
    <3>1. k - Len(pending) \in 1 .. Len(events)
      BY <1>1, <1>2, <2>1, <2>3
    <3> QED BY <2>1, <2>3, <3>1
  <2> QED BY <2>2, <2>3
<1> QED BY <1>2 DEF Numbered

LEMMA EmitOneNumbered ==
  ASSUME TypeOK, Numbered, NEW e \in Event, Emit(<<e>>), UNCHANGED alerts, e.revision # 0
  PROVE  Numbered'
<1> DEFINE events == <<e>>
<1>1. events \in Seq(Event) /\ \A k \in 1 .. Len(events) : events[k] = e
  OBVIOUS
<1>2. Emit(events)
  OBVIOUS
<1> HIDE DEF events
<1> QED BY <1>1, <1>2, EmitNumbered

(* The removal of an expired record, as it was published.                             *)
IsRemoval(e) ==
  /\ e.type = "remove" /\ e.card = None /\ e.instance \in Expired
  /\ e.generation = metadata[e.instance].generation

(* A nested sweep queues one removal per expired record, each with a revision of its own. *)
LEMMA SweepQueues ==
  ASSUME TypeOK, SweepDuringDispatch
  PROVE  \E n \in Nat :
           /\ Len(pending') = Len(pending) + n /\ revision' = revision + n
           /\ \A k \in 1 .. Len(pending') :
                IF k <= Len(pending) THEN pending'[k] = pending[k]
                ELSE /\ pending'[k].revision = revision + (k - Len(pending))
                     /\ IsRemoval(pending'[k])
           /\ \A i \in Expired : \E k \in 1 .. Len(pending') :
                k > Len(pending) /\ pending'[k].instance = i
<1> DEFINE n == Cardinality(Expired)
<1>1. PICK order \in [1 .. n -> Expired] :
        /\ \A i \in Expired : \E k \in 1 .. n : order[k] = i
        /\ pending' = pending \o
             [k \in 1 .. n |->
                RemoveEvent(order[k], metadata[order[k]].generation, revision + k)]
  BY DEF SweepDuringDispatch
<1> DEFINE removal(k) == RemoveEvent(order[k], metadata[order[k]].generation, revision + k)
           tail == [k \in 1 .. n |-> removal(k)]
<1>2. n \in Nat /\ revision \in Nat /\ pending \in Seq(Event)
  BY ExpiredFinite DEF TypeOK
<1>3. ASSUME NEW k \in 1 .. n
      PROVE  /\ removal(k) \in Event /\ removal(k).revision = revision + k
             /\ removal(k).instance = order[k] /\ IsRemoval(removal(k))
  <2>1. order[k] \in Instance /\ metadata[order[k]] \in Record
    <3>1. order[k] \in Expired
      BY <1>1, <1>3
    <3> QED BY <3>1 DEF TypeOK, Expired, Published
  <2>2. metadata[order[k]].generation \in Nat /\ revision + k \in Nat
    BY <1>2, <1>3, <2>1 DEF Record
  <2> QED BY <1>1, <1>3, <2>1, <2>2 DEF Event, RemoveEvent, IsRemoval
<1>4. /\ tail \in Seq(Event) /\ Len(tail) = n
      /\ \A k \in 1 .. n : /\ tail[k].revision = revision + k /\ IsRemoval(tail[k])
                             /\ tail[k].instance = order[k]
  <2> HIDE DEF removal, n
  <2>1. tail \in Seq(Event)
    BY <1>2, <1>3, IsASeq
  <2> QED BY <1>2, <1>3, <2>1
<1>5. pending' = pending \o tail /\ revision' = revision + n
  BY <1>1 DEF SweepDuringDispatch
<1> HIDE DEF tail, n
<1>6. /\ Len(pending') = Len(pending) + n
      /\ \A k \in 1 .. Len(pending') :
           pending'[k] = IF k <= Len(pending) THEN pending[k] ELSE tail[k - Len(pending)]
  <2>1. /\ Len(pending \o tail) = Len(pending) + Len(tail)
        /\ \A k \in 1 .. Len(pending) + Len(tail) :
             (pending \o tail)[k] = IF k <= Len(pending) THEN pending[k]
                                   ELSE tail[k - Len(pending)]
    BY <1>2, <1>4, ConcatProperties
  <2> QED BY <1>4, <1>5, <2>1
<1>7. ASSUME NEW k \in 1 .. Len(pending'), ~(k <= Len(pending))
      PROVE  k - Len(pending) \in 1 .. n
  BY <1>2, <1>6, <1>7
<1>8. ASSUME NEW i \in Expired
      PROVE  \E k \in 1 .. Len(pending') : k > Len(pending) /\ pending'[k].instance = i
  <2>1. PICK j \in 1 .. n : order[j] = i
    BY <1>1 DEF n
  <2>2. /\ Len(pending) + j \in 1 .. Len(pending') /\ Len(pending) + j > Len(pending)
        /\ ~(Len(pending) + j <= Len(pending)) /\ (Len(pending) + j) - Len(pending) = j
    BY <1>2, <1>6, <2>1
  <2> QED BY <1>4, <1>6, <2>1, <2>2
<1> QED BY <1>2, <1>4, <1>5, <1>6, <1>7, <1>8

LEMMA RemoveSteady ==
  ASSUME TypeOK, StopInv, NEW i \in Instance, NEW g \in Nat, RemoveRecord(i, g),
         UNCHANGED alerts
  PROVE  StopInv'
<1> DEFINE e == RemoveEvent(i, g, revision + 1)
<1>1. revision + 1 \in Nat /\ revision + 1 # 0
  BY DEF TypeOK
<1>2. e \in Event /\ e.revision # 0
  BY <1>1 DEF RemoveEvent, Event
<1> HIDE DEF e
<1>3. Numbered'
  BY <1>2, EmitOneNumbered DEF RemoveRecord, StopInv, e
<1>4. /\ metadata' = [metadata EXCEPT ![i] = None]
      /\ steady' = {p \in steady : p[1] # i}
  BY DEF RemoveRecord, Disturb
<1>5. StopsSteady'
  BY <1>4 DEF TypeOK, StopInv, StopsSteady, Published
<1> QED BY <1>3, <1>5 DEF StopInv

LEMMA ForgetSteady ==
  ASSUME TypeOK, StopInv, NEW i \in Instance, NEW r \in Record, ForgetActivity(i, r),
         metadata[i] # None => View(r) = View(metadata[i]), UNCHANGED alerts
  PROVE  StopInv'
<1>1. steady' = {p \in steady : p[1] # i}
  BY DEF ForgetActivity, Disturb
<1>2. metadata[i] # None => metadata[i] \in Record /\ r.busy = metadata[i].busy
  BY DEF TypeOK, View, Record
<1>3. CASE r.busy = "unknown"
  <2>1. UNCHANGED <<metadata, pending>>
    BY <1>3 DEF ForgetActivity
  <2>2. StopsSteady'
    <3> SUFFICES ASSUME NEW j \in Instance, metadata[j] # None, metadata[j].stop # 0
                 PROVE  /\ metadata[j].busy = "idle" /\ metadata[j].ask = 0
                        /\ <<j, metadata[j].stop>> \in steady'
      BY <2>1 DEF StopsSteady, Published
    <3>1. metadata[j].busy = "idle" /\ metadata[j].ask = 0 /\ <<j, metadata[j].stop>> \in steady
      BY DEF StopInv, StopsSteady, Published
    <3>2. j # i
      BY <1>2, <1>3, <3>1
    <3> QED BY <1>1, <3>1, <3>2
  <2>3. Numbered'
    BY <2>1 DEF StopInv, Numbered
  <2> QED BY <2>2, <2>3 DEF StopInv
<1>4. CASE r.busy # "unknown"
  <2> DEFINE q == [r EXCEPT !.busy = "unknown"]
             e == UpsertEvent(i, q, revision + 1)
             kept == [metadata[i] EXCEPT !.busy = "unknown", !.stop = 0]
  <2>1. revision + 1 \in Nat /\ revision + 1 # 0
    BY DEF TypeOK
  <2>2. q \in Record
    BY DEF Record
  <2>3. e \in Event /\ e.revision # 0
    <3>1. e \in Event
      BY <2>1, <2>2, EventTypes
    <3>2. e.revision = revision + 1
      BY DEF UpsertEvent
    <3> QED BY <2>1, <3>1, <3>2
  <2>4. Emit(<<e>>)
    BY <1>4 DEF ForgetActivity
  <2> HIDE DEF e, q
  <2>5. Numbered'
    BY <2>3, <2>4, EmitOneNumbered DEF StopInv
  <2>6. metadata' = IF metadata[i] = None THEN metadata ELSE [metadata EXCEPT ![i] = kept]
    BY <1>4 DEF ForgetActivity
  <2>7. metadata[i] # None => kept.stop = 0
    BY <1>2 DEF Record
  <2> HIDE DEF kept
  <2>8. StopsSteady'
    BY <1>1, <2>6, <2>7 DEF TypeOK, StopInv, StopsSteady, Published
  <2> QED BY <2>5, <2>8 DEF StopInv
<1> QED BY <1>3, <1>4

LEMMA StoreSteady ==
  ASSUME TypeOK, StopInv, NEW i \in Instance, NEW in \in Input, Store(i, in), UNCHANGED alerts
  PROVE  StopInv'
<1> DEFINE old == metadata[i]
           n == revision + 1
           new == Refreshed(old, in, n)
<1>1. n \in Nat /\ n # 0 /\ new \in Record /\ requests + 1 \in Nat /\ requests + 1 # 0
  BY StoreNew DEF TypeOK
<1>2. /\ new.busy = in.busy /\ new.ask = RequestFor(old, in)
      /\ new.stop = StopRevision(old, in, n)
  BY DEF Refreshed
<1>3. Undisturbed(old, in) <=> Continues(old, in) /\ in.busy = "idle" /\ ~in.asking
  BY DEF Undisturbed, Continues
<1>4. new.ask = 0 <=> ~in.asking
  <2>1. in.asking \in BOOLEAN
    BY DEF Input
  <2> QED BY <1>1, <1>2, <2>1 DEF RequestFor
<1>5. /\ \A p \in steady : p[1] # i \/ Undisturbed(old, in) => p \in steady'
      /\ Stopped(old, in) => <<i, n>> \in steady'
  <2>1. steady' = (IF Undisturbed(old, in) THEN steady
                   ELSE {p \in steady : p[1] # i})
                  \cup (IF Undisturbed(old, in) /\ old.busy = "busy" /\ old.ask = 0
                        THEN {<<i, n>>} ELSE {})
    BY DEF Store
  <2>2. Stopped(old, in) => Undisturbed(old, in) /\ old.busy = "busy" /\ old.ask = 0
    BY <1>3 DEF Stopped
  <2> QED BY <2>1, <2>2
<1>6. old # None /\ old.stop # 0 =>
        old.busy = "idle" /\ old.ask = 0 /\ <<i, old.stop>> \in steady
  BY DEF StopInv, StopsSteady, Published
<1>7. \A j \in Instance : j # i /\ metadata'[j] = metadata[j] /\ metadata[j] # None
                          /\ metadata[j].stop # 0 =>
        metadata[j].busy = "idle" /\ metadata[j].ask = 0 /\ <<j, metadata[j].stop>> \in steady'
  BY <1>5 DEF StopInv, StopsSteady, Published
<1>8. CASE Continues(old, in) /\ View(old) = View(new)
  <2> DEFINE kept == [new EXCEPT !.stop = old.stop]
  <2>1. metadata' = [metadata EXCEPT ![i] = kept] /\ UNCHANGED pending
    BY <1>8 DEF Store
  <2>2. old # None /\ old \in Record
    BY <1>8 DEF Continues, TypeOK
  <2>3. kept.stop = old.stop /\ kept.busy = new.busy /\ kept.ask = new.ask
    BY <1>1, <2>2 DEF Record
  <2>4. old.busy = new.busy /\ old.ask = new.ask
    BY <1>8 DEF View
  <2>5. old.stop # 0 => Undisturbed(old, in)
    BY <1>2, <1>3, <1>4, <1>6, <1>8, <2>2, <2>4
  <2>6. kept.stop # 0 => kept.busy = "idle" /\ kept.ask = 0 /\ <<i, kept.stop>> \in steady'
    BY <1>5, <1>6, <2>2, <2>3, <2>4, <2>5
  <2> HIDE DEF kept, new, old
  <2>7. metadata'[i] = kept /\ \A j \in Instance : j # i => metadata'[j] = metadata[j]
    BY <2>1 DEF TypeOK
  <2>8. StopsSteady'
    BY <1>7, <2>6, <2>7 DEF StopsSteady, Published
  <2> QED BY <2>1, <2>8 DEF StopInv, Numbered
<1>9. CASE ~(Continues(old, in) /\ View(old) = View(new))
  <2> DEFINE u == UpsertEvent(i, new, n)
             e == StopEvent(i, new, n)
             events == IF Stopped(old, in) THEN <<u, e>> ELSE <<u>>
  <2>1. metadata' = [metadata EXCEPT ![i] = new] /\ Emit(events)
    BY <1>9 DEF Store
  <2>2. u \in Event /\ e \in Event /\ u.revision = n /\ e.revision = n
    <3>1. u \in Event /\ e \in Event
      BY <1>1, EventTypes
    <3> QED BY <3>1 DEF UpsertEvent, StopEvent
  <2>3. new.stop # 0 => new.busy = "idle" /\ new.ask = 0 /\ <<i, new.stop>> \in steady'
    <3>1. CASE Stopped(old, in)
      BY <1>2, <1>4, <1>5, <3>1 DEF Stopped, StopRevision
    <3>2. CASE ~Stopped(old, in) /\ Undisturbed(old, in)
      <4>1. new.stop = old.stop /\ new.busy = "idle" /\ new.ask = 0 /\ old # None
        BY <1>2, <1>3, <1>4, <3>2 DEF StopRevision, Continues
      <4> QED BY <1>5, <1>6, <3>2, <4>1
    <3>3. CASE ~Stopped(old, in) /\ ~Undisturbed(old, in)
      BY <1>2, <1>3, <3>3 DEF StopRevision
    <3> QED BY <3>1, <3>2, <3>3
  <2> HIDE DEF u, e, new, old
  <2>4. events \in Seq(Event) /\ \A k \in 1 .. Len(events) : events[k] \in {u, e}
    BY <2>2
  <2> HIDE DEF events
  <2>5. Numbered'
    BY <1>1, <2>1, <2>2, <2>4, EmitNumbered DEF StopInv
  <2>6. metadata'[i] = new /\ \A j \in Instance : j # i => metadata'[j] = metadata[j]
    BY <2>1 DEF TypeOK
  <2>7. StopsSteady'
    BY <1>7, <2>3, <2>6 DEF StopsSteady, Published
  <2> QED BY <2>5, <2>7 DEF StopInv
<1> QED BY <1>8, <1>9

LEMMA ObserveSteady ==
  ASSUME TypeOK, StopInv, NEW i \in Instance, NEW in \in Input, ObserveInput(i, in),
         UNCHANGED alerts
  PROVE  StopInv'
<1>1. CASE metadata[i] # None /\ ForgetActivity(i, metadata[i])
  <2>1. metadata[i] \in Record
    BY <1>1 DEF TypeOK
  <2> QED BY <1>1, <2>1, ForgetSteady
<1>2. CASE UNCHANGED <<registryVars, queueVars, steady>>
  BY <1>2 DEF registryVars, queueVars, StopInv, StopsSteady, Numbered, Published
<1>3. CASE Store(i, in)
  BY <1>3, StoreSteady
<1> QED BY <1>1, <1>2, <1>3 DEF ObserveInput

LEMMA StopStep == ASSUME IInv, StopInv, [Next]_vars PROVE StopInv'
<1>1. TypeOK
  BY DEF IInv
<1>2. CASE UNCHANGED <<metadata, pending, alerts, steady>>
  BY <1>2 DEF StopInv, StopsSteady, Numbered, Published
<1>3. ASSUME NEW i \in Instance, NEW in \in Input, Observe(i, in) PROVE StopInv'
  BY <1>1, <1>3, ObserveSteady DEF Observe
<1>4. ASSUME NEW i \in Instance, Retire(i) PROVE StopInv'
  <2>1. /\ call.work[i] \in Record /\ call.work[i].generation \in Nat
        /\ metadata[i] # None => View(call.work[i]) = View(metadata[i])
        /\ UNCHANGED alerts
    BY <1>1, <1>4 DEF TypeOK, Retire, IInv, Captured, Record
  <2> QED BY <1>1, <1>4, <2>1, ForgetSteady, RemoveSteady DEF Retire
<1>5. ASSUME NEW i \in Instance, SweepRemove(i) PROVE StopInv'
  <2>1. call.work[i].generation \in Nat
    BY <1>1, <1>5 DEF TypeOK, SweepRemove, Record
  <2> QED BY <1>1, <1>5, <2>1, RemoveSteady DEF SweepRemove
<1>6. ASSUME NEW i \in Instance, MutateDuringReplay(i) PROVE StopInv'
  <2>1. CASE i \in Expired /\ RemoveRecord(i, metadata[i].generation)
    <3>1. metadata[i].generation \in Nat
      BY <1>1, <2>1 DEF TypeOK, Expired, Published, Record
    <3> QED BY <1>1, <1>6, <2>1, <3>1, RemoveSteady DEF MutateDuringReplay
  <2>2. CASE \E in \in Input : ObserveInput(i, in)
    BY <1>1, <1>6, <2>2, ObserveSteady DEF MutateDuringReplay
  <2> QED BY <1>6, <2>1, <2>2 DEF MutateDuringReplay
<1>7. ASSUME NextEvent PROVE StopInv'
  <2>1. /\ pending \in Seq(Event) /\ pending # << >> /\ pending' = Tail(pending)
        /\ alerts' \subseteq alerts \cup {Head(pending)} /\ UNCHANGED <<metadata, steady>>
    BY <1>1, <1>7 DEF NextEvent, TypeOK, registryVars
  <2>2. /\ Len(pending) \in Nat /\ Len(pending') = Len(pending) - 1
        /\ \A k \in 1 .. Len(pending') : pending'[k] = pending[k + 1]
        /\ Head(pending) = pending[1] /\ 1 \in 1 .. Len(pending)
    BY <2>1, HeadTailProperties
  <2> QED BY <2>1, <2>2 DEF StopInv, StopsSteady, Numbered, Published
<1>8. ASSUME SweepDuringDispatch PROVE StopInv'
  <2>1. PICK n \in Nat :
          /\ Len(pending') = Len(pending) + n /\ revision' = revision + n
          /\ \A k \in 1 .. Len(pending') :
               IF k <= Len(pending) THEN pending'[k] = pending[k]
               ELSE pending'[k].revision = revision + (k - Len(pending))
    BY <1>1, <1>8, SweepQueues
  <2>2. pending \in Seq(Event) /\ revision \in Nat
    BY <1>1 DEF TypeOK
  <2>6. \A k \in 1 .. Len(pending') : pending'[k].revision # 0
    BY <2>1, <2>2 DEF StopInv, Numbered
  <2>7. StopsSteady'
    <3>1. /\ metadata' = [i \in Instance |-> IF i \in Expired THEN None ELSE metadata[i]]
          /\ steady' = {p \in steady : p[1] \notin Expired}
      BY <1>8 DEF SweepDuringDispatch
    <3> QED BY <3>1 DEF StopInv, StopsSteady, Published
  <2> QED BY <1>8, <2>6, <2>7 DEF StopInv, Numbered, SweepDuringDispatch
<1>9. ASSUME Tick PROVE StopInv'
  <2>1. UNCHANGED <<pending, alerts, steady>>
    BY <1>9 DEF Tick, queueVars, stopVars
  <2>2. ASSUME NEW i \in Instance, metadata'[i] # None
        PROVE  /\ metadata[i] # None /\ metadata'[i].stop = metadata[i].stop
               /\ metadata'[i].busy = metadata[i].busy /\ metadata'[i].ask = metadata[i].ask
    <3>1. metadata[i] # None /\ metadata[i] \in Record
      BY <1>1, <1>9, <2>2 DEF Tick, TypeOK
    <3>2. metadata'[i] \in {metadata[i], [metadata[i] EXCEPT !.age = metadata[i].age + 1]}
      BY <1>9 DEF Tick
    <3> QED BY <3>1, <3>2 DEF Record
  <2>3. StopsSteady'
    BY <2>1, <2>2 DEF StopInv, StopsSteady, Published
  <2> QED BY <2>1, <2>3 DEF StopInv, Numbered
<1>10. ASSUME NEW e \in alerts, SettleAlert(e) PROVE StopInv'
  <2>1. UNCHANGED <<metadata, pending, steady>> /\ alerts' \subseteq alerts
    BY <1>10 DEF SettleAlert, registryVars, queueVars
  <2> QED BY <2>1 DEF StopInv, StopsSteady, Numbered, Published
<1>11. CASE Poll \/ Sweep \/ Clear \/ \E s \in Stream : Admit(s) \/ Close(s) \/ AdmissionThrows(s)
  BY <1>2, <1>11 DEF Poll, Reconcile, Sweep, Clear, Admit, Close, AdmissionThrows, registryVars, queueVars,
     stopVars
<1>12. CASE ObserveDone \/ RetireDone \/ SweepDone
            \/ \E s \in Stream : TakeSnapshot(s) \/ Replay(s) \/ GoLive(s)
  BY <1>2, <1>12 DEF ObserveDone, RetireDone, SweepDone, TakeSnapshot, Replay, GoLive,
     registryVars, queueVars, stopVars
<1>13. CASE \E s \in Stream : Deliver(s) \/ AdmitDuringDispatch(s)
  BY <1>2, <1>13 DEF Deliver, AdmitDuringDispatch, registryVars, stopVars
<1>14. CASE UNCHANGED vars
  BY <1>2, <1>14 DEF vars
<1> QED
  BY <1>3, <1>4, <1>5, <1>6, <1>7, <1>8, <1>9, <1>10, <1>11, <1>12, <1>13, <1>14
     DEF Next, RunCall, Dispatch, Reenter

(* The run of an alert is late, and the clock and the polls are not: a queued stop that   *)
(* still passes isCurrentActivityStop was not contradicted since its edge (registry.ts,   *)
(* #observe and isCurrentActivityStop; push.ts, which sends it later).                    *)
THEOREM StopsStayTrue == Spec => []StopStillTrue
<1>1. Init => IInv /\ StopInv
  <2>1. Init => StopInv
    BY DEF Init, StopInv, StopsSteady, Numbered, Published
  <2> QED BY <2>1, IInvInit
<1>2. IInv /\ StopInv /\ TypeOK' /\ [Next]_vars => (IInv /\ StopInv)'
  BY IInvStep, StopStep
<1>3. TypeOK /\ StopInv => StopStillTrue
  <2> SUFFICES ASSUME TypeOK, StopInv, NEW e \in alerts, CurrentStop(e)
               PROVE  <<e.instance, e.revision>> \in steady
    BY DEF StopStillTrue
  <2>1. /\ metadata[e.instance] # None /\ metadata[e.instance].stop = e.revision
        /\ e.revision # 0
    BY DEF CurrentStop, StopInv, Numbered
  <2>2. e.instance \in Instance
    BY DEF TypeOK, Event
  <2> QED BY <2>1, <2>2 DEF StopInv, StopsSteady, Published
<1> QED BY TypeInvariant, <1>1, <1>2, <1>3, PTL DEF Spec

-----------------------------------------------------------------------------
(* Capacity: only an observation publishes, and only while there is room.      *)

(* The published sessions grow by one at most, and only below the capacity.    *)
MayPublish ==
  \/ Published' \subseteq Published
  \/ /\ Cardinality(Published) < MaxSessions
     /\ \E i \in Instance : Published' \subseteq Published \cup {i}

LEMMA ObservePublishes ==
  ASSUME TypeOK, NEW i \in Instance, NEW in \in Input, ObserveInput(i, in)
  PROVE  MayPublish
<1>1. CASE ForgetActivity(i, metadata[i])
  BY <1>1 DEF ForgetActivity, MayPublish, Published, TypeOK
<1>2. CASE UNCHANGED metadata
  BY <1>2 DEF MayPublish, Published
<1>3. CASE Store(i, in) /\ (metadata[i] = None => Cardinality(Published) < MaxSessions)
  <2>1. \A j \in Instance : j # i => metadata'[j] = metadata[j]
    BY <1>3 DEF Store, TypeOK
  <2> QED BY <1>3, <2>1 DEF MayPublish, Published
<1> QED BY <1>1, <1>2, <1>3 DEF ObserveInput, registryVars

LEMMA CapacityStep ==
  ASSUME TypeOK, Cardinality(Published) <= MaxSessions, [Next]_vars
  PROVE  (Cardinality(Published) <= MaxSessions)'
<1>1. IsFiniteSet(Published) /\ IsFiniteSet(Published')
  BY ConstantsAssumption, FS_Subset, Published \subseteq Instance, Published' \subseteq Instance
     DEF Published
<1>2. MayPublish
  <2>1. ASSUME NEW i \in Instance, NEW in \in Input, Observe(i, in) PROVE MayPublish
    BY <2>1, ObservePublishes DEF Observe
  <2>2. ASSUME NEW i \in Instance, NEW g, RemoveRecord(i, g) PROVE MayPublish
    BY <2>2 DEF RemoveRecord, MayPublish, Published, TypeOK
  <2>3. ASSUME NEW i \in Instance, Retire(i) \/ SweepRemove(i) PROVE MayPublish
    <3>1. CASE \E g : RemoveRecord(i, g)
      BY <2>2, <3>1
    <3>2. CASE ForgetActivity(i, call.work[i])
      BY <3>2 DEF ForgetActivity, MayPublish, Published, TypeOK
    <3> QED BY <2>3, <3>1, <3>2 DEF Retire, SweepRemove
  <2>4. ASSUME NEW i \in Instance, MutateDuringReplay(i) PROVE MayPublish
    BY <2>2, <2>4, ObservePublishes DEF MutateDuringReplay
  <2>5. CASE SweepDuringDispatch \/ Tick
    BY <2>5 DEF SweepDuringDispatch, Tick, MayPublish, Published
  <2>6. CASE UNCHANGED metadata
    BY <2>6 DEF MayPublish, Published
  <2>7. CASE Poll \/ Sweep \/ Clear \/ \E s \in Stream : Admit(s) \/ Close(s) \/ AdmissionThrows(s)
    BY <2>6, <2>7 DEF Poll, Reconcile, Sweep, Clear, Admit, Close, AdmissionThrows, registryVars
  <2>8. CASE ObserveDone \/ RetireDone \/ SweepDone
              \/ \E s \in Stream : TakeSnapshot(s) \/ Replay(s) \/ GoLive(s)
    BY <2>6, <2>8 DEF ObserveDone, RetireDone, SweepDone, TakeSnapshot, Replay, GoLive,
       registryVars
  <2>9. CASE NextEvent \/ (\E s \in Stream : Deliver(s) \/ AdmitDuringDispatch(s))
             \/ \E e \in alerts : SettleAlert(e)
    BY <2>6, <2>9 DEF NextEvent, Deliver, AdmitDuringDispatch, SettleAlert, registryVars
  <2>10. CASE UNCHANGED vars
    BY <2>6, <2>10 DEF vars
  <2> QED BY <2>1, <2>3, <2>4, <2>5, <2>7, <2>8, <2>9, <2>10 DEF Next, RunCall, Dispatch, Reenter
<1>3. Cardinality(Published) \in Nat /\ Cardinality(Published') \in Nat /\ MaxSessions \in Nat
  BY <1>1, ConstantsAssumption, FS_CardinalityType
<1>4. CASE Published' \subseteq Published
  <2>1. Cardinality(Published') <= Cardinality(Published)
    BY <1>1, <1>4, FS_Subset
  <2> QED BY <1>3, <2>1
<1>5. CASE Cardinality(Published) < MaxSessions /\ \E i \in Instance : Published' \subseteq Published \cup {i}
  <2>1. PICK i \in Instance : Published' \subseteq Published \cup {i}
    BY <1>5
  <2>2. /\ IsFiniteSet(Published \cup {i})
        /\ Cardinality(Published \cup {i}) \in {Cardinality(Published), Cardinality(Published) + 1}
    BY <1>1, FS_AddElement
  <2>3. Cardinality(Published') <= Cardinality(Published \cup {i})
    BY <2>1, <2>2, FS_Subset
  <2> QED BY <1>3, <1>5, <2>2, <2>3
<1> QED BY <1>2, <1>4, <1>5 DEF MayPublish

(* However polls, sweeps and re-entrant listeners interleave, no more sessions are         *)
(* published than registry.maxSessions: the check of #observe (registry.ts 219) and the    *)
(* insertion it guards are one step, since nothing is called in between.                   *)
THEOREM CapacityIsKept == Spec => []WithinCapacity
<1>1. Init => Cardinality(Published) <= MaxSessions
  <2>1. Init => Published = {}
    BY DEF Init, Published
  <2> QED BY <2>1, FS_EmptySet, ConstantsAssumption
<1>2. TypeOK /\ Cardinality(Published) <= MaxSessions /\ [Next]_vars
        => (Cardinality(Published) <= MaxSessions)'
  BY CapacityStep
<1>3. TypeOK /\ Cardinality(Published) <= MaxSessions => WithinCapacity
  BY DEF WithinCapacity
<1> QED BY TypeInvariant, <1>1, <1>2, <1>3, PTL DEF Spec

-----------------------------------------------------------------------------
(* What one mutation announces while nothing is being dispatched.             *)

(* e does not take the card c back: it removes that very generation, or shows *)
(* no earlier one.                                                            *)
Supersedes(e, c) ==
  IF e.type = "remove" THEN e.generation = c.generation
  ELSE e.card.generation >= c.generation

(* c is what a reader that was told everything holds of i, when m and o are   *)
(* the metadata and the orphans: the card of the registry, or nothing, or the *)
(* card of a record announced after its removal.                             *)
Word(m, o, i, c) ==
  IF m[i] = None THEN c = None \/ <<i, c.generation>> \in o ELSE c = View(m[i])

(* Nothing a reader can see has moved.                                        *)
Quiet ==
  /\ UNCHANGED <<revision, pending, owed, orphans>>
  /\ \A j \in Instance : metadata'[j] = None <=> metadata[j] = None
  /\ \A j \in Instance : metadata[j] # None => View(metadata'[j]) = View(metadata[j])

(* One event, and perhaps the stop that goes with it.                         *)
Announced(i, events) ==
  /\ events \in Seq(Event) /\ Len(events) \in {1, 2}
  /\ pending' = events /\ owed' = Registered /\ revision' = revision + 1
  /\ \A k \in 1 .. Len(events) : events[k].revision = revision + 1
  /\ events[1].type # "stop" /\ events[1].instance = i
  /\ \A k \in 1 .. Len(events) : k # 1 => events[k].type = "stop"
  /\ \A j \in Instance : j # i => metadata'[j] = metadata[j]
  /\ orphans \subseteq orphans'
  /\ metadata[i] # None => Supersedes(events[1], View(metadata[i]))
  /\ Word(metadata', orphans', i, events[1].card)

Mutated(i) == Quiet \/ \E events : Announced(i, events)

LEMMA OneMutates ==
  ASSUME NEW i \in Instance, NEW e \in Event, pending = << >>, Emit(<<e>>),
         revision' = revision + 1, e.revision = revision + 1,
         e.type # "stop", e.instance = i,
         \A j \in Instance : j # i => metadata'[j] = metadata[j],
         orphans \subseteq orphans',
         metadata[i] # None => Supersedes(e, View(metadata[i])),
         Word(metadata', orphans', i, e.card)
  PROVE  Mutated(i)
<1> DEFINE events == <<e>>
<1>1. events \in Seq(Event) /\ Len(events) = 1 /\ events[1] = e
  OBVIOUS
<1>2. pending' = events /\ owed' = Registered
  <2>1. << >> \o events = events
    BY <1>1, ConcatEmptySeq
  <2> QED BY <2>1 DEF Emit
<1> HIDE DEF events
<1>3. \A k \in 1 .. Len(events) : k = 1
  BY <1>1
<1>4. /\ \A k \in 1 .. Len(events) : events[k].revision = revision + 1
      /\ events[1].type # "stop" /\ events[1].instance = i
      /\ \A k \in 1 .. Len(events) : k # 1 => events[k].type = "stop"
  BY <1>1, <1>3
<1>5. Word(metadata', orphans', i, events[1].card)
  BY <1>1
<1>6. metadata[i] # None => Supersedes(events[1], View(metadata[i]))
  BY <1>1
<1> QED BY <1>1, <1>2, <1>4, <1>5, <1>6 DEF Mutated, Announced

LEMMA RemoveMutates ==
  ASSUME TypeOK, NEW i \in Instance, NEW g \in Nat, pending = << >>, RemoveRecord(i, g),
         metadata[i] # None => metadata[i].generation = g
  PROVE  Mutated(i)
<1> DEFINE e == RemoveEvent(i, g, revision + 1)
<1>1. revision + 1 \in Nat
  BY DEF TypeOK
<1>2. /\ e \in Event /\ e.instance = i /\ e.revision = revision + 1
      /\ e.type = "remove" /\ e.generation = g /\ e.card = None
  BY <1>1 DEF RemoveEvent, Event
<1>3. /\ Emit(<<e>>) /\ revision' = revision + 1 /\ orphans \subseteq orphans'
      /\ metadata' = [metadata EXCEPT ![i] = None]
  BY DEF RemoveRecord
<1>4. metadata'[i] = None /\ \A j \in Instance : j # i => metadata'[j] = metadata[j]
  BY <1>3 DEF TypeOK
<1> HIDE DEF e
<1>5. Word(metadata', orphans', i, e.card)
  BY <1>2, <1>4 DEF Word
<1>6. metadata[i] # None => Supersedes(e, View(metadata[i]))
  BY <1>2 DEF Supersedes, View
<1> QED BY <1>2, <1>3, <1>4, <1>5, <1>6, OneMutates

LEMMA ForgetMutates ==
  ASSUME TypeOK, NEW i \in Instance, NEW r \in Record, pending = << >>, ForgetActivity(i, r),
         metadata[i] # None => View(r) = View(metadata[i])
  PROVE  Mutated(i)
<1> DEFINE q == [r EXCEPT !.busy = "unknown"]
           e == UpsertEvent(i, q, revision + 1)
           m == [metadata[i] EXCEPT !.busy = "unknown", !.stop = 0]
<1>1. CASE r.busy = "unknown"
  BY <1>1 DEF ForgetActivity, Quiet, Mutated
<1>2. CASE r.busy # "unknown"
  <2>0. q \in Record
    BY DEF Record
  <2>1. q \in Record /\ revision + 1 \in Nat
    <3>1. revision + 1 \in Nat
      BY DEF TypeOK
    <3> QED BY <2>0, <3>1
  <2>2. e \in Event
    BY <2>1, EventTypes
  <2>3. /\ e.instance = i /\ e.revision = revision + 1 /\ e.type = "upsert"
        /\ e.card = View(q)
    BY DEF UpsertEvent
  <2>4. /\ Emit(<<e>>) /\ revision' = revision + 1
        /\ metadata' = IF metadata[i] = None THEN metadata ELSE [metadata EXCEPT ![i] = m]
        /\ orphans' = orphans \cup (IF metadata[i] = None THEN {<<i, r.generation>>} ELSE {})
    BY <1>2 DEF ForgetActivity
  <2>5. View(q).generation = r.generation
    BY DEF View, Record
  <2>6. CASE metadata[i] = None
    <3>1. metadata' = metadata /\ <<i, e.card.generation>> \in orphans'
      BY <2>3, <2>4, <2>5, <2>6
    <3> HIDE DEF e, q, m
    <3>2. Word(metadata', orphans', i, e.card)
      BY <2>6, <3>1 DEF Word
    <3> QED BY <2>2, <2>3, <2>4, <2>6, <3>1, <3>2, OneMutates
  <2>7. CASE metadata[i] # None
    <3>1. metadata[i] \in Record /\ m \in Record
      BY <2>7 DEF TypeOK, Record
    <3>2. View(m) = View(q) /\ r.generation = View(metadata[i]).generation
      <4>1. /\ r.generation = metadata[i].generation /\ r.label = metadata[i].label
            /\ r.ask = metadata[i].ask
        BY <2>7 DEF View
      <4> QED BY <3>1, <4>1 DEF View, Record
    <3> HIDE DEF e, q, m
    <3>3. metadata'[i] = m /\ m # None /\ \A j \in Instance : j # i => metadata'[j] = metadata[j]
      BY <2>4, <2>7, <3>1, NoneIsNoCard DEF TypeOK
    <3>4. Word(metadata', orphans', i, e.card)
      BY <2>3, <3>2, <3>3 DEF Word
    <3>5. Supersedes(e, View(metadata[i]))
      <4>1. r.generation \in Nat
        BY DEF Record
      <4> QED BY <2>3, <2>5, <3>2, <4>1 DEF Supersedes
    <3> QED BY <2>2, <2>3, <2>4, <3>3, <3>4, <3>5, OneMutates
  <2> QED BY <2>6, <2>7
<1> QED BY <1>1, <1>2

LEMMA StoreMutates ==
  ASSUME TypeOK, NEW i \in Instance, NEW in \in Input, pending = << >>, Store(i, in),
         metadata[i] # None => in.generation >= metadata[i].generation
  PROVE  Mutated(i)
<1> DEFINE old == metadata[i]
           new == Refreshed(old, in, revision + 1)
<1>1. new \in Record /\ revision + 1 \in Nat /\ (old # None => old \in Record)
  BY StoreNew DEF TypeOK
<1>2. View(new).generation = in.generation
  BY DEF View, Refreshed
<1>3. orphans' = orphans
  BY DEF Store
<1>4. CASE Continues(old, in) /\ View(old) = View(new)
  <2> DEFINE kept == [new EXCEPT !.stop = old.stop]
  <2>1. metadata' = [metadata EXCEPT ![i] = kept] /\ UNCHANGED <<revision, pending, owed>>
    BY <1>4 DEF Store
  <2>2. old # None /\ kept \in Record /\ View(kept) = View(old)
    BY <1>1, <1>4 DEF Continues, View, Record
  <2> HIDE DEF kept
  <2>3. kept # None /\ metadata'[i] = kept
        /\ \A j \in Instance : j # i => metadata'[j] = metadata[j]
    BY <2>1, <2>2, NoneIsNoCard DEF TypeOK
  <2> QED BY <1>3, <2>1, <2>2, <2>3 DEF Quiet, Mutated
<1>5. CASE ~(Continues(old, in) /\ View(old) = View(new))
  <2> DEFINE u == UpsertEvent(i, new, revision + 1)
             e == StopEvent(i, new, revision + 1)
             events == IF Stopped(old, in) THEN <<u, e>> ELSE <<u>>
  <2>1. /\ metadata' = [metadata EXCEPT ![i] = new] /\ revision' = revision + 1
        /\ Emit(events)
    BY <1>5 DEF Store
  <2>2. /\ u.instance = i /\ u.revision = revision + 1 /\ u.type = "upsert"
        /\ u.card = View(new) /\ e.revision = revision + 1 /\ e.type = "stop"
    BY DEF UpsertEvent, StopEvent
  <2>3. u \in Event /\ e \in Event
    BY <1>1, EventTypes
  <2>4. /\ metadata'[i] = new /\ new # None
        /\ \A j \in Instance : j # i => metadata'[j] = metadata[j]
    <3> HIDE DEF new
    <3> QED BY <1>1, <2>1, NoneIsNoCard DEF TypeOK
  <2>5. old # None => View(old).generation = old.generation
    BY DEF View
  <2> HIDE DEF u, e, new
  <2>6. old # None => Supersedes(u, View(old))
    BY <1>2, <2>2, <2>5 DEF Supersedes
  <2>7. Word(metadata', orphans', i, u.card)
    BY <2>2, <2>4 DEF Word
  <2>8. /\ events \in Seq(Event) /\ Len(events) \in {1, 2} /\ events[1] = u
        /\ Len(events) = 2 => events[2] = e
    BY <2>3
  <2> HIDE DEF events
  <2>9. ASSUME NEW k \in 1 .. Len(events) PROVE k = 1 \/ (k = 2 /\ events[k] = e)
    <3>1. k \in 1 .. 1 \/ (k \in 1 .. 2 /\ Len(events) = 2)
      BY <2>8
    <3> QED BY <2>8, <3>1
  <2>10. \A k \in 1 .. Len(events) : /\ events[k].revision = revision + 1
                                     /\ k # 1 => events[k].type = "stop"
    BY <2>2, <2>8, <2>9
  <2>11. pending' = events /\ owed' = Registered
    BY <2>1, <2>8, ConcatEmptySeq DEF Emit
  <2> HIDE DEF old
  <2>12. Announced(i, events)
    BY <1>3, <2>1, <2>2, <2>4, <2>6, <2>7, <2>8, <2>10, <2>11 DEF Announced, old
  <2> QED BY <2>12 DEF Mutated
<1> QED BY <1>4, <1>5

LEMMA ObserveMutates ==
  ASSUME TypeOK, NEW i \in Instance, NEW in \in Input, pending = << >>, ObserveInput(i, in)
  PROVE  Mutated(i)
<1>1. CASE metadata[i] # None /\ ForgetActivity(i, metadata[i])
  <2>1. metadata[i] \in Record
    BY <1>1 DEF TypeOK
  <2> QED BY <1>1, <2>1, ForgetMutates
<1>2. CASE UNCHANGED <<registryVars, queueVars, steady>>
  BY <1>2 DEF registryVars, queueVars, Quiet, Mutated
<1>3. CASE Store(i, in) /\ (metadata[i] # None => in.generation >= metadata[i].generation)
  BY <1>3, StoreMutates
<1> QED BY <1>1, <1>2, <1>3 DEF ObserveInput

-----------------------------------------------------------------------------
(* Each event once: where every stream stands in the line of events.                     *)

(* Revisions follow one another in the queue, a stop sharing that of its upsert, and the   *)
(* last one queued is the registry's.                                                    *)
Line ==
  pending # << >> =>
    /\ pending[Len(pending)].revision = revision
    /\ \A k \in 1 .. Len(pending) : k > 1 =>
         pending[k].revision = pending[k - 1].revision + (IF pending[k].type = "stop" THEN 0 ELSE 1)

(* The last revision the dispatcher has handed to s, or to its buffer.                   *)
Reached(s) ==
  IF pending = << >> THEN revision
  ELSE IF s \in owed /\ pending[1].type # "stop" THEN pending[1].revision - 1
  ELSE pending[1].revision

(* A buffer holds the last revisions reached; the reader has the ones before them, if    *)
(* they are later than its snapshot.                                                     *)
OnceFor(s) ==
  /\ \A k \in 1 .. Len(buffer[s]) : buffer[s][k].revision = Reached(s) - (Len(buffer[s]) - k)
  /\ phase[s] \in {"replaying", "live"} =>
       /\ seen[s] = from[s] + handed[s]
       /\ seen[s] = IF Reached(s) - Len(buffer[s]) > from[s]
                    THEN Reached(s) - Len(buffer[s]) ELSE from[s]

OnceInv == Line /\ \A s \in Stream : OnceFor(s)

LEMMA SameOnce ==
  ASSUME NEW s \in Stream, OnceFor(s), Reached(s)' = Reached(s), phase'[s] = phase[s],
         from'[s] = from[s], seen'[s] = seen[s], handed'[s] = handed[s], buffer'[s] = buffer[s]
  PROVE  OnceFor(s)'
BY DEF OnceFor

LEMMA ClosedOnce ==
  ASSUME NEW s \in Stream, buffer'[s] = << >>, phase'[s] = "closed"
  PROVE  OnceFor(s)'
BY DEF OnceFor

LEMMA OnceIs ==
  ASSUME NEW s \in Stream, NEW n \in Int, NEW b, Reached(s)' = n, buffer'[s] = b,
         \A k \in 1 .. Len(b) : b[k].revision = n - (Len(b) - k),
         phase'[s] \in {"replaying", "live"} =>
           /\ seen'[s] = from'[s] + handed'[s]
           /\ seen'[s] = IF n - Len(b) > from'[s] THEN n - Len(b) ELSE from'[s]
  PROVE  OnceFor(s)'
BY DEF OnceFor

LEMMA QueueHead ==
  ASSUME TypeOK, pending # << >>
  PROVE  /\ 1 \in 1 .. Len(pending) /\ Head(pending) = pending[1] /\ pending[1] \in Event
         /\ pending[1].revision \in Nat
<1>1. pending \in Seq(Event)
  BY DEF TypeOK
<1>2. Len(pending) \in Nat /\ Len(pending) # 0 /\ Head(pending) = pending[1] /\ Head(pending) \in Event
  BY <1>1, HeadTailProperties, EmptySeq
<1> QED BY <1>2 DEF Event

LEMMA ReachedType ==
  ASSUME TypeOK, NEW s \in Stream
  PROVE  /\ Reached(s) \in Int /\ buffer[s] \in Seq(Event) /\ Len(buffer[s]) \in Nat
         /\ from[s] \in Nat /\ seen[s] \in Nat /\ handed[s] \in Nat /\ revision \in Nat
<1>1. ASSUME pending # << >> PROVE pending[1].revision \in Nat
  BY <1>1, HeadTailProperties DEF TypeOK, Event
<1> QED BY <1>1 DEF TypeOK, Reached

LEMMA MutatedOnce ==
  ASSUME IInv, TypeOK', OnceInv, pending = << >>, UNCHANGED streamVars, NEW i \in Instance,
         Mutated(i)
  PROVE  OnceInv'
<1>1. UNCHANGED <<phase, from, seen, handed, buffer>>
  BY DEF streamVars
<1>2. CASE Quiet
  <2>1. Line'
    BY <1>2 DEF Quiet, Line
  <2>2. \A s \in Stream : Reached(s)' = Reached(s)
    BY <1>2 DEF Quiet, Reached
  <2> QED BY <1>1, <2>1, <2>2, SameOnce DEF OnceInv
<1>3. CASE \E events : Announced(i, events)
  <2>1. PICK events : Announced(i, events)
    BY <1>3
  <2>2. /\ pending' = events /\ Len(events) \in {1, 2} /\ revision' = revision + 1
        /\ \A k \in 1 .. Len(events) : events[k].revision = revision + 1
        /\ events[1].type # "stop" /\ owed' = Registered
        /\ \A k \in 1 .. Len(events) : k # 1 => events[k].type = "stop"
    BY <2>1 DEF Announced
  <2>3. revision \in Nat
    BY DEF IInv, TypeOK
  <2>4. pending' # << >> /\ pending'[1].revision = revision + 1
    BY <2>2
  <2>5. Line'
    <3>1. ASSUME NEW k \in 1 .. Len(pending'), k > 1
          PROVE  k - 1 \in 1 .. Len(pending') /\ pending'[k].type = "stop"
      BY <2>2, <3>1
    <3>2. Len(pending') \in 1 .. Len(pending')
      BY <2>2
    <3> QED BY <2>2, <2>3, <3>1, <3>2 DEF Line
  <2>6. ASSUME NEW s \in Stream PROVE OnceFor(s)'
    <3>1. CASE phase[s] = "closed"
      <4>1. buffer'[s] = << >>
        BY <1>1, <3>1 DEF IInv, Gates
      <4> QED BY <1>1, <3>1, <4>1, ClosedOnce
    <3>2. CASE phase[s] # "closed"
      <4>1. s \in owed'
        BY <2>2, <3>2 DEF Registered
      <4>2. Reached(s)' = revision /\ Reached(s) = revision
        BY <2>2, <2>3, <2>4, <4>1 DEF Reached
      <4> QED BY <1>1, <4>2, SameOnce DEF OnceInv
    <3> QED BY <3>1, <3>2
  <2> QED BY <2>5, <2>6 DEF OnceInv
<1> QED BY <1>2, <1>3 DEF Mutated

LEMMA DeliverOnce ==
  ASSUME IInv, TypeOK', OnceInv, NEW s \in Stream, Deliver(s)
  PROVE  OnceInv'
<1>1. /\ pending # << >> /\ pending[1].type # "stop" /\ s \in owed /\ owed' = owed \ {s}
      /\ UNCHANGED <<pending, revision, phase, from>>
      /\ Head(pending) = pending[1]
  BY HeadTailProperties DEF Deliver, registryVars, IInv, TypeOK
<1>2. Line'
  BY <1>1 DEF OnceInv, Line
<1>3. ASSUME NEW t \in Stream, t # s PROVE OnceFor(t)'
  <2>1. Reached(t)' = Reached(t)
    BY <1>1, <1>3 DEF Reached
  <2>2. /\ seen'[t] = seen[t] /\ handed'[t] = handed[t] /\ buffer'[t] = buffer[t]
    BY <1>3 DEF Deliver, Hand, IInv, TypeOK
  <2> QED BY <1>1, <2>1, <2>2, SameOnce DEF OnceInv
<1> DEFINE e == pending[1]
           n == e.revision
<1>4. e \in Event /\ n \in Nat /\ n \in Int /\ TypeOK
  <2>1. TypeOK /\ pending \in Seq(Event) /\ e = Head(pending)
    BY <1>1 DEF IInv, TypeOK
  <2>2. e \in Event
    BY <1>1, <2>1, HeadTailProperties
  <2> QED BY <2>1, <2>2 DEF Event
<1>5. Reached(s) = n - 1 /\ Reached(s)' = n
  BY <1>1 DEF Reached
<1>6. OnceFor(s) /\ buffer[s] \in Seq(Event) /\ Len(buffer[s]) \in Nat
      /\ from[s] \in Nat /\ seen[s] \in Nat /\ handed[s] \in Nat
  BY <1>4, ReachedType DEF OnceInv
<1>7. ASSUME phase[s] = "live" /\ Passes(s, e) /\ Hand(s, e) /\ buffer' = buffer
      PROVE  OnceFor(s)'
  <2>1. buffer[s] = << >> /\ Len(buffer[s]) = 0
    BY <1>7 DEF IInv, Gates
  <2>2. n > from[s]
    BY <1>7 DEF Passes
  <2>3. seen'[s] = n /\ handed'[s] = handed[s] + 1
    BY <1>7 DEF Hand, IInv, TypeOK
  <2>4. /\ seen[s] = from[s] + handed[s]
        /\ seen[s] = IF n - 1 - Len(buffer[s]) > from[s] THEN n - 1 - Len(buffer[s]) ELSE from[s]
    BY <1>5, <1>6, <1>7 DEF OnceFor
  <2> HIDE DEF n, e
  <2>5. seen[s] = n - 1
    BY <1>4, <1>6, <2>1, <2>2, <2>4
  <2>6. seen'[s] = from[s] + handed'[s]
    <3>1. seen[s] = from[s] + handed[s]
      BY <2>4
    <3> QED BY <1>4, <1>6, <2>3, <2>5, <3>1
  <2>7. seen'[s] = IF n - Len(buffer[s]) > from[s] THEN n - Len(buffer[s]) ELSE from[s]
    BY <1>4, <1>6, <2>1, <2>2, <2>3
  <2>8. Reached(s)' = n /\ buffer'[s] = buffer[s] /\ Len(buffer[s]) = 0
        /\ \A k \in 1 .. Len(buffer[s]) : buffer[s][k].revision = n - (Len(buffer[s]) - k)
    BY <1>5, <1>7, <2>1 DEF n, e
  <2>9. from'[s] = from[s]
    BY <1>1
  <2> QED BY <1>4, <2>6, <2>7, <2>8, <2>9, OnceIs
<1>8. ASSUME phase[s] = "live" /\ ~Passes(s, e) /\ UNCHANGED <<seen, handed, buffer>>
      PROVE  OnceFor(s)'
  <2>1. buffer[s] = << >> /\ Len(buffer[s]) = 0
    BY <1>8 DEF IInv, Gates
  <2>2. ~(n > from[s])
    BY <1>8 DEF Passes
  <2>3. /\ seen[s] = from[s] + handed[s]
        /\ seen[s] = IF n - 1 - Len(buffer[s]) > from[s] THEN n - 1 - Len(buffer[s]) ELSE from[s]
    BY <1>5, <1>6, <1>8 DEF OnceFor
  <2> HIDE DEF n, e
  <2>4. seen[s] = IF n - Len(buffer[s]) > from[s] THEN n - Len(buffer[s]) ELSE from[s]
    BY <1>4, <1>6, <2>1, <2>2, <2>3
  <2>5. Reached(s)' = n /\ buffer'[s] = buffer[s] /\ Len(buffer[s]) = 0
        /\ \A k \in 1 .. Len(buffer[s]) : buffer[s][k].revision = n - (Len(buffer[s]) - k)
    BY <1>5, <1>8, <2>1 DEF n, e
  <2>6. from'[s] = from[s] /\ seen'[s] = seen[s] /\ handed'[s] = handed[s]
    BY <1>1, <1>8
  <2> QED BY <1>4, <2>3, <2>4, <2>5, <2>6, OnceIs
<1>9. ASSUME phase[s] # "live" /\ UNCHANGED <<seen, handed>> /\ buffer' = [buffer EXCEPT ![s] = Append(@, e)]
      PROVE  OnceFor(s)'
  <2> DEFINE b == buffer[s]
             c == Append(b, e)
  <2>1. buffer'[s] = c
    BY <1>9 DEF IInv, TypeOK
  <2>2. Len(c) = Len(b) + 1 /\ \A k \in 1 .. Len(c) : c[k] = IF k <= Len(b) THEN b[k] ELSE e
    BY <1>4, <1>6, AppendProperties
  <2>3. \A k \in 1 .. Len(b) : b[k].revision = (n - 1) - (Len(b) - k)
    BY <1>5, <1>6 DEF OnceFor
  <2>4. phase[s] \in {"replaying", "live"} =>
          /\ seen[s] = from[s] + handed[s]
          /\ seen[s] = IF n - 1 - Len(b) > from[s] THEN n - 1 - Len(b) ELSE from[s]
    BY <1>5, <1>6 DEF OnceFor
  <2> HIDE DEF b, c
  <2>5. Len(b) \in Nat
    BY <1>6 DEF b
  <2>6. ASSUME NEW k \in 1 .. Len(c) PROVE c[k].revision = n - (Len(c) - k)
    <3>1. CASE k <= Len(b)
      <4>1. k \in 1 .. Len(b)
        BY <2>2, <2>5, <2>6, <3>1
      <4> HIDE DEF n, e
      <4> QED BY <1>4, <2>2, <2>3, <2>5, <4>1
    <3>2. CASE ~(k <= Len(b))
      <4>1. k = Len(c)
        BY <2>2, <2>5, <2>6, <3>2
      <4> QED BY <1>4, <2>2, <2>5, <2>6, <3>2, <4>1
    <3> QED BY <3>1, <3>2
  <2> HIDE DEF n, e
  <2>7. n - 1 - Len(b) = n - Len(c)
    BY <1>4, <2>2, <2>5
  <2>8. Reached(s)' = n
    BY <1>5 DEF n, e
  <2>9. from'[s] = from[s] /\ seen'[s] = seen[s] /\ handed'[s] = handed[s] /\ phase'[s] = phase[s]
    BY <1>1, <1>9
  <2>10. phase'[s] \in {"replaying", "live"} =>
           /\ seen'[s] = from'[s] + handed'[s]
           /\ seen'[s] = IF n - Len(c) > from'[s] THEN n - Len(c) ELSE from'[s]
    BY <2>4, <2>7, <2>9
  <2>11. \A k \in 1 .. Len(c) : c[k].revision = n - (Len(c) - k)
    BY <2>6
  <2>12. n \in Int
    BY <1>4
  <2>13. \A k \in 1 .. Len(buffer'[s]) : buffer'[s][k].revision = n - (Len(buffer'[s]) - k)
    BY <2>1, <2>11
  <2>14. phase'[s] \in {"replaying", "live"} =>
           /\ seen'[s] = from'[s] + handed'[s]
           /\ seen'[s] = IF n - Len(buffer'[s]) > from'[s] THEN n - Len(buffer'[s]) ELSE from'[s]
    BY <2>1, <2>10
  <2> QED BY <2>8, <2>12, <2>13, <2>14, OnceIs
<1>10. OnceFor(s)'
  BY <1>1, <1>7, <1>8, <1>9 DEF Deliver
<1> QED BY <1>2, <1>3, <1>10 DEF OnceInv

LEMMA NextEventOnce ==
  ASSUME IInv, TypeOK', OnceInv, NextEvent
  PROVE  OnceInv'
<1>1. /\ TypeOK /\ pending \in Seq(Event) /\ pending # << >> /\ pending' = Tail(pending)
      /\ UNCHANGED <<revision, phase, from, seen, handed, buffer>>
      /\ owed' = IF Tail(pending) = << >> THEN {} ELSE Registered
  BY DEF IInv, TypeOK, NextEvent, registryVars, streamVars
<1>0. /\ Len(pending) \in Nat /\ Len(pending') = Len(pending) - 1 /\ pending' \in Seq(Event)
      /\ \A k \in 1 .. Len(pending') : pending'[k] = pending[k + 1]
  BY <1>1, HeadTailProperties
<1>2. /\ Len(pending) \in Nat /\ Len(pending') = Len(pending) - 1 /\ Head(pending) = pending[1]
      /\ \A k \in 1 .. Len(pending') : pending'[k] = pending[k + 1]
      /\ (pending' # << >>) <=> (Len(pending') # 0)
      /\ pending[1] \in Event
  <2>1. (pending' # << >>) <=> (Len(pending') # 0)
    BY <1>0, EmptySeq
  <2> QED BY <1>0, <1>1, <2>1, QueueHead
<1>3. pending[1].type # "stop" => owed = {}
  BY <1>2 DEF NextEvent
<1>4. /\ pending[Len(pending)].revision = revision
      /\ \A k \in 1 .. Len(pending) : k > 1 =>
           pending[k].revision = pending[k - 1].revision + (IF pending[k].type = "stop" THEN 0 ELSE 1)
  BY <1>1 DEF OnceInv, Line
<1>5. Line'
  <2> SUFFICES ASSUME pending' # << >> PROVE Line'
    BY DEF Line
  <2>1. Len(pending') \in 1 .. Len(pending') /\ Len(pending') + 1 = Len(pending)
    BY <1>1, <1>2
  <2>2. pending'[Len(pending')].revision = revision'
    BY <1>1, <1>2, <1>4, <2>1
  <2>3. ASSUME NEW k \in 1 .. Len(pending'), k > 1
        PROVE  pending'[k].revision
                 = pending'[k - 1].revision + (IF pending'[k].type = "stop" THEN 0 ELSE 1)
    <3>1. k + 1 \in 1 .. Len(pending) /\ k - 1 \in 1 .. Len(pending') /\ k + 1 > 1
          /\ (k - 1) + 1 = k /\ (k + 1) - 1 = k
      BY <1>2, <2>3
    <3>2. pending'[k] = pending[k + 1] /\ pending'[k - 1] = pending[k]
      BY <1>2, <2>3, <3>1
    <3> QED BY <1>4, <3>1, <3>2
  <2> QED BY <2>2, <2>3 DEF Line
<1>6. ASSUME NEW s \in Stream PROVE OnceFor(s)'
  <2>1. CASE phase[s] = "closed"
    <3>1. buffer'[s] = << >>
      BY <1>1, <2>1 DEF IInv, Gates
    <3> QED BY <1>1, <2>1, <3>1, ClosedOnce
  <2>2. CASE phase[s] # "closed"
    <3>1. Reached(s) = pending[1].revision
      BY <1>1, <1>3 DEF Reached
    <3>2. CASE pending' = << >>
      <4>1. Len(pending) = 1
        BY <1>2, <3>2
      <4>2. Reached(s)' = revision
        BY <1>1, <3>2 DEF Reached
      <4>3. Reached(s)' = Reached(s)
        BY <1>4, <3>1, <4>1, <4>2
      <4> QED BY <1>1, <4>3, SameOnce DEF OnceInv
    <3>3. CASE pending' # << >>
      <4>1. /\ 1 \in 1 .. Len(pending') /\ 2 \in 1 .. Len(pending) /\ 1 \in 1 .. Len(pending)
            /\ pending'[1] = pending[2]
        BY <1>2, <3>3
      <4>2. s \in owed'
        BY <1>1, <2>2, <3>3 DEF Registered
      <4>3. /\ pending[1].revision \in Nat
            /\ pending[2].revision = pending[1].revision + (IF pending[2].type = "stop" THEN 0 ELSE 1)
        BY <1>1, <1>4, <4>1, QueueHead
      <4>4. Reached(s)' = IF pending[2].type # "stop" THEN pending[2].revision - 1
                          ELSE pending[2].revision
        BY <3>3, <4>1, <4>2 DEF Reached
      <4>5. Reached(s)' = Reached(s)
        BY <3>1, <4>3, <4>4
      <4> QED BY <1>1, <4>5, SameOnce DEF OnceInv
    <3> QED BY <3>2, <3>3
  <2> QED BY <2>1, <2>2
<1> QED BY <1>5, <1>6 DEF OnceInv

LEMMA SweepOnce ==
  ASSUME IInv, TypeOK', OnceInv, SweepDuringDispatch
  PROVE  OnceInv'
<1>1. PICK n \in Nat :
        /\ Len(pending') = Len(pending) + n /\ revision' = revision + n
        /\ \A k \in 1 .. Len(pending') :
             /\ IF k <= Len(pending) THEN pending'[k] = pending[k]
                ELSE /\ pending'[k].revision = revision + (k - Len(pending))
                     /\ pending'[k].type = "remove"
  BY SweepQueues DEF IInv, IsRemoval
<1>2. /\ pending \in Seq(Event) /\ pending # << >> /\ pending' \in Seq(Event)
      /\ revision \in Nat /\ UNCHANGED <<owed, phase, from, seen, handed, buffer>>
      /\ Len(pending) \in Nat /\ Len(pending) # 0
  BY EmptySeq DEF IInv, TypeOK, SweepDuringDispatch, streamVars
<1>3. 1 \in 1 .. Len(pending') /\ pending'[1] = pending[1] /\ pending' # << >>
  BY <1>1, <1>2, EmptySeq
<1>4. /\ pending[Len(pending)].revision = revision
      /\ \A k \in 1 .. Len(pending) : k > 1 =>
           pending[k].revision = pending[k - 1].revision + (IF pending[k].type = "stop" THEN 0 ELSE 1)
  BY <1>2 DEF OnceInv, Line
<1>5. ASSUME NEW k \in Len(pending) .. Len(pending') PROVE pending'[k].revision = revision + (k - Len(pending))
  <2>1. k \in 1 .. Len(pending')
    BY <1>1, <1>2, <1>5
  <2>2. CASE k = Len(pending)
    BY <1>1, <1>2, <1>4, <2>1, <2>2
  <2>3. CASE ~(k <= Len(pending))
    BY <1>1, <2>1, <2>3
  <2> QED BY <1>2, <1>5, <2>2, <2>3
<1>6. Line'
  <2>1. pending'[Len(pending')].revision = revision'
    <3>1. Len(pending') \in Len(pending) .. Len(pending')
      BY <1>1, <1>2
    <3>2. pending'[Len(pending')].revision = revision + (Len(pending') - Len(pending))
      BY <1>5, <3>1
    <3> QED BY <1>1, <1>2, <3>2
  <2>2. ASSUME NEW k \in 1 .. Len(pending'), k > 1
        PROVE  pending'[k].revision
                 = pending'[k - 1].revision + (IF pending'[k].type = "stop" THEN 0 ELSE 1)
    <3>1. CASE k <= Len(pending)
      <4>1. k \in 1 .. Len(pending) /\ k - 1 \in 1 .. Len(pending') /\ k - 1 <= Len(pending)
        BY <1>1, <1>2, <2>2, <3>1
      <4> QED BY <1>1, <1>4, <2>2, <3>1, <4>1
    <3>2. CASE ~(k <= Len(pending))
      <4>1. k \in Len(pending) .. Len(pending') /\ k - 1 \in Len(pending) .. Len(pending')
        BY <1>1, <1>2, <2>2, <3>2
      <4>2. pending'[k].type # "stop"
        BY <1>1, <2>2, <3>2
      <4>3. /\ pending'[k].revision = revision + (k - Len(pending))
            /\ pending'[k - 1].revision = revision + ((k - 1) - Len(pending))
        BY <1>5, <4>1
      <4> QED BY <1>1, <1>2, <2>2, <4>2, <4>3
    <3> QED BY <3>1, <3>2
  <2> QED BY <2>1, <2>2 DEF Line
<1>7. ASSUME NEW s \in Stream PROVE OnceFor(s)'
  <2>1. Reached(s)' = Reached(s)
    BY <1>2, <1>3 DEF Reached
  <2> QED BY <1>2, <2>1, SameOnce DEF OnceInv
<1> QED BY <1>6, <1>7 DEF OnceInv

(* What a stream that is handed the directory of now starts from.               *)
LEMMA SnapshotDoes ==
  ASSUME TypeOK, NEW s \in Stream, TakeSnapshot(s) \/ AdmitDuringDispatch(s)
  PROVE  /\ UNCHANGED <<pending, revision, metadata, orphans, buffer>>
         /\ \A t \in Stream : t # s =>
              /\ phase'[t] = phase[t] /\ from'[t] = from[t] /\ seen'[t] = seen[t]
              /\ handed'[t] = handed[t] /\ mirror'[t] = mirror[t]
              /\ (t \in owed' <=> t \in owed)
         /\ from'[s] = revision /\ seen'[s] = revision /\ handed'[s] = 0
         /\ mirror'[s] = Directory
<1>1. UNCHANGED <<pending, revision, metadata, orphans, buffer>>
  BY DEF TakeSnapshot, AdmitDuringDispatch, registryVars, queueVars
<1>2. /\ from' = [from EXCEPT ![s] = revision] /\ seen' = [seen EXCEPT ![s] = revision]
      /\ handed' = [handed EXCEPT ![s] = 0] /\ mirror' = [mirror EXCEPT ![s] = Directory]
  BY DEF TakeSnapshot, AdmitDuringDispatch
<1>3. \/ phase' = [phase EXCEPT ![s] = "replaying"]
      \/ phase' = [phase EXCEPT ![s] = "live"]
  BY DEF TakeSnapshot, AdmitDuringDispatch
<1>4. owed' = owed \/ owed' = owed \cup {s}
  BY DEF TakeSnapshot, AdmitDuringDispatch, queueVars
<1>5. /\ DOMAIN phase = Stream /\ DOMAIN from = Stream /\ DOMAIN seen = Stream
      /\ DOMAIN handed = Stream /\ DOMAIN mirror = Stream
      /\ phase = [t \in Stream |-> phase[t]] /\ from = [t \in Stream |-> from[t]]
      /\ seen = [t \in Stream |-> seen[t]] /\ handed = [t \in Stream |-> handed[t]]
      /\ mirror = [t \in Stream |-> mirror[t]]
  BY DEF TypeOK
<1>6. /\ from'[s] = revision /\ seen'[s] = revision /\ handed'[s] = 0
      /\ mirror'[s] = Directory
  BY <1>2, <1>5
<1>7. ASSUME NEW t \in Stream, t # s
      PROVE  /\ from'[t] = from[t] /\ seen'[t] = seen[t] /\ handed'[t] = handed[t]
             /\ mirror'[t] = mirror[t]
  BY <1>2, <1>5, <1>7
<1>8. ASSUME NEW t \in Stream, t # s
      PROVE  phase'[t] = phase[t] /\ (t \in owed' <=> t \in owed)
  BY <1>3, <1>4, <1>5, <1>8
<1> QED BY <1>1, <1>6, <1>7, <1>8

LEMMA SnapshotOnce ==
  ASSUME IInv, TypeOK', OnceInv, NEW s \in Stream, TakeSnapshot(s) \/ AdmitDuringDispatch(s)
  PROVE  OnceInv'
<1>1. /\ UNCHANGED <<pending, revision, buffer>> /\ TypeOK
      /\ \A t \in Stream : t # s => /\ phase'[t] = phase[t] /\ from'[t] = from[t]
                                    /\ seen'[t] = seen[t] /\ handed'[t] = handed[t]
                                    /\ (t \in owed' <=> t \in owed)
      /\ from'[s] = revision /\ seen'[s] = revision /\ handed'[s] = 0
  <2>1. TypeOK
    BY DEF IInv
  <2> QED BY <2>1, SnapshotDoes
<1>2. Line'
  BY <1>1 DEF OnceInv, Line
<1>3. ASSUME NEW t \in Stream, t # s PROVE OnceFor(t)'
  <2>1. Reached(t)' = Reached(t)
    BY <1>1, <1>3 DEF Reached
  <2> QED BY <1>1, <1>3, <2>1, SameOnce DEF OnceInv
<1>4. /\ Reached(s) \in Int /\ Len(buffer[s]) \in Nat /\ revision \in Nat /\ Reached(s)' \in Int
  <2>1. TypeOK'
    OBVIOUS
  <2>2. Reached(s)' \in Int
    <3>1. ASSUME pending # << >> PROVE pending[1].revision \in Nat
      BY <1>1, <3>1, QueueHead
    <3> QED BY <1>1, <3>1 DEF TypeOK, Reached
  <2> QED BY <1>1, <2>2, ReachedType
<1>5. /\ Reached(s)' <= revision
      /\ \A k \in 1 .. Len(buffer[s]) :
           buffer[s][k].revision = Reached(s)' - (Len(buffer[s]) - k)
  <2>1. CASE TakeSnapshot(s)
    <3>1. pending = << >>
      BY <2>1 DEF TakeSnapshot
    <3>2. Reached(s)' = revision /\ Reached(s) = revision
      BY <1>1, <3>1 DEF Reached
    <3>3. \A k \in 1 .. Len(buffer[s]) : buffer[s][k].revision = Reached(s) - (Len(buffer[s]) - k)
      BY DEF OnceInv, OnceFor
    <3>4. \A k \in 1 .. Len(buffer[s]) : buffer[s][k].revision = Reached(s)' - (Len(buffer[s]) - k)
      BY <3>2, <3>3
    <3>5. Reached(s)' <= revision
      BY <1>4, <3>2
    <3> QED BY <3>4, <3>5
  <2>2. CASE AdmitDuringDispatch(s)
    <3>1. pending # << >> /\ phase[s] = "closed" /\ buffer[s] = << >> /\ Len(buffer[s]) = 0
      BY <2>2 DEF AdmitDuringDispatch, IInv, Gates
    <3>2. pending[1].revision \in Nat /\ pending[1].revision <= revision
      <4>1. 1 \in 1 .. Len(pending) /\ pending[1] \in Event
        BY <1>1, <3>1, QueueHead
      <4> QED BY <4>1 DEF IInv, Bounds, Event
    <3>3. Reached(s)' \in {pending[1].revision, pending[1].revision - 1}
      BY <1>1, <3>1 DEF Reached
    <3> QED BY <1>4, <3>1, <3>2, <3>3
  <2> QED BY <2>1, <2>2
<1>6. OnceFor(s)'
  <2>1. seen'[s] = from'[s] + handed'[s]
    BY <1>1, <1>4
  <2>2. seen'[s] = IF Reached(s)' - Len(buffer'[s]) > from'[s]
                   THEN Reached(s)' - Len(buffer'[s]) ELSE from'[s]
    BY <1>1, <1>4, <1>5
  <2>3. \A k \in 1 .. Len(buffer'[s]) :
          buffer'[s][k].revision = Reached(s)' - (Len(buffer'[s]) - k)
    BY <1>1, <1>5
  <2> QED BY <1>4, <2>1, <2>2, <2>3 DEF OnceFor
<1> QED BY <1>2, <1>3, <1>6 DEF OnceInv

LEMMA ReplayOnce ==
  ASSUME IInv, TypeOK', OnceInv, NEW s \in Stream, Replay(s)
  PROVE  OnceInv'
<1>1. /\ UNCHANGED <<pending, revision, owed, phase, from>> /\ TypeOK
      /\ buffer[s] # << >> /\ buffer'[s] = Tail(buffer[s])
      /\ \A t \in Stream : t # s => /\ buffer'[t] = buffer[t] /\ seen'[t] = seen[t]
                                    /\ handed'[t] = handed[t]
      /\ phase[s] = "replaying"
  <2>1. TypeOK
    BY DEF IInv
  <2>2. /\ UNCHANGED <<pending, revision, owed, phase, from>>
        /\ buffer[s] # << >> /\ buffer' = [buffer EXCEPT ![s] = Tail(@)]
        /\ call.op = "replaying" /\ call.target = s
    BY DEF Replay, registryVars, queueVars
  <2>3. \/ UNCHANGED <<seen, handed>>
        \/ /\ seen' = [seen EXCEPT ![s] = Head(buffer[s]).revision]
           /\ handed' = [handed EXCEPT ![s] = @ + 1]
    BY DEF Replay, Hand
  <2>4. /\ buffer \in [Stream -> Seq(Event)] /\ seen \in [Stream -> Nat]
        /\ handed \in [Stream -> Nat]
    BY <2>1 DEF TypeOK
  <2>5. /\ buffer'[s] = Tail(buffer[s])
        /\ \A t \in Stream : t # s => buffer'[t] = buffer[t]
    BY <2>2, <2>4
  <2>6. \A t \in Stream : t # s => seen'[t] = seen[t] /\ handed'[t] = handed[t]
    BY <2>3, <2>4
  <2>7. phase[s] = "replaying"
    BY <2>2 DEF IInv, Gates
  <2> QED BY <2>1, <2>2, <2>5, <2>6, <2>7
<1>2. Line' /\ \A t \in Stream : Reached(t)' = Reached(t)
  BY <1>1 DEF OnceInv, Line, Reached
<1>3. ASSUME NEW t \in Stream, t # s PROVE OnceFor(t)'
  BY <1>1, <1>2, <1>3, SameOnce DEF OnceInv
<1> DEFINE b == buffer[s]
           R == Reached(s)
<1>4. /\ R \in Int /\ b \in Seq(Event) /\ Len(b) \in Nat /\ from[s] \in Nat /\ seen[s] \in Nat
      /\ handed[s] \in Nat
  BY <1>1, ReachedType
<1>5. /\ Len(b) # 0 /\ Len(buffer'[s]) = Len(b) - 1 /\ Head(b) = b[1] /\ 1 \in 1 .. Len(b)
      /\ \A k \in 1 .. Len(buffer'[s]) : k + 1 \in 1 .. Len(b) /\ buffer'[s][k] = b[k + 1]
  BY <1>1, <1>4, HeadTailProperties, EmptySeq
<1>6. /\ \A k \in 1 .. Len(b) : b[k].revision = R - (Len(b) - k)
      /\ seen[s] = from[s] + handed[s]
      /\ seen[s] = IF R - Len(b) > from[s] THEN R - Len(b) ELSE from[s]
  BY <1>1 DEF OnceInv, OnceFor
<1> HIDE DEF b, R
<1>7. b[1].revision = R - Len(b) + 1
  BY <1>4, <1>5, <1>6
<1>8. \A k \in 1 .. Len(buffer'[s]) : buffer'[s][k].revision = R - (Len(buffer'[s]) - k)
  <2> SUFFICES ASSUME NEW k \in 1 .. Len(buffer'[s])
               PROVE  buffer'[s][k].revision = R - (Len(buffer'[s]) - k)
    OBVIOUS
  <2>1. b[k + 1].revision = R - (Len(b) - (k + 1))
    BY <1>5, <1>6
  <2> QED BY <1>4, <1>5, <2>1
<1>9. /\ seen'[s] = from[s] + handed'[s]
      /\ seen'[s] = IF R - Len(buffer'[s]) > from[s] THEN R - Len(buffer'[s]) ELSE from[s]
  <2>1. CASE b[1].revision > from[s]
    <3>0. Hand(s, b[1])
      BY <1>5, <2>1 DEF Replay, Passes, b
    <3>1. seen'[s] = b[1].revision /\ handed'[s] = handed[s] + 1
      <4> SUFFICES ASSUME seen \in [Stream -> Nat], handed \in [Stream -> Nat]
                   PROVE  seen'[s] = b[1].revision /\ handed'[s] = handed[s] + 1
        BY <1>1 DEF TypeOK
      <4> QED BY <3>0 DEF Hand
    <3>2. seen[s] = R - Len(b)
      BY <1>4, <1>6, <1>7, <2>1
    <3>3. seen'[s] = R - Len(b) + 1
      BY <1>7, <3>1
    <3>4. seen'[s] = from[s] + handed'[s]
      <4>1. seen'[s] = seen[s] + 1 /\ seen[s] = from[s] + handed[s]
        BY <1>6, <3>2, <3>3
      <4> QED BY <1>4, <3>1, <4>1
    <3>5. R - Len(buffer'[s]) = R - Len(b) + 1
      BY <1>4, <1>5
    <3>6. R - Len(buffer'[s]) > from[s]
      BY <1>7, <2>1, <3>5
    <3> QED BY <3>3, <3>4, <3>5, <3>6
  <2>2. CASE ~(b[1].revision > from[s])
    <3>1. seen'[s] = seen[s] /\ handed'[s] = handed[s]
      BY <1>5, <2>2 DEF Replay, Passes, b
    <3> QED BY <1>4, <1>5, <1>6, <1>7, <2>2, <3>1
  <2> QED BY <2>1, <2>2
<1>10. Reached(s)' = R
  BY <1>2 DEF R
<1>11. OnceFor(s)'
  BY <1>1, <1>4, <1>8, <1>9, <1>10, OnceIs
<1> QED BY <1>2, <1>3, <1>11 DEF OnceInv

(* What a sweep has still to remove is what is published, unless a nested sweep has       *)
(* removed it already: nothing is inserted while a sweep runs.                           *)
Doomed ==
  call.op = "sweeping" =>
    \A i \in Instance : call.work[i] # None /\ metadata[i] # None =>
      call.work[i].generation = metadata[i].generation

LEMMA DoomedStep == ASSUME TypeOK, Doomed, [Next]_vars PROVE Doomed'
<1>1. CASE call'.op # "sweeping"
  BY <1>1 DEF Doomed
<1>2. CASE /\ call.op = "sweeping"
           /\ \A i \in Instance : metadata'[i] # None /\ call'.work[i] # None =>
                /\ metadata[i] # None /\ metadata'[i].generation = metadata[i].generation
                /\ call'.work[i] = call.work[i]
  BY <1>2 DEF Doomed
<1>3. ASSUME NEW doomed, NEW s, StartSweep(doomed, s), UNCHANGED metadata PROVE Doomed'
  BY <1>3 DEF StartSweep, Doomed, NoCall
<1>4. ASSUME NEW live, NEW retained, Reconcile(live, retained) PROVE Doomed'
  BY <1>1, <1>4 DEF Reconcile, NoCall
<1>5. CASE ObserveDone \/ RetireDone \/ SweepDone
  <2>1. CASE ObserveDone
    <3>1. call'.op = "retiring"
      BY <2>1 DEF ObserveDone, TypeOK
    <3> QED BY <1>1, <3>1
  <2>2. CASE RetireDone \/ SweepDone
    <3>1. call'.op = "none"
      BY <2>2 DEF RetireDone, SweepDone, NoCall
    <3> QED BY <1>1, <3>1
  <2> QED BY <1>5, <2>1, <2>2
<1>6. CASE \E s \in Stream : TakeSnapshot(s) \/ Replay(s) \/ GoLive(s) \/ AdmissionThrows(s)
  BY <1>1, <1>6 DEF TakeSnapshot, Replay, GoLive, AdmissionThrows, NoCall, TypeOK
<1>7. ASSUME NEW i \in Instance, NEW in \in Input, Observe(i, in) PROVE Doomed'
  BY <1>1, <1>7 DEF Observe, TypeOK
<1>8. ASSUME NEW i \in Instance, Retire(i) PROVE Doomed'
  BY <1>1, <1>8 DEF Retire, TypeOK
<1>9. ASSUME NEW i \in Instance, SweepRemove(i) PROVE Doomed'
  <2>1. /\ call.op = "sweeping" /\ call' = [call EXCEPT !.work[i] = None]
        /\ metadata' = [metadata EXCEPT ![i] = None]
    BY <1>9 DEF SweepRemove, RemoveRecord
  <2> QED BY <1>2, <2>1 DEF TypeOK
<1>10. ASSUME NEW i \in Instance, MutateDuringReplay(i) PROVE Doomed'
  BY <1>1, <1>10 DEF MutateDuringReplay
<1>11. CASE SweepDuringDispatch
  BY <1>2, <1>11 DEF SweepDuringDispatch, Doomed
<1>12. CASE Tick
  <2>1. ASSUME NEW i \in Instance, metadata'[i] # None
        PROVE  metadata[i] # None /\ metadata'[i].generation = metadata[i].generation
    <3>1. metadata[i] # None /\ metadata[i] \in Record
      BY <1>12, <2>1 DEF Tick, TypeOK
    <3>2. metadata'[i] \in {metadata[i], [metadata[i] EXCEPT !.age = metadata[i].age + 1]}
      BY <1>12, <2>1, <3>1 DEF Tick
    <3> QED BY <3>1, <3>2 DEF Record
  <2>2. call' = call
    BY <1>12 DEF Tick
  <2> QED BY <1>1, <1>2, <2>1, <2>2
<1>13. CASE UNCHANGED <<call, metadata>>
  BY <1>13 DEF Doomed
<1>14. CASE Sweep \/ Clear \/ \E s \in Stream : Admit(s)
  BY <1>3, <1>14 DEF Sweep, Clear, Admit, registryVars
<1>15. CASE NextEvent \/ (\E s \in Stream : Deliver(s) \/ AdmitDuringDispatch(s) \/ Close(s))
            \/ (\E e \in alerts : SettleAlert(e)) \/ UNCHANGED vars
  BY <1>13, <1>15 DEF NextEvent, Deliver, AdmitDuringDispatch, Close, SettleAlert, registryVars, vars
<1> QED
  BY <1>4, <1>5, <1>6, <1>7, <1>8, <1>9, <1>10, <1>11, <1>12, <1>14, <1>15
     DEF Next, Poll, RunCall, Dispatch, Reenter

(* A step, seen from the streams: a mutation while nothing is dispatched, one step of the *)
(* dispatcher or of an admission, the end of a stream, or nothing.                       *)
Kinds ==
  \/ pending = << >> /\ UNCHANGED streamVars /\ \E i \in Instance : Mutated(i)
  \/ Quiet /\ UNCHANGED streamVars
  \/ NextEvent
  \/ SweepDuringDispatch
  \/ \E s \in Stream : Deliver(s) \/ Replay(s) \/ TakeSnapshot(s) \/ AdmitDuringDispatch(s)
  \/ \E s \in Stream : Admit(s) \/ GoLive(s)
  \/ \E s \in Stream : Unsubscribe(s) /\ UNCHANGED <<registryVars, pending>>

LEMMA StepKinds == ASSUME IInv, Doomed, [Next]_vars PROVE Kinds
<1>1. TypeOK
  BY DEF IInv
<1>2. CASE UNCHANGED <<registryVars, queueVars, streamVars>>
  BY <1>2 DEF Kinds, Quiet, registryVars, queueVars
<1>3. ASSUME NEW i \in Instance, pending = << >>, UNCHANGED streamVars, Mutated(i) PROVE Kinds
  BY <1>3 DEF Kinds
<1>4. ASSUME NEW i \in Instance, NEW in \in Input, Observe(i, in) PROVE Kinds
  BY <1>1, <1>3, <1>4, ObserveMutates DEF Observe
<1>5. ASSUME NEW i \in Instance, Retire(i) PROVE Kinds
  <2>1. /\ call.work[i] \in Record /\ pending = << >>
        /\ metadata[i] # None => View(call.work[i]) = View(metadata[i])
        /\ UNCHANGED streamVars
    BY <1>1, <1>5 DEF TypeOK, Retire, IInv, Captured
  <2>2. call.work[i].generation \in Nat
    BY <2>1 DEF Record
  <2>3. metadata[i] # None => metadata[i].generation = call.work[i].generation
    BY <2>1 DEF View
  <2> QED BY <1>1, <1>3, <1>5, <2>1, <2>2, <2>3, ForgetMutates, RemoveMutates DEF Retire
<1>6. ASSUME NEW i \in Instance, SweepRemove(i) PROVE Kinds
  <2>1. /\ call.work[i].generation \in Nat /\ pending = << >> /\ UNCHANGED streamVars
        /\ RemoveRecord(i, call.work[i].generation)
        /\ metadata[i] # None => metadata[i].generation = call.work[i].generation
    BY <1>1, <1>6 DEF TypeOK, SweepRemove, Record, Doomed
  <2> QED BY <1>1, <1>3, <2>1, RemoveMutates
<1>7. ASSUME NEW i \in Instance, MutateDuringReplay(i) PROVE Kinds
  <2>1. pending = << >> /\ UNCHANGED streamVars
    BY <1>7 DEF MutateDuringReplay
  <2>2. CASE i \in Expired /\ RemoveRecord(i, metadata[i].generation)
    <3>1. metadata[i].generation \in Nat
      BY <1>1, <2>2 DEF TypeOK, Expired, Published, Record
    <3> QED BY <1>1, <1>3, <2>1, <2>2, <3>1, RemoveMutates
  <2>3. CASE \E in \in Input : ObserveInput(i, in)
    BY <1>1, <1>3, <2>1, <2>3, ObserveMutates
  <2> QED BY <1>7, <2>2, <2>3 DEF MutateDuringReplay
<1>8. CASE NextEvent \/ SweepDuringDispatch
           \/ \E s \in Stream : \/ Deliver(s) \/ Replay(s) \/ TakeSnapshot(s) \/ AdmitDuringDispatch(s)
                               \/ Admit(s) \/ GoLive(s)
  BY <1>8 DEF Kinds
<1>9. CASE \E s \in Stream : Close(s) \/ AdmissionThrows(s)
  BY <1>9 DEF Kinds, Close, AdmissionThrows
<1>10. CASE Poll \/ Sweep \/ Clear \/ ObserveDone \/ RetireDone \/ SweepDone
  BY <1>2, <1>10 DEF Poll, Reconcile, Sweep, Clear, ObserveDone, RetireDone, SweepDone
<1>11. CASE Tick
  <2>1. ASSUME NEW i \in Instance, metadata[i] # None
        PROVE  metadata'[i] # None /\ View(metadata'[i]) = View(metadata[i])
    <3>1. metadata[i] \in Record
      BY <1>1, <2>1 DEF TypeOK
    <3>2. metadata'[i] \in {metadata[i], [metadata[i] EXCEPT !.age = metadata[i].age + 1]}
      BY <1>11, <2>1 DEF Tick
    <3>3. metadata'[i] # None
      <4>1. metadata'[i] = metadata[i] \/ metadata[i].age < Ttl
        BY <1>11, <2>1 DEF Tick
      <4>2. metadata[i].age \in 0 .. Ttl /\ Ttl \in Nat
        BY <3>1, ConstantsAssumption DEF Record
      <4>3. metadata'[i] \in Record
        BY <3>1, <3>2, <4>1, <4>2 DEF Record
      <4> QED BY <4>3, NoneIsNoCard
    <3> QED BY <3>1, <3>2, <3>3 DEF Record, View
  <2>2. \A i \in Instance : metadata[i] = None => metadata'[i] = None
    BY <1>11 DEF Tick
  <2> QED BY <1>11, <2>1, <2>2 DEF Tick, Kinds, Quiet, queueVars
<1>12. CASE (\E e \in alerts : SettleAlert(e)) \/ UNCHANGED vars
  BY <1>2, <1>12 DEF SettleAlert, registryVars, queueVars, streamVars, vars
<1> QED
  BY <1>4, <1>5, <1>6, <1>7, <1>8, <1>9, <1>10, <1>11, <1>12 DEF Next, RunCall, Dispatch, Reenter

LEMMA OnceStep == ASSUME IInv, Kinds, TypeOK', OnceInv PROVE OnceInv'
<1>1. TypeOK
  BY DEF IInv
<1>2. CASE Quiet /\ UNCHANGED streamVars
  <2>1. Line' /\ \A s \in Stream : Reached(s)' = Reached(s)
    BY <1>2 DEF OnceInv, Line, Reached, Quiet
  <2> QED BY <1>2, <2>1, SameOnce DEF OnceInv, streamVars
<1>3. ASSUME NEW s \in Stream, UNCHANGED <<revision, pending>>,
             \A t \in Stream : t # s =>
               /\ phase'[t] = phase[t] /\ from'[t] = from[t] /\ seen'[t] = seen[t]
               /\ handed'[t] = handed[t] /\ buffer'[t] = buffer[t] /\ (t \in owed' <=> t \in owed),
             OnceFor(s)'
      PROVE  OnceInv'
  <2>1. Line'
    BY <1>3 DEF OnceInv, Line
  <2>2. ASSUME NEW t \in Stream, t # s PROVE OnceFor(t)'
    <3>1. Reached(t)' = Reached(t)
      BY <1>3, <2>2 DEF Reached
    <3> QED BY <1>3, <2>2, <3>1, SameOnce DEF OnceInv
  <2> QED BY <1>3, <2>1, <2>2 DEF OnceInv
<1>4. ASSUME NEW s \in Stream, Admit(s) \/ GoLive(s) PROVE OnceInv'
  <2>1. /\ UNCHANGED <<revision, pending, owed, from, seen, handed, buffer>>
        /\ \A t \in Stream : t # s => phase'[t] = phase[t]
    BY <1>1, <1>4 DEF Admit, GoLive, registryVars, queueVars, TypeOK
  <2>2. Reached(s)' = Reached(s)
    BY <2>1 DEF Reached
  <2>3. \/ phase'[s] = "admitting"
        \/ phase[s] \in {"replaying", "live"} /\ phase'[s] = "live"
    BY <1>1, <1>4 DEF Admit, GoLive, IInv, Gates, TypeOK
  <2>4. OnceFor(s)'
    BY <2>1, <2>2, <2>3 DEF OnceInv, OnceFor
  <2> QED BY <1>3, <2>1, <2>4
<1>5. ASSUME NEW s \in Stream, Unsubscribe(s), UNCHANGED <<registryVars, pending>> PROVE OnceInv'
  <2>1. buffer'[s] = << >> /\ phase'[s] = "closed"
    BY <1>1, <1>5 DEF Unsubscribe, TypeOK
  <2>2. OnceFor(s)'
    BY <2>1, ClosedOnce
  <2>3. \A t \in Stream : t # s =>
          /\ phase'[t] = phase[t] /\ from'[t] = from[t] /\ seen'[t] = seen[t]
          /\ handed'[t] = handed[t] /\ buffer'[t] = buffer[t] /\ (t \in owed' <=> t \in owed)
    BY <1>1, <1>5 DEF Unsubscribe, TypeOK
  <2> QED BY <1>3, <1>5, <2>2, <2>3 DEF registryVars
<1> QED
  BY <1>2, <1>4, <1>5, MutatedOnce, NextEventOnce, SweepOnce, DeliverOnce, ReplayOnce, SnapshotOnce
     DEF Kinds

(* A stream is handed every revision after its snapshot exactly once and in order,         *)
(* whatever its listeners and those of the other streams do to the registry meanwhile      *)
(* (registry.ts, subscribeWithSnapshot, #emit and #notify).                              *)
THEOREM StreamsAreInOrder == Spec => []EachEventOnce
<1>1. Init => IInv /\ Doomed /\ OnceInv
  <2> SUFFICES ASSUME Init PROVE IInv /\ Doomed /\ OnceInv
    OBVIOUS
  <2>1. Line /\ \A s \in Stream : phase[s] = "closed" /\ buffer[s] = << >>
    BY DEF Init, Line
  <2>2. \A s \in Stream : OnceFor(s)
    BY <2>1 DEF OnceFor
  <2>3. Doomed
    BY DEF Init, NoCall, Doomed
  <2> QED BY <2>1, <2>2, <2>3, IInvInit DEF OnceInv
<1>2. IInv /\ Doomed /\ OnceInv /\ TypeOK' /\ [Next]_vars => (IInv /\ Doomed /\ OnceInv)'
  <2>1. IInv => TypeOK
    BY DEF IInv
  <2> QED BY <2>1, IInvStep, DoomedStep, StepKinds, OnceStep
<1>3. IInv /\ OnceInv => EachEventOnce
  <2> SUFFICES ASSUME IInv, OnceInv, NEW s \in Stream, phase[s] \in {"replaying", "live"}
               PROVE  /\ seen[s] = from[s] + handed[s]
                      /\ (phase[s] = "live" /\ Idle) => seen[s] = revision
    BY DEF EachEventOnce
  <2>1. /\ seen[s] = from[s] + handed[s]
        /\ seen[s] = IF Reached(s) - Len(buffer[s]) > from[s]
                     THEN Reached(s) - Len(buffer[s]) ELSE from[s]
    BY DEF OnceInv, OnceFor
  <2>2. ASSUME phase[s] = "live", Idle PROVE seen[s] = revision
    <3>1. Len(buffer[s]) = 0 /\ Reached(s) = revision
      BY <2>2 DEF IInv, Gates, Idle, Reached
    <3>2. from[s] <= revision /\ from[s] \in Nat /\ revision \in Nat
      BY DEF IInv, Bounds, TypeOK
    <3> QED BY <2>1, <3>1, <3>2
  <2> QED BY <2>1, <2>2
<1> QED BY TypeInvariant, <1>1, <1>2, <1>3, PTL DEF Spec

-----------------------------------------------------------------------------
(* What a stream will be told: the events still to be handed to it, by their revisions.   *)

ToCome(s) == {k \in 1 .. Len(pending) : (k > 1 \/ s \in owed) /\ pending[k].type # "stop"}

Out(s) ==
  {e \in {buffer[s][k] : k \in 1 .. Len(buffer[s])} \cup {pending[k] : k \in ToCome(s)} :
     e.revision > from[s]}

(* c is what a reader that holds the directory dir, and is handed the events of O, holds   *)
(* of i just before revision n.                                                          *)
Prev(O, dir, i, n, c) ==
  \/ /\ \A x \in O : x.instance = i => x.revision >= n
     /\ c = dir[i]
  \/ \E x \in O : /\ x.instance = i /\ x.revision < n /\ c = x.card
                  /\ \A y \in O : y.instance = i /\ y.revision < n => y.revision <= x.revision

(* No event takes back what the reader holds by then, except where an orphan left it.     *)
Told(O, dir, i, o) ==
  \A x \in O, c \in Card \cup {None} :
    x.instance = i /\ Prev(O, dir, i, x.revision, c) =>
      c = None \/ <<i, c.generation>> \in o \/ Supersedes(x, c)

(* Once everything due was handed over, the reader holds the registry's word.             *)
Ends(O, dir, i, n, m, o) ==
  \A c \in Card \cup {None} : Prev(O, dir, i, n + 1, c) => Word(m, o, i, c)

TellsTruth(s) ==
  \A i \in Instance : /\ Told(Out(s), mirror[s], i, orphans)
                      /\ Ends(Out(s), mirror[s], i, revision, metadata, orphans)

ToldInv == \A s \in Stream : phase[s] \in {"replaying", "live"} => TellsTruth(s)

(* Revisions rise along the queue, a stop apart.                                         *)
Sorted ==
  \A j, k \in 1 .. Len(pending) :
    j < k /\ pending[k].type # "stop" => pending[j].revision < pending[k].revision

(* An event is appended.                                                                 *)
LEMMA ExtendTold ==
  ASSUME NEW O \in SUBSET Event, NEW dir, NEW i \in Instance, NEW n \in Nat,
         NEW n1 \in Nat, NEW N \in SUBSET Event, NEW m, NEW o, NEW m1, NEW o1, o \subseteq o1, n <= n1,
         \A x \in O : x.revision <= n, \A x \in N : x.revision > n /\ x.revision <= n1,
         \A x, y \in N : x.instance = i /\ y.instance = i => x = y \/ (x.card = None /\ y.card = None),
         Told(O, dir, i, o), Ends(O, dir, i, n, m, o),
         \A x \in N : x.instance = i => Word(m1, o1, i, x.card),
         \A x \in N : x.instance = i /\ m[i] # None => Supersedes(x, View(m[i])),
         (\A x \in N : x.instance # i) =>
            (m1[i] = None <=> m[i] = None) /\ (m[i] # None => View(m1[i]) = View(m[i]))
  PROVE  Told(O \cup N, dir, i, o1) /\ Ends(O \cup N, dir, i, n1, m1, o1)
<1> DEFINE P == O \cup N
<1>0. \A x \in P : x \in Event /\ x.revision \in Nat
  BY DEF Event
<1>1. \A x \in P : x.revision > n <=> x \in N
  BY <1>0
<1>2. ASSUME NEW k \in Nat, k <= n + 1, NEW c, Prev(P, dir, i, k, c) PROVE Prev(O, dir, i, k, c)
  <2>1. \A x \in P : x.revision < k => x \in O
    BY <1>0, <1>1, <1>2
  <2> QED BY <1>2, <2>1 DEF Prev
<1>3. ASSUME NEW k \in Nat, k > n + 1, NEW c, Prev(P, dir, i, k, c)
      PROVE  Prev(O, dir, i, n + 1, c) \/ \E x \in N : x.instance = i /\ c = x.card /\ x.revision < k
  <2>1. CASE \A x \in P : x.instance = i => x.revision >= k
    <3>1. \A x \in O : x.instance = i => x.revision >= n + 1
      BY <1>0, <1>3, <2>1
    <3> QED BY <1>3, <2>1, <3>1, <1>0 DEF Prev
  <2>2. CASE \E x \in P : /\ x.instance = i /\ x.revision < k /\ c = x.card
                          /\ \A y \in P : y.instance = i /\ y.revision < k => y.revision <= x.revision
    <3>1. PICK x \in P : /\ x.instance = i /\ x.revision < k /\ c = x.card
                         /\ \A y \in P : y.instance = i /\ y.revision < k => y.revision <= x.revision
      BY <2>2
    <3>2. CASE x \in N
      BY <3>1, <3>2
    <3>3. CASE x \notin N
      <4>1. x \in O /\ x.revision < n + 1
        BY <1>0, <3>1, <3>3
      <4>2. \A y \in O : y.instance = i /\ y.revision < n + 1 => y.revision <= x.revision
        BY <1>0, <1>3, <3>1
      <4> QED BY <3>1, <4>1, <4>2 DEF Prev
    <3> QED BY <3>2, <3>3
  <2> QED BY <1>3, <2>1, <2>2 DEF Prev
<1>4. ASSUME NEW c \in Card \cup {None}, Prev(O, dir, i, n + 1, c)
      PROVE  c = None \/ <<i, c.generation>> \in o \/ (m[i] # None /\ c = View(m[i]))
  BY <1>4 DEF Ends, Word
<1>5. Told(P, dir, i, o1)
  <2> SUFFICES ASSUME NEW x \in P, NEW c \in Card \cup {None}, x.instance = i,
                      Prev(P, dir, i, x.revision, c)
               PROVE  c = None \/ <<i, c.generation>> \in o1 \/ Supersedes(x, c)
    BY DEF Told
  <2>1. CASE x \in O
    <3>1. x.revision <= n + 1 /\ x.revision \in Nat
      BY <1>0, <2>1
    <3>2. Prev(O, dir, i, x.revision, c)
      BY <1>2, <3>1
    <3> QED BY <2>1, <3>2 DEF Told
  <2>2. CASE x \in N
    <3>0. x.revision \in Nat /\ x.revision >= n + 1
      BY <1>0, <2>2
    <3>1. Prev(O, dir, i, n + 1, c) \/ \E y \in N : y.instance = i /\ c = y.card /\ y.revision < x.revision
      <4>1. CASE x.revision = n + 1
        BY <1>2, <3>0, <4>1
      <4>2. CASE x.revision > n + 1
        BY <1>3, <3>0, <4>2
      <4> QED BY <3>0, <4>1, <4>2
    <3>2. ASSUME NEW y \in N, y.instance = i, c = y.card, y.revision < x.revision PROVE c = None
      BY <1>0, <2>2, <3>2
    <3>3. CASE Prev(O, dir, i, n + 1, c)
      BY <1>4, <2>2, <3>3
    <3> QED BY <3>1, <3>2, <3>3
  <2> QED BY <2>1, <2>2
<1>6. Ends(P, dir, i, n1, m1, o1)
  <2> SUFFICES ASSUME NEW c \in Card \cup {None}, Prev(P, dir, i, n1 + 1, c)
               PROVE  Word(m1, o1, i, c)
    BY DEF Ends
  <2>1. CASE \E x \in N : x.instance = i /\ c = x.card
    BY <2>1
  <2>2. CASE ~\E x \in N : x.instance = i /\ c = x.card
    <3>1. Prev(O, dir, i, n + 1, c)
      <4>0. n1 + 1 \in Nat /\ n + 1 \in Nat /\ (n1 + 1 <= n + 1 \/ n1 + 1 > n + 1)
        OBVIOUS
      <4> DEFINE k == n1 + 1
      <4>1. CASE k <= n + 1
        <5>1. k \in Nat /\ Prev(P, dir, i, k, c)
          BY <4>0
        <5>2. Prev(O, dir, i, k, c)
          <6> HIDE DEF P, k
          <6> QED BY <1>2, <4>1, <5>1
        <5>3. k = n + 1
          BY <4>1
        <5> QED BY <5>2, <5>3
      <4>2. CASE k > n + 1
        <5>1. k \in Nat /\ Prev(P, dir, i, k, c)
          BY <4>0
        <5> HIDE DEF P, k
        <5> QED BY <1>3, <2>2, <4>2, <5>1
      <4> QED BY <4>0, <4>1, <4>2
    <3>2. CASE \A x \in N : x.instance # i
      <4>1. Word(m, o, i, c)
        BY <3>1 DEF Ends
      <4> QED BY <3>2, <4>1 DEF Word
    <3>3. CASE \E x \in N : x.instance = i
      <4>1. PICK x \in N : x.instance = i
        BY <3>3
      <4>2. /\ x \in P /\ x.revision < n1 + 1 /\ x.revision \in Nat
        BY <1>0, <4>1
      <4>3. \E z \in P : z.instance = i /\ z.revision < n1 + 1 /\ c = z.card
                         /\ \A y \in P : y.instance = i /\ y.revision < n1 + 1 => y.revision <= z.revision
        BY <1>0, <4>1, <4>2 DEF Prev
      <4>4. PICK z \in P : z.instance = i /\ z.revision < n1 + 1 /\ c = z.card
                         /\ \A y \in P : y.instance = i /\ y.revision < n1 + 1 => y.revision <= z.revision
        BY <4>3
      <4>5. x.revision <= z.revision
        BY <4>1, <4>2, <4>4
      <4>6. z \in N
        BY <1>0, <4>1, <4>2, <4>4, <4>5
      <4> QED BY <2>2, <4>4, <4>6
    <3> QED BY <3>2, <3>3
  <2> QED BY <2>1, <2>2
<1> QED BY <1>5, <1>6

(* The first event due is handed over.                                                   *)
LEMMA HandTold ==
  ASSUME NEW O \in SUBSET Event, NEW dir \in [Instance -> Card \cup {None}], NEW i \in Instance,
         NEW n \in Nat, NEW m, NEW o, NEW e \in O,
         \A x \in O : x.revision <= n,
         \A x \in O : x = e \/ x.revision > e.revision,
         Told(O, dir, i, o), Ends(O, dir, i, n, m, o),
         e.type # "stop", \A j \in Instance : m[j] # None => View(m[j]) # None
  PROVE  /\ Told(O \ {e}, Apply(dir, e), i, o) /\ Ends(O \ {e}, Apply(dir, e), i, n, m, o)
         /\ \/ Apply(dir, e)[i] = dir[i]
            \/ dir[i] = None \/ <<i, dir[i].generation>> \in o \/ Apply(dir, e)[i] = None
            \/ Apply(dir, e)[i].generation >= dir[i].generation
<1> DEFINE P == O \ {e}
           d == Apply(dir, e)
<1>0. /\ \A x \in O : x \in Event /\ x.revision \in Nat
      /\ e \in Event /\ e.revision \in Nat /\ e.instance \in Instance
      /\ dir[i] \in Card \cup {None}
  BY DEF Event
<1>1. CASE e.instance # i
  <2>1. d[i] = dir[i]
    BY <1>0, <1>1 DEF Apply
  <2>2. ASSUME NEW k, NEW c, Prev(P, d, i, k, c) PROVE Prev(O, dir, i, k, c)
    <3>1. \A x : (x \in O /\ x.instance = i) <=> (x \in P /\ x.instance = i)
      BY <1>1
    <3> HIDE DEF P, d
    <3>2. CASE (\A x \in P : x.instance = i => x.revision >= k) /\ c = d[i]
      BY <2>1, <3>1, <3>2 DEF Prev
    <3>3. CASE \E x \in P : /\ x.instance = i /\ x.revision < k /\ c = x.card
                            /\ \A y \in P : y.instance = i /\ y.revision < k => y.revision <= x.revision
      BY <3>1, <3>3 DEF Prev
    <3> QED BY <2>2, <3>2, <3>3 DEF Prev
  <2>3. Told(P, d, i, o)
    BY <2>2 DEF Told
  <2>4. Ends(P, d, i, n, m, o)
    BY <2>2 DEF Ends
  <2> QED BY <2>1, <2>3, <2>4
<1>2. CASE e.instance = i
  <2>1. Prev(O, dir, i, e.revision, dir[i])
    <3>1. \A x \in O : x.revision >= e.revision
      BY <1>0
    <3> QED BY <3>1 DEF Prev
  <2>2. dir[i] = None \/ <<i, dir[i].generation>> \in o \/ Supersedes(e, dir[i])
    BY <1>0, <1>2, <2>1 DEF Told
  <2>3. d[i] = e.card \/ (dir[i] # None /\ e.type = "remove" /\ d[i] = dir[i]
                          /\ dir[i].generation # e.generation)
    BY <1>0, <1>2 DEF Apply, Event
  <2>4. ASSUME NEW k \in Nat, k > e.revision, NEW c, Prev(P, d, i, k, c),
               ~(c = d[i] /\ \A x \in P : x.instance = i => x.revision >= k)
        PROVE  Prev(O, dir, i, k, c)
    <3>1. PICK x \in P : x.instance = i /\ x.revision < k /\ c = x.card
                         /\ \A y \in P : y.instance = i /\ y.revision < k => y.revision <= x.revision
      BY <2>4 DEF Prev
    <3>2. \A y \in O : y.instance = i /\ y.revision < k => y.revision <= x.revision
      BY <1>0, <3>1
    <3> QED BY <3>1, <3>2 DEF Prev
  <2>5. ASSUME NEW k \in Nat, k > e.revision, \A x \in P : x.instance = i => x.revision >= k
        PROVE  Prev(O, dir, i, k, e.card)
    <3>1. \A y \in O : y.instance = i /\ y.revision < k => y.revision <= e.revision
      BY <1>0, <2>5
    <3> QED BY <1>2, <2>5, <3>1 DEF Prev
  <2>6. Told(P, d, i, o)
    <3> SUFFICES ASSUME NEW x \in P, NEW c \in Card \cup {None}, x.instance = i,
                        Prev(P, d, i, x.revision, c)
                 PROVE  c = None \/ <<i, c.generation>> \in o \/ Supersedes(x, c)
      BY DEF Told
    <3>1. x \in O /\ x.revision \in Nat /\ x.revision > e.revision
      BY <1>0
    <3>2. CASE Prev(O, dir, i, x.revision, c)
      BY <3>1, <3>2 DEF Told
    <3>3. CASE c = d[i] /\ \A y \in P : y.instance = i => y.revision >= x.revision
      <4>1. CASE d[i] = e.card
        BY <2>5, <3>1, <3>2, <3>3, <4>1
      <4>2. CASE d[i] # e.card
        BY <2>2, <2>3, <3>3, <4>2 DEF Supersedes
      <4> QED BY <4>1, <4>2
    <3> QED BY <2>4, <3>1, <3>2, <3>3
  <2>7. Ends(P, d, i, n, m, o)
    <3> SUFFICES ASSUME NEW c \in Card \cup {None}, Prev(P, d, i, n + 1, c)
                 PROVE  Word(m, o, i, c)
      BY DEF Ends
    <3>1. n + 1 \in Nat /\ n + 1 > e.revision
      BY <1>0
    <3>2. CASE Prev(O, dir, i, n + 1, c)
      BY <3>2 DEF Ends
    <3>3. CASE c = d[i] /\ \A y \in P : y.instance = i => y.revision >= n + 1
      <4>1. Prev(O, dir, i, n + 1, e.card)
        BY <2>5, <3>1, <3>3
      <4>2. CASE d[i] = e.card
        BY <3>2, <3>3, <4>1, <4>2
      <4>3. CASE d[i] # e.card
        <5>1. /\ e.card = None /\ d[i] = dir[i] /\ dir[i] # None /\ <<i, dir[i].generation>> \in o
          BY <1>0, <2>2, <2>3, <4>3 DEF Supersedes, Event
        <5>2. Word(m, o, i, None)
          BY <4>1, <5>1 DEF Ends
        <5>3. m[i] = None
          BY <5>2 DEF Word
        <5> QED BY <3>3, <5>1, <5>3 DEF Word
      <4> QED BY <4>2, <4>3
    <3> QED BY <2>4, <3>1, <3>2, <3>3
  <2>8. \/ d[i] = dir[i]
        \/ dir[i] = None \/ <<i, dir[i].generation>> \in o \/ d[i] = None
        \/ d[i].generation >= dir[i].generation
    <3>1. CASE e.type = "remove"
      BY <1>0, <2>3, <3>1 DEF Event
    <3>2. CASE e.type # "remove"
      BY <1>0, <2>2, <2>3, <3>2 DEF Supersedes
    <3> QED BY <3>1, <3>2
  <2> QED BY <2>6, <2>7, <2>8
<1> QED BY <1>1, <1>2

LEMMA SortedStep == ASSUME IInv, TypeOK', Kinds, Sorted PROVE Sorted'
<1>1. /\ TypeOK /\ pending \in Seq(Event) /\ Len(pending) \in Nat /\ revision \in Nat
      /\ \A k \in 1 .. Len(pending) : pending[k].revision \in Nat /\ pending[k].revision <= revision
  <2>1. TypeOK /\ pending \in Seq(Event) /\ revision \in Nat
    BY DEF IInv, TypeOK
  <2>2. \A k \in 1 .. Len(pending) : pending[k] \in Event
    BY <2>1, ElementOfSeq
  <2> QED BY <2>1, <2>2 DEF IInv, Bounds, Event
<1>2. CASE UNCHANGED pending
  BY <1>2 DEF Sorted
<1>3. CASE \E i \in Instance : \E events : Announced(i, events)
  <2>0. PICK i \in Instance : \E events : Announced(i, events)
    BY <1>3
  <2>1. PICK events : Announced(i, events)
    BY <2>0
  <2>2. /\ pending' = events /\ Len(events) \in {1, 2}
        /\ \A k \in 1 .. Len(events) : k # 1 => events[k].type = "stop"
    BY <2>1 DEF Announced
  <2> QED BY <2>2 DEF Sorted
<1>4. CASE NextEvent
  <2>1. /\ Len(pending') = Len(pending) - 1
        /\ \A k \in 1 .. Len(pending') : pending'[k] = pending[k + 1]
    BY <1>1, <1>4, HeadTailProperties DEF NextEvent
  <2>2. \A k \in 1 .. Len(pending') : k + 1 \in 1 .. Len(pending)
    BY <1>1, <2>1
  <2> QED BY <2>1, <2>2 DEF Sorted
<1>5. CASE SweepDuringDispatch
  <2>1. PICK n \in Nat :
          /\ Len(pending') = Len(pending) + n
          /\ \A k \in 1 .. Len(pending') :
               IF k <= Len(pending) THEN pending'[k] = pending[k]
               ELSE pending'[k].revision = revision + (k - Len(pending))
    BY <1>1, <1>5, SweepQueues
  <2> SUFFICES ASSUME NEW j \in 1 .. Len(pending'), NEW k \in 1 .. Len(pending'), j < k,
                      pending'[k].type # "stop"
               PROVE  pending'[j].revision < pending'[k].revision
    BY DEF Sorted
  <2>2. CASE k <= Len(pending)
    <3>1. j \in 1 .. Len(pending) /\ k \in 1 .. Len(pending)
      BY <1>1, <2>1, <2>2
    <3> QED BY <2>1, <2>2, <3>1 DEF Sorted
  <2>3. CASE ~(k <= Len(pending))
    <3>1. pending'[k].revision = revision + (k - Len(pending))
      BY <2>1, <2>3
    <3>2. CASE j <= Len(pending)
      <4>1. j \in 1 .. Len(pending) /\ pending'[j] = pending[j]
        BY <1>1, <2>1, <3>2
      <4>2. pending[j].revision \in Nat /\ pending[j].revision <= revision
        BY <1>1, <4>1
      <4> QED BY <1>1, <2>1, <2>3, <3>1, <4>1, <4>2
    <3>3. CASE ~(j <= Len(pending))
      <4>1. pending'[j].revision = revision + (j - Len(pending))
        BY <2>1, <3>3
      <4> QED BY <1>1, <2>1, <3>1, <4>1
    <3> QED BY <3>2, <3>3
  <2> QED BY <2>2, <2>3
<1>6. CASE \E s \in Stream : Deliver(s) \/ Replay(s) \/ TakeSnapshot(s) \/ AdmitDuringDispatch(s)
                             \/ Admit(s) \/ GoLive(s)
  BY <1>2, <1>6 DEF Deliver, Replay, TakeSnapshot, AdmitDuringDispatch, Admit, GoLive, queueVars
<1> QED BY <1>2, <1>3, <1>4, <1>5, <1>6 DEF Kinds, Mutated, Quiet

(* What is due is made of events other than stops, of revisions already spent.            *)
LEMMA OutType ==
  ASSUME IInv, NEW s \in Stream
  PROVE  /\ Out(s) \in SUBSET Event
         /\ \A x \in Out(s) : x.type # "stop" /\ x.revision <= revision
<1>1. pending \in Seq(Event) /\ buffer[s] \in Seq(Event)
  BY DEF IInv, TypeOK
<1>2. /\ \A k \in 1 .. Len(pending) : pending[k] \in Event
      /\ \A k \in 1 .. Len(buffer[s]) : buffer[s][k] \in Event
  BY <1>1, ElementOfSeq
<1> QED BY <1>2 DEF Out, ToCome, IInv, Bounds

LEMMA OutSame ==
  ASSUME NEW s \in Stream, UNCHANGED pending, buffer'[s] = buffer[s], from'[s] = from[s],
         s \in owed' <=> s \in owed
  PROVE  Out(s)' = Out(s)
BY DEF Out, ToCome

LEMMA TruthSame ==
  ASSUME NEW s \in Stream, TellsTruth(s), Out(s)' = Out(s), mirror'[s] = mirror[s],
         UNCHANGED <<revision, orphans>>,
         \A j \in Instance : metadata'[j] = None <=> metadata[j] = None,
         \A j \in Instance : metadata[j] # None => View(metadata'[j]) = View(metadata[j])
  PROVE  TellsTruth(s)'
<1> SUFFICES ASSUME NEW i \in Instance
             PROVE  /\ Told(Out(s)', mirror'[s], i, orphans')
                    /\ Ends(Out(s)', mirror'[s], i, revision', metadata', orphans')
  BY DEF TellsTruth
<1>1. Told(Out(s), mirror[s], i, orphans) /\ Ends(Out(s), mirror[s], i, revision, metadata, orphans)
  BY DEF TellsTruth
<1>2. \A c : Word(metadata, orphans, i, c) => Word(metadata', orphans', i, c)
  BY DEF Word
<1> QED BY <1>1, <1>2 DEF Ends

(* Revisions are spent and announced at the end of the queue.                             *)
LEMMA TruthExtends ==
  ASSUME IInv, TypeOK', NEW s \in Stream, TellsTruth(s), NEW N \in SUBSET Event,
         Out(s)' = Out(s) \cup N, mirror'[s] = mirror[s], orphans \subseteq orphans',
         revision <= revision',
         \A x \in N : x.revision > revision /\ x.revision <= revision',
         \A x, y \in N : x.instance = y.instance => x = y \/ (x.card = None /\ y.card = None),
         \A x \in N : Word(metadata', orphans', x.instance, x.card),
         \A x \in N : metadata[x.instance] # None => Supersedes(x, View(metadata[x.instance])),
         \A i \in Instance : (\A x \in N : x.instance # i) => metadata'[i] = metadata[i]
  PROVE  TellsTruth(s)'
<1> SUFFICES ASSUME NEW i \in Instance
             PROVE  /\ Told(Out(s)', mirror'[s], i, orphans')
                    /\ Ends(Out(s)', mirror'[s], i, revision', metadata', orphans')
  BY DEF TellsTruth
<1>1. Told(Out(s), mirror[s], i, orphans) /\ Ends(Out(s), mirror[s], i, revision, metadata, orphans)
  BY DEF TellsTruth
<1>2. revision \in Nat /\ revision' \in Nat
  BY DEF IInv, TypeOK
<1>3. Out(s) \in SUBSET Event /\ \A x \in Out(s) : x.revision <= revision
  BY OutType
<1>4. /\ \A x, y \in N : x.instance = i /\ y.instance = i => x = y \/ (x.card = None /\ y.card = None)
      /\ \A x \in N : x.instance = i => Word(metadata', orphans', i, x.card)
      /\ \A x \in N : x.instance = i /\ metadata[i] # None => Supersedes(x, View(metadata[i]))
      /\ (\A x \in N : x.instance # i) =>
           /\ metadata'[i] = None <=> metadata[i] = None
           /\ metadata[i] # None => View(metadata'[i]) = View(metadata[i])
  OBVIOUS
<1>5. /\ Told(Out(s) \cup N, mirror[s], i, orphans')
      /\ Ends(Out(s) \cup N, mirror[s], i, revision', metadata', orphans')
  BY <1>1, <1>2, <1>3, <1>4, ExtendTold
<1> QED BY <1>5

LEMMA MutatedTold ==
  ASSUME IInv, TypeOK', ToldInv, pending = << >>, UNCHANGED streamVars, NEW i \in Instance,
         NEW events, Announced(i, events)
  PROVE  ToldInv'
<1> SUFFICES ASSUME NEW s \in Stream, phase'[s] \in {"replaying", "live"} PROVE TellsTruth(s)'
  BY DEF ToldInv
<1>1. /\ phase'[s] = phase[s] /\ from'[s] = from[s] /\ buffer'[s] = buffer[s]
      /\ mirror'[s] = mirror[s] /\ TellsTruth(s)
  BY DEF streamVars, ToldInv
<1> DEFINE e == events[1]
           N == {events[1]}
<1>2. /\ pending' = events /\ owed' = Registered /\ revision' = revision + 1
      /\ events \in Seq(Event) /\ Len(events) \in {1, 2} /\ 1 \in 1 .. Len(events)
      /\ e.revision = revision + 1 /\ e.type # "stop" /\ e.instance = i /\ e \in Event
      /\ \A k \in 1 .. Len(events) : k # 1 => events[k].type = "stop"
  <2>1. 1 \in 1 .. Len(events) /\ events \in Seq(Event)
    BY DEF Announced
  <2>2. e \in Event
    BY <2>1, ElementOfSeq
  <2> QED BY <2>1, <2>2 DEF Announced
<1>3. /\ \A j \in Instance : j # i => metadata'[j] = metadata[j]
      /\ orphans \subseteq orphans' /\ Word(metadata', orphans', i, e.card)
      /\ metadata[i] # None => Supersedes(e, View(metadata[i]))
  BY DEF Announced
<1>4. s \in owed'
  BY <1>1, <1>2 DEF Registered
<1>5. ToCome(s) = {} /\ ToCome(s)' = {1}
  <2>1. ToCome(s) = {}
    BY EmptySeq DEF ToCome
  <2>2. ToCome(s)' = {k \in 1 .. Len(events) : (k > 1 \/ s \in owed') /\ events[k].type # "stop"}
    BY <1>2 DEF ToCome
  <2>3. \A k \in 1 .. Len(events) : (k > 1 \/ s \in owed') /\ events[k].type # "stop" <=> k = 1
    BY <1>2, <1>4
  <2> QED BY <1>2, <2>1, <2>2, <2>3
<1>6. revision \in Nat /\ from[s] \in Nat /\ from[s] <= revision
  BY DEF IInv, TypeOK, Bounds
<1>7. Out(s)' = Out(s) \cup N
  <2>1. Out(s) = {x \in {buffer[s][k] : k \in 1 .. Len(buffer[s])} : x.revision > from[s]}
    BY <1>5 DEF Out
  <2>2. Out(s)' = {x \in {buffer[s][k] : k \in 1 .. Len(buffer[s])} \cup {events[1]} : x.revision > from[s]}
    BY <1>1, <1>2, <1>5 DEF Out
  <2>3. events[1].revision > from[s]
    BY <1>2, <1>6
  <2> QED BY <2>1, <2>2, <2>3
<1>8. /\ N \in SUBSET Event /\ revision <= revision'
      /\ \A x \in N : x.revision > revision /\ x.revision <= revision'
      /\ \A x \in N : x.instance = i
  BY <1>2, <1>6
<1>9. /\ \A x, y \in N : x = y
      /\ \A x \in N : Word(metadata', orphans', x.instance, x.card)
      /\ \A x \in N : metadata[x.instance] # None => Supersedes(x, View(metadata[x.instance]))
      /\ \A j \in Instance : (\A x \in N : x.instance # j) => metadata'[j] = metadata[j]
  BY <1>2, <1>3
<1> HIDE DEF N, e
<1> QED BY <1>1, <1>3, <1>7, <1>8, <1>9, TruthExtends

LEMMA SweepTold ==
  ASSUME IInv, TypeOK', ToldInv, SweepDuringDispatch
  PROVE  ToldInv'
<1>1. PICK n \in Nat :
        /\ Len(pending') = Len(pending) + n /\ revision' = revision + n
        /\ \A k \in 1 .. Len(pending') :
             IF k <= Len(pending) THEN pending'[k] = pending[k]
             ELSE /\ pending'[k].revision = revision + (k - Len(pending))
                  /\ IsRemoval(pending'[k])
        /\ \A i \in Expired : \E k \in 1 .. Len(pending') :
             k > Len(pending) /\ pending'[k].instance = i
  BY SweepQueues DEF IInv
<1>2. /\ pending \in Seq(Event) /\ pending # << >> /\ pending' \in Seq(Event)
      /\ revision \in Nat /\ UNCHANGED <<owed, phase, from, mirror, buffer, orphans>>
      /\ Len(pending) \in Nat /\ Len(pending) # 0 /\ Len(pending') \in Nat
      /\ metadata' = [i \in Instance |-> IF i \in Expired THEN None ELSE metadata[i]]
  <2>1. pending \in Seq(Event) /\ pending # << >> /\ pending' \in Seq(Event) /\ revision \in Nat
    BY DEF IInv, TypeOK, SweepDuringDispatch
  <2>2. Len(pending) \in Nat /\ Len(pending) # 0 /\ Len(pending') \in Nat
    BY <2>1, EmptySeq
  <2> QED BY <2>1, <2>2 DEF SweepDuringDispatch, streamVars
<1> DEFINE K == {k \in 1 .. Len(pending') : ~(k <= Len(pending))}
           N == {pending'[k] : k \in K}
<1>3. \A k \in K : /\ pending'[k] \in Event /\ IsRemoval(pending'[k])
                   /\ pending'[k].revision = revision + (k - Len(pending))
                   /\ pending'[k].revision > revision /\ pending'[k].revision <= revision'
  <2> SUFFICES ASSUME NEW k \in K
               PROVE  /\ pending'[k] \in Event /\ IsRemoval(pending'[k])
                      /\ pending'[k].revision = revision + (k - Len(pending))
                      /\ pending'[k].revision > revision /\ pending'[k].revision <= revision'
    OBVIOUS
  <2>1. pending'[k] \in Event
    BY <1>2, ElementOfSeq
  <2>2. pending'[k].revision = revision + (k - Len(pending)) /\ IsRemoval(pending'[k])
    BY <1>1
  <2> QED BY <1>1, <1>2, <2>1, <2>2
<1>4. /\ N \in SUBSET Event
      /\ \A x \in N : /\ IsRemoval(x) /\ x.revision > revision /\ x.revision <= revision'
  BY <1>3
<1>5. /\ \A x, y \in N : x.instance = y.instance => x = y \/ (x.card = None /\ y.card = None)
      /\ \A x \in N : Word(metadata', orphans', x.instance, x.card)
      /\ \A x \in N : metadata[x.instance] # None => Supersedes(x, View(metadata[x.instance]))
  <2>1. \A x \in N : x.card = None
    BY <1>4 DEF IsRemoval
  <2>2. \A x \in N : metadata'[x.instance] = None
    BY <1>2, <1>4 DEF IsRemoval, Expired, Published
  <2>3. \A x \in N : x.type = "remove" /\ x.generation = View(metadata[x.instance]).generation
    BY <1>4 DEF IsRemoval, View
  <2> HIDE DEF N
  <2> QED BY <2>1, <2>2, <2>3 DEF Word, Supersedes
<1>6. \A i \in Instance : (\A x \in N : x.instance # i) => metadata'[i] = metadata[i]
  <2>1. \A i \in Expired : \E x \in N : x.instance = i
    <3> SUFFICES ASSUME NEW i \in Expired PROVE \E x \in N : x.instance = i
      OBVIOUS
    <3>1. PICK k \in 1 .. Len(pending') : k > Len(pending) /\ pending'[k].instance = i
      BY <1>1
    <3>2. k \in K
      BY <1>2, <3>1
    <3> QED BY <3>1, <3>2
  <2> HIDE DEF N
  <2> QED BY <1>2, <2>1
<1> SUFFICES ASSUME NEW s \in Stream, phase'[s] \in {"replaying", "live"} PROVE TellsTruth(s)'
  BY DEF ToldInv
<1>7. /\ TellsTruth(s) /\ mirror'[s] = mirror[s] /\ from[s] \in Nat /\ from[s] <= revision
  BY <1>2 DEF ToldInv, IInv, TypeOK, Bounds
<1>8. ToCome(s)' = ToCome(s) \cup K
  <2>1. ASSUME NEW k \in 1 .. Len(pending), k \in ToCome(s)' PROVE k \in ToCome(s)
    BY <1>1, <1>2, <2>1 DEF ToCome
  <2>2. ASSUME NEW k \in ToCome(s) PROVE k \in ToCome(s)'
    BY <1>1, <1>2, <2>2 DEF ToCome
  <2>3. ASSUME NEW k \in K PROVE k \in ToCome(s)'
    BY <1>1, <1>2, <1>3, <2>3 DEF ToCome, IsRemoval
  <2>4. ASSUME NEW k \in ToCome(s)' PROVE k \in 1 .. Len(pending) \/ k \in K
    BY <1>1, <1>2, <2>4 DEF ToCome
  <2> QED BY <2>1, <2>2, <2>3, <2>4
<1>9. Out(s)' = Out(s) \cup N
  <2>1. \A k \in ToCome(s) : pending'[k] = pending[k]
    BY <1>1, <1>2 DEF ToCome
  <2>2. \A x \in N : x.revision > from[s]
    BY <1>2, <1>3, <1>7
  <2>3. {pending'[k] : k \in ToCome(s)'} = {pending[k] : k \in ToCome(s)} \cup N
    <3> HIDE DEF K
    <3> QED BY <1>8, <2>1
  <2>4. /\ Out(s)' = {x \in {buffer[s][k] : k \in 1 .. Len(buffer[s])} \cup {pending'[k] : k \in ToCome(s)'} :
                         x.revision > from[s]}
        /\ Out(s) = {x \in {buffer[s][k] : k \in 1 .. Len(buffer[s])} \cup {pending[k] : k \in ToCome(s)} :
                         x.revision > from[s]}
    BY <1>2 DEF Out
  <2> HIDE DEF N
  <2> QED BY <2>2, <2>3, <2>4
<1>10. revision <= revision'
  BY <1>1, <1>2
<1> HIDE DEF N
<1> QED BY <1>2, <1>4, <1>5, <1>6, <1>7, <1>9, <1>10, TruthExtends

LEMMA NextEventTold ==
  ASSUME IInv, TypeOK', ToldInv, NextEvent
  PROVE  ToldInv'
<1> SUFFICES ASSUME NEW s \in Stream, phase'[s] \in {"replaying", "live"} PROVE TellsTruth(s)'
  BY DEF ToldInv
<1>1. /\ TypeOK /\ pending \in Seq(Event) /\ pending # << >> /\ pending' = Tail(pending)
      /\ UNCHANGED <<revision, metadata, orphans, phase, from, mirror, buffer>> /\ TellsTruth(s)
      /\ owed' = IF Tail(pending) = << >> THEN {} ELSE Registered
  BY DEF IInv, TypeOK, NextEvent, registryVars, streamVars, ToldInv
<1>2. /\ Len(pending) \in Nat /\ Len(pending') = Len(pending) - 1 /\ pending' \in Seq(Event)
      /\ \A k \in 1 .. Len(pending') : pending'[k] = pending[k + 1]
  BY <1>1, HeadTailProperties
<1>3. pending[1].type # "stop" => owed = {}
  <2>1. Head(pending) = pending[1]
    BY <1>1, QueueHead
  <2> QED BY <2>1 DEF NextEvent
<1>4. ASSUME NEW k \in 1 .. Len(pending') PROVE s \in owed'
  <2>1. pending' # << >>
    BY <1>2, <1>4, EmptySeq
  <2> QED BY <1>1, <2>1 DEF Registered
<1>5. \A k \in ToCome(s) : k - 1 \in ToCome(s)' /\ pending'[k - 1] = pending[k]
  <2> SUFFICES ASSUME NEW k \in ToCome(s) PROVE k - 1 \in ToCome(s)' /\ pending'[k - 1] = pending[k]
    OBVIOUS
  <2>1. k \in 1 .. Len(pending) /\ (k > 1 \/ s \in owed) /\ pending[k].type # "stop"
    BY DEF ToCome
  <2>2. k # 1
    BY <1>3, <2>1
  <2>3. k - 1 \in 1 .. Len(pending') /\ (k - 1) + 1 = k
    BY <1>2, <2>1, <2>2
  <2>4. pending'[k - 1] = pending[k]
    BY <1>2, <2>3
  <2> QED BY <1>4, <2>1, <2>3, <2>4 DEF ToCome
<1>6. \A k \in ToCome(s)' : k + 1 \in ToCome(s) /\ pending'[k] = pending[k + 1]
  <2> SUFFICES ASSUME NEW k \in ToCome(s)' PROVE k + 1 \in ToCome(s) /\ pending'[k] = pending[k + 1]
    OBVIOUS
  <2>1. k \in 1 .. Len(pending') /\ pending'[k].type # "stop"
    BY DEF ToCome
  <2>2. k + 1 \in 1 .. Len(pending) /\ k + 1 > 1 /\ pending'[k] = pending[k + 1]
    BY <1>2, <2>1
  <2> QED BY <2>1, <2>2 DEF ToCome
<1>7. {pending'[k] : k \in ToCome(s)'} = {pending[k] : k \in ToCome(s)}
  BY <1>5, <1>6
<1>8. Out(s)' = Out(s)
  BY <1>1, <1>7 DEF Out
<1> QED BY <1>1, <1>8, TruthSame

LEMMA SnapshotTold ==
  ASSUME IInv, TypeOK', ToldInv, NEW s \in Stream, TakeSnapshot(s) \/ AdmitDuringDispatch(s)
  PROVE  ToldInv'
<1>1. /\ UNCHANGED <<pending, revision, metadata, orphans, buffer>> /\ TypeOK
      /\ \A t \in Stream : t # s => /\ phase'[t] = phase[t] /\ from'[t] = from[t]
                                    /\ mirror'[t] = mirror[t] /\ (t \in owed' <=> t \in owed)
      /\ from'[s] = revision /\ mirror'[s] = Directory
  <2>1. TypeOK
    BY DEF IInv
  <2> QED BY <2>1, SnapshotDoes
<1>2. ASSUME NEW t \in Stream, t # s, phase'[t] \in {"replaying", "live"} PROVE TellsTruth(t)'
  <2>1. TellsTruth(t)
    BY <1>1, <1>2 DEF ToldInv
  <2>2. Out(t)' = Out(t)
    BY <1>1, <1>2, OutSame
  <2> QED BY <1>1, <1>2, <2>1, <2>2, TruthSame
<1>3. Out(s)' = {}
  <2>1. revision \in Nat /\ pending \in Seq(Event) /\ buffer[s] \in Seq(Event)
    BY <1>1 DEF TypeOK
  <2>2. /\ \A k \in 1 .. Len(pending) : pending[k] \in Event
        /\ \A k \in 1 .. Len(buffer[s]) : buffer[s][k] \in Event
    BY <2>1, ElementOfSeq
  <2>3. /\ \A k \in 1 .. Len(pending) : ~(pending[k].revision > revision)
        /\ \A k \in 1 .. Len(buffer[s]) : ~(buffer[s][k].revision > revision)
    <3>1. /\ \A k \in 1 .. Len(pending) : pending[k].revision \in Nat
          /\ \A k \in 1 .. Len(buffer[s]) : buffer[s][k].revision \in Nat
      BY <2>2 DEF Event
    <3>2. /\ \A k \in 1 .. Len(pending) : pending[k].revision <= revision
          /\ \A k \in 1 .. Len(buffer[s]) : buffer[s][k].revision <= revision
      BY DEF IInv, Bounds
    <3> QED BY <2>1, <3>1, <3>2
  <2>4. ToCome(s)' \subseteq 1 .. Len(pending)
    BY <1>1 DEF ToCome
  <2>5. Out(s)' = {x \in {buffer[s][k] : k \in 1 .. Len(buffer[s])} \cup {pending[k] : k \in ToCome(s)'} :
                     x.revision > revision}
    BY <1>1 DEF Out
  <2> QED BY <2>3, <2>4, <2>5
<1>4. TellsTruth(s)'
  <2> SUFFICES ASSUME NEW i \in Instance
               PROVE  /\ Told({}, Directory, i, orphans)
                      /\ Ends({}, Directory, i, revision, metadata, orphans)
    BY <1>1, <1>3 DEF TellsTruth
  <2>1. Directory[i] = IF metadata[i] = None THEN None ELSE View(metadata[i])
    BY DEF Directory
  <2>2. Word(metadata, orphans, i, Directory[i])
    BY <2>1 DEF Word
  <2> QED BY <2>2 DEF Told, Ends, Prev
<1> QED BY <1>2, <1>4 DEF ToldInv

(* What handing over the first event due does to one stream.                              *)
LEMMA TruthHanded ==
  ASSUME IInv, NEW s \in Stream, TellsTruth(s), NEW e \in Out(s),
         \A x \in Out(s) : x = e \/ x.revision > e.revision,
         Out(s)' = Out(s) \ {e}, mirror'[s] = Apply(mirror[s], e),
         UNCHANGED <<metadata, revision, orphans>>
  PROVE  /\ TellsTruth(s)'
         /\ \A i \in Instance :
              \/ mirror'[s][i] = mirror[s][i]
              \/ mirror[s][i] = None \/ <<i, mirror[s][i].generation>> \in orphans
              \/ mirror'[s][i] = None \/ mirror'[s][i].generation >= mirror[s][i].generation
<1>1. /\ mirror[s] \in [Instance -> Card \cup {None}] /\ revision \in Nat
      /\ Out(s) \in SUBSET Event /\ \A x \in Out(s) : x.type # "stop" /\ x.revision <= revision
  BY OutType DEF IInv, TypeOK
<1>2. \A j \in Instance : metadata[j] # None => View(metadata[j]) # None
  <2>1. \A j \in Instance : metadata[j] # None => metadata[j] \in Record
    BY DEF IInv, TypeOK
  <2> QED BY <2>1, ViewType, NoneIsNoCard
<1>3. ASSUME NEW i \in Instance
      PROVE  /\ Told(Out(s)', mirror'[s], i, orphans')
             /\ Ends(Out(s)', mirror'[s], i, revision', metadata', orphans')
             /\ \/ mirror'[s][i] = mirror[s][i]
                \/ mirror[s][i] = None \/ <<i, mirror[s][i].generation>> \in orphans
                \/ mirror'[s][i] = None \/ mirror'[s][i].generation >= mirror[s][i].generation
  <2>1. Told(Out(s), mirror[s], i, orphans) /\ Ends(Out(s), mirror[s], i, revision, metadata, orphans)
    BY DEF TellsTruth
  <2> DEFINE d == mirror[s]
             d1 == Apply(d, e)
             O == Out(s)
  <2> HIDE DEF d, O
  <2>2. /\ Told(O \ {e}, d1, i, orphans) /\ Ends(O \ {e}, d1, i, revision, metadata, orphans)
        /\ \/ d1[i] = d[i]
           \/ d[i] = None \/ <<i, d[i].generation>> \in orphans \/ d1[i] = None
           \/ d1[i].generation >= d[i].generation
    <3>1. /\ O \in SUBSET Event /\ d \in [Instance -> Card \cup {None}] /\ e \in O /\ e.type # "stop"
          /\ \A x \in O : x.revision <= revision
          /\ \A x \in O : x = e \/ x.revision > e.revision
          /\ Told(O, d, i, orphans) /\ Ends(O, d, i, revision, metadata, orphans)
      BY <1>1, <2>1 DEF d, O
    <3> HIDE DEF d1
    <3> QED BY <1>1, <1>2, <3>1, HandTold DEF d1
  <2> QED BY <2>2 DEF d, O
<1> QED BY <1>3 DEF TellsTruth

(* A delivery or a replay hands the first event due over, or hands nothing over.           *)
LEMMA DeliverTold ==
  ASSUME IInv, TypeOK', ToldInv, Sorted, NEW s \in Stream, Deliver(s)
  PROVE  /\ ToldInv'
         /\ phase[s] \in {"replaying", "live"} => \A i \in Instance :
              \/ mirror'[s][i] = mirror[s][i]
              \/ mirror[s][i] = None \/ <<i, mirror[s][i].generation>> \in orphans
              \/ mirror'[s][i] = None \/ mirror'[s][i].generation >= mirror[s][i].generation
<1> DEFINE e == pending[1]
<1>1. /\ TypeOK /\ pending # << >> /\ e.type # "stop" /\ s \in owed /\ owed' = owed \ {s}
      /\ UNCHANGED <<pending, revision, metadata, orphans, phase, from>>
      /\ Head(pending) = e /\ e \in Event /\ 1 \in 1 .. Len(pending) /\ e.revision \in Nat
  <2>1. TypeOK /\ pending # << >>
    BY DEF IInv, Deliver
  <2> QED BY <2>1, QueueHead DEF Deliver, registryVars
<1>2. ASSUME NEW t \in Stream, t # s, phase'[t] \in {"replaying", "live"} PROVE TellsTruth(t)'
  <2>1. TellsTruth(t) /\ mirror'[t] = mirror[t] /\ buffer'[t] = buffer[t]
    BY <1>1, <1>2 DEF ToldInv, Deliver, Hand, TypeOK
  <2>2. Out(t)' = Out(t)
    BY <1>1, <1>2, <2>1, OutSame
  <2> QED BY <1>1, <2>1, <2>2, TruthSame
<1>3. 1 \in ToCome(s) /\ ToCome(s)' = ToCome(s) \ {1}
  BY <1>1 DEF ToCome
<1>4. \A k \in ToCome(s) : k = 1 \/ pending[k].revision > e.revision
  <2> SUFFICES ASSUME NEW k \in ToCome(s), k # 1 PROVE pending[k].revision > e.revision
    OBVIOUS
  <2>1. k \in 1 .. Len(pending) /\ pending[k].type # "stop" /\ 1 < k
    BY DEF ToCome
  <2>2. pending[k] \in Event
    BY <1>1, <2>1, ElementOfSeq DEF TypeOK
  <2>3. pending[k].revision \in Nat
    BY <2>2 DEF Event
  <2> QED BY <1>1, <2>1, <2>3 DEF Sorted
<1> DEFINE B == {buffer[s][k] : k \in 1 .. Len(buffer[s])}
           Q == {pending[k] : k \in ToCome(s)}
           R == {pending[k] : k \in ToCome(s) \ {1}}
<1>5. Out(s) = {x \in B \cup Q : x.revision > from[s]} /\ Q = R \cup {e}
      /\ \A x \in R : x.revision > e.revision
  <2>1. Out(s) = {x \in B \cup Q : x.revision > from[s]}
    BY DEF Out
  <2>2. Q = R \cup {e}
    BY <1>3
  <2> QED BY <1>4, <2>1, <2>2
<1>6. phase[s] = "live" => B = {}
  BY DEF IInv, Gates
<1>7. ASSUME phase[s] = "live", Passes(s, e), Hand(s, e), buffer' = buffer
      PROVE  /\ TellsTruth(s)'
             /\ \A i \in Instance :
                  \/ mirror'[s][i] = mirror[s][i]
                  \/ mirror[s][i] = None \/ <<i, mirror[s][i].generation>> \in orphans
                  \/ mirror'[s][i] = None \/ mirror'[s][i].generation >= mirror[s][i].generation
  <2>1. Out(s)' = {x \in B \cup R : x.revision > from[s]}
    BY <1>1, <1>3, <1>7 DEF Out
  <2>2. e.revision > from[s]
    BY <1>7 DEF Passes
  <2>3. mirror'[s] = Apply(mirror[s], e)
    BY <1>1, <1>7 DEF Hand, TypeOK
  <2>4. TellsTruth(s)
    BY <1>7 DEF ToldInv
  <2> HIDE DEF B, Q, R, e
  <2>5. e \in Out(s) /\ \A x \in Out(s) : x = e \/ x.revision > e.revision
    BY <1>5, <1>6, <1>7, <2>2
  <2>6. Out(s)' = Out(s) \ {e}
    <3>1. ~(e.revision > e.revision)
      BY <1>1
    <3>2. e \notin R
      BY <1>5, <3>1
    <3> QED BY <1>5, <1>6, <1>7, <2>1, <3>2
  <2> QED BY <1>1, <2>3, <2>4, <2>5, <2>6, TruthHanded
<1>8. ASSUME phase[s] \in {"replaying", "live"}, mirror'[s] = mirror[s], Out(s)' = Out(s)
      PROVE  /\ TellsTruth(s)'
             /\ \A i \in Instance : mirror'[s][i] = mirror[s][i]
  <2>1. TellsTruth(s)
    BY <1>8 DEF ToldInv
  <2> QED BY <1>1, <1>8, <2>1, TruthSame
<1>9. ASSUME phase[s] = "live", ~Passes(s, e), UNCHANGED <<mirror, buffer>>
      PROVE  Out(s)' = Out(s)
  <2>1. Out(s)' = {x \in B \cup R : x.revision > from[s]}
    BY <1>1, <1>3, <1>9 DEF Out
  <2>2. ~(e.revision > from[s])
    BY <1>9 DEF Passes
  <2> HIDE DEF B, Q, R, e
  <2> QED BY <1>5, <2>1, <2>2
<1>10. ASSUME phase[s] # "live", UNCHANGED mirror, buffer' = [buffer EXCEPT ![s] = Append(@, e)]
       PROVE  Out(s)' = Out(s)
  <2> DEFINE b == buffer[s]
             c == Append(b, e)
  <2>0. b \in Seq(Event)
    BY <1>1 DEF TypeOK
  <2>1. buffer'[s] = c
    BY <1>1, <1>10 DEF TypeOK
  <2>2. /\ Len(b) \in Nat /\ Len(c) = Len(b) + 1
        /\ \A k \in 1 .. Len(c) : c[k] = IF k <= Len(b) THEN b[k] ELSE e
    BY <1>1, <2>0, AppendProperties
  <2> HIDE DEF e, b, c
  <2>3. {c[k] : k \in 1 .. Len(c)} = {b[k] : k \in 1 .. Len(b)} \cup {e}
    <3>1. \A k \in 1 .. Len(b) : k \in 1 .. Len(c) /\ c[k] = b[k]
      BY <2>2
    <3>2. Len(c) \in 1 .. Len(c) /\ c[Len(c)] = e
      BY <2>2
    <3>3. \A k \in 1 .. Len(c) : c[k] = e \/ (k \in 1 .. Len(b) /\ c[k] = b[k])
      BY <2>2
    <3> QED BY <3>1, <3>2, <3>3
  <2>4. Out(s)' = {x \in (B \cup {e}) \cup R : x.revision > from[s]}
    BY <1>1, <1>3, <2>1, <2>3 DEF Out, b
  <2> HIDE DEF B, Q, R
  <2> QED BY <1>5, <2>4
<1>11. phase[s] \in {"replaying", "live"} =>
        /\ TellsTruth(s)'
        /\ \A i \in Instance :
             \/ mirror'[s][i] = mirror[s][i]
             \/ mirror[s][i] = None \/ <<i, mirror[s][i].generation>> \in orphans
             \/ mirror'[s][i] = None \/ mirror'[s][i].generation >= mirror[s][i].generation
  <2>1. \/ phase[s] = "live" /\ Passes(s, e) /\ Hand(s, e) /\ buffer' = buffer
        \/ phase[s] = "live" /\ ~Passes(s, e) /\ UNCHANGED <<mirror, buffer>>
        \/ phase[s] # "live" /\ UNCHANGED mirror /\ buffer' = [buffer EXCEPT ![s] = Append(@, e)]
    BY <1>1 DEF Deliver
  <2> HIDE DEF e, B, Q, R
  <2> QED BY <1>7, <1>8, <1>9, <1>10, <2>1
<1> QED BY <1>1, <1>2, <1>11 DEF ToldInv

LEMMA ReplayTold ==
  ASSUME IInv, TypeOK', ToldInv, OnceInv, NEW s \in Stream, Replay(s)
  PROVE  ToldInv'
<1>1. /\ UNCHANGED <<pending, revision, metadata, orphans, owed, phase, from>> /\ TypeOK
      /\ buffer[s] # << >> /\ buffer'[s] = Tail(buffer[s]) /\ pending = << >>
      /\ \A t \in Stream : t # s => buffer'[t] = buffer[t] /\ mirror'[t] = mirror[t]
      /\ phase[s] = "replaying"
  BY DEF Replay, Hand, registryVars, queueVars, IInv, TypeOK, Gates
<1>2. ASSUME NEW t \in Stream, t # s, phase'[t] \in {"replaying", "live"} PROVE TellsTruth(t)'
  <2>1. TellsTruth(t) /\ Out(t)' = Out(t)
    BY <1>1, <1>2, OutSame DEF ToldInv
  <2> QED BY <1>1, <1>2, <2>1, TruthSame
<1> DEFINE b == buffer[s]
           e == b[1]
           R == Reached(s)
           T == {b[k] : k \in 2 .. Len(b)}
<1>3. R \in Int /\ b \in Seq(Event) /\ Len(b) \in Nat /\ from[s] \in Nat
  BY <1>1, ReachedType
<1>4. /\ Len(b) # 0 /\ Len(buffer'[s]) = Len(b) - 1 /\ Head(b) = b[1] /\ 1 \in 1 .. Len(b)
      /\ \A k \in 1 .. Len(buffer'[s]) : k + 1 \in 2 .. Len(b) /\ buffer'[s][k] = b[k + 1]
  BY <1>1, <1>3, HeadTailProperties, EmptySeq
<1>5. \A k \in 1 .. Len(b) : b[k].revision = R - (Len(b) - k)
  BY DEF OnceInv, OnceFor
<1>6. {buffer'[s][k] : k \in 1 .. Len(buffer'[s])} = T
  <2>1. \A k \in 2 .. Len(b) : k - 1 \in 1 .. Len(buffer'[s]) /\ buffer'[s][k - 1] = b[k]
    <3> SUFFICES ASSUME NEW k \in 2 .. Len(b)
                 PROVE  k - 1 \in 1 .. Len(buffer'[s]) /\ buffer'[s][k - 1] = b[k]
      OBVIOUS
    <3> HIDE DEF b
    <3>1. k - 1 \in 1 .. Len(buffer'[s]) /\ (k - 1) + 1 = k
      BY <1>3, <1>4
    <3> QED BY <1>4, <3>1
  <2> HIDE DEF b
  <2> QED BY <1>4, <2>1
<1>7. {b[k] : k \in 1 .. Len(b)} = T \cup {e}
  <2>1. \A k : k \in 1 .. Len(b) <=> k = 1 \/ k \in 2 .. Len(b)
    <3> HIDE DEF b
    <3> QED BY <1>3, <1>4
  <2> HIDE DEF b
  <2> QED BY <2>1
<1>8. \A x \in T : x.revision > e.revision
  <2> SUFFICES ASSUME NEW k \in 2 .. Len(b) PROVE b[k].revision > e.revision
    OBVIOUS
  <2> HIDE DEF b, R
  <2>1. k \in 1 .. Len(b) /\ k > 1
    BY <1>3
  <2>2. b[k].revision = R - (Len(b) - k) /\ e.revision = R - (Len(b) - 1)
    BY <1>4, <1>5, <2>1
  <2> QED BY <1>3, <2>1, <2>2
<1>9. ToCome(s) = {} /\ ToCome(s)' = {}
  BY <1>1, EmptySeq DEF ToCome
<1>10. /\ Out(s) = {x \in T \cup {e} : x.revision > from[s]}
       /\ Out(s)' = {x \in T : x.revision > from[s]}
  <2>1. Out(s) = {x \in {b[k] : k \in 1 .. Len(b)} : x.revision > from[s]}
    BY <1>9 DEF Out
  <2>2. Out(s)' = {x \in {buffer'[s][k] : k \in 1 .. Len(buffer'[s])} : x.revision > from[s]}
    BY <1>1, <1>9 DEF Out
  <2> HIDE DEF T, b, e
  <2> QED BY <1>6, <1>7, <2>1, <2>2
<1>11. TellsTruth(s) /\ e.revision \in Int /\ Head(buffer[s]) = e
  <2>1. TellsTruth(s) /\ Head(buffer[s]) = e
    BY <1>1, <1>4 DEF ToldInv
  <2>2. e \in Event
    BY <1>3, <1>4, ElementOfSeq
  <2> QED BY <2>1, <2>2 DEF Event
<1> HIDE DEF T, b, e, R
<1>12. CASE e.revision > from[s]
  <2>1. mirror'[s] = Apply(mirror[s], e)
    BY <1>1, <1>11, <1>12 DEF Replay, Passes, Hand, TypeOK
  <2>2. e \in Out(s) /\ \A x \in Out(s) : x = e \/ x.revision > e.revision
    BY <1>8, <1>10, <1>12
  <2>3. Out(s)' = Out(s) \ {e}
    <3>1. e \notin T
      BY <1>8, <1>11
    <3> QED BY <1>10, <1>12, <3>1
  <2>4. TellsTruth(s)'
    BY <1>1, <1>11, <2>1, <2>2, <2>3, TruthHanded
  <2> QED BY <1>2, <2>4 DEF ToldInv
<1>13. CASE ~(e.revision > from[s])
  <2>1. mirror'[s] = mirror[s]
    BY <1>11, <1>13 DEF Replay, Passes
  <2>2. Out(s)' = Out(s)
    BY <1>10, <1>13
  <2>3. TellsTruth(s)'
    BY <1>1, <1>11, <2>1, <2>2, TruthSame
  <2> QED BY <1>2, <2>3 DEF ToldInv
<1> QED BY <1>12, <1>13

LEMMA ToldStep == ASSUME IInv, TypeOK', Kinds, OnceInv, Sorted, ToldInv PROVE ToldInv'
<1>1. TypeOK
  BY DEF IInv
<1>2. CASE Quiet /\ UNCHANGED streamVars
  <2> SUFFICES ASSUME NEW s \in Stream, phase'[s] \in {"replaying", "live"} PROVE TellsTruth(s)'
    BY DEF ToldInv
  <2>1. /\ TellsTruth(s) /\ Out(s)' = Out(s) /\ mirror'[s] = mirror[s]
    BY <1>2, OutSame DEF ToldInv, Quiet, streamVars
  <2> QED BY <1>2, <2>1, TruthSame DEF Quiet
<1>3. ASSUME NEW s \in Stream, UNCHANGED <<revision, metadata, orphans, pending>>,
             \A t \in Stream : t # s =>
               /\ phase'[t] = phase[t] /\ from'[t] = from[t] /\ mirror'[t] = mirror[t]
               /\ buffer'[t] = buffer[t] /\ (t \in owed' <=> t \in owed),
             phase'[s] \in {"replaying", "live"} => TellsTruth(s)'
      PROVE  ToldInv'
  <2> SUFFICES ASSUME NEW t \in Stream, t # s, phase'[t] \in {"replaying", "live"} PROVE TellsTruth(t)'
    BY <1>3 DEF ToldInv
  <2>1. TellsTruth(t) /\ Out(t)' = Out(t)
    BY <1>3, OutSame DEF ToldInv
  <2> QED BY <1>3, <2>1, TruthSame
<1>4. ASSUME NEW s \in Stream, Admit(s) \/ GoLive(s) PROVE ToldInv'
  <2>1. /\ UNCHANGED <<revision, metadata, orphans, pending, owed, from, mirror, buffer>>
        /\ \A t \in Stream : t # s => phase'[t] = phase[t]
    BY <1>1, <1>4 DEF Admit, GoLive, registryVars, queueVars, TypeOK
  <2>2. phase'[s] \in {"replaying", "live"} => phase[s] \in {"replaying", "live"}
    BY <1>1, <1>4 DEF Admit, GoLive, IInv, Gates, TypeOK
  <2>3. Out(s)' = Out(s)
    BY <2>1, OutSame
  <2>4. phase'[s] \in {"replaying", "live"} => TellsTruth(s)'
    BY <2>1, <2>2, <2>3, TruthSame DEF ToldInv
  <2> QED BY <1>3, <2>1, <2>4
<1>5. ASSUME NEW s \in Stream, Unsubscribe(s), UNCHANGED <<registryVars, pending>> PROVE ToldInv'
  <2>1. phase'[s] = "closed"
    BY <1>1, <1>5 DEF Unsubscribe, TypeOK
  <2>2. \A t \in Stream : t # s =>
          /\ phase'[t] = phase[t] /\ from'[t] = from[t] /\ mirror'[t] = mirror[t]
          /\ buffer'[t] = buffer[t] /\ (t \in owed' <=> t \in owed)
    BY <1>1, <1>5 DEF Unsubscribe, TypeOK
  <2> QED BY <1>3, <1>5, <2>1, <2>2 DEF registryVars
<1>6. CASE pending = << >> /\ UNCHANGED streamVars /\ \E i \in Instance : Mutated(i)
  BY <1>2, <1>6, MutatedTold DEF Mutated
<1> QED
  BY <1>2, <1>4, <1>5, <1>6, NextEventTold, SweepTold, DeliverTold, ReplayTold, SnapshotTold DEF Kinds

(* All that the re-entrant registry keeps of its readers.                                *)
ReaderInv == IInv /\ Doomed /\ OnceInv /\ Sorted /\ ToldInv

LEMMA ReaderInit == Init => ReaderInv
<1> SUFFICES ASSUME Init PROVE ReaderInv
  OBVIOUS
<1>1. /\ Line /\ \A s \in Stream : phase[s] = "closed" /\ buffer[s] = << >>
      /\ Len(pending) = 0
  BY DEF Init, Line
<1>2. OnceInv
  BY <1>1 DEF OnceInv, OnceFor
<1>3. Doomed
  BY DEF Init, NoCall, Doomed
<1>4. Sorted /\ ToldInv
  BY <1>1 DEF Sorted, ToldInv
<1> QED BY <1>2, <1>3, <1>4, IInvInit DEF ReaderInv

LEMMA ReaderStep == ReaderInv /\ TypeOK' /\ [Next]_vars => ReaderInv'
<1>1. IInv => TypeOK
  BY DEF IInv
<1> QED BY <1>1, IInvStep, DoomedStep, StepKinds, OnceStep, SortedStep, ToldStep DEF ReaderInv

(* Whatever its listeners do, the registry leaves no dropped session on a live stream,     *)
(* except one of a generation it announced after a nested sweep had removed the record     *)
(* (registry.ts, #forgetActivity on a record that snapshot() has expired meanwhile).       *)
THEOREM DroppedMeansGone == Spec => []GhostsAreOrphans
<1>1. ReaderInv => GhostsAreOrphans
  <2> SUFFICES ASSUME ReaderInv, Idle, NEW s \in Stream, phase[s] = "live",
                      NEW i \in Instance, metadata[i] = None, mirror[s][i] # None
               PROVE  <<i, mirror[s][i].generation>> \in orphans
    BY DEF GhostsAreOrphans, Published
  <2>1. Out(s) = {}
    <3>1. pending = << >> /\ buffer[s] = << >>
      BY DEF Idle, ReaderInv, IInv, Gates
    <3> QED BY <3>1, EmptySeq DEF Out, ToCome
  <2>2. mirror[s][i] \in Card \cup {None}
    BY DEF ReaderInv, IInv, TypeOK
  <2>3. Prev(Out(s), mirror[s], i, revision + 1, mirror[s][i])
    BY <2>1 DEF Prev
  <2>4. Ends(Out(s), mirror[s], i, revision, metadata, orphans)
    BY DEF ReaderInv, ToldInv, TellsTruth
  <2>5. Word(metadata, orphans, i, mirror[s][i])
    BY <2>2, <2>3, <2>4 DEF Ends
  <2> QED BY <2>5 DEF Word
<1> QED BY TypeInvariant, ReaderInit, ReaderStep, <1>1, PTL DEF Spec

NoCardFallsBack ==
  \A s \in Stream, i \in Instance :
    (/\ phase[s] = "live" /\ phase'[s] = "live"
     /\ mirror[s][i] # None /\ mirror'[s][i] # None
     /\ <<i, mirror[s][i].generation>> \notin orphans)
    => mirror'[s][i].generation >= mirror[s][i].generation

LEMMA ShownOnlyRises == ASSUME ReaderInv, TypeOK', [Next]_vars PROVE NoCardFallsBack
<1> SUFFICES ASSUME NEW s \in Stream, NEW i \in Instance, phase[s] = "live", phase'[s] = "live",
                    mirror[s][i] # None, mirror'[s][i] # None,
                    <<i, mirror[s][i].generation>> \notin orphans
             PROVE  mirror'[s][i].generation >= mirror[s][i].generation
  BY DEF NoCardFallsBack
<1>1. IInv /\ TypeOK /\ Kinds /\ OnceInv /\ Sorted /\ ToldInv
  BY StepKinds DEF ReaderInv, IInv
<1>2. mirror[s][i] \in Card /\ mirror[s][i].generation \in Nat
  BY <1>1 DEF TypeOK, Card
<1>3. CASE mirror'[s] = mirror[s]
  BY <1>2, <1>3
<1>4. CASE Deliver(s)
  BY <1>1, <1>2, <1>4, DeliverTold
<1>5. ASSUME NEW t \in Stream, Deliver(t) \/ Replay(t) \/ TakeSnapshot(t) \/ AdmitDuringDispatch(t)
      PROVE  mirror'[s] = mirror[s] \/ Deliver(s)
  <2>1. CASE t = s
    <3>1. ~TakeSnapshot(s) /\ ~Replay(s) /\ ~AdmitDuringDispatch(s)
      BY <1>1, ConstantsAssumption DEF Replay, TakeSnapshot, AdmitDuringDispatch, IInv, Gates
    <3> QED BY <1>5, <2>1, <3>1
  <2>2. CASE t # s
    <3>1. mirror' = mirror \/ \E d : mirror' = [mirror EXCEPT ![t] = d]
      BY <1>5 DEF Deliver, Replay, TakeSnapshot, AdmitDuringDispatch, Hand
    <3> QED BY <1>1, <2>2, <3>1 DEF TypeOK
  <2> QED BY <2>1, <2>2
<1>6. ASSUME NEW t \in Stream, Unsubscribe(t) PROVE mirror'[s] = mirror[s]
  <2>1. t # s
    BY <1>1, <1>6 DEF Unsubscribe, TypeOK
  <2> QED BY <1>1, <1>6, <2>1 DEF Unsubscribe, TypeOK
<1>7. CASE UNCHANGED streamVars \/ NextEvent \/ SweepDuringDispatch
           \/ \E t \in Stream : Admit(t) \/ GoLive(t)
  BY <1>3, <1>7 DEF streamVars, NextEvent, SweepDuringDispatch, Admit, GoLive
<1> QED BY <1>1, <1>3, <1>4, <1>5, <1>6, <1>7 DEF Kinds

(* No live stream is handed an earlier generation of a session it shows, unless the card    *)
(* it shows is such an orphan (registry.ts, #observe, #removeRecord and #emit).            *)
THEOREM CardsOnlyAdvance == Spec => CardsNeverRegress
<1>1. ReaderInv /\ TypeOK' /\ [Next]_vars => [NoCardFallsBack]_streamVars
  BY ShownOnlyRises
<1> QED BY TypeInvariant, ReaderInit, ReaderStep, <1>1, PTL DEF Spec, CardsNeverRegress, NoCardFallsBack
=============================================================================
