--------------------------- MODULE PushServiceProofs ---------------------------
(***************************************************************************)
(* What is proved of PushService for any sessions, endpoints, levels and   *)
(* bounds, over crashes, failed writes and every order of the mutation     *)
(* queue and the delivery chains.                                          *)
(***************************************************************************)
EXTENDS PushService, SequenceTheorems, FiniteSetTheorems, TLAPS

-----------------------------------------------------------------------------
(* The inductive invariant.                                                  *)

Counted ==
  /\ made \in [Instance -> [asks : 0 .. MaxAsks, renewals : Nat, stops : Nat]]
  /\ requested \in Nat /\ crashes \in Nat
  /\ tried \in [Device -> SUBSET (Instance \X Nat)]
  /\ told \in [Device -> SUBSET (Instance \X Nat)]
  /\ IsFiniteSet(subs) /\ IsFiniteSet(stored)

Drops(k) == k \in DOMAIN mutations /\ mutations[k].op = "drop"

(* A chain is at work on its head; when its gone endpoints are being dropped  *)
(* exactly its own change is in the queue.                                    *)
InFlight ==
  /\ \A i \in Instance : sending[i].stage # "idle" => chain[i] # << >>
  /\ \A k \in DOMAIN mutations :
       Drops(k) => sending[mutations[k].of].stage = "dropping"
  /\ \A j, k \in DOMAIN mutations :
       Drops(j) /\ Drops(k) /\ mutations[j].of = mutations[k].of => j = k

(* The change that is being written is the one at the head of the queue,      *)
(* worked out from the subscriptions that are still those in memory; a        *)
(* promise that survives it is in its result, and after the rename the file   *)
(* holds that result.                                                         *)
WritesHead ==
  writing.stage # "idle" =>
    /\ mutations # << >>
    /\ writing.next = Changed(Head(mutations))
    /\ ~(Head(mutations).op = "add" /\ Full(Others(Head(mutations))))
    /\ \A d \in Device : acked[d] # None => acked[d] \in writing.next
    /\ writing.stage = "written" => stored = writing.next

AckedOwn == \A d \in Device : acked[d] # None => acked[d].device = d

(* A message of the queue of instance i from place n on that device d is sent *)
(* when it comes up.                                                          *)
Held(q, n, type, r, d) ==
  \E k \in DOMAIN q :
    /\ k >= n /\ q[k].type = type /\ q[k].request = r
    /\ q[k].to = All \/ d \in DevicesOf(q[k].to)

(* The first message of a chain whose targets are not fixed yet.              *)
Unsent(i) == IF sending[i].stage = "idle" THEN 1 ELSE 2

AskSent ==
  \A s \in subs, i \in Instance :
    ask[i] # 0 => \/ <<i, ask[i]>> \in tried[s.device]
                  \/ Held(chain[i], Unsent(i), "attention", ask[i], s.device)

(* A clear of request r for everyone, from place n on.                        *)
ClearFrom(q, n, r) ==
  \E k \in DOMAIN q : k >= n /\ q[k].type = "clear" /\ q[k].request = r /\ q[k].to = All

(* An attention of a request that is over has the clear behind it.            *)
ClearBehind(q, r) ==
  \A k \in DOMAIN q :
    q[k].type = "attention" =>
      q[k].request # 0 /\ (q[k].request # r => ClearFrom(q, k + 1, q[k].request))

EndQueued == \A i \in Instance : ClearBehind(chain[i], ask[i])

EndSent ==
  \A s \in subs, i \in Instance, r \in 1 .. MaxAsks :
    <<i, r>> \in told[s.device] /\ ask[i] # r => ClearFrom(chain[i], Unsent(i), r)

(* Nothing the service knows is newer than the keys of the browser.           *)
Aimed == {s \in Sub : \E i \in Instance :
            \/ s \in sending[i].left
            \/ \E k \in DOMAIN chain[i] : chain[i][k].to # All /\ s \in chain[i][k].to}
StaleSubs == {s \in Sub :
            \/ \E i \in Instance : s \in sending[i].stale
            \/ \E k \in DOMAIN mutations : Drops(k) /\ s \in mutations[k].stale}

KeysKnown ==
  /\ \A s \in subs \cup stored \cup Aimed \cup StaleSubs : s.keys <= keys[s.device]
  /\ \A k \in DOMAIN mutations :
       mutations[k].op = "add" => mutations[k].keys <= keys[mutations[k].device]

Current(s) == s.device \in live /\ s.keys = keys[s.device]

(* Endpoints found gone do not come back with the keys they were found with.  *)
GoneForGood == \A s \in StaleSubs : ~Current(s)

(* The change at place k keeps a subscription of d with its newest keys.      *)
Spares(k, d) ==
  /\ mutations[k].op = "remove" => mutations[k].device # d
  /\ mutations[k].op = "add" /\ mutations[k].device = d => mutations[k].keys = keys[d]

SubscribedNow(d) == \E s \in subs : s.device = d /\ s.keys = keys[d]

(* While the newest keys of a browser are accepted, nothing in the queue ends *)
(* the subscription that has them or the one that is about to.                *)
NewestStays ==
  \A d \in live :
    /\ SubscribedNow(d) => \A k \in DOMAIN mutations : Spares(k, d)
    /\ \A j, k \in DOMAIN mutations :
         j < k /\ mutations[j].op = "add" /\ mutations[j].device = d
               /\ mutations[j].keys = keys[d] => Spares(k, d)

(* What is sent, or has been taken, under the newest keys is subscribed.      *)
SentToSubscribed ==
  /\ \A s \in Aimed : Current(s) => SubscribedNow(s.device)
  /\ \A d \in Device : told[d] # {} => d \in live /\ SubscribedNow(d)

-----------------------------------------------------------------------------
(* What the operators of the model return.                                   *)

LEMMA CountType ==
  ASSUME NEW asks
  PROVE  PendingAskCount(asks) \in 0 .. Cardinality(Instance)
<1> DEFINE S == {i \in Instance : asks[i] # 0}
<1>1. IsFiniteSet(Instance) /\ S \in SUBSET Instance
  BY PushAssumption DEF PushAssumption
<1>2. IsFiniteSet(S) /\ Cardinality(S) <= Cardinality(Instance)
  BY <1>1, FS_Subset
<1>3. Cardinality(S) \in Nat /\ Cardinality(Instance) \in Nat
  BY <1>1, <1>2, FS_CardinalityType
<1>4. PendingAskCount(asks) = Cardinality(S)
  BY DEF PendingAskCount
<1> QED
  BY <1>2, <1>3, <1>4

LEMMA BoundsType ==
  /\ MaxSubscriptions \in Nat /\ MaxKeys \in Nat /\ MaxAsks \in Nat
  /\ MaxRenewals \in Nat /\ MaxStops \in Nat /\ MaxRequests \in Nat /\ MaxCrashes \in Nat
  /\ Cardinality(Instance) \in Nat
  /\ "session" \in Level
BY PushAssumption, FS_CardinalityType DEF PushAssumption

LEMMA MessageType ==
  ASSUME NEW type \in {"attention", "clear", "stop"}, NEW i \in Instance,
         NEW r \in 0 .. MaxAsks, NEW asks, NEW to \in (SUBSET Sub) \cup {{None}}
  PROVE  /\ Message(type, i, r, asks, to) \in Delivery
         /\ Message(type, i, r, asks, to).type = type
         /\ Message(type, i, r, asks, to).request = r
         /\ Message(type, i, r, asks, to).to = to
BY CountType DEF Message, Delivery

LEMMA AnnouncedType ==
  ASSUME NEW i \in Instance, NEW old \in 0 .. MaxAsks, NEW new \in 0 .. MaxAsks, NEW asks
  PROVE  Announced(i, old, new, asks) \in Seq(Delivery)
<1> DEFINE c == Message("clear", i, old, asks, All)
           a == Message("attention", i, new, asks, All)
<1>0. All \in (SUBSET Sub) \cup {{None}}
  BY DEF All
<1>a. Message("clear", i, old, asks, All) \in Delivery
  BY <1>0, MessageType
<1>b. Message("attention", i, new, asks, All) \in Delivery
  BY <1>0, MessageType
<1>1. c \in Delivery /\ a \in Delivery
  BY <1>a, <1>b
<1> HIDE DEF c, a
<1>2. << >> \in Seq(Delivery) /\ <<c>> \in Seq(Delivery) /\ <<a>> \in Seq(Delivery)
  BY <1>1
<1>3. Announced(i, old, new, asks) = (IF old # 0 /\ new # old THEN <<c>> ELSE << >>)
                                       \o (IF new # 0 THEN <<a>> ELSE << >>)
  BY DEF Announced, c, a
<1> QED
  BY <1>2, <1>3, ConcatProperties

LEMMA CatchUpType ==
  ASSUME TypeOK, NEW i \in Instance, NEW s \in Sub
  PROVE  CatchUp(i, s) \in Seq(Delivery)
<1> DEFINE a == Message("attention", i, ask[i], ask, {s})
<1>1. a \in Delivery
  BY MessageType DEF TypeOK
<1> HIDE DEF a
<1>2. << >> \in Seq(Delivery) /\ <<a>> \in Seq(Delivery)
  BY <1>1
<1> QED
  BY <1>2 DEF CatchUp, a

LEMMA AddedType ==
  ASSUME TypeOK, NEW op \in Op, op.op = "add"
  PROVE  /\ Added(op) \in Sub /\ Added(op).device = op.device /\ Added(op).keys = op.keys
         /\ op.device \in Device
<1>1. op \in [op : {"add"}, device : Device, keys : 1 .. MaxKeys, level : Level \cup {None}]
  BY DEF Op
<1>2. LevelIn(subs, op.device) \in Level
  <2>1. CASE op.device \in DevicesOf(subs)
    <3>1. \E s \in subs : s.device = op.device
      BY <2>1 DEF DevicesOf
    <3>2. (CHOOSE s \in subs : s.device = op.device) \in subs
      BY <3>1
    <3> QED
      BY <2>1, <3>2 DEF LevelIn, TypeOK, Sub
  <2> QED
    BY <2>1, BoundsType DEF LevelIn
<1>3. (IF op.level # None THEN op.level ELSE LevelIn(subs, op.device)) \in Level
  BY <1>1, <1>2
<1> QED
  BY <1>1, <1>3 DEF Added, Sub

(* A change that is not refused leaves one subscription for an endpoint and no *)
(* more than fit.                                                              *)
LEMMA ChangedType ==
  ASSUME TypeOK, Counted, NEW op \in Op, ~(op.op = "add" /\ Full(Others(op)))
  PROVE  /\ Changed(op) \subseteq Sub /\ IsFiniteSet(Changed(op))
         /\ Cardinality(Changed(op)) <= MaxSubscriptions
         /\ \A s, t \in Changed(op) : s.device = t.device => s = t
<1>1. \A T \in SUBSET subs : IsFiniteSet(T) /\ Cardinality(T) \in Nat
                               /\ Cardinality(T) <= MaxSubscriptions
  <2> TAKE T \in SUBSET subs
  <2>1. IsFiniteSet(subs) /\ Cardinality(subs) <= MaxSubscriptions
    BY DEF TypeOK, Counted
  <2>2. IsFiniteSet(T) /\ Cardinality(T) <= Cardinality(subs)
    BY <2>1, FS_Subset
  <2> QED
    BY <2>1, <2>2, FS_CardinalityType, BoundsType
<1>2. Others(op) \in SUBSET subs
  BY DEF Others
<1>3. CASE op.op = "add"
  <2>1. Changed(op) = Others(op) \cup {Added(op)}
    BY <1>3 DEF Changed
  <2> DEFINE O == Others(op)
  <2>0. IsFiniteSet(O) /\ Cardinality(O) \in Nat
    BY <1>1, <1>2
  <2> HIDE DEF O
  <2>a. /\ IsFiniteSet(O \cup {Added(op)})
        /\ Cardinality(O \cup {Added(op)}) =
             IF Added(op) \in O THEN Cardinality(O) ELSE Cardinality(O) + 1
    BY <2>0, FS_AddElement
  <2>2. IsFiniteSet(Changed(op)) /\ Cardinality(Changed(op)) <= Cardinality(Others(op)) + 1
    BY <2>1, <2>0, <2>a DEF O
  <2>3. Cardinality(Others(op)) < MaxSubscriptions
    BY <1>1, <1>2, <1>3, BoundsType DEF Full
  <2>4. Cardinality(Changed(op)) <= MaxSubscriptions
    BY <2>2, <2>3, <1>1, <1>2, BoundsType, FS_CardinalityType
  <2>5. Added(op) \in Sub /\ Added(op).device = op.device
    BY <1>3, AddedType
  <2> QED
    BY <2>1, <2>2, <2>4, <2>5 DEF Others, TypeOK
<1>4. CASE op.op = "remove"
  <2>1. Changed(op) = Others(op)
    BY <1>4 DEF Changed
  <2> QED
    BY <2>1, <1>1, <1>2 DEF TypeOK
<1>5. CASE op.op = "drop"
  <2>1. Changed(op) \in SUBSET subs
    BY <1>5 DEF Changed
  <2> QED
    BY <2>1, <1>1 DEF TypeOK
<1> QED
  BY <1>3, <1>4, <1>5 DEF Op

-----------------------------------------------------------------------------
(* Queues of deliveries that grow at the end and lose their head.             *)

LEMMA HeldGrows ==
  ASSUME NEW q \in Seq(Delivery), NEW p \in Seq(Delivery), NEW n, NEW type, NEW r, NEW d,
         Held(q, n, type, r, d)
  PROVE  Held(q \o p, n, type, r, d)
<1>1. PICK k \in DOMAIN q : /\ k >= n /\ q[k].type = type /\ q[k].request = r
                            /\ q[k].to = All \/ d \in DevicesOf(q[k].to)
  BY DEF Held
<1>2. k \in DOMAIN (q \o p) /\ (q \o p)[k] = q[k]
  BY ConcatProperties, LenProperties
<1> QED
  BY <1>1, <1>2 DEF Held

LEMMA HeldPops ==
  ASSUME NEW q \in Seq(Delivery), q # << >>, NEW type, NEW r, NEW d,
         Held(q, 2, type, r, d)
  PROVE  Tail(q) # << >> /\ Held(Tail(q), 1, type, r, d)
<1>1. PICK k \in DOMAIN q : /\ k >= 2 /\ q[k].type = type /\ q[k].request = r
                            /\ q[k].to = All \/ d \in DevicesOf(q[k].to)
  BY DEF Held
<1>2. k - 1 \in DOMAIN Tail(q) /\ Tail(q)[k - 1] = q[k] /\ k - 1 >= 1
  BY <1>1
<1> QED
  BY <1>1, <1>2 DEF Held

LEMMA ClearGrows ==
  ASSUME NEW q \in Seq(Delivery), NEW p \in Seq(Delivery), NEW n, NEW r, ClearFrom(q, n, r)
  PROVE  ClearFrom(q \o p, n, r)
<1>1. PICK k \in DOMAIN q : k >= n /\ q[k].type = "clear" /\ q[k].request = r /\ q[k].to = All
  BY DEF ClearFrom
<1>2. k \in DOMAIN (q \o p) /\ (q \o p)[k] = q[k]
  BY ConcatProperties, LenProperties
<1> QED
  BY <1>1, <1>2 DEF ClearFrom

LEMMA ClearPops ==
  ASSUME NEW q \in Seq(Delivery), q # << >>, NEW n \in Nat, n >= 1, NEW r,
         ClearFrom(q, n + 1, r)
  PROVE  ClearFrom(Tail(q), n, r)
<1>1. PICK k \in DOMAIN q : /\ k >= n + 1 /\ q[k].type = "clear"
                            /\ q[k].request = r /\ q[k].to = All
  BY DEF ClearFrom
<1>2. k - 1 \in DOMAIN Tail(q) /\ Tail(q)[k - 1] = q[k] /\ k - 1 >= n
  BY <1>1
<1> QED
  BY <1>1, <1>2 DEF ClearFrom

LEMMA BehindPops ==
  ASSUME NEW q \in Seq(Delivery), q # << >>, NEW r, ClearBehind(q, r)
  PROVE  ClearBehind(Tail(q), r)
<1> SUFFICES ASSUME NEW k \in DOMAIN Tail(q), Tail(q)[k].type = "attention"
             PROVE  /\ Tail(q)[k].request # 0
                    /\ Tail(q)[k].request # r => ClearFrom(Tail(q), k + 1, Tail(q)[k].request)
  BY DEF ClearBehind
<1>1. k \in Nat /\ k >= 1 /\ k + 1 \in DOMAIN q /\ Tail(q)[k] = q[k + 1]
  OBVIOUS
<1>2. /\ q[k + 1].request # 0
      /\ q[k + 1].request # r => ClearFrom(q, (k + 1) + 1, q[k + 1].request)
  BY <1>1 DEF ClearBehind
<1> QED
  BY <1>1, <1>2, ClearPops

(* A clear is behind a new attention of the pending request at once.          *)
LEMMA BehindGrows ==
  ASSUME NEW q \in Seq(Delivery), NEW p \in Seq(Delivery), NEW old, NEW r,
         ClearBehind(q, old), r # old => old = 0 \/ ClearFrom(p, 1, old),
         \A k \in DOMAIN p : p[k].type = "attention" => p[k].request = r /\ r # 0
  PROVE  ClearBehind(q \o p, r)
<1> DEFINE qp == q \o p
<1>1. qp \in Seq(Delivery) /\ Len(qp) = Len(q) + Len(p) /\ DOMAIN qp = 1 .. Len(qp)
  BY ConcatProperties, LenProperties
<1>2. \A k \in 1 .. Len(qp) : qp[k] = IF k <= Len(q) THEN q[k] ELSE p[k - Len(q)]
  BY ConcatProperties
<1> SUFFICES ASSUME NEW k \in DOMAIN qp, qp[k].type = "attention"
             PROVE  qp[k].request # 0 /\ (qp[k].request # r => ClearFrom(qp, k + 1, qp[k].request))
  BY DEF ClearBehind
<1>3. CASE k <= Len(q)
  <2>1. k \in DOMAIN q /\ qp[k] = q[k]
    BY <1>1, <1>2, <1>3, LenProperties
  <2>2. q[k].request # 0 /\ (q[k].request # old => ClearFrom(q, k + 1, q[k].request))
    BY <2>1 DEF ClearBehind
  <2>3. CASE q[k].request # old
    BY <2>1, <2>2, <2>3, ClearGrows
  <2>4. CASE q[k].request = old /\ r # old
    <3>1. PICK j \in DOMAIN p : p[j].type = "clear" /\ p[j].request = old /\ p[j].to = All
      BY <2>2, <2>4 DEF ClearFrom
    <3>2. Len(q) + j \in DOMAIN qp /\ qp[Len(q) + j] = p[j] /\ Len(q) + j >= k + 1
      BY <1>1, <1>2, <1>3, <3>1, LenProperties
    <3> QED
      BY <2>1, <2>2, <2>4, <3>1, <3>2 DEF ClearFrom
  <2> QED
    BY <2>1, <2>2, <2>3, <2>4
<1>4. CASE k > Len(q)
  <2>1. k - Len(q) \in DOMAIN p /\ qp[k] = p[k - Len(q)]
    BY <1>1, <1>2, <1>4, LenProperties
  <2> QED
    BY <2>1
<1> QED
  BY <1>1, <1>3, <1>4, LenProperties
-----------------------------------------------------------------------------
(* The part of the invariant about the stores: types, the change being        *)
(* written and what browsers were promised.                                   *)

Core == TypeOK /\ Counted /\ InFlight /\ WritesHead /\ AckedOwn /\ AckedKept

LEMMA StoreUnchanged ==
  ASSUME Core, UNCHANGED <<subs, stored, mutations, writing, acked>>
  PROVE  WritesHead' /\ AckedOwn' /\ AckedKept'
BY DEF Core, WritesHead, AckedOwn, AckedKept, Changed, Others, Added, Full

(* What RegistryEvent and ActivityStop do to the chain of i.                   *)
LEMMA GrowKeepsCore ==
  ASSUME Core, NEW i \in Instance, NEW r \in 0 .. MaxAsks, NEW p \in Seq(Delivery),
         ask' = [ask EXCEPT ![i] = r], chain' = [chain EXCEPT ![i] = @ \o p],
         made' \in [Instance -> [asks : 0 .. MaxAsks, renewals : Nat, stops : Nat]],
         UNCHANGED <<storeVars, sending, deviceVars, crashes, history>>
  PROVE  Core'
<1>1. chain[i] \o p \in Seq(Delivery) /\ (chain[i] # << >> => chain[i] \o p # << >>)
  BY ConcatProperties, EmptySeq DEF Core, TypeOK
<1>2. chain' \in [Instance -> Seq(Delivery)]
  BY <1>1 DEF Core, TypeOK
<1>3. TypeOK' /\ Counted'
  BY <1>2 DEF Core, TypeOK, Counted, storeVars, deviceVars, history
<1>4. InFlight'
  BY <1>1 DEF Core, InFlight, Drops, storeVars, TypeOK
<1> QED
  BY <1>3, <1>4, StoreUnchanged DEF Core, storeVars, history

LEMMA AskedType ==
  ASSUME Core, NEW i \in Instance, Ask(i) \/ Resolve(i) \/ Renew(i)
  PROVE  \E r \in 0 .. MaxAsks :
           /\ RegistryEvent(i, r)
           /\ made' \in [Instance -> [asks : 0 .. MaxAsks, renewals : Nat, stops : Nat]]
<1>1. /\ made \in [Instance -> [asks : 0 .. MaxAsks, renewals : Nat, stops : Nat]]
      /\ ask[i] \in 0 .. MaxAsks
  BY DEF Core, Counted, TypeOK
<1>2. CASE Ask(i)
  BY <1>1, <1>2, BoundsType DEF Ask
<1>3. CASE Resolve(i)
  BY <1>1, <1>3, BoundsType DEF Resolve
<1>4. CASE Renew(i)
  BY <1>1, <1>4, BoundsType DEF Renew
<1> QED
  BY <1>2, <1>3, <1>4

LEMMA EventChain ==
  ASSUME Core, NEW i \in Instance, NEW r \in 0 .. MaxAsks, RegistryEvent(i, r)
  PROVE  \E p \in Seq(Delivery) :
           /\ p = Announced(i, ask[i], r, ask')
           /\ chain' = [chain EXCEPT ![i] = @ \o p]
BY AnnouncedType DEF RegistryEvent, Core, TypeOK

LEMMA StopChain ==
  ASSUME Core, NEW i \in Instance, ActivityStop(i)
  PROVE  \E p \in Seq(Delivery) :
           /\ Len(p) = 1 /\ p[1].type = "stop"
           /\ chain' = [chain EXCEPT ![i] = @ \o p]
<1> DEFINE m == Message("stop", i, 0, ask, All)
<1>1. m \in Delivery /\ m.type = "stop"
  <2>1. All \in (SUBSET Sub) \cup {{None}} /\ 0 \in 0 .. MaxAsks
    BY BoundsType DEF All
  <2> QED
    BY <2>1, MessageType
<1>2. chain' = [chain EXCEPT ![i] = Append(@, m)]
  BY DEF ActivityStop
<1> HIDE DEF m
<1>3. <<m>> \in Seq(Delivery) /\ Len(<<m>>) = 1 /\ <<m>>[1] = m
  BY <1>1
<1> DEFINE a == Append(chain[i], m)
<1>4. a = chain[i] \o <<m>>
  <2>1. chain[i] \in Seq(Delivery)
    BY DEF Core, TypeOK
  <2> QED
    BY <1>1, <2>1, AppendIsConcat
<1>a. chain' = [chain EXCEPT ![i] = a]
  BY <1>2
<1> HIDE DEF a
<1>5. chain' = [chain EXCEPT ![i] = chain[i] \o <<m>>]
  BY <1>a, <1>4
<1> QED
  BY <1>1, <1>3, <1>5

LEMMA RegistryCore ==
  ASSUME Core, Registry
  PROVE  Core'
<1>1. PICK i \in Instance : Ask(i) \/ Resolve(i) \/ Renew(i) \/ ActivityStop(i)
  BY DEF Registry
<1>2. CASE Ask(i) \/ Resolve(i) \/ Renew(i)
  <2>1. PICK r \in 0 .. MaxAsks :
          /\ RegistryEvent(i, r)
          /\ made' \in [Instance -> [asks : 0 .. MaxAsks, renewals : Nat, stops : Nat]]
    BY <1>2, AskedType
  <2>2. PICK p \in Seq(Delivery) : chain' = [chain EXCEPT ![i] = @ \o p]
    BY <2>1, EventChain
  <2>3. /\ ask' = [ask EXCEPT ![i] = r]
        /\ UNCHANGED <<storeVars, sending, deviceVars, crashes, history>>
    BY <2>1 DEF RegistryEvent
  <2> QED
    BY <2>1, <2>2, <2>3, GrowKeepsCore
<1>3. CASE ActivityStop(i)
  <2>1. PICK p \in Seq(Delivery) : chain' = [chain EXCEPT ![i] = @ \o p]
    BY <1>3, StopChain
  <2>a. made \in [Instance -> [asks : 0 .. MaxAsks, renewals : Nat, stops : Nat]]
    BY DEF Core, Counted
  <2>2. made' \in [Instance -> [asks : 0 .. MaxAsks, renewals : Nat, stops : Nat]]
    <3>1. made' = [made EXCEPT ![i].stops = @ + 1]
      BY <1>3 DEF ActivityStop
    <3>2. made[i] \in [asks : 0 .. MaxAsks, renewals : Nat, stops : Nat]
      BY <2>a
    <3>3. [made[i] EXCEPT !.stops = @ + 1] \in [asks : 0 .. MaxAsks, renewals : Nat, stops : Nat]
      BY <3>2
    <3>4. made' = [made EXCEPT ![i] = [made[i] EXCEPT !.stops = @ + 1]]
      BY <3>1
    <3> QED
      BY <2>a, <3>3, <3>4
  <2>3. /\ ask[i] \in 0 .. MaxAsks
        /\ ask' = [ask EXCEPT ![i] = ask[i]]
        /\ UNCHANGED <<storeVars, sending, deviceVars, crashes, history>>
    BY <1>3 DEF ActivityStop, Core, TypeOK
  <2> QED
    BY <2>1, <2>2, <2>3, GrowKeepsCore
<1> QED
  BY <1>1, <1>2, <1>3

(* A chain moves on: its head is gone and it is idle.                          *)
LEMMA PopKeepsCore ==
  ASSUME Core, NEW i \in Instance, chain[i] # << >>,
         chain' = [chain EXCEPT ![i] = Tail(@)],
         sending' = [sending EXCEPT ![i] = NotSending]
  PROVE  /\ chain' \in [Instance -> Seq(Delivery)]
         /\ sending' \in [Instance -> [stage : {"idle", "sending", "dropping"},
                                       left : SUBSET Sub, stale : SUBSET Sub]]
         /\ \A j \in Instance : sending'[j].stage # "idle" => chain'[j] # << >>
<1>1. Tail(chain[i]) \in Seq(Delivery)
  BY DEF Core, TypeOK
<1>2. NotSending \in [stage : {"idle", "sending", "dropping"},
                      left : SUBSET Sub, stale : SUBSET Sub] /\ NotSending.stage = "idle"
  BY DEF NotSending
<1>3. chain' \in [Instance -> Seq(Delivery)]
  BY <1>1 DEF Core, TypeOK
<1>4. sending' \in [Instance -> [stage : {"idle", "sending", "dropping"},
                                 left : SUBSET Sub, stale : SUBSET Sub]]
  BY <1>2 DEF Core, TypeOK
<1>5. \A j \in Instance : sending'[j].stage # "idle" => chain'[j] # << >>
  BY <1>2 DEF Core, TypeOK, InFlight
<1> QED
  BY <1>3, <1>4, <1>5

(* The head of a chain is taken up: its sends begin, or it is left out.        *)
Begins(i, m) ==
  /\ chain' = [chain EXCEPT ![i] = <<m>> \o Tail(@)]
  /\ sending' = [sending EXCEPT ![i] =
       [stage |-> "sending", left |-> Targets(Head(chain[i])), stale |-> {}]]
  /\ LET to == DevicesOf(Targets(Head(chain[i])))
         r == <<i, Head(chain[i]).request>>
     IN /\ tried' = [e \in Device |-> IF e \in to /\ Head(chain[i]).type = "attention"
                                      THEN tried[e] \cup {r} ELSE tried[e]]
        /\ told' = [e \in Device |-> IF e \in to /\ Head(chain[i]).type = "clear"
                                     THEN told[e] \ {r} ELSE told[e]]

LEMMA StartCases ==
  ASSUME Core, NEW i \in Instance, StartSend(i)
  PROVE  /\ sending[i].stage = "idle" /\ chain[i] # << >> /\ Head(chain[i]) \in Delivery
         /\ Targets(Head(chain[i])) \subseteq Sub
         /\ UNCHANGED <<registryVars, storeVars, deviceVars, crashes, acked>>
         /\ \/ /\ Head(chain[i]).type = "stop" \/ Targets(Head(chain[i])) = {}
               /\ Finish(i)
               /\ UNCHANGED <<tried, told>>
            \/ \E m \in Delivery :
                 /\ m.type = Head(chain[i]).type /\ m.request = Head(chain[i]).request
                 /\ m.to = Head(chain[i]).to
                 /\ Begins(i, m)
<1> DEFINE d == Head(chain[i])
           fresh == IF d.type = "stop" THEN [d EXCEPT !.count = PendingAskCount(ask)] ELSE d
<1>1. sending[i].stage = "idle" /\ chain[i] # << >>
  BY DEF StartSend
<1>2. d \in Delivery
  BY <1>1 DEF Core, TypeOK
<1>3. Targets(d) \subseteq Sub
  BY <1>2 DEF Targets, Delivery, All, Core, TypeOK
<1>4. /\ fresh \in Delivery /\ fresh.type = d.type /\ fresh.request = d.request
      /\ fresh.to = d.to
  BY <1>2, CountType DEF Delivery
<1>5. \/ /\ d.type = "stop" \/ Targets(d) = {}
         /\ Finish(i)
         /\ UNCHANGED <<tried, told>>
      \/ Begins(i, fresh)
  BY DEF StartSend, Begins
<1> HIDE DEF fresh
<1>6. UNCHANGED <<registryVars, storeVars, deviceVars, crashes, acked>>
  BY DEF StartSend
<1> QED
  BY <1>1, <1>2, <1>3, <1>4, <1>5, <1>6

LEMMA BeginsType ==
  ASSUME Core, NEW i \in Instance, chain[i] # << >>, NEW m \in Delivery, Begins(i, m),
         Targets(Head(chain[i])) \subseteq Sub, Head(chain[i]) \in Delivery
  PROVE  /\ chain' \in [Instance -> Seq(Delivery)]
         /\ Len(chain'[i]) = Len(chain[i]) /\ chain'[i][1] = m
         /\ \A k \in 2 .. Len(chain[i]) : chain'[i][k] = chain[i][k]
         /\ \A j \in Instance : j # i => chain'[j] = chain[j] /\ sending'[j] = sending[j]
         /\ sending'[i] = [stage |-> "sending", left |-> Targets(Head(chain[i])), stale |-> {}]
         /\ sending' \in [Instance -> [stage : {"idle", "sending", "dropping"},
                                       left : SUBSET Sub, stale : SUBSET Sub]]
         /\ chain'[i] # << >>
         /\ tried' \in [Device -> SUBSET (Instance \X Nat)]
         /\ told' \in [Device -> SUBSET (Instance \X Nat)]
<1> DEFINE t == Tail(chain[i])
           q == <<m>> \o t
<1>1. /\ t \in Seq(Delivery) /\ Len(t) = Len(chain[i]) - 1 /\ Len(chain[i]) \in Nat
      /\ \A k \in 1 .. Len(t) : t[k] = chain[i][k + 1]
  BY DEF Core, TypeOK
<1>2. <<m>> \in Seq(Delivery) /\ Len(<<m>>) = 1 /\ <<m>>[1] = m
  OBVIOUS
<1> HIDE DEF t
<1>3. /\ q \in Seq(Delivery) /\ Len(q) = Len(<<m>>) + Len(t)
      /\ \A k \in 1 .. Len(<<m>>) + Len(t) : q[k] = IF k <= Len(<<m>>) THEN <<m>>[k]
                                                    ELSE t[k - Len(<<m>>)]
  BY <1>1, <1>2, ConcatProperties
<1> HIDE DEF q
<1>4. Len(q) = Len(chain[i]) /\ q[1] = m /\ \A k \in 2 .. Len(chain[i]) : q[k] = chain[i][k]
  BY <1>1, <1>2, <1>3
<1>5. q # << >> /\ Len(chain[i]) # 0
  BY <1>3, <1>4, EmptySeq DEF Core, TypeOK
<1>6. chain' = [chain EXCEPT ![i] = q]
  BY DEF Begins, q, t
<1>7. sending' \in [Instance -> [stage : {"idle", "sending", "dropping"},
                                 left : SUBSET Sub, stale : SUBSET Sub]]
  BY DEF Begins, Core, TypeOK
<1>8. /\ tried' \in [Device -> SUBSET (Instance \X Nat)]
      /\ told' \in [Device -> SUBSET (Instance \X Nat)]
  <2>1. Head(chain[i]).request \in Nat
    BY BoundsType DEF Delivery
  <2>2. <<i, Head(chain[i]).request>> \in Instance \X Nat
    BY <2>1
  <2>3. tried \in [Device -> SUBSET (Instance \X Nat)] /\ told \in [Device -> SUBSET (Instance \X Nat)]
    BY DEF Core, Counted
  <2> QED
    BY <2>2, <2>3 DEF Begins
<1>9. /\ sending'[i] = [stage |-> "sending", left |-> Targets(Head(chain[i])), stale |-> {}]
      /\ \A j \in Instance : j # i => chain'[j] = chain[j] /\ sending'[j] = sending[j]
      /\ chain'[i] = q
      /\ chain' \in [Instance -> Seq(Delivery)]
  BY <1>6, <1>3 DEF Begins, Core, TypeOK
<1> QED
  BY <1>4, <1>5, <1>7, <1>8, <1>9

LEMMA SendingType ==
  ASSUME Core, NEW i \in Instance
  PROVE  /\ sending[i] \in [stage : {"idle", "sending", "dropping"},
                            left : SUBSET Sub, stale : SUBSET Sub]
         /\ sending \in [Instance -> [stage : {"idle", "sending", "dropping"},
                            left : SUBSET Sub, stale : SUBSET Sub]]
         /\ chain[i] \in Seq(Delivery) /\ (chain[i] # << >> => Head(chain[i]) \in Delivery)
         /\ sending[i].stage # "idle" => chain[i] # << >>
         /\ tried \in [Device -> SUBSET (Instance \X Nat)]
         /\ told \in [Device -> SUBSET (Instance \X Nat)]
BY DEF Core, TypeOK, Counted, InFlight

LEMMA MutationsType ==
  ASSUME Core
  PROVE  /\ mutations \in Seq(Op) /\ Len(mutations) \in Nat
         /\ DOMAIN mutations = 1 .. Len(mutations)
         /\ \A k \in DOMAIN mutations : mutations[k] \in Op
         /\ mutations # << >> =>
              /\ Head(mutations) \in Op /\ Head(mutations) = mutations[1] /\ Len(mutations) > 0
              /\ Tail(mutations) \in Seq(Op) /\ Len(Tail(mutations)) = Len(mutations) - 1
              /\ \A k \in DOMAIN Tail(mutations) :
                   /\ k + 1 \in DOMAIN mutations /\ k >= 1 /\ k \in Nat
                   /\ Tail(mutations)[k] = mutations[k + 1]
         /\ \A op \in Op :
              /\ Append(mutations, op) \in Seq(Op) /\ Append(mutations, op) # << >>
              /\ Len(Append(mutations, op)) = Len(mutations) + 1
              /\ \A k \in DOMAIN mutations : Append(mutations, op)[k] = mutations[k]
              /\ Append(mutations, op)[Len(mutations) + 1] = op
              /\ DOMAIN Append(mutations, op) = (1 .. Len(mutations)) \cup {Len(mutations) + 1}
              /\ mutations # << >> => Head(Append(mutations, op)) = Head(mutations)
<1>1. mutations \in Seq(Op)
  BY DEF Core, TypeOK
<1>2. \A op \in Op :
        /\ Append(mutations, op) \in Seq(Op) /\ Append(mutations, op) # << >>
        /\ Len(Append(mutations, op)) = Len(mutations) + 1
        /\ \A k \in DOMAIN mutations : Append(mutations, op)[k] = mutations[k]
        /\ Append(mutations, op)[Len(mutations) + 1] = op
        /\ DOMAIN Append(mutations, op) = (1 .. Len(mutations)) \cup {Len(mutations) + 1}
        /\ mutations # << >> => Head(Append(mutations, op)) = Head(mutations)
  BY <1>1, AppendProperties, HeadTailAppend, LenProperties
<1>3. mutations # << >> =>
        /\ Head(mutations) \in Op /\ Head(mutations) = mutations[1] /\ Len(mutations) > 0
        /\ Tail(mutations) \in Seq(Op) /\ Len(Tail(mutations)) = Len(mutations) - 1
        /\ \A k \in DOMAIN Tail(mutations) :
             /\ k + 1 \in DOMAIN mutations /\ k >= 1 /\ k \in Nat
             /\ Tail(mutations)[k] = mutations[k + 1]
  BY <1>1
<1> QED
  BY <1>1, <1>2, <1>3, LenProperties

LEMMA OpType ==
  ASSUME NEW op \in Op
  PROVE  /\ op.op \in {"add", "remove", "drop"}
         /\ op.op = "add" => op.device \in Device /\ op.keys \in 1 .. MaxKeys
         /\ op.op = "remove" => op.device \in Device
         /\ op.op = "drop" => op.of \in Instance /\ op.stale \in SUBSET Sub
BY DEF Op

LEMMA DropsElsewhere ==
  ASSUME Core, NEW i \in Instance, sending[i].stage # "dropping", UNCHANGED mutations,
         \A j \in Instance : j # i => sending'[j] = sending[j],
         \A j \in Instance : sending'[j].stage # "idle" => chain'[j] # << >>
  PROVE  InFlight'
<1>1. \A k \in DOMAIN mutations :
        Drops(k) => mutations[k].of \in Instance /\ sending[mutations[k].of].stage = "dropping"
  BY MutationsType, OpType DEF Core, InFlight, Drops
<1>2. \A k : Drops(k)' <=> Drops(k)
  BY DEF Drops
<1>3. \A j, k \in DOMAIN mutations :
        Drops(j) /\ Drops(k) /\ mutations[j].of = mutations[k].of => j = k
  BY DEF Core, InFlight
<1>4. \A k \in DOMAIN mutations : Drops(k) => sending'[mutations[k].of].stage = "dropping"
  BY <1>1
<1> QED
  BY <1>2, <1>3, <1>4 DEF InFlight

LEMMA StartSendCore ==
  ASSUME Core, NEW i \in Instance, StartSend(i)
  PROVE  Core'
<1>1. /\ chain[i] # << >> /\ sending[i].stage = "idle"
      /\ UNCHANGED <<registryVars, storeVars, deviceVars, crashes, acked>>
  BY StartCases
<1>2. CASE Finish(i) /\ UNCHANGED <<tried, told>>
  <2>1. chain' = [chain EXCEPT ![i] = Tail(@)] /\ sending' = [sending EXCEPT ![i] = NotSending]
    BY <1>2 DEF Finish
  <2>2. /\ chain' \in [Instance -> Seq(Delivery)]
        /\ sending' \in [Instance -> [stage : {"idle", "sending", "dropping"},
                                      left : SUBSET Sub, stale : SUBSET Sub]]
        /\ \A j \in Instance : sending'[j].stage # "idle" => chain'[j] # << >>
    BY <1>1, <2>1, PopKeepsCore
  <2>3. TypeOK' /\ Counted'
    BY <1>1, <1>2, <2>2 DEF Core, TypeOK, Counted, registryVars, storeVars, deviceVars
  <2>4. InFlight'
    <3>1. \A j \in Instance : j # i => sending'[j] = sending[j]
      BY <2>1, SendingType
    <3> QED
      BY <1>1, <2>2, <3>1, DropsElsewhere DEF storeVars
  <2> QED
    BY <1>1, <2>3, <2>4, StoreUnchanged DEF Core, storeVars
<1>3. ASSUME NEW m \in Delivery, Begins(i, m) PROVE Core'
  <2>1. Targets(Head(chain[i])) \subseteq Sub /\ Head(chain[i]) \in Delivery
    BY StartCases
  <2>2. /\ chain' \in [Instance -> Seq(Delivery)] /\ chain'[i] # << >>
        /\ \A j \in Instance : j # i => chain'[j] = chain[j] /\ sending'[j] = sending[j]
        /\ sending'[i] = [stage |-> "sending", left |-> Targets(Head(chain[i])), stale |-> {}]
        /\ sending' \in [Instance -> [stage : {"idle", "sending", "dropping"},
                                      left : SUBSET Sub, stale : SUBSET Sub]]
        /\ tried' \in [Device -> SUBSET (Instance \X Nat)]
        /\ told' \in [Device -> SUBSET (Instance \X Nat)]
    BY <1>1, <1>3, <2>1, BeginsType, Zenon
  <2>3. TypeOK' /\ Counted'
    BY <1>1, <2>2 DEF Core, TypeOK, Counted, registryVars, storeVars, deviceVars
  <2>4. InFlight'
    <3>1. \A j \in Instance : sending'[j].stage # "idle" => chain'[j] # << >>
      BY <2>2, SendingType
    <3> QED
      BY <1>1, <2>2, <3>1, DropsElsewhere DEF storeVars
  <2> QED
    BY <1>1, <2>3, <2>4, StoreUnchanged DEF Core, storeVars
<1> QED
  BY <1>2, <1>3, StartCases

(* One send is answered: what is left and what is gone change, nothing else.   *)
LEMMA AnswerKeepsCore ==
  ASSUME Core, NEW i \in Instance, NEW s \in Sub, NEW gone \in SUBSET Sub,
         sending[i].stage = "sending",
         sending' = [sending EXCEPT ![i] =
           [stage |-> "sending", left |-> sending[i].left \ {s}, stale |-> gone]],
         told' \in [Device -> SUBSET (Instance \X Nat)],
         UNCHANGED <<registryVars, storeVars, chain, deviceVars, crashes, acked, tried>>
  PROVE  Core'
<1>1. /\ sending' \in [Instance -> [stage : {"idle", "sending", "dropping"},
                                    left : SUBSET Sub, stale : SUBSET Sub]]
      /\ sending'[i].stage = "sending"
      /\ \A j \in Instance : j # i => sending'[j] = sending[j]
  BY DEF Core, TypeOK
<1>2. TypeOK' /\ Counted'
  BY <1>1 DEF Core, TypeOK, Counted, registryVars, storeVars, deviceVars
<1>3. InFlight'
  <2>1. \A j \in Instance : sending'[j].stage # "idle" => chain'[j] # << >>
    BY <1>1, SendingType
  <2> QED
    BY <1>1, <2>1, DropsElsewhere DEF storeVars
<1> QED
  BY <1>2, <1>3, StoreUnchanged DEF Core, storeVars

LEMMA SendCases ==
  ASSUME Core, NEW i \in Instance, NEW s \in Sub, SendOk(i, s) \/ SendGone(i, s) \/ SendFails(i, s)
  PROVE  /\ sending[i].stage = "sending" /\ s \in sending[i].left
         /\ told' \in [Device -> SUBSET (Instance \X Nat)]
         /\ UNCHANGED <<registryVars, storeVars, chain, deviceVars, crashes, acked, tried>>
         /\ \E gone \in SUBSET Sub :
              /\ gone = IF SendGone(i, s) /\ sending'[i].stale # sending[i].stale
                        THEN sending[i].stale \cup {s} ELSE sending[i].stale
              /\ sending' = [sending EXCEPT ![i] =
                   [stage |-> "sending", left |-> sending[i].left \ {s}, stale |-> gone]]
<1>1. sending[i].stage = "sending" /\ s \in sending[i].left
  BY DEF SendOk, SendGone, SendFails, Sent
<1>2. /\ sending[i] \in [stage : {"idle", "sending", "dropping"},
                         left : SUBSET Sub, stale : SUBSET Sub]
      /\ DOMAIN sending = Instance
  BY SendingType
<1>3. CASE SendOk(i, s)
  <2>1. sending' = [sending EXCEPT ![i] = [sending[i] EXCEPT !.left = @ \ {s}]]
    BY <1>3 DEF SendOk
  <2>2. [sending[i] EXCEPT !.left = @ \ {s}]
          = [stage |-> "sending", left |-> sending[i].left \ {s}, stale |-> sending[i].stale]
    BY <1>1, <1>2
  <2>3. told' \in [Device -> SUBSET (Instance \X Nat)]
    <3>1. Head(chain[i]).request \in Nat
      BY <1>1, SendingType, BoundsType DEF Delivery
    <3>2. <<i, Head(chain[i]).request>> \in Instance \X Nat
      BY <3>1
    <3>3. told \in [Device -> SUBSET (Instance \X Nat)]
      BY SendingType
    <3> QED
      BY <1>3, <3>2, <3>3 DEF SendOk
  <2>4. sending'[i].stale = sending[i].stale
    BY <1>2, <2>1, <2>2
  <2> QED
    BY <1>1, <1>2, <1>3, <2>1, <2>2, <2>3, <2>4 DEF SendOk
<1>4. CASE SendGone(i, s)
  <2>1. sending' = [sending EXCEPT ![i] = [[sending[i] EXCEPT !.left = @ \ {s}]
                                              EXCEPT !.stale = @ \cup {s}]]
    BY <1>4 DEF SendGone
  <2>2. [[sending[i] EXCEPT !.left = @ \ {s}] EXCEPT !.stale = @ \cup {s}]
          = [stage |-> "sending", left |-> sending[i].left \ {s},
             stale |-> sending[i].stale \cup {s}]
    <3> DEFINE y == [stage |-> "sending", left |-> sending[i].left \ {s},
                     stale |-> sending[i].stale]
    <3>1. [sending[i] EXCEPT !.left = @ \ {s}] = y
      BY <1>1, <1>2
    <3>2. [y EXCEPT !.stale = @ \cup {s}]
            = [stage |-> "sending", left |-> sending[i].left \ {s},
               stale |-> sending[i].stale \cup {s}]
      OBVIOUS
    <3> QED
      BY <3>1, <3>2, Zenon
  <2>3. sending'[i].stale = sending[i].stale \cup {s}
    BY <1>2, <2>1, <2>2
  <2>4. UNCHANGED <<registryVars, storeVars, chain, deviceVars, crashes, acked, tried>>
    BY <1>4 DEF SendGone, history
  <2>5. told' \in [Device -> SUBSET (Instance \X Nat)]
    BY <1>4, SendingType DEF SendGone, history
  <2>6. sending' = [sending EXCEPT ![i] =
          [stage |-> "sending", left |-> sending[i].left \ {s},
           stale |-> sending[i].stale \cup {s}]]
    BY <2>1, <2>2
  <2> QED
    BY <1>1, <1>2, <1>4, <2>3, <2>4, <2>5, <2>6
<1>5. CASE SendFails(i, s)
  <2>1. sending' = [sending EXCEPT ![i] = [sending[i] EXCEPT !.left = @ \ {s}]]
    BY <1>5 DEF SendFails
  <2>2. [sending[i] EXCEPT !.left = @ \ {s}]
          = [stage |-> "sending", left |-> sending[i].left \ {s}, stale |-> sending[i].stale]
    BY <1>1, <1>2
  <2>3. sending'[i].stale = sending[i].stale
    BY <1>2, <2>1, <2>2
  <2>4. UNCHANGED <<registryVars, storeVars, chain, deviceVars, crashes, acked, tried>>
    BY <1>5 DEF SendFails, history
  <2>5. told' \in [Device -> SUBSET (Instance \X Nat)]
    BY <1>5, SendingType DEF SendFails, history
  <2> QED
    BY <1>1, <1>2, <1>5, <2>1, <2>2, <2>3, <2>4, <2>5
<1> QED
  BY <1>3, <1>4, <1>5

LEMMA AnswerCore ==
  ASSUME Core, NEW i \in Instance, NEW s \in Sub, SendOk(i, s) \/ SendGone(i, s) \/ SendFails(i, s)
  PROVE  Core'
<1>1. /\ sending[i].stage = "sending" /\ told' \in [Device -> SUBSET (Instance \X Nat)]
      /\ UNCHANGED <<registryVars, storeVars, chain, deviceVars, crashes, acked, tried>>
  BY SendCases, Zenon
<1>2. PICK gone \in SUBSET Sub :
        sending' = [sending EXCEPT ![i] =
          [stage |-> "sending", left |-> sending[i].left \ {s}, stale |-> gone]]
  BY SendCases, Zenon
<1> QED
  BY <1>1, <1>2, AnswerKeepsCore, Zenon

(* A change that is asked for behind the queue leaves its head alone.          *)
LEMMA QueuedKeepsWrite ==
  ASSUME Core, NEW op \in Op, mutations' = Append(mutations, op),
         UNCHANGED <<subs, stored, writing, acked>>
  PROVE  WritesHead' /\ AckedOwn' /\ AckedKept'
<1>1. mutations # << >> => mutations' # << >> /\ Head(mutations') = Head(mutations)
  BY MutationsType
<1>3. WritesHead'
  <2>1. CASE writing.stage = "idle"
    BY <2>1 DEF WritesHead
  <2>2. CASE writing.stage # "idle"
    <3>1. mutations' # << >> /\ Head(mutations') = Head(mutations)
      BY <1>1, <2>2 DEF Core, WritesHead
    <3>2. /\ mutations # << >>
          /\ writing.next = Changed(Head(mutations))
          /\ ~(Head(mutations).op = "add" /\ Full(Others(Head(mutations))))
          /\ \A d \in Device : acked[d] # None => acked[d] \in writing.next
          /\ writing.stage = "written" => stored = writing.next
      BY <2>2 DEF Core, WritesHead
    <3>3. writing'.next = Changed(Head(mutations))'
      <4>1. Others(Head(mutations))' = Others(Head(mutations))
        BY <3>1 DEF Others
      <4>2. DevicesOf(subs)' = DevicesOf(subs)
        BY DEF DevicesOf
      <4>3. LevelIn(subs, Head(mutations).device)' = LevelIn(subs, Head(mutations).device)
        BY <3>1
      <4>4. Added(Head(mutations))' = Added(Head(mutations))
        BY <3>1, <4>3 DEF Added
      <4>5. {t \in subs : ~\E u \in Head(mutations).stale : SameTarget(t, u)}'
              = {t \in subs : ~\E u \in Head(mutations).stale : SameTarget(t, u)}
        BY <3>1 DEF SameTarget
      <4>6. Changed(Head(mutations))' = Changed(Head(mutations))
        BY <3>1, <4>1, <4>4, <4>5 DEF Changed
      <4> QED
        BY <3>2, <4>6
    <3>4. ~(Head(mutations)'.op = "add" /\ Full(Others(Head(mutations)))')
      BY <3>1, <3>2 DEF Others, Full
    <3> QED
      BY <3>1, <3>2, <3>3, <3>4 DEF WritesHead
  <2> QED
    BY <2>1, <2>2
<1> QED
  BY <1>3 DEF Core, AckedOwn, AckedKept

LEMMA SendsDoneCore ==
  ASSUME Core, NEW i \in Instance, SendsDone(i)
  PROVE  Core'
<1>1. /\ sending[i].stage = "sending" /\ chain[i] # << >>
      /\ UNCHANGED <<registryVars, subs, stored, writing, deviceVars, crashes, history>>
  BY SendingType DEF SendsDone
<1>2. CASE Finish(i) /\ UNCHANGED mutations
  <2>1. chain' = [chain EXCEPT ![i] = Tail(@)] /\ sending' = [sending EXCEPT ![i] = NotSending]
    BY <1>2 DEF Finish
  <2>2. /\ chain' \in [Instance -> Seq(Delivery)]
        /\ sending' \in [Instance -> [stage : {"idle", "sending", "dropping"},
                                      left : SUBSET Sub, stale : SUBSET Sub]]
        /\ \A j \in Instance : sending'[j].stage # "idle" => chain'[j] # << >>
    BY <1>1, <2>1, PopKeepsCore
  <2>3. TypeOK' /\ Counted'
    BY <1>1, <1>2, <2>2 DEF Core, TypeOK, Counted, registryVars, deviceVars, history
  <2>4. InFlight'
    <3>1. \A j \in Instance : j # i => sending'[j] = sending[j]
      BY <2>1, SendingType
    <3> QED
      BY <1>1, <1>2, <2>2, <3>1, DropsElsewhere
  <2> QED
    BY <1>1, <1>2, <2>3, <2>4, StoreUnchanged DEF Core, history
<1>3. CASE /\ mutations' = Append(mutations, [op |-> "drop", stale |-> sending[i].stale, of |-> i])
           /\ sending' = [sending EXCEPT ![i].stage = "dropping"]
           /\ UNCHANGED chain
  <2> DEFINE op == [op |-> "drop", stale |-> sending[i].stale, of |-> i]
  <2>1. op \in Op /\ op.op = "drop" /\ op.of = i
    BY SendingType DEF Op
  <2>2. mutations' = Append(mutations, op)
    BY <1>3
  <2> HIDE DEF op
  <2>3. /\ sending' \in [Instance -> [stage : {"idle", "sending", "dropping"},
                                      left : SUBSET Sub, stale : SUBSET Sub]]
        /\ sending'[i].stage = "dropping" /\ sending'[i].stale = sending[i].stale
        /\ sending'[i].left = sending[i].left
        /\ \A j \in Instance : j # i => sending'[j] = sending[j]
    <3>1. sending' = [sending EXCEPT ![i] = [sending[i] EXCEPT !.stage = "dropping"]]
      BY <1>3
    <3> QED
      BY <3>1, SendingType
  <2>4. mutations' \in Seq(Op)
    BY <2>1, <2>2, MutationsType
  <2>5. TypeOK' /\ Counted'
    BY <1>1, <1>3, <2>3, <2>4 DEF Core, TypeOK, Counted, registryVars, deviceVars, history
  <2>6. InFlight'
    <3>1. \A j \in Instance : sending'[j].stage # "idle" => chain'[j] # << >>
      BY <1>1, <1>3, <2>3, SendingType
    <3>2. \A k \in DOMAIN mutations :
            Drops(k) => /\ mutations[k].of \in Instance /\ mutations[k].of # i
                        /\ sending[mutations[k].of].stage = "dropping"
      BY <1>1, MutationsType, OpType DEF Core, InFlight, Drops
    <3>3. /\ DOMAIN mutations = 1 .. Len(mutations) /\ Len(mutations) \in Nat
          /\ DOMAIN mutations' = (1 .. Len(mutations)) \cup {Len(mutations) + 1}
          /\ \A k \in DOMAIN mutations : mutations'[k] = mutations[k]
          /\ mutations'[Len(mutations) + 1] = op
      BY <2>1, <2>2, MutationsType
    <3>4. \A j, k \in DOMAIN mutations :
            Drops(j) /\ Drops(k) /\ mutations[j].of = mutations[k].of => j = k
      BY DEF Core, InFlight
    <3>5. \A k \in DOMAIN mutations' :
            Drops(k)' => sending'[mutations'[k].of].stage = "dropping"
      BY <2>1, <2>3, <3>2, <3>3 DEF Drops
    <3>6. \A j, k \in DOMAIN mutations' :
            Drops(j)' /\ Drops(k)' /\ mutations'[j].of = mutations'[k].of => j = k
      BY <2>1, <3>2, <3>3, <3>4 DEF Drops
    <3> QED
      BY <3>1, <3>5, <3>6 DEF InFlight
  <2> QED
    BY <1>1, <2>1, <2>2, <2>5, <2>6, QueuedKeepsWrite DEF Core, history
<1> QED
  BY <1>2, <1>3 DEF SendsDone

(* The head of the queue is done with; a chain that waited for it moves on.    *)
LEMMA DoneKeepsCore ==
  ASSUME Core, mutations # << >>, mutations' = Tail(mutations),
         NEW chains \in [Instance -> Seq(Delivery)],
         \A i \in Instance : chain[i] # << >> => chains[i] # << >>,
         Unblock(Head(mutations), chains)
  PROVE  /\ mutations' \in Seq(Op)
         /\ chain' \in [Instance -> Seq(Delivery)]
         /\ sending' \in [Instance -> [stage : {"idle", "sending", "dropping"},
                                       left : SUBSET Sub, stale : SUBSET Sub]]
         /\ InFlight'
<1> DEFINE op == Head(mutations)
<1>1. /\ op \in Op /\ op = mutations[1] /\ Len(mutations) > 0
      /\ mutations' \in Seq(Op) /\ Len(mutations) \in Nat
      /\ DOMAIN mutations = 1 .. Len(mutations) /\ 1 \in DOMAIN mutations
      /\ \A k \in DOMAIN mutations' : /\ k + 1 \in DOMAIN mutations /\ k >= 1 /\ k \in Nat
                                      /\ mutations'[k] = mutations[k + 1]
  BY MutationsType
<1>2. \A k \in DOMAIN mutations' : Drops(k)' =>
        /\ Drops(k + 1) /\ mutations'[k].of \in Instance
        /\ sending[mutations'[k].of].stage = "dropping"
        /\ op.op = "drop" => mutations'[k].of # op.of
  <2>1. \A k \in DOMAIN mutations : Drops(k) => sending[mutations[k].of].stage = "dropping"
    BY DEF Core, InFlight
  <2>2. \A k \in DOMAIN mutations : Drops(k) => mutations[k].of \in Instance
    BY MutationsType, OpType DEF Drops
  <2>3. \A k \in DOMAIN mutations' : Drops(k)' => Drops(k + 1)
    BY <1>1 DEF Drops
  <2>4. \A j, k \in DOMAIN mutations :
          Drops(j) /\ Drops(k) /\ mutations[j].of = mutations[k].of => j = k
    BY DEF Core, InFlight
  <2>5. op.op = "drop" => Drops(1)
    BY <1>1 DEF Drops
  <2> QED
    BY <1>1, <2>1, <2>2, <2>3, <2>4, <2>5
<1>3. \A j, k \in DOMAIN mutations' :
        Drops(j)' /\ Drops(k)' /\ mutations'[j].of = mutations'[k].of => j = k
  <2>1. \A j, k \in DOMAIN mutations :
          Drops(j) /\ Drops(k) /\ mutations[j].of = mutations[k].of => j = k
    BY DEF Core, InFlight
  <2> SUFFICES ASSUME NEW j \in DOMAIN mutations', NEW k \in DOMAIN mutations',
                      Drops(j)', Drops(k)', mutations'[j].of = mutations'[k].of
               PROVE  j = k
    OBVIOUS
  <2>2. j + 1 = k + 1
    BY <1>1, <1>2, <2>1
  <2> QED
    BY <1>1, <2>2
<1>4. CASE op.op = "drop"
  <2>1. /\ chain' = [chains EXCEPT ![op.of] = Tail(@)]
        /\ sending' = [sending EXCEPT ![op.of] = NotSending]
    BY <1>4 DEF Unblock
  <2>2. op.of \in Instance /\ sending[op.of].stage = "dropping"
    BY <1>1, <1>4, OpType DEF Core, InFlight, Drops
  <2>3. chain[op.of] # << >> /\ chains[op.of] # << >>
    BY <2>2, SendingType
  <2> HIDE DEF op
  <2>4. Tail(chains[op.of]) \in Seq(Delivery)
    BY <2>2, <2>3
  <2>5. NotSending \in [stage : {"idle", "sending", "dropping"},
                        left : SUBSET Sub, stale : SUBSET Sub] /\ NotSending.stage = "idle"
    BY DEF NotSending
  <2>6. /\ chain' \in [Instance -> Seq(Delivery)]
        /\ sending' \in [Instance -> [stage : {"idle", "sending", "dropping"},
                                      left : SUBSET Sub, stale : SUBSET Sub]]
    BY <2>1, <2>4, <2>5 DEF Core, TypeOK
  <2>7. \A j \in Instance : sending'[j].stage # "idle" => chain'[j] # << >>
    BY <2>1, <2>5, SendingType
  <2>8. \A k \in DOMAIN mutations' : Drops(k)' => sending'[mutations'[k].of].stage = "dropping"
    BY <1>2, <1>4, <2>1, SendingType
  <2> QED
    BY <1>1, <1>3, <2>6, <2>7, <2>8 DEF InFlight
<1>5. CASE op.op # "drop"
  <2>1. chain' = chains /\ sending' = sending
    BY <1>5 DEF Unblock
  <2>2. \A j \in Instance : sending'[j].stage # "idle" => chain'[j] # << >>
    BY <2>1, SendingType
  <2>3. \A k \in DOMAIN mutations' : Drops(k)' => sending'[mutations'[k].of].stage = "dropping"
    BY <1>2, <2>1
  <2>4. sending' \in [Instance -> [stage : {"idle", "sending", "dropping"},
                                   left : SUBSET Sub, stale : SUBSET Sub]]
    BY <2>1 DEF Core, TypeOK
  <2> QED
    BY <1>1, <1>3, <2>1, <2>2, <2>3, <2>4 DEF InFlight
<1> QED
  BY <1>4, <1>5

(* A promise of another subscription than the one that changes stays in what a *)
(* change leaves.                                                              *)
LEMMA RevokedKept ==
  ASSUME Core, NEW op \in Op, NEW d \in Device, Revoked(op)[d] # None
  PROVE  Revoked(op)[d] = acked[d] /\ acked[d] \in Changed(op)
<1>1. /\ acked[d] # None /\ Revoked(op)[d] = acked[d]
      /\ op.op = "drop" => ~\E t \in op.stale : t.device = d /\ t.keys = acked[d].keys
      /\ op.op # "drop" => op.device # d
  BY DEF Revoked
<1>2. acked[d] \in subs /\ acked[d].device = d
  BY <1>1 DEF Core, AckedKept, AckedOwn
<1>3. CASE op.op \in {"add", "remove"}
  BY <1>1, <1>2, <1>3 DEF Changed, Others
<1>4. CASE op.op = "drop"
  BY <1>1, <1>2, <1>4 DEF Changed, SameTarget
<1> QED
  BY <1>1, <1>3, <1>4, OpType

LEMMA MutationStartsCore ==
  ASSUME Core, MutationStarts
  PROVE  Core'
<1> DEFINE op == Head(mutations)
<1>1. /\ writing.stage = "idle" /\ mutations # << >> /\ op \in Op
      /\ UNCHANGED <<registryVars, subs, stored, chain, sending, deviceVars, crashes, tried, told>>
  BY MutationsType DEF MutationStarts
<1>2. CASE op.op = "add" /\ mutations' = Tail(mutations) /\ UNCHANGED <<writing, acked>>
  <2>1. Unblock(op, chain)
    BY <1>1, <1>2 DEF Unblock
  <2>2. mutations' \in Seq(Op) /\ InFlight'
    BY <1>1, <1>2, <2>1, DoneKeepsCore DEF Core, TypeOK
  <2>3. TypeOK' /\ Counted'
    BY <1>1, <1>2, <2>2 DEF Core, TypeOK, Counted, registryVars, deviceVars
  <2>4. WritesHead' /\ AckedOwn' /\ AckedKept'
    BY <1>1, <1>2 DEF Core, WritesHead, AckedOwn, AckedKept
  <2> QED
    BY <2>2, <2>3, <2>4 DEF Core
<1>3. CASE /\ ~(op.op = "add" /\ Full(Others(op)))
           /\ writing' = [stage |-> "writing", next |-> Changed(op)]
           /\ acked' = Revoked(op)
           /\ UNCHANGED mutations
  <2>1. Changed(op) \subseteq Sub
    BY <1>1, <1>3, ChangedType DEF Core
  <2>2. \A d \in Device : acked'[d] # None => acked'[d] = acked[d] /\ acked[d] \in Changed(op)
    BY <1>1, <1>3, RevokedKept
  <2>3. acked' \in [Device -> Sub \cup {None}]
    <3>1. \A d \in Device : Revoked(op)[d] \in Sub \cup {None}
      BY DEF Core, TypeOK, Revoked
    <3>2. Revoked(op) = [d \in Device |-> Revoked(op)[d]]
      BY DEF Revoked
    <3> HIDE DEF op
    <3> QED
      BY <1>3, <3>1, <3>2
  <2>4. writing' \in [stage : {"idle", "writing", "written"}, next : SUBSET Sub]
    BY <1>3, <2>1
  <2>5. TypeOK' /\ Counted'
    BY <1>1, <1>3, <2>3, <2>4 DEF Core, TypeOK, Counted, registryVars, deviceVars
  <2>6. InFlight'
    BY <1>1, <1>3 DEF Core, InFlight, Drops
  <2>7. AckedOwn' /\ AckedKept'
    BY <1>1, <2>2 DEF Core, AckedOwn, AckedKept
  <2>8. WritesHead'
    <3>1. Head(mutations)' = op
      BY <1>3
    <3>2. LevelIn(subs, Head(mutations).device)' = LevelIn(subs, Head(mutations).device)
      BY <1>1, <3>1
    <3>3. Others(Head(mutations))' = Others(op) /\ Added(Head(mutations))' = Added(op)
      BY <1>1, <3>1, <3>2 DEF Others, Added
    <3>4. Changed(Head(mutations))' = Changed(op)
      BY <1>1, <3>1, <3>3 DEF Changed, SameTarget
    <3>5. ~(Head(mutations)'.op = "add" /\ Full(Others(Head(mutations)))')
      BY <1>3, <3>1, <3>3 DEF Full
    <3>6. writing'.stage = "writing" /\ writing'.next = Changed(op)
      BY <1>3
    <3>7. mutations' # << >>
      BY <1>1, <1>3
    <3> QED
      BY <2>2, <3>4, <3>5, <3>6, <3>7 DEF WritesHead
  <2> QED
    BY <2>5, <2>6, <2>7, <2>8 DEF Core
<1> QED
  BY <1>1, <1>2, <1>3 DEF MutationStarts

LEMMA WritingType ==
  ASSUME Core, writing.stage # "idle"
  PROVE  /\ mutations # << >> /\ Head(mutations) \in Op
         /\ writing.next = Changed(Head(mutations))
         /\ writing.next \subseteq Sub /\ IsFiniteSet(writing.next)
         /\ Cardinality(writing.next) <= MaxSubscriptions
         /\ \A s, t \in writing.next : s.device = t.device => s = t
         /\ \A d \in Device : acked[d] # None => acked[d] \in writing.next
         /\ writing.stage = "written" => stored = writing.next
<1>1. /\ mutations # << >> /\ writing.next = Changed(Head(mutations))
      /\ ~(Head(mutations).op = "add" /\ Full(Others(Head(mutations))))
      /\ \A d \in Device : acked[d] # None => acked[d] \in writing.next
      /\ writing.stage = "written" => stored = writing.next
  BY DEF Core, WritesHead
<1>2. Head(mutations) \in Op
  BY <1>1, MutationsType
<1>3. /\ Changed(Head(mutations)) \subseteq Sub /\ IsFiniteSet(Changed(Head(mutations)))
      /\ Cardinality(Changed(Head(mutations))) <= MaxSubscriptions
      /\ \A s, t \in Changed(Head(mutations)) : s.device = t.device => s = t
  BY <1>1, <1>2, ChangedType DEF Core
<1> QED
  BY <1>1, <1>2, <1>3

LEMMA MutationWrittenCore ==
  ASSUME Core, MutationWritten
  PROVE  Core'
<1>1. /\ writing.stage = "writing" /\ stored' = writing.next
      /\ writing' = [writing EXCEPT !.stage = "written"]
      /\ UNCHANGED <<registryVars, subs, mutations, chain, sending, deviceVars, crashes, history>>
  BY DEF MutationWritten
<1>2. /\ writing' \in [stage : {"idle", "writing", "written"}, next : SUBSET Sub]
      /\ writing'.next = writing.next /\ writing'.stage = "written"
  BY <1>1 DEF Core, TypeOK
<1>3. TypeOK' /\ Counted'
  BY <1>1, <1>2, WritingType DEF Core, TypeOK, Counted, registryVars, deviceVars, history
<1>4. InFlight'
  BY <1>1 DEF Core, InFlight, Drops
<1>5. AckedOwn' /\ AckedKept'
  BY <1>1, WritingType DEF Core, AckedOwn, AckedKept, history
<1>6. WritesHead'
  <2>1. /\ mutations # << >>
        /\ writing.next = Changed(Head(mutations))
        /\ ~(Head(mutations).op = "add" /\ Full(Others(Head(mutations))))
        /\ \A d \in Device : acked[d] # None => acked[d] \in writing.next
    BY <1>1 DEF Core, WritesHead
  <2>2. /\ Changed(Head(mutations))' = Changed(Head(mutations))
        /\ Others(Head(mutations))' = Others(Head(mutations))
    BY <1>1 DEF Changed, Others, Added
  <2> QED
    BY <1>1, <1>2, <2>1, <2>2 DEF WritesHead, Full, history
<1> QED
  BY <1>3, <1>4, <1>5, <1>6 DEF Core

(* What the end of a write does to the chains: catch-ups, then the unblocking. *)
CaughtUp(op) ==
  IF op.op = "add" THEN [i \in Instance |-> chain[i] \o CatchUp(i, Added(op))] ELSE chain

LEMMA CaughtUpType ==
  ASSUME Core, NEW op \in Op
  PROVE  /\ CaughtUp(op) \in [Instance -> Seq(Delivery)]
         /\ \A i \in Instance : chain[i] # << >> => CaughtUp(op)[i] # << >>
<1>1. CASE op.op = "add"
  <2> SUFFICES ASSUME NEW i \in Instance
               PROVE  /\ chain[i] \o CatchUp(i, Added(op)) \in Seq(Delivery)
                      /\ chain[i] # << >> => chain[i] \o CatchUp(i, Added(op)) # << >>
    BY <1>1 DEF CaughtUp
  <2>1. CatchUp(i, Added(op)) \in Seq(Delivery)
    BY <1>1, AddedType, CatchUpType DEF Core
  <2>2. chain[i] \in Seq(Delivery)
    BY SendingType
  <2> HIDE DEF CatchUp
  <2> QED
    BY <2>1, <2>2, ConcatProperties, ConcatEqualIffEmpty
<1>2. CASE op.op # "add"
  BY <1>2 DEF CaughtUp, Core, TypeOK
<1> QED
  BY <1>1, <1>2

LEMMA KeptCases ==
  ASSUME Core, MutationKept
  PROVE  LET op == Head(mutations)
         IN /\ writing.stage = "written" /\ mutations # << >> /\ op \in Op
            /\ Unblock(op, CaughtUp(op))
            /\ IF op.op = "add" THEN acked' = [acked EXCEPT ![op.device] = Added(op)]
                                ELSE UNCHANGED acked
            /\ subs' = Changed(op) /\ stored = Changed(op)
            /\ mutations' = Tail(mutations) /\ writing' = NotWriting
            /\ UNCHANGED <<registryVars, stored, deviceVars, crashes, tried, told>>
<1>1. writing.stage = "written" /\ mutations # << >> /\ Head(mutations) \in Op
  BY WritingType DEF MutationKept
<1>2. writing.next = Changed(Head(mutations)) /\ stored = writing.next
  BY <1>1, WritingType
<1>3. CASE Head(mutations).op = "add"
  BY <1>1, <1>2, <1>3 DEF MutationKept, CaughtUp
<1>4. CASE Head(mutations).op # "add"
  BY <1>1, <1>2, <1>4 DEF MutationKept, CaughtUp
<1> QED
  BY <1>3, <1>4

LEMMA MutationKeptCore ==
  ASSUME Core, MutationKept
  PROVE  Core'
<1> DEFINE op == Head(mutations)
<1>1. /\ writing.stage = "written" /\ mutations # << >> /\ op \in Op
      /\ Unblock(op, CaughtUp(op))
      /\ IF op.op = "add" THEN acked' = [acked EXCEPT ![op.device] = Added(op)]
                          ELSE UNCHANGED acked
      /\ subs' = Changed(op) /\ stored = Changed(op)
      /\ mutations' = Tail(mutations) /\ writing' = NotWriting
      /\ UNCHANGED <<registryVars, stored, deviceVars, crashes, tried, told>>
  BY KeptCases
<1>2. /\ mutations' \in Seq(Op) /\ chain' \in [Instance -> Seq(Delivery)]
      /\ sending' \in [Instance -> [stage : {"idle", "sending", "dropping"},
                                    left : SUBSET Sub, stale : SUBSET Sub]]
      /\ InFlight'
  BY <1>1, CaughtUpType, DoneKeepsCore
<1>3. /\ writing' \in [stage : {"idle", "writing", "written"}, next : SUBSET Sub]
      /\ writing'.stage = "idle"
  BY <1>1 DEF NotWriting
<1>4. /\ Changed(op) \subseteq Sub /\ IsFiniteSet(Changed(op))
      /\ Cardinality(Changed(op)) <= MaxSubscriptions
      /\ \A s, t \in Changed(op) : s.device = t.device => s = t
      /\ \A d \in Device : acked[d] # None => acked[d] \in Changed(op)
  BY <1>1, WritingType
<1>5. op.op = "add" => /\ Added(op) \in Sub /\ Added(op).device = op.device
                       /\ op.device \in Device /\ Added(op) \in Changed(op)
  BY <1>1, AddedType DEF Core, Changed
<1> HIDE DEF op
<1>6. /\ acked' \in [Device -> Sub \cup {None}]
      /\ \A d \in Device : acked'[d] # None =>
           acked'[d] \in Changed(op) /\ acked'[d].device = d
  <2>1. acked \in [Device -> Sub \cup {None}] /\ \A d \in Device : acked[d] # None => acked[d].device = d
    BY DEF Core, TypeOK, AckedOwn
  <2>2. CASE op.op = "add"
    <3>1. acked' = [acked EXCEPT ![op.device] = Added(op)]
      BY <1>1, <2>2 DEF op
    <3> HIDE DEF Added
    <3> QED
      BY <1>4, <1>5, <2>1, <2>2, <3>1
  <2>3. CASE op.op # "add"
    <3>1. acked' = acked
      BY <1>1, <2>3 DEF op
    <3> QED
      BY <1>4, <2>1, <3>1
  <2> QED
    BY <2>2, <2>3
<1>7. TypeOK' /\ Counted'
  BY <1>1, <1>2, <1>3, <1>4, <1>6 DEF Core, TypeOK, Counted, registryVars, deviceVars
<1>8. AckedOwn' /\ AckedKept' /\ WritesHead'
  BY <1>1, <1>3, <1>6 DEF AckedOwn, AckedKept, WritesHead
<1> QED
  BY <1>2, <1>7, <1>8 DEF Core

LEMMA MutationFailsCore ==
  ASSUME Core, MutationFails
  PROVE  Core'
<1>1. /\ writing.stage # "idle" /\ mutations # << >>
      /\ Unblock(Head(mutations), chain)
      /\ mutations' = Tail(mutations) /\ writing' = NotWriting
      /\ UNCHANGED <<registryVars, subs, stored, deviceVars, crashes, history>>
  BY WritingType DEF MutationFails
<1>2. /\ mutations' \in Seq(Op) /\ chain' \in [Instance -> Seq(Delivery)]
      /\ sending' \in [Instance -> [stage : {"idle", "sending", "dropping"},
                                    left : SUBSET Sub, stale : SUBSET Sub]]
      /\ InFlight'
  BY <1>1, DoneKeepsCore DEF Core, TypeOK
<1>3. /\ writing' \in [stage : {"idle", "writing", "written"}, next : SUBSET Sub]
      /\ writing'.stage = "idle"
  BY <1>1 DEF NotWriting
<1>4. TypeOK' /\ Counted'
  BY <1>1, <1>2, <1>3 DEF Core, TypeOK, Counted, registryVars, deviceVars, history
<1>5. AckedOwn' /\ AckedKept' /\ WritesHead'
  BY <1>1, <1>3 DEF Core, AckedOwn, AckedKept, WritesHead, history
<1> QED
  BY <1>2, <1>4, <1>5 DEF Core

(* A request of a browser joins the queue.                                     *)
LEMMA QueueKeepsCore ==
  ASSUME Core, NEW op \in Op, op.op # "drop", mutations' = Append(mutations, op),
         keys' \in [Device -> 0 .. MaxKeys], live' \subseteq Device, requested' \in Nat,
         told' \in [Device -> SUBSET (Instance \X Nat)],
         UNCHANGED <<registryVars, subs, stored, writing, chain, sending, crashes, acked, tried>>
  PROVE  Core'
<1>1. mutations' \in Seq(Op)
  BY MutationsType
<1>2. TypeOK' /\ Counted'
  BY <1>1 DEF Core, TypeOK, Counted, registryVars
<1>3. /\ DOMAIN mutations = 1 .. Len(mutations)
      /\ DOMAIN mutations' = (1 .. Len(mutations)) \cup {Len(mutations) + 1}
      /\ \A k \in DOMAIN mutations : mutations'[k] = mutations[k]
      /\ mutations'[Len(mutations) + 1] = op
  BY MutationsType
<1>4. InFlight'
  <2>1. \A k \in DOMAIN mutations' : Drops(k)' =>
          k \in DOMAIN mutations /\ Drops(k) /\ mutations'[k] = mutations[k]
    BY <1>3 DEF Drops
  <2> QED
    BY <2>1 DEF Core, InFlight
<1> QED
  BY <1>2, <1>4, QueuedKeepsWrite DEF Core

LEMMA DevicesType ==
  ASSUME Core
  PROVE  /\ keys \in [Device -> 0 .. MaxKeys] /\ live \subseteq Device /\ requested \in Nat
         /\ told \in [Device -> SUBSET (Instance \X Nat)]
BY DEF Core, TypeOK, Counted

LEMMA BrowserCore ==
  ASSUME Core, Browser
  PROVE  Core'
<1>1. ASSUME NEW d \in Device, NEW k \in 1 .. MaxKeys, NEW level \in Level \cup {None},
             Subscribe(d, k, level)
      PROVE  Core'
  <2> DEFINE op == [op |-> "add", device |-> d, keys |-> k, level |-> level]
  <2>1. op \in Op /\ op.op # "drop" /\ mutations' = Append(mutations, op)
    BY <1>1 DEF Op, Subscribe
  <2>2. k \in 0 .. MaxKeys
    BY BoundsType
  <2>3. /\ keys' \in [Device -> 0 .. MaxKeys] /\ live' \subseteq Device /\ requested' \in Nat
        /\ told' \in [Device -> SUBSET (Instance \X Nat)]
    BY <1>1, <2>2, DevicesType DEF Subscribe
  <2>4. UNCHANGED <<registryVars, subs, stored, writing, chain, sending, crashes, acked, tried>>
    BY <1>1 DEF Subscribe
  <2> HIDE DEF op
  <2> QED
    BY <2>1, <2>3, <2>4, QueueKeepsCore
<1>2. ASSUME NEW d \in Device, Unsubscribe(d)
      PROVE  Core'
  <2> DEFINE op == [op |-> "remove", device |-> d]
  <2>1. op \in Op /\ op.op # "drop" /\ mutations' = Append(mutations, op)
    BY <1>2 DEF Op, Unsubscribe
  <2>2. /\ keys' \in [Device -> 0 .. MaxKeys] /\ live' \subseteq Device /\ requested' \in Nat
        /\ told' \in [Device -> SUBSET (Instance \X Nat)]
    BY <1>2, DevicesType DEF Unsubscribe
  <2>3. UNCHANGED <<registryVars, subs, stored, writing, chain, sending, crashes, acked, tried>>
    BY <1>2 DEF Unsubscribe
  <2> HIDE DEF op
  <2> QED
    BY <2>1, <2>2, <2>3, QueueKeepsCore
<1>3. ASSUME NEW d \in Device, Lapse(d)
      PROVE  Core'
  <2>1. /\ live' \subseteq Device /\ told' \in [Device -> SUBSET (Instance \X Nat)]
        /\ UNCHANGED <<registryVars, storeVars, chain, sending, keys, requested, crashes,
                       acked, tried>>
    BY <1>3, DevicesType DEF Lapse
  <2>2. TypeOK' /\ Counted'
    BY <2>1 DEF Core, TypeOK, Counted, registryVars, storeVars
  <2>3. InFlight'
    BY <2>1 DEF Core, InFlight, Drops, storeVars
  <2> QED
    BY <2>1, <2>2, <2>3, StoreUnchanged DEF Core, storeVars
<1> QED
  BY <1>1, <1>2, <1>3 DEF Browser

LEMMA CrashCore ==
  ASSUME Core, Crash
  PROVE  Core'
<1>1. \A i \in Instance : chain'[i] = << >> /\ sending'[i] = NotSending
  BY DEF Crash
<1>2. /\ mutations' = << >> /\ writing' = NotWriting /\ DOMAIN mutations' = {}
      /\ writing'.stage = "idle" /\ NotSending.stage = "idle"
  BY DEF Crash, NotWriting, NotSending
<1>3. /\ chain' \in [Instance -> Seq(Delivery)] /\ mutations' \in Seq(Op)
      /\ sending' \in [Instance -> [stage : {"idle", "sending", "dropping"},
                                    left : SUBSET Sub, stale : SUBSET Sub]]
      /\ writing' \in [stage : {"idle", "writing", "written"}, next : SUBSET Sub]
      /\ ask' \in [Instance -> 0 .. MaxAsks]
  BY BoundsType DEF Crash, NotSending, NotWriting
<1>4. TypeOK'
  BY <1>3 DEF Core, TypeOK, Crash, deviceVars
<1>5. Counted'
  BY DEF Core, Counted, Crash, deviceVars
<1>6. InFlight'
  BY <1>1, <1>2 DEF InFlight, Drops
<1>7. WritesHead' /\ AckedOwn' /\ AckedKept'
  BY <1>2 DEF Core, WritesHead, AckedOwn, AckedKept, Crash
<1> QED
  BY <1>4, <1>5, <1>6, <1>7 DEF Core

LEMMA InitCore == Init => Core
<1> SUFFICES ASSUME Init PROVE Core
  OBVIOUS
<1>1. \A d \in Device : KeysIn(InitialSubs, d) \in 0 .. MaxKeys
  <2> SUFFICES ASSUME NEW d \in Device PROVE KeysIn(InitialSubs, d) \in 0 .. MaxKeys
    OBVIOUS
  <2>1. CASE d \in DevicesOf(InitialSubs)
    <3>1. \E s \in InitialSubs : s.device = d
      BY <2>1 DEF DevicesOf
    <3>2. (CHOOSE s \in InitialSubs : s.device = d) \in Sub
      BY <3>1, PushAssumption DEF PushAssumption
    <3> QED
      BY <2>1, <3>2, BoundsType DEF KeysIn, Sub
  <2> QED
    BY <2>1, BoundsType DEF KeysIn
<1>2. DevicesOf(InitialSubs) \subseteq Device
  BY PushAssumption DEF PushAssumption, DevicesOf, Sub
<1>3. /\ chain \in [Instance -> Seq(Delivery)] /\ mutations \in Seq(Op)
      /\ sending \in [Instance -> [stage : {"idle", "sending", "dropping"},
                                    left : SUBSET Sub, stale : SUBSET Sub]]
      /\ writing \in [stage : {"idle", "writing", "written"}, next : SUBSET Sub]
      /\ ask \in [Instance -> 0 .. MaxAsks]
      /\ made \in [Instance -> [asks : 0 .. MaxAsks, renewals : Nat, stops : Nat]]
  BY BoundsType DEF Init, NotSending, NotWriting
<1>4. TypeOK
  BY <1>1, <1>2, <1>3, PushAssumption DEF TypeOK, Init, PushAssumption
<1>5. Counted
  BY <1>3, PushAssumption DEF Counted, Init, PushAssumption
<1>6. InFlight /\ WritesHead /\ AckedOwn /\ AckedKept
  BY DEF Init, InFlight, Drops, WritesHead, AckedOwn, AckedKept, NotSending, NotWriting
<1> QED
  BY <1>4, <1>5, <1>6 DEF Core

LEMMA CoreStep ==
  ASSUME Core, [Next]_vars
  PROVE  Core'
<1>1. CASE Registry
  BY <1>1, RegistryCore
<1>2. ASSUME NEW i \in Instance, Deliver(i) PROVE Core'
  BY <1>2, StartSendCore, SendsDoneCore, AnswerCore DEF Deliver
<1>3. CASE Mutate
  BY <1>3, MutationStartsCore, MutationWrittenCore, MutationKeptCore, MutationFailsCore DEF Mutate
<1>4. CASE Browser
  BY <1>4, BrowserCore
<1>5. CASE Crash
  BY <1>5, CrashCore
<1>6. CASE UNCHANGED vars
  <2>1. TypeOK' /\ Counted' /\ InFlight'
    BY <1>6 DEF Core, TypeOK, Counted, InFlight, Drops, vars
  <2> QED
    BY <1>6, <2>1, StoreUnchanged DEF Core, vars
<1> QED
  BY <1>1, <1>2, <1>3, <1>4, <1>5, <1>6 DEF Next

-----------------------------------------------------------------------------
(* TypeOK: every variable of the service keeps its type, no endpoint is        *)
(* subscribed twice, and neither memory nor the file ever holds more           *)
(* subscriptions than MAX_PUSH_SUBSCRIPTIONS (push.ts 286-319).                 *)
THEOREM TypesKept == Spec => []TypeOK
<1>1. Core => TypeOK
  BY DEF Core
<1> QED
  BY InitCore, CoreStep, <1>1, PTL DEF Spec

(* AckedKept: a subscription a browser was told is kept is in memory and in    *)
(* the file over crashes, failed writes, other browsers' requests and the gone *)
(* answers of keys it has replaced (push.ts 194-210, 286-319, 497-516).         *)
THEOREM AcknowledgedStays == Spec => []AckedKept
<1>1. Core => AckedKept
  BY DEF Core
<1> QED
  BY InitCore, CoreStep, <1>1, PTL DEF Spec

-----------------------------------------------------------------------------
(* NoAskMissed.                                                                *)

(* What is announced: an attention of the new request for everyone, the clear  *)
(* of the old one before it, and no other attention.                           *)
LEMMA AnnouncedContent ==
  ASSUME NEW i \in Instance, NEW old \in 0 .. MaxAsks, NEW new \in 0 .. MaxAsks, NEW asks,
         NEW p, p = Announced(i, old, new, asks)
  PROVE  /\ new # 0 => \E k \in DOMAIN p :
              k >= 1 /\ p[k].type = "attention" /\ p[k].request = new /\ p[k].to = All
         /\ new # old /\ old # 0 => ClearFrom(p, 1, old)
         /\ \A k \in DOMAIN p : /\ p[k].type = "attention" => p[k].request = new /\ new # 0
                                /\ p[k].to = All
<1> DEFINE c == Message("clear", i, old, asks, All)
           a == Message("attention", i, new, asks, All)
<1>0. All \in (SUBSET Sub) \cup {{None}}
  BY DEF All
<1>1. /\ c \in Delivery /\ c.type = "clear" /\ c.request = old /\ c.to = All
      /\ a \in Delivery /\ a.type = "attention" /\ a.request = new /\ a.to = All
  BY <1>0, MessageType
<1>2. p = (IF old # 0 /\ new # old THEN <<c>> ELSE << >>)
            \o (IF new # 0 THEN <<a>> ELSE << >>)
  BY DEF Announced
<1> HIDE DEF c, a
<1>3. CASE old # 0 /\ new # old /\ new # 0
  <2>1. p = <<c>> \o <<a>>
    BY <1>2, <1>3
  <2>2. <<c>> \in Seq(Delivery) /\ <<a>> \in Seq(Delivery) /\ Len(<<c>>) = 1 /\ Len(<<a>>) = 1
    BY <1>1
  <2>3. p \in Seq(Delivery) /\ Len(p) = 2 /\ p[1] = c /\ p[2] = a
    BY <2>1, <2>2, ConcatProperties
  <2>4. DOMAIN p = {1, 2}
    BY <2>3, LenProperties
  <2> QED
    BY <1>1, <1>3, <2>3, <2>4 DEF ClearFrom
<1>4. CASE old # 0 /\ new # old /\ new = 0
  <2>1. p = <<c>> \o << >>
    BY <1>2, <1>4
  <2>2. p = <<c>>
    BY <2>1
  <2> QED
    BY <1>1, <1>4, <2>2 DEF ClearFrom
<1>5. CASE ~(old # 0 /\ new # old) /\ new # 0
  <2>1. p = << >> \o <<a>>
    BY <1>2, <1>5
  <2>2. p = <<a>>
    BY <2>1
  <2> QED
    BY <1>1, <1>5, <2>2 DEF ClearFrom
<1>6. CASE ~(old # 0 /\ new # old) /\ new = 0
  <2>1. p = << >> \o << >>
    BY <1>2, <1>6
  <2>2. p = << >>
    BY <2>1
  <2> QED
    BY <1>6, <2>2 DEF ClearFrom
<1> QED
  BY <1>3, <1>4, <1>5, <1>6

LEMMA HeldAtEnd ==
  ASSUME NEW q \in Seq(Delivery), NEW p \in Seq(Delivery), NEW n \in Nat, n <= Len(q) + 1,
         NEW type, NEW r, NEW d, Held(p, 1, type, r, d)
  PROVE  Held(q \o p, n, type, r, d)
<1>1. PICK k \in DOMAIN p : /\ k >= 1 /\ p[k].type = type /\ p[k].request = r
                            /\ p[k].to = All \/ d \in DevicesOf(p[k].to)
  BY DEF Held
<1>2. /\ Len(q) \in Nat /\ k \in 1 .. Len(p) /\ Len(p) \in Nat
      /\ q \o p \in Seq(Delivery) /\ Len(q \o p) = Len(q) + Len(p)
      /\ (q \o p)[Len(q) + k] = p[k]
  BY ConcatProperties, LenProperties
<1>3. Len(q) + k \in DOMAIN (q \o p) /\ Len(q) + k >= n
  BY <1>2, LenProperties
<1> QED
  BY <1>1, <1>2, <1>3 DEF Held

LEMMA UnsentType ==
  ASSUME Core, NEW i \in Instance
  PROVE  Unsent(i) \in {1, 2} /\ Unsent(i) <= Len(chain[i]) + 1
<1>1. CASE sending[i].stage = "idle"
  BY <1>1, SendingType, LenProperties DEF Unsent
<1>2. CASE sending[i].stage # "idle"
  <2>1. chain[i] \in Seq(Delivery) /\ chain[i] # << >>
    BY <1>2, SendingType
  <2> QED
    BY <1>2, <2>1, EmptySeq DEF Unsent
<1> QED
  BY <1>1, <1>2

(* What is queued stays queued when a write ends.                              *)
LEMMA UnblockCases ==
  ASSUME Core, mutations # << >>, NEW chains \in [Instance -> Seq(Delivery)],
         \A i \in Instance : chain[i] # << >> => chains[i] # << >>,
         Unblock(Head(mutations), chains), NEW i \in Instance
  PROVE  \/ /\ Unsent(i) = 2 /\ chains[i] # << >> /\ chain'[i] = Tail(chains[i])
            /\ sending'[i] = NotSending /\ Unsent(i)' = 1
         \/ /\ chain'[i] = chains[i] /\ sending'[i] = sending[i] /\ Unsent(i)' = Unsent(i)
<1> DEFINE op == Head(mutations)
<1>1. op \in Op /\ op = mutations[1] /\ 1 \in DOMAIN mutations
  BY MutationsType
<1>2. CASE op.op = "drop" /\ op.of = i
  <2>1. sending[i].stage = "dropping"
    BY <1>1, <1>2 DEF Core, InFlight, Drops
  <2>2. chains[i] # << >> /\ Unsent(i) = 2
    BY <2>1, SendingType DEF Unsent
  <2>3. chain'[i] = Tail(chains[i]) /\ sending'[i] = NotSending
    BY <1>2, SendingType DEF Unblock
  <2>4. Unsent(i)' = 1
    BY <2>3 DEF Unsent, NotSending
  <2> QED
    BY <2>2, <2>3, <2>4
<1>3. CASE ~(op.op = "drop" /\ op.of = i)
  <2>1. chain'[i] = chains[i] /\ sending'[i] = sending[i]
    BY <1>3, SendingType DEF Unblock
  <2>2. Unsent(i)' = Unsent(i)
    BY <2>1 DEF Unsent
  <2> QED
    BY <2>1, <2>2
<1> QED
  BY <1>2, <1>3

LEMMA UnblockHeld ==
  ASSUME Core, mutations # << >>, NEW chains \in [Instance -> Seq(Delivery)],
         \A i \in Instance : chain[i] # << >> => chains[i] # << >>,
         Unblock(Head(mutations), chains),
         NEW i \in Instance, NEW type, NEW r, NEW d, Held(chains[i], Unsent(i), type, r, d)
  PROVE  Held(chain'[i], Unsent(i)', type, r, d)
<1>1. CASE Unsent(i) = 2 /\ chains[i] # << >> /\ chain'[i] = Tail(chains[i]) /\ Unsent(i)' = 1
  BY <1>1, HeldPops
<1>2. CASE chain'[i] = chains[i] /\ Unsent(i)' = Unsent(i)
  BY <1>2
<1> QED
  BY <1>1, <1>2, UnblockCases

LEMMA CaughtUpHeld ==
  ASSUME Core, NEW op \in Op, NEW i \in Instance, NEW n, NEW type, NEW r, NEW d,
         Held(chain[i], n, type, r, d)
  PROVE  Held(CaughtUp(op)[i], n, type, r, d)
<1>1. CASE op.op = "add"
  <2>1. CatchUp(i, Added(op)) \in Seq(Delivery)
    BY <1>1, AddedType, CatchUpType DEF Core
  <2>2. CaughtUp(op)[i] = chain[i] \o CatchUp(i, Added(op))
    BY <1>1 DEF CaughtUp
  <2> QED
    BY <2>1, <2>2, HeldGrows, SendingType
<1>2. CASE op.op # "add"
  BY <1>2 DEF CaughtUp
<1> QED
  BY <1>1, <1>2

LEMMA CatchUpHolds ==
  ASSUME Core, NEW i \in Instance, NEW s \in Sub, ask[i] # 0
  PROVE  Held(CatchUp(i, s), 1, "attention", ask[i], s.device)
<1> DEFINE a == Message("attention", i, ask[i], ask, {s})
<1>1. a.type = "attention" /\ a.request = ask[i] /\ a.to = {s}
  BY DEF Message
<1>2. CatchUp(i, s) = <<a>>
  BY DEF CatchUp
<1> HIDE DEF a
<1>3. s.device \in DevicesOf({s})
  BY DEF DevicesOf
<1> QED
  BY <1>1, <1>2, <1>3 DEF Held

AskSentTo(i, d) ==
  ask[i] # 0 => \/ <<i, ask[i]>> \in tried[d]
                \/ Held(chain[i], Unsent(i), "attention", ask[i], d)

LEMMA AskSentPerDevice ==
  /\ AskSent <=> \A s \in subs, i \in Instance : AskSentTo(i, s.device)
  /\ AskSent' <=> \A s \in subs', i \in Instance : AskSentTo(i, s.device)'
BY DEF AskSent, AskSentTo

LEMMA RegistryAsk ==
  ASSUME Core, AskSent, Registry
  PROVE  AskSent'
<1>1. PICK j \in Instance : Ask(j) \/ Resolve(j) \/ Renew(j) \/ ActivityStop(j)
  BY DEF Registry
<1>2. UNCHANGED <<subs, sending, tried>>
  BY <1>1 DEF Ask, Resolve, Renew, RegistryEvent, ActivityStop, storeVars, history
<1> SUFFICES ASSUME NEW s \in subs, NEW i \in Instance
             PROVE  AskSentTo(i, s.device)'
  BY <1>2, AskSentPerDevice
<1>3. AskSentTo(i, s.device)
  BY AskSentPerDevice
<1>4. Unsent(i)' = Unsent(i)
  BY <1>2 DEF Unsent
<1>5. ASSUME NEW p \in Seq(Delivery), chain' = [chain EXCEPT ![j] = @ \o p], ask'[i] = ask[i]
      PROVE  AskSentTo(i, s.device)'
  <2>1. CASE i = j
    <3>1. chain'[i] = chain[i] \o p
      BY <1>5, <2>1 DEF Core, TypeOK
    <3> QED
      BY <1>2, <1>3, <1>4, <1>5, <3>1, HeldGrows, SendingType DEF AskSentTo
  <2>2. CASE i # j
    <3>1. chain'[i] = chain[i]
      BY <1>5, <2>2 DEF Core, TypeOK
    <3> QED
      BY <1>2, <1>3, <1>4, <1>5, <3>1 DEF AskSentTo
  <2> QED
    BY <2>1, <2>2
<1>6. CASE ActivityStop(j)
  <2>1. ask' = ask
    BY <1>6 DEF ActivityStop
  <2> QED
    BY <1>5, <1>6, <2>1, StopChain
<1>7. CASE Ask(j) \/ Resolve(j) \/ Renew(j)
  <2>1. PICK r \in 0 .. MaxAsks : RegistryEvent(j, r)
    BY <1>7, AskedType
  <2>2. PICK p \in Seq(Delivery) : /\ p = Announced(j, ask[j], r, ask')
                                   /\ chain' = [chain EXCEPT ![j] = @ \o p]
    BY <2>1, EventChain
  <2>3. ask' = [ask EXCEPT ![j] = r]
    BY <2>1 DEF RegistryEvent
  <2>4. CASE i # j
    <3>1. ask'[i] = ask[i]
      BY <2>3, <2>4 DEF Core, TypeOK
    <3> QED
      BY <1>5, <2>2, <3>1
  <2>5. CASE i = j /\ r # 0
    <3>1. ask'[i] = r /\ chain'[i] = chain[i] \o p
      BY <2>2, <2>3, <2>5 DEF Core, TypeOK
    <3>2. ask[j] \in 0 .. MaxAsks
      BY DEF Core, TypeOK
    <3>3. \E k \in DOMAIN p : k >= 1 /\ p[k].type = "attention" /\ p[k].request = r /\ p[k].to = All
      BY <2>2, <2>5, <3>2, AnnouncedContent
    <3>4. Held(p, 1, "attention", r, s.device)
      BY <3>3 DEF Held
    <3>5. Unsent(i) \in Nat /\ Unsent(i) <= Len(chain[i]) + 1 /\ chain[i] \in Seq(Delivery)
      BY UnsentType, SendingType
    <3>6. Held(chain[i] \o p, Unsent(i), "attention", r, s.device)
      BY <3>4, <3>5, HeldAtEnd
    <3> QED
      BY <1>4, <3>1, <3>6 DEF AskSentTo
  <2>6. CASE i = j /\ r = 0
    <3>1. ask'[i] = 0
      BY <2>3, <2>6 DEF Core, TypeOK
    <3> QED
      BY <3>1 DEF AskSentTo
  <2> QED
    BY <2>4, <2>5, <2>6
<1> QED
  BY <1>1, <1>6, <1>7

LEMMA StartSendAsk ==
  ASSUME Core, AskSent, NEW j \in Instance, StartSend(j)
  PROVE  AskSent'
<1>1. /\ sending[j].stage = "idle" /\ chain[j] # << >> /\ Head(chain[j]) \in Delivery
      /\ Targets(Head(chain[j])) \subseteq Sub
      /\ UNCHANGED <<ask, subs>>
  BY StartCases DEF registryVars, storeVars
<1> SUFFICES ASSUME NEW s \in subs, NEW i \in Instance
             PROVE  AskSentTo(i, s.device)'
  BY <1>1, AskSentPerDevice
<1>2. AskSentTo(i, s.device)
  BY AskSentPerDevice
<1>3. chain[i] \in Seq(Delivery) /\ chain \in [Instance -> Seq(Delivery)]
  BY DEF Core, TypeOK
<1>4. s.device \in Device /\ s.device \in DevicesOf(subs)
  BY DEF Core, TypeOK, Sub, DevicesOf
<1>5. ASSUME Finish(j) /\ UNCHANGED <<tried, told>>,
             Head(chain[j]).type = "stop" \/ Targets(Head(chain[j])) = {}
      PROVE  AskSentTo(i, s.device)'
  <2>1. CASE i # j
    <3>1. chain'[i] = chain[i] /\ sending'[i] = sending[i]
      BY <1>3, <1>5, <2>1, SendingType DEF Finish
    <3>2. Unsent(i)' = Unsent(i)
      BY <3>1 DEF Unsent
    <3> QED
      BY <1>1, <1>2, <1>5, <3>1, <3>2 DEF AskSentTo
  <2>2. CASE i = j
    <3>1. chain'[i] = Tail(chain[i]) /\ Unsent(i)' = 1 /\ Unsent(i) = 1
      BY <1>1, <1>3, <1>5, <2>2, SendingType DEF Finish, Unsent, NotSending
    <3>2. ASSUME Held(chain[i], 1, "attention", ask[i], s.device)
          PROVE  Held(chain[i], 2, "attention", ask[i], s.device)
      <4>1. PICK k \in DOMAIN chain[i] :
              /\ k >= 1 /\ chain[i][k].type = "attention" /\ chain[i][k].request = ask[i]
              /\ chain[i][k].to = All \/ s.device \in DevicesOf(chain[i][k].to)
        BY <3>2 DEF Held
      <4>2. k # 1
        <5> SUFFICES ASSUME k = 1 PROVE FALSE
          OBVIOUS
        <5>1. Head(chain[i]) = chain[i][1]
          BY <1>1, <1>3, <2>2
        <5>2. Targets(Head(chain[i])) = {}
          BY <1>5, <2>2, <4>1, <5>1
        <5>3. CASE chain[i][k].to = All
          BY <5>1, <5>2, <5>3 DEF Targets
        <5>4. CASE chain[i][k].to # All
          BY <4>1, <5>1, <5>2, <5>4 DEF Targets, DevicesOf
        <5> QED
          BY <5>3, <5>4
      <4>3. k >= 2
        BY <1>3, <4>1, <4>2
      <4> QED
        BY <4>1, <4>3 DEF Held
    <3> QED
      BY <1>1, <1>2, <1>3, <1>5, <2>2, <3>1, <3>2, HeldPops DEF AskSentTo
  <2> QED
    BY <2>1, <2>2
<1>6. ASSUME NEW m \in Delivery, Begins(j, m)
      PROVE  AskSentTo(i, s.device)'
  <2>1. /\ Len(chain'[j]) = Len(chain[j])
        /\ \A k \in 2 .. Len(chain[j]) : chain'[j][k] = chain[j][k]
        /\ \A l \in Instance : l # j => chain'[l] = chain[l] /\ sending'[l] = sending[l]
        /\ sending'[j] = [stage |-> "sending", left |-> Targets(Head(chain[j])), stale |-> {}]
        /\ chain' \in [Instance -> Seq(Delivery)]
    BY <1>1, <1>6, BeginsType, Zenon
  <2>2. \A e \in Device : tried[e] \subseteq tried'[e]
    BY <1>6 DEF Begins
  <2>3. CASE i # j
    <3>1. chain'[i] = chain[i] /\ sending'[i] = sending[i]
      BY <2>1, <2>3
    <3>2. Unsent(i)' = Unsent(i)
      BY <3>1 DEF Unsent
    <3> QED
      BY <1>1, <1>2, <1>4, <2>2, <3>1, <3>2 DEF AskSentTo
  <2>4. CASE i = j
    <3>1. Unsent(i) = 1 /\ Unsent(i)' = 2
      BY <1>1, <2>1, <2>4 DEF Unsent
    <3>2. ASSUME Held(chain[i], 1, "attention", ask[i], s.device)
          PROVE  \/ <<i, ask[i]>> \in tried'[s.device]
                 \/ Held(chain'[i], 2, "attention", ask[i], s.device)
      <4>1. PICK k \in DOMAIN chain[i] :
              /\ k >= 1 /\ chain[i][k].type = "attention" /\ chain[i][k].request = ask[i]
              /\ chain[i][k].to = All \/ s.device \in DevicesOf(chain[i][k].to)
        BY <3>2 DEF Held
      <4>2. CASE k = 1
        <5>1. Head(chain[i]) = chain[i][1]
          BY <1>1, <1>3, <2>4
        <5>2. s.device \in DevicesOf(Targets(Head(chain[i])))
          BY <1>4, <4>1, <4>2, <5>1 DEF Targets
        <5> QED
          BY <1>4, <1>6, <2>4, <4>1, <4>2, <5>1, <5>2 DEF Begins
      <4>3. CASE k # 1
        <5>1. k \in 2 .. Len(chain[i]) /\ Len(chain[i]) \in Nat
          BY <1>3, <4>1, <4>3, LenProperties
        <5>2. k \in DOMAIN chain'[i] /\ chain'[i][k] = chain[i][k]
          BY <2>1, <2>4, <5>1, LenProperties
        <5> QED
          BY <4>1, <5>1, <5>2 DEF Held
      <4> QED
        BY <4>2, <4>3
    <3> QED
      BY <1>1, <1>2, <1>4, <2>2, <3>1, <3>2 DEF AskSentTo
  <2> QED
    BY <2>3, <2>4
<1> QED
  BY <1>5, <1>6, StartCases

LEMMA SendsDoneAsk ==
  ASSUME Core, AskSent, NEW j \in Instance, SendsDone(j)
  PROVE  AskSent'
<1>1. sending[j].stage = "sending" /\ chain[j] # << >> /\ UNCHANGED <<ask, subs, tried>>
  BY SendingType DEF SendsDone, registryVars, history
<1> SUFFICES ASSUME NEW s \in subs, NEW i \in Instance
             PROVE  AskSentTo(i, s.device)'
  BY <1>1, AskSentPerDevice
<1>2. AskSentTo(i, s.device)
  BY AskSentPerDevice
<1>3. CASE i = j /\ Finish(j)
  <2>1. chain'[i] = Tail(chain[i]) /\ Unsent(i)' = 1 /\ Unsent(i) = 2
    BY <1>1, <1>3, SendingType DEF Finish, Unsent, NotSending, Core, TypeOK
  <2> QED
    BY <1>1, <1>2, <1>3, <2>1, HeldPops, SendingType DEF AskSentTo
<1>4. CASE ~(i = j /\ Finish(j))
  <2>1. chain'[i] = chain[i] /\ (sending'[i].stage = "idle" <=> sending[i].stage = "idle")
    <3>1. CASE i # j
      BY <3>1, SendingType DEF SendsDone, Finish, Core, TypeOK
    <3>2. CASE i = j
      <4>1. chain' = chain /\ sending' = [sending EXCEPT ![j].stage = "dropping"]
        BY <1>4, <3>2 DEF SendsDone
      <4> QED
        BY <1>1, <3>2, <4>1, SendingType
    <3> QED
      BY <3>1, <3>2
  <2>2. Unsent(i)' = Unsent(i)
    BY <2>1 DEF Unsent
  <2> QED
    BY <1>1, <1>2, <2>1, <2>2 DEF AskSentTo
<1> QED
  BY <1>3, <1>4

(* Steps that leave the chains and what they are at as they are.               *)
LEMMA QuietAsk ==
  ASSUME Core, AskSent, subs' \subseteq subs, UNCHANGED <<ask, chain, tried>>,
         \A i \in Instance : sending'[i].stage = "idle" <=> sending[i].stage = "idle"
  PROVE  AskSent'
<1> SUFFICES ASSUME NEW s \in subs', NEW i \in Instance
             PROVE  AskSentTo(i, s.device)'
  BY AskSentPerDevice
<1>1. AskSentTo(i, s.device)
  BY AskSentPerDevice
<1>2. Unsent(i)' = Unsent(i)
  BY DEF Unsent
<1> QED
  BY <1>1, <1>2 DEF AskSentTo

LEMMA AnswerAsk ==
  ASSUME Core, AskSent, NEW j \in Instance, NEW s \in Sub,
         SendOk(j, s) \/ SendGone(j, s) \/ SendFails(j, s)
  PROVE  AskSent'
<1>1. PICK gone \in SUBSET Sub :
        sending' = [sending EXCEPT ![j] =
          [stage |-> "sending", left |-> sending[j].left \ {s}, stale |-> gone]]
  BY SendCases
<1>2. sending[j].stage = "sending" /\ UNCHANGED <<ask, subs, chain, tried>>
  BY SendCases DEF registryVars, storeVars
<1>3. \A i \in Instance : sending'[i].stage = "idle" <=> sending[i].stage = "idle"
  BY <1>1, <1>2, SendingType
<1> QED
  BY <1>2, <1>3, QuietAsk

LEMMA KeptAsk ==
  ASSUME Core, AskSent, MutationKept
  PROVE  AskSent'
<1> DEFINE op == Head(mutations)
<1>1. /\ mutations # << >> /\ op \in Op /\ Unblock(op, CaughtUp(op))
      /\ subs' = Changed(op) /\ UNCHANGED <<ask, tried>>
  BY KeptCases DEF registryVars
<1>2. /\ CaughtUp(op) \in [Instance -> Seq(Delivery)]
      /\ \A i \in Instance : chain[i] # << >> => CaughtUp(op)[i] # << >>
  BY <1>1, CaughtUpType
<1> SUFFICES ASSUME NEW s \in subs', NEW i \in Instance
             PROVE  AskSentTo(i, s.device)'
  BY AskSentPerDevice
<1>3. ASSUME Held(CaughtUp(op)[i], Unsent(i), "attention", ask[i], s.device)
      PROVE  AskSentTo(i, s.device)'
  <2>1. Held(chain'[i], Unsent(i)', "attention", ask[i], s.device)
    BY <1>1, <1>2, <1>3, UnblockHeld
  <2> QED
    BY <1>1, <2>1 DEF AskSentTo
<1>4. CASE s \in subs
  <2>1. AskSentTo(i, s.device)
    BY <1>4, AskSentPerDevice
  <2>2. CASE <<i, ask[i]>> \in tried[s.device] \/ ask[i] = 0
    BY <1>1, <2>2 DEF AskSentTo
  <2>3. CASE Held(chain[i], Unsent(i), "attention", ask[i], s.device)
    BY <1>1, <1>3, <2>3, CaughtUpHeld
  <2> QED
    BY <2>1, <2>2, <2>3 DEF AskSentTo
<1>5. CASE s \notin subs
  <2>1. op.op = "add" /\ s = Added(op)
    BY <1>1, <1>5, OpType DEF Changed, Others
  <2>2. CASE ask[i] = 0
    BY <1>1, <2>2 DEF AskSentTo
  <2>3. CASE ask[i] # 0
    <3>1. s \in Sub
      BY <1>1, <2>1, AddedType DEF Core
    <3>2. CatchUp(i, s) \in Seq(Delivery) /\ Held(CatchUp(i, s), 1, "attention", ask[i], s.device)
      BY <2>3, <3>1, CatchUpType, CatchUpHolds DEF Core
    <3>3. CaughtUp(op)[i] = chain[i] \o CatchUp(i, s)
      BY <2>1 DEF CaughtUp
    <3>4. Unsent(i) \in Nat /\ Unsent(i) <= Len(chain[i]) + 1 /\ chain[i] \in Seq(Delivery)
      BY UnsentType, SendingType
    <3>5. Held(CaughtUp(op)[i], Unsent(i), "attention", ask[i], s.device)
      BY <3>2, <3>3, <3>4, HeldAtEnd
    <3> QED
      BY <1>3, <3>5
  <2> QED
    BY <2>2, <2>3
<1> QED
  BY <1>4, <1>5

LEMMA FailsAsk ==
  ASSUME Core, AskSent, MutationFails
  PROVE  AskSent'
<1>1. mutations # << >> /\ Unblock(Head(mutations), chain) /\ UNCHANGED <<ask, subs, tried>>
  BY WritingType DEF MutationFails, registryVars, history
<1> SUFFICES ASSUME NEW s \in subs, NEW i \in Instance
             PROVE  AskSentTo(i, s.device)'
  BY <1>1, AskSentPerDevice
<1>2. AskSentTo(i, s.device)
  BY AskSentPerDevice
<1>3. ASSUME Held(chain[i], Unsent(i), "attention", ask[i], s.device)
      PROVE  Held(chain'[i], Unsent(i)', "attention", ask[i], s.device)
  BY <1>1, <1>3, UnblockHeld DEF Core, TypeOK
<1> QED
  BY <1>1, <1>2, <1>3 DEF AskSentTo

LEMMA AskStep ==
  ASSUME Core, AskSent, [Next]_vars
  PROVE  AskSent'
<1>1. CASE Registry
  BY <1>1, RegistryAsk
<1>2. ASSUME NEW i \in Instance, Deliver(i) PROVE AskSent'
  BY <1>2, StartSendAsk, SendsDoneAsk, AnswerAsk DEF Deliver
<1>3. CASE Mutate
  <2>1. CASE MutationStarts \/ MutationWritten
    <3>1. UNCHANGED <<ask, subs, chain, tried, sending>>
      BY <2>1 DEF MutationStarts, MutationWritten, registryVars, history
    <3> QED
      BY <3>1, QuietAsk
  <2> QED
    BY <1>3, <2>1, KeptAsk, FailsAsk DEF Mutate
<1>4. CASE Browser
  <2>1. UNCHANGED <<ask, subs, chain, tried, sending>>
    BY <1>4 DEF Browser, Subscribe, Unsubscribe, Lapse, registryVars, storeVars
  <2> QED
    BY <2>1, QuietAsk
<1>5. CASE Crash
  <2>1. \A i \in Instance : ask'[i] = 0
    BY <1>5 DEF Crash
  <2> QED
    BY <2>1 DEF AskSent
<1>6. CASE UNCHANGED vars
  <2>1. UNCHANGED <<ask, subs, chain, tried, sending>>
    BY <1>6 DEF vars
  <2> QED
    BY <2>1, QuietAsk
<1> QED
  BY <1>1, <1>2, <1>3, <1>4, <1>5, <1>6 DEF Next

(* NoAskMissed: whatever subscription comes while whatever request begins, a   *)
(* subscribed device has been sent the pending request of every instance or is *)
(* about to be: the catch-up of a new subscription and the registry's events   *)
(* leave no gap (push.ts 300-305, 367-377, 471-478).                           *)
THEOREM EveryAskReaches == Spec => []NoAskMissed
<1>1. Init => AskSent
  BY DEF Init, AskSent
<1>2. Core /\ AskSent => NoAskMissed
  BY DEF AskSent, NoAskMissed, Held, Queued
<1>3. Core /\ AskSent /\ [Next]_vars => Core' /\ AskSent'
  BY CoreStep, AskStep
<1> QED
  BY InitCore, <1>1, <1>2, <1>3, PTL DEF Spec

-----------------------------------------------------------------------------
(* What the service knows of endpoints never outruns the browsers.             *)

Keys == KeysKnown /\ GoneForGood /\ NewestStays /\ SentToSubscribed

(* A step of the chains that aims at nothing but what was aimed at before, or  *)
(* is subscribed, and leaves devices, queue and subscriptions alone.           *)
LEMMA ChainKeepsKeys ==
  ASSUME Core, Keys, UNCHANGED <<subs, stored, mutations, keys, live>>,
         Aimed' \subseteq Aimed \cup subs,
         \A s \in StaleSubs' : s \in StaleSubs \/ (s \in Aimed /\ ~Current(s)),
         \A d \in Device : told'[d] # {} => told[d] # {} \/ \E s \in Aimed : s.device = d /\ Current(s)
  PROVE  Keys'
<1>1. \A s : Current(s)' <=> Current(s)
  BY DEF Current
<1>2. \A d : SubscribedNow(d)' <=> SubscribedNow(d)
  BY DEF SubscribedNow
<1>3. \A k, d : Spares(k, d)' <=> Spares(k, d)
  BY DEF Spares
<1>4. KeysKnown'
  BY DEF Keys, KeysKnown
<1>5. GoneForGood'
  BY <1>1 DEF Keys, GoneForGood
<1>6. NewestStays'
  BY <1>2, <1>3 DEF Keys, NewestStays
<1>7. \A s \in subs : Current(s) => SubscribedNow(s.device)
  BY DEF Current, SubscribedNow
<1>8. SentToSubscribed'
  BY <1>1, <1>2, <1>7 DEF Keys, SentToSubscribed, Current
<1> QED
  BY <1>4, <1>5, <1>6, <1>8 DEF Keys

LEMMA RegistryKeys ==
  ASSUME Core, Keys, Registry
  PROVE  Keys'
<1>1. PICK j \in Instance : Ask(j) \/ Resolve(j) \/ Renew(j) \/ ActivityStop(j)
  BY DEF Registry
<1>2. UNCHANGED <<subs, stored, mutations, keys, live, sending, told>>
  BY <1>1 DEF Ask, Resolve, Renew, RegistryEvent, ActivityStop, storeVars, deviceVars, history
<1>3. \E p \in Seq(Delivery) : /\ chain' = [chain EXCEPT ![j] = @ \o p]
                               /\ \A k \in DOMAIN p : p[k].to = All
  <2>1. CASE ActivityStop(j)
    <3> DEFINE m == Message("stop", j, 0, ask, All)
    <3>1. m \in Delivery /\ m.to = All
      <4>1. All \in (SUBSET Sub) \cup {{None}} /\ 0 \in 0 .. MaxAsks
        BY BoundsType DEF All
      <4> QED
        BY <4>1, MessageType
    <3>2. chain' = [chain EXCEPT ![j] = Append(chain[j], m)]
      BY <2>1 DEF ActivityStop
    <3> HIDE DEF m
    <3>3. <<m>> \in Seq(Delivery) /\ DOMAIN <<m>> = {1} /\ <<m>>[1] = m
      BY <3>1
    <3>4. Append(chain[j], m) = chain[j] \o <<m>>
      BY <3>1, SendingType, AppendIsConcat
    <3> DEFINE a == Append(chain[j], m)
    <3>5. chain' = [chain EXCEPT ![j] = a] /\ a = chain[j] \o <<m>>
      BY <3>2, <3>4
    <3> HIDE DEF a
    <3>6. chain' = [chain EXCEPT ![j] = @ \o <<m>>]
      BY <3>5
    <3> QED
      BY <3>1, <3>3, <3>6
  <2>2. CASE Ask(j) \/ Resolve(j) \/ Renew(j)
    <3>1. PICK r \in 0 .. MaxAsks : RegistryEvent(j, r)
      BY <2>2, AskedType
    <3>2. ask[j] \in 0 .. MaxAsks
      BY DEF Core, TypeOK
    <3>3. PICK p \in Seq(Delivery) : /\ p = Announced(j, ask[j], r, ask')
                                     /\ chain' = [chain EXCEPT ![j] = @ \o p]
      BY <3>1, EventChain
    <3>4. \A k \in DOMAIN p : p[k].to = All
      BY <3>2, <3>3, AnnouncedContent
    <3> QED
      BY <3>3, <3>4
  <2> QED
    BY <1>1, <2>1, <2>2
<1>4. PICK p \in Seq(Delivery) : /\ chain' = [chain EXCEPT ![j] = @ \o p]
                                 /\ \A k \in DOMAIN p : p[k].to = All
  BY <1>3
<1>5. ASSUME NEW i \in Instance, NEW k \in DOMAIN chain'[i], chain'[i][k].to # All
      PROVE  k \in DOMAIN chain[i] /\ chain[i][k] = chain'[i][k]
  <2>1. CASE i # j
    BY <1>4, <1>5, <2>1 DEF Core, TypeOK
  <2>2. CASE i = j
    <3>1. chain'[i] = chain[i] \o p /\ chain[i] \in Seq(Delivery)
      BY <1>4, <2>2 DEF Core, TypeOK
    <3>2. /\ chain'[i] \in Seq(Delivery) /\ Len(chain'[i]) = Len(chain[i]) + Len(p)
          /\ \A n \in 1 .. Len(chain[i]) + Len(p) :
               chain'[i][n] = IF n <= Len(chain[i]) THEN chain[i][n] ELSE p[n - Len(chain[i])]
      BY <3>1, ConcatProperties
    <3>3. /\ k \in 1 .. Len(chain[i]) + Len(p) /\ Len(chain[i]) \in Nat /\ Len(p) \in Nat
          /\ DOMAIN chain[i] = 1 .. Len(chain[i]) /\ DOMAIN p = 1 .. Len(p)
      BY <3>1, <3>2, LenProperties
    <3>4. CASE k > Len(chain[i])
      <4>1. k - Len(chain[i]) \in DOMAIN p
        BY <3>3, <3>4
      <4> QED
        BY <1>4, <1>5, <3>2, <3>3, <3>4, <4>1
    <3> QED
      BY <3>2, <3>3, <3>4
  <2> QED
    BY <2>1, <2>2
<1>6. Aimed' \subseteq Aimed
  BY <1>2, <1>5 DEF Aimed
<1>7. StaleSubs' = StaleSubs
  BY <1>2 DEF StaleSubs, Drops
<1> QED
  BY <1>2, <1>6, <1>7, ChainKeepsKeys

LEMMA StartSendKeys ==
  ASSUME Core, Keys, NEW j \in Instance, StartSend(j)
  PROVE  Keys'
<1>1. /\ sending[j].stage = "idle" /\ chain[j] # << >> /\ Head(chain[j]) \in Delivery
      /\ Targets(Head(chain[j])) \subseteq Sub
      /\ UNCHANGED <<subs, stored, mutations, keys, live>>
  BY StartCases DEF registryVars, storeVars, deviceVars
<1>2. chain \in [Instance -> Seq(Delivery)] /\ chain[j] \in Seq(Delivery)
  BY DEF Core, TypeOK
<1>3. Head(chain[j]) = chain[j][1] /\ 1 \in DOMAIN chain[j]
  BY <1>1, <1>2
<1>4. Targets(Head(chain[j])) \subseteq Aimed \cup subs
  BY <1>1, <1>3 DEF Targets, Aimed
<1>5. CASE Finish(j) /\ UNCHANGED <<tried, told>>
  <2>1. /\ chain' = [chain EXCEPT ![j] = Tail(@)] /\ sending' = [sending EXCEPT ![j] = NotSending]
    BY <1>5 DEF Finish
  <2>2. \A i \in Instance : \A k \in DOMAIN chain'[i] :
          \E n \in DOMAIN chain[i] : chain'[i][k] = chain[i][n]
    <3> SUFFICES ASSUME NEW i \in Instance, NEW k \in DOMAIN chain'[i]
                 PROVE  \E n \in DOMAIN chain[i] : chain'[i][k] = chain[i][n]
      OBVIOUS
    <3>1. CASE i # j
      BY <1>2, <2>1, <3>1
    <3>2. CASE i = j
      <4>1. chain'[i] = Tail(chain[i]) /\ chain[i] \in Seq(Delivery) /\ chain[i] # << >>
        BY <1>1, <1>2, <2>1, <3>2
      <4>2. k + 1 \in DOMAIN chain[i] /\ chain'[i][k] = chain[i][k + 1]
        BY <4>1
      <4> QED
        BY <4>2
    <3> QED
      BY <3>1, <3>2
  <2>3. \A i \in Instance : /\ sending'[i].left \subseteq sending[i].left
                            /\ sending'[i].stale \subseteq sending[i].stale
    BY <2>1, SendingType DEF NotSending
  <2>4. Aimed' \subseteq Aimed
    BY <2>2, <2>3 DEF Aimed
  <2>5. StaleSubs' \subseteq StaleSubs
    BY <1>1, <2>3 DEF StaleSubs, Drops
  <2> QED
    BY <1>1, <1>5, <2>4, <2>5, ChainKeepsKeys
<1>6. ASSUME NEW m \in Delivery, m.to = Head(chain[j]).to, Begins(j, m)
      PROVE  Keys'
  <2>1. /\ Len(chain'[j]) = Len(chain[j]) /\ chain'[j][1] = m
        /\ \A k \in 2 .. Len(chain[j]) : chain'[j][k] = chain[j][k]
        /\ \A l \in Instance : l # j => chain'[l] = chain[l] /\ sending'[l] = sending[l]
        /\ sending'[j] = [stage |-> "sending", left |-> Targets(Head(chain[j])), stale |-> {}]
        /\ chain' \in [Instance -> Seq(Delivery)]
    BY <1>1, <1>6, BeginsType, Zenon
  <2>2. \A i \in Instance : \A k \in DOMAIN chain'[i] :
          k \in DOMAIN chain[i] /\ chain'[i][k].to = chain[i][k].to
    <3> SUFFICES ASSUME NEW i \in Instance, NEW k \in DOMAIN chain'[i]
                 PROVE  k \in DOMAIN chain[i] /\ chain'[i][k].to = chain[i][k].to
      OBVIOUS
    <3>1. CASE i # j
      BY <2>1, <3>1
    <3>2. CASE i = j
      <4>1. k \in 1 .. Len(chain[i]) /\ DOMAIN chain[i] = 1 .. Len(chain[i]) /\ Len(chain[i]) \in Nat
        BY <1>2, <2>1, <3>2, LenProperties
      <4> QED
        BY <1>3, <1>6, <2>1, <3>2, <4>1
    <3> QED
      BY <3>1, <3>2
  <2>3. \A i \in Instance : \A s \in sending'[i].left :
          s \in sending[i].left \/ s \in Targets(Head(chain[j]))
    BY <2>1
  <2>4. \A i \in Instance : sending'[i].stale \subseteq sending[i].stale
    BY <2>1
  <2>5. Aimed' \subseteq Aimed \cup subs
    BY <1>4, <2>2, <2>3 DEF Aimed
  <2>6. StaleSubs' \subseteq StaleSubs
    BY <1>1, <2>4 DEF StaleSubs, Drops
  <2>7. \A d \in Device : told'[d] # {} => told[d] # {}
    BY <1>6 DEF Begins
  <2> QED
    BY <1>1, <2>5, <2>6, <2>7, ChainKeepsKeys
<1> QED
  BY <1>5, <1>6, StartCases

LEMMA AnswerKeys ==
  ASSUME Core, Keys, NEW j \in Instance, NEW s \in Sub,
         SendOk(j, s) \/ SendGone(j, s) \/ SendFails(j, s)
  PROVE  Keys'
<1>1. PICK gone \in SUBSET Sub :
        /\ gone = IF SendGone(j, s) /\ sending'[j].stale # sending[j].stale
                  THEN sending[j].stale \cup {s} ELSE sending[j].stale
        /\ sending' = [sending EXCEPT ![j] =
             [stage |-> "sending", left |-> sending[j].left \ {s}, stale |-> gone]]
  BY SendCases
<1>2. /\ s \in sending[j].left
      /\ UNCHANGED <<subs, stored, mutations, keys, live, chain>>
  BY SendCases DEF storeVars, deviceVars
<1>3. s \in Aimed
  BY <1>2 DEF Aimed
<1>4. SendGone(j, s) => ~Current(s)
  BY DEF SendGone, Current
<1>5. \A i \in Instance : /\ sending'[i].left \subseteq sending[i].left
                          /\ \A t \in sending'[i].stale :
                               t \in sending[i].stale \/ (t = s /\ SendGone(j, s))
  BY <1>1, SendingType
<1>6. Aimed' \subseteq Aimed
  BY <1>2, <1>5 DEF Aimed
<1>7. \A t \in StaleSubs' : t \in StaleSubs \/ (t = s /\ SendGone(j, s))
  BY <1>2, <1>5 DEF StaleSubs, Drops
<1>8. \A d \in Device : told'[d] # {} => told[d] # {} \/ \E t \in Aimed : t.device = d /\ Current(t)
  <2>1. CASE SendOk(j, s)
    <3>1. Current(s)
      BY <2>1 DEF SendOk, Current
    <3> QED
      BY <1>3, <2>1, <3>1, DevicesType DEF SendOk
  <2>2. CASE SendGone(j, s) \/ SendFails(j, s)
    BY <2>2 DEF SendGone, SendFails, history
  <2> QED
    BY <2>1, <2>2
<1> QED
  BY <1>2, <1>3, <1>4, <1>6, <1>7, <1>8, ChainKeepsKeys

LEMMA SendsDoneKeys ==
  ASSUME Core, Keys, NEW j \in Instance, SendsDone(j)
  PROVE  Keys'
<1>1. /\ sending[j].stage = "sending" /\ chain[j] # << >>
      /\ UNCHANGED <<subs, stored, keys, live, told>>
  BY SendingType DEF SendsDone, deviceVars, history
<1>2. CASE Finish(j) /\ UNCHANGED mutations
  <2>1. chain' = [chain EXCEPT ![j] = Tail(@)] /\ sending' = [sending EXCEPT ![j] = NotSending]
    BY <1>2 DEF Finish
  <2>2. \A i \in Instance : \A k \in DOMAIN chain'[i] :
          \E n \in DOMAIN chain[i] : chain'[i][k] = chain[i][n]
    <3> SUFFICES ASSUME NEW i \in Instance, NEW k \in DOMAIN chain'[i]
                 PROVE  \E n \in DOMAIN chain[i] : chain'[i][k] = chain[i][n]
      OBVIOUS
    <3>1. CASE i # j
      BY <2>1, <3>1 DEF Core, TypeOK
    <3>2. CASE i = j
      <4>1. chain'[i] = Tail(chain[i]) /\ chain[i] \in Seq(Delivery) /\ chain[i] # << >>
        BY <1>1, <2>1, <3>2 DEF Core, TypeOK
      <4>2. k + 1 \in DOMAIN chain[i] /\ chain'[i][k] = chain[i][k + 1]
        BY <4>1
      <4> QED
        BY <4>2
    <3> QED
      BY <3>1, <3>2
  <2>3. \A i \in Instance : /\ sending'[i].left \subseteq sending[i].left
                            /\ sending'[i].stale \subseteq sending[i].stale
    BY <2>1, SendingType DEF NotSending
  <2>4. Aimed' \subseteq Aimed
    BY <2>2, <2>3 DEF Aimed
  <2>5. StaleSubs' \subseteq StaleSubs
    BY <1>2, <2>3 DEF StaleSubs, Drops
  <2> QED
    BY <1>1, <1>2, <2>4, <2>5, ChainKeepsKeys
<1>3. CASE /\ mutations' = Append(mutations, [op |-> "drop", stale |-> sending[j].stale, of |-> j])
           /\ sending' = [sending EXCEPT ![j].stage = "dropping"]
           /\ UNCHANGED chain
  <2> DEFINE op == [op |-> "drop", stale |-> sending[j].stale, of |-> j]
  <2>1. op \in Op /\ op.op = "drop" /\ op.stale = sending[j].stale
    BY SendingType DEF Op
  <2>2. mutations' = Append(mutations, op)
    BY <1>3
  <2> HIDE DEF op
  <2>3. /\ DOMAIN mutations' = (1 .. Len(mutations)) \cup {Len(mutations) + 1}
        /\ DOMAIN mutations = 1 .. Len(mutations) /\ Len(mutations) \in Nat
        /\ \A k \in DOMAIN mutations : mutations'[k] = mutations[k]
        /\ mutations'[Len(mutations) + 1] = op
    BY <2>1, <2>2, MutationsType
  <2>4. \A i \in Instance : sending'[i].left = sending[i].left /\ sending'[i].stale = sending[i].stale
    BY <1>3, SendingType
  <2>5. Aimed' = Aimed
    BY <1>3, <2>4 DEF Aimed
  <2>6. StaleSubs' \subseteq StaleSubs
    BY <2>1, <2>3, <2>4 DEF StaleSubs, Drops
  <2>7. KeysKnown'
    BY <1>1, <2>1, <2>3, <2>5, <2>6 DEF Keys, KeysKnown
  <2>8. GoneForGood'
    BY <1>1, <2>6 DEF Keys, GoneForGood, Current
  <2>9. NewestStays'
    <3>1. \A d : SubscribedNow(d)' <=> SubscribedNow(d)
      BY <1>1 DEF SubscribedNow
    <3>2. \A d : \A k \in DOMAIN mutations : Spares(k, d)' <=> Spares(k, d)
      BY <1>1, <2>3 DEF Spares
    <3>3. \A k \in DOMAIN mutations' : k \in DOMAIN mutations \/ \A d : Spares(k, d)'
      <4>1. \A k : k = Len(mutations) + 1 => mutations'[k].op = "drop"
        BY <2>1, <2>3
      <4> QED
        BY <2>3, <4>1 DEF Spares
    <3>4. \A i, k \in DOMAIN mutations' : i < k => i \in DOMAIN mutations
      BY <2>3
    <3> SUFFICES ASSUME NEW d \in live
                 PROVE  /\ SubscribedNow(d) => \A k \in DOMAIN mutations' : Spares(k, d)'
                        /\ \A i, k \in DOMAIN mutations' :
                             i < k /\ mutations'[i].op = "add" /\ mutations'[i].device = d
                               /\ mutations'[i].keys = keys[d] => Spares(k, d)'
      BY <1>1, <3>1 DEF NewestStays
    <3>5. /\ SubscribedNow(d) => \A k \in DOMAIN mutations : Spares(k, d)
          /\ \A i, k \in DOMAIN mutations :
               i < k /\ mutations[i].op = "add" /\ mutations[i].device = d
                 /\ mutations[i].keys = keys[d] => Spares(k, d)
      BY DEF Keys, NewestStays
    <3>6. SubscribedNow(d) => \A k \in DOMAIN mutations' : Spares(k, d)'
      BY <3>2, <3>3, <3>5
    <3>7. ASSUME NEW i \in DOMAIN mutations', NEW k \in DOMAIN mutations',
                 i < k, mutations'[i].op = "add", mutations'[i].device = d,
                 mutations'[i].keys = keys[d]
          PROVE  Spares(k, d)'
      <4>1. i \in DOMAIN mutations /\ mutations'[i] = mutations[i]
        BY <2>3, <3>4, <3>7
      <4> QED
        BY <3>2, <3>3, <3>5, <3>7, <4>1
    <3> QED
      BY <3>6, <3>7
  <2>10. SentToSubscribed'
    BY <1>1, <2>5 DEF Keys, SentToSubscribed, Current, SubscribedNow
  <2> QED
    BY <2>7, <2>8, <2>9, <2>10 DEF Keys
<1> QED
  BY <1>2, <1>3 DEF SendsDone

(* The queue loses its head, the chains at most what they were aimed at.       *)
LEMMA TailSpares ==
  ASSUME Core, mutations # << >>, mutations' = Tail(mutations), UNCHANGED keys
  PROVE  /\ \A k \in DOMAIN mutations' :
              /\ k \in Nat /\ k >= 1 /\ k + 1 \in DOMAIN mutations /\ mutations'[k] = mutations[k + 1]
              /\ \A d : Spares(k, d)' <=> Spares(k + 1, d)
         /\ 1 \in DOMAIN mutations /\ Head(mutations) = mutations[1] /\ Head(mutations) \in Op
<1>1. \A k \in DOMAIN mutations' :
        /\ k \in Nat /\ k >= 1 /\ k + 1 \in DOMAIN mutations /\ mutations'[k] = mutations[k + 1]
  BY MutationsType
<1>2. 1 \in DOMAIN mutations /\ Head(mutations) = mutations[1] /\ Head(mutations) \in Op
  BY MutationsType
<1> QED
  BY <1>1, <1>2 DEF Spares

LEMMA UnblockAims ==
  ASSUME Core, mutations # << >>, mutations' = Tail(mutations),
         NEW chains \in [Instance -> Seq(Delivery)],
         \A i \in Instance : chain[i] # << >> => chains[i] # << >>,
         Unblock(Head(mutations), chains), NEW more,
         \A i \in Instance : \A k \in DOMAIN chains[i] :
           \A s : chains[i][k].to # All /\ s \in chains[i][k].to => s \in Aimed \cup more
  PROVE  Aimed' \subseteq Aimed \cup more /\ StaleSubs' \subseteq StaleSubs
<1>1. \A i \in Instance : \A k \in DOMAIN chain'[i] :
        \E n \in DOMAIN chains[i] : chain'[i][k] = chains[i][n]
  <2> SUFFICES ASSUME NEW i \in Instance, NEW k \in DOMAIN chain'[i]
               PROVE  \E n \in DOMAIN chains[i] : chain'[i][k] = chains[i][n]
    OBVIOUS
  <2>1. CASE chain'[i] = chains[i]
    BY <2>1
  <2>2. CASE chains[i] # << >> /\ chain'[i] = Tail(chains[i])
    <3>1. k + 1 \in DOMAIN chains[i] /\ chain'[i][k] = chains[i][k + 1]
      BY <2>2
    <3> QED
      BY <3>1
  <2> QED
    BY <2>1, <2>2, UnblockCases
<1>2. \A i \in Instance : /\ sending'[i].left \subseteq sending[i].left
                          /\ sending'[i].stale \subseteq sending[i].stale
  <2>1. NotSending.left = {} /\ NotSending.stale = {}
    BY DEF NotSending
  <2> QED
    BY <2>1, UnblockCases
<1>3. Aimed' \subseteq Aimed \cup more
  <2> SUFFICES ASSUME NEW s \in Aimed' PROVE s \in Aimed \cup more
    OBVIOUS
  <2>1. PICK i \in Instance : \/ s \in sending'[i].left
                              \/ \E k \in DOMAIN chain'[i] :
                                   chain'[i][k].to # All /\ s \in chain'[i][k].to
    BY DEF Aimed
  <2>2. CASE s \in sending'[i].left
    BY <1>2, <2>2 DEF Aimed
  <2>3. CASE \E k \in DOMAIN chain'[i] : chain'[i][k].to # All /\ s \in chain'[i][k].to
    BY <1>1, <2>3
  <2> QED
    BY <2>1, <2>2, <2>3
<1>4. StaleSubs' \subseteq StaleSubs
  <2>1. \A k \in DOMAIN mutations' : Drops(k)' =>
          Drops(k + 1) /\ k + 1 \in DOMAIN mutations /\ mutations'[k] = mutations[k + 1]
    BY MutationsType DEF Drops
  <2> QED
    BY <1>2, <2>1 DEF StaleSubs
<1> QED
  BY <1>3, <1>4

LEMMA FailsKeys ==
  ASSUME Core, Keys, mutations # << >>, Unblock(Head(mutations), chain),
         mutations' = Tail(mutations),
         UNCHANGED <<subs, stored, keys, live, told>>
  PROVE  Keys'
<1>1. Aimed' \subseteq Aimed /\ StaleSubs' \subseteq StaleSubs
  <2>1. \A i \in Instance : \A k \in DOMAIN chain[i] :
          \A s : chain[i][k].to # All /\ s \in chain[i][k].to => s \in Aimed
    <3>1. \A i \in Instance : \A k \in DOMAIN chain[i] : chain[i][k] \in Delivery
      BY DEF Core, TypeOK
    <3> QED
      BY <3>1 DEF Aimed, Delivery, All
  <2>2. chain \in [Instance -> Seq(Delivery)]
    BY DEF Core, TypeOK
  <2>3. Aimed' \subseteq Aimed \cup {} /\ StaleSubs' \subseteq StaleSubs
    BY <2>1, <2>2, UnblockAims
  <2> QED
    BY <2>3
<1>2. \A k \in DOMAIN mutations' :
        /\ k \in Nat /\ k + 1 \in DOMAIN mutations /\ mutations'[k] = mutations[k + 1]
        /\ \A d : Spares(k, d)' <=> Spares(k + 1, d)
  BY TailSpares
<1>3. KeysKnown'
  BY <1>1, <1>2 DEF Keys, KeysKnown
<1>4. GoneForGood'
  BY <1>1 DEF Keys, GoneForGood, Current
<1>5. \A d : SubscribedNow(d)' <=> SubscribedNow(d)
  BY DEF SubscribedNow
<1>6. NewestStays'
  BY <1>2, <1>5 DEF Keys, NewestStays
<1>7. SentToSubscribed'
  BY <1>1, <1>5 DEF Keys, SentToSubscribed, Current
<1> QED
  BY <1>3, <1>4, <1>6, <1>7 DEF Keys

LEMMA StartsKeys ==
  ASSUME Core, Keys, MutationStarts
  PROVE  Keys'
<1>1. mutations # << >> /\ UNCHANGED <<subs, stored, keys, live, told, chain, sending>>
  BY DEF MutationStarts, deviceVars
<1>2. CASE Head(mutations).op = "add" /\ mutations' = Tail(mutations)
  <2>1. Unblock(Head(mutations), chain)
    BY <1>1, <1>2 DEF Unblock
  <2> QED
    BY <1>1, <1>2, <2>1, FailsKeys
<1>3. CASE UNCHANGED mutations
  <2>1. Aimed' = Aimed /\ StaleSubs' = StaleSubs
    BY <1>1, <1>3 DEF Aimed, StaleSubs, Drops
  <2> QED
    BY <1>1, <1>3, <2>1, ChainKeepsKeys
<1> QED
  BY <1>2, <1>3 DEF MutationStarts

(* What a change leaves is what was subscribed, and what it adds.              *)
LEMMA ChangedFrom ==
  ASSUME Core, NEW op \in Op, NEW s \in Changed(op)
  PROVE  \/ s \in subs
         \/ op.op = "add" /\ s = Added(op) /\ s \in Sub /\ s.device = op.device /\ s.keys = op.keys
BY AddedType, OpType DEF Changed, Others, Core

LEMMA WrittenKeys ==
  ASSUME Core, Keys, MutationWritten
  PROVE  Keys'
<1>1. /\ writing.stage = "writing" /\ stored' = writing.next
      /\ UNCHANGED <<subs, mutations, keys, live, told, chain, sending>>
  BY DEF MutationWritten, deviceVars, history
<1>2. /\ Head(mutations) \in Op /\ stored' = Changed(Head(mutations))
      /\ 1 \in DOMAIN mutations /\ Head(mutations) = mutations[1]
  BY <1>1, WritingType, MutationsType
<1>3. Aimed' = Aimed /\ StaleSubs' = StaleSubs
  BY <1>1 DEF Aimed, StaleSubs, Drops
<1>4. \A s \in stored' : s.keys <= keys[s.device]
  BY <1>2, ChangedFrom DEF Keys, KeysKnown
<1>5. KeysKnown'
  BY <1>1, <1>3, <1>4 DEF Keys, KeysKnown
<1>6. GoneForGood'
  BY <1>1, <1>3 DEF Keys, GoneForGood, Current
<1>7. NewestStays' /\ SentToSubscribed'
  BY <1>1, <1>3 DEF Keys, NewestStays, SentToSubscribed, Current, SubscribedNow, Spares
<1> QED
  BY <1>5, <1>6, <1>7 DEF Keys

LEMMA KeptKeys ==
  ASSUME Core, Keys, MutationKept
  PROVE  Keys'
<1> DEFINE op == Head(mutations)
           more == IF op.op = "add" THEN {Added(op)} ELSE {}
<1>1. /\ mutations # << >> /\ op \in Op /\ Unblock(op, CaughtUp(op))
      /\ subs' = Changed(op) /\ stored = Changed(op) /\ mutations' = Tail(mutations)
      /\ UNCHANGED <<stored, keys, live, told>>
  BY KeptCases DEF deviceVars
<1>2. /\ CaughtUp(op) \in [Instance -> Seq(Delivery)]
      /\ \A i \in Instance : chain[i] # << >> => CaughtUp(op)[i] # << >>
  BY <1>1, CaughtUpType
<1>3. \A i \in Instance : \A k \in DOMAIN CaughtUp(op)[i] :
        \A s : CaughtUp(op)[i][k].to # All /\ s \in CaughtUp(op)[i][k].to => s \in Aimed \cup more
  <2> SUFFICES ASSUME NEW i \in Instance, NEW k \in DOMAIN CaughtUp(op)[i], NEW s,
                      CaughtUp(op)[i][k].to # All, s \in CaughtUp(op)[i][k].to
               PROVE  s \in Aimed \cup more
    OBVIOUS
  <2>1. CaughtUp(op)[i][k] \in Delivery
    BY <1>2
  <2>2. s \in Sub
    BY <2>1 DEF Delivery, All
  <2>3. ASSUME k \in DOMAIN chain[i], CaughtUp(op)[i][k] = chain[i][k]
        PROVE  s \in Aimed
    BY <2>2, <2>3 DEF Aimed
  <2>4. CASE op.op # "add"
    BY <2>3, <2>4 DEF CaughtUp
  <2>5. CASE op.op = "add"
    <3> DEFINE p == CatchUp(i, Added(op))
    <3>1. Added(op) \in Sub
      BY <1>1, <2>5, AddedType DEF Core
    <3>2. p \in Seq(Delivery) /\ chain[i] \in Seq(Delivery)
      BY <3>1, CatchUpType, SendingType DEF Core
    <3>3. \A n \in DOMAIN p : p[n].to = {Added(op)}
      BY DEF CatchUp, Message
    <3>4. CaughtUp(op)[i] = chain[i] \o p
      BY <2>5 DEF CaughtUp
    <3> HIDE DEF p
    <3> DEFINE q == chain[i] \o p
    <3>a. /\ Len(q) = Len(chain[i]) + Len(p)
          /\ q \in Seq(Delivery)
          /\ \A n \in 1 .. Len(chain[i]) + Len(p) :
               q[n] = IF n <= Len(chain[i]) THEN chain[i][n] ELSE p[n - Len(chain[i])]
      BY <3>2, ConcatProperties
    <3>b. CaughtUp(op)[i] = q
      BY <3>4
    <3> HIDE DEF q
    <3>5. /\ Len(CaughtUp(op)[i]) = Len(chain[i]) + Len(p)
          /\ CaughtUp(op)[i] \in Seq(Delivery)
          /\ \A n \in 1 .. Len(chain[i]) + Len(p) :
               CaughtUp(op)[i][n] = IF n <= Len(chain[i]) THEN chain[i][n] ELSE p[n - Len(chain[i])]
      BY <3>a, <3>b
    <3>6. /\ k \in 1 .. Len(chain[i]) + Len(p) /\ Len(chain[i]) \in Nat /\ Len(p) \in Nat
          /\ DOMAIN chain[i] = 1 .. Len(chain[i]) /\ DOMAIN p = 1 .. Len(p)
      BY <3>2, <3>5, LenProperties
    <3>7. CASE k <= Len(chain[i])
      BY <2>3, <3>5, <3>6, <3>7
    <3>8. CASE k > Len(chain[i])
      <4>1. k - Len(chain[i]) \in DOMAIN p /\ CaughtUp(op)[i][k] = p[k - Len(chain[i])]
        BY <3>5, <3>6, <3>8, SMTT(30)
      <4> QED
        BY <2>5, <3>3, <4>1
    <3> QED
      BY <3>6, <3>7, <3>8
  <2> QED
    BY <2>4, <2>5
<1> HIDE DEF more
<1>4. Aimed' \subseteq Aimed \cup more /\ StaleSubs' \subseteq StaleSubs
  BY <1>1, <1>2, <1>3, UnblockAims
<1>5. /\ \A k \in DOMAIN mutations' :
           /\ k \in Nat /\ k >= 1 /\ k + 1 \in DOMAIN mutations /\ mutations'[k] = mutations[k + 1]
           /\ \A d : Spares(k, d)' <=> Spares(k + 1, d)
      /\ 1 \in DOMAIN mutations /\ op = mutations[1]
  BY <1>1, TailSpares
<1>6. \A s \in more : /\ op.op = "add" /\ s = Added(op) /\ s \in Sub /\ s.device = op.device
                      /\ s.keys = op.keys /\ s \in subs' /\ s.device \in Device
  BY <1>1, AddedType DEF more, Changed, Core
<1>7. \A s \in subs' : s \in subs \/ s \in more
  BY <1>1, ChangedFrom DEF more
<1> HIDE DEF op
<1>8. \A s \in more : s.keys <= keys[s.device]
  BY <1>5, <1>6 DEF Keys, KeysKnown
<1>9. KeysKnown'
  BY <1>1, <1>4, <1>5, <1>7, <1>8 DEF Keys, KeysKnown
<1>10. GoneForGood'
  BY <1>1, <1>4 DEF Keys, GoneForGood, Current
<1>11. \A d \in live : SubscribedNow(d) => SubscribedNow(d)'
  <2> SUFFICES ASSUME NEW d \in live, NEW s \in subs, s.device = d, s.keys = keys[d]
               PROVE  SubscribedNow(d)'
    BY DEF SubscribedNow
  <2>1. Spares(1, d)
    BY <1>5 DEF Keys, NewestStays, SubscribedNow
  <2>2. CASE op.op = "add"
    <3>1. CASE op.device = d
      <4>1. op.keys = keys[d]
        BY <1>5, <2>1, <2>2, <3>1 DEF Spares
      <4>2. \E t \in more : t.device = d /\ t.keys = keys[d] /\ t \in subs'
        BY <1>6, <2>2, <3>1, <4>1 DEF more
      <4> QED
        BY <1>1, <4>2 DEF SubscribedNow
    <3>2. CASE op.device # d
      <4>1. s \in subs'
        BY <1>1, <2>2, <3>2 DEF Changed, Others
      <4> QED
        BY <1>1, <4>1 DEF SubscribedNow
    <3> QED
      BY <3>1, <3>2
  <2>3. CASE op.op = "remove"
    <3>1. op.device # d
      BY <1>5, <2>1, <2>3 DEF Spares
    <3>2. s \in subs'
      BY <1>1, <2>3, <3>1 DEF Changed, Others
    <3> QED
      BY <1>1, <3>2 DEF SubscribedNow
  <2>4. CASE op.op = "drop"
    <3>1. op.stale \subseteq StaleSubs
      BY <1>1, <1>5, <2>4, OpType DEF StaleSubs, Drops
    <3>2. \A t \in op.stale : ~SameTarget(s, t)
      BY <3>1 DEF Keys, GoneForGood, Current, SameTarget
    <3>3. s \in subs'
      BY <1>1, <2>4, <3>2 DEF Changed
    <3> QED
      BY <1>1, <3>3 DEF SubscribedNow
  <2> QED
    BY <1>1, <2>2, <2>3, <2>4, OpType
<1>12. NewestStays'
  <2> SUFFICES ASSUME NEW d \in live
               PROVE  /\ SubscribedNow(d)' => \A k \in DOMAIN mutations' : Spares(k, d)'
                      /\ \A j, k \in DOMAIN mutations' :
                           j < k /\ mutations'[j].op = "add" /\ mutations'[j].device = d
                             /\ mutations'[j].keys = keys[d] => Spares(k, d)'
    BY <1>1 DEF NewestStays
  <2>1. \A j, k \in DOMAIN mutations :
          j < k /\ mutations[j].op = "add" /\ mutations[j].device = d
            /\ mutations[j].keys = keys[d] => Spares(k, d)
    BY DEF Keys, NewestStays
  <2>2. \A j, k \in DOMAIN mutations' :
          j < k /\ mutations'[j].op = "add" /\ mutations'[j].device = d
            /\ mutations'[j].keys = keys[d] => Spares(k, d)'
    BY <1>5, <2>1
  <2>3. ASSUME SubscribedNow(d)', NEW k \in DOMAIN mutations' PROVE Spares(k, d)'
    <3>1. CASE SubscribedNow(d)
      <4>1. Spares(k + 1, d)
        BY <1>5, <3>1 DEF Keys, NewestStays
      <4> QED
        BY <1>5, <4>1
    <3>2. CASE ~SubscribedNow(d)
      <4>1. PICK s \in more : s.device = d /\ s.keys = keys[d]
        BY <1>1, <1>7, <2>3, <3>2 DEF SubscribedNow
      <4>2. mutations[1].op = "add" /\ mutations[1].device = d /\ mutations[1].keys = keys[d]
        BY <1>5, <1>6, <4>1
      <4>3. Spares(k + 1, d)
        BY <1>5, <2>1, <4>2
      <4> QED
        BY <1>5, <4>3
    <3> QED
      BY <3>1, <3>2
  <2> QED
    BY <2>2, <2>3
<1>13. SentToSubscribed'
  <2>1. ASSUME NEW s \in Aimed', Current(s)' PROVE SubscribedNow(s.device)'
    <3>1. s.device \in live /\ s.keys = keys[s.device] /\ Current(s)
      BY <1>1, <2>1 DEF Current
    <3>2. CASE s \in Aimed
      BY <1>11, <3>1, <3>2 DEF Keys, SentToSubscribed
    <3>3. CASE s \in more
      BY <1>1, <1>6, <3>1, <3>3 DEF SubscribedNow
    <3> QED
      BY <1>4, <3>2, <3>3
  <2>2. \A d \in Device : told'[d] # {} => d \in live' /\ SubscribedNow(d)'
    BY <1>1, <1>11 DEF Keys, SentToSubscribed
  <2> QED
    BY <2>1, <2>2 DEF SentToSubscribed
<1> QED
  BY <1>9, <1>10, <1>12, <1>13 DEF Keys

LEMMA SubscribeKeys ==
  ASSUME Core, Keys, NEW d \in Device, NEW n \in 1 .. MaxKeys, NEW level \in Level \cup {None},
         Subscribe(d, n, level)
  PROVE  Keys'
<1> DEFINE op == [op |-> "add", device |-> d, keys |-> n, level |-> level]
           last == Len(mutations) + 1
<1>1. /\ op \in Op /\ op.op = "add" /\ op.device = d /\ op.keys = n
      /\ mutations' = Append(mutations, op)
      /\ keys' = [keys EXCEPT ![d] = n] /\ live' = live \cup {d}
      /\ (n = keys[d] /\ d \in live) \/ n = keys[d] + 1
      /\ told' = IF n = keys[d] THEN told ELSE [told EXCEPT ![d] = {}]
      /\ UNCHANGED <<subs, stored, chain, sending>>
  BY DEF Subscribe, Op
<1> HIDE DEF op
<1>2. /\ DOMAIN mutations' = (1 .. Len(mutations)) \cup {last}
      /\ DOMAIN mutations = 1 .. Len(mutations) /\ Len(mutations) \in Nat
      /\ \A k \in DOMAIN mutations : mutations'[k] = mutations[k]
      /\ mutations'[last] = op
  BY <1>1, MutationsType
<1> HIDE DEF last
<1>3. Aimed' = Aimed /\ StaleSubs' = StaleSubs
  <2>1. Aimed' = Aimed
    BY <1>1 DEF Aimed
  <2>2. \A k \in DOMAIN mutations' : Drops(k)' =>
          k \in DOMAIN mutations /\ Drops(k) /\ mutations'[k] = mutations[k]
    BY <1>1, <1>2 DEF Drops
  <2>3. \A k \in DOMAIN mutations : Drops(k) => Drops(k)' /\ k \in DOMAIN mutations'
    BY <1>2 DEF Drops
  <2> QED
    BY <1>1, <1>2, <2>1, <2>2, <2>3 DEF StaleSubs
<1>4. keys \in [Device -> 0 .. MaxKeys] /\ keys[d] \in Nat /\ n \in Nat /\ MaxKeys \in Nat
  BY DevicesType, BoundsType
<1>5. \A e \in Device : keys[e] <= keys'[e] /\ (e # d => keys'[e] = keys[e]) /\ keys'[d] = n
  BY <1>1, <1>4
<1>6. /\ \A s \in subs \cup stored \cup Aimed \cup StaleSubs :
           s \in Sub /\ s.device \in Device /\ s.keys \in Nat /\ s.keys <= keys[s.device]
      /\ \A k \in DOMAIN mutations : mutations[k].op = "add" =>
           /\ mutations[k].device \in Device /\ mutations[k].keys \in Nat
           /\ mutations[k].keys <= keys[mutations[k].device]
  <2>1. \A s \in subs \cup stored \cup Aimed \cup StaleSubs : s \in Sub
    BY DEF Core, TypeOK, Aimed, StaleSubs
  <2>2. \A s \in Sub : s.device \in Device /\ s.keys \in Nat
    BY BoundsType DEF Sub
  <2>3. \A k \in DOMAIN mutations : mutations[k].op = "add" =>
           mutations[k].device \in Device /\ mutations[k].keys \in Nat
    BY MutationsType, OpType, BoundsType
  <2> QED
    BY <2>1, <2>2, <2>3 DEF Keys, KeysKnown
<1>7. KeysKnown'
  <2>1. \A s \in subs \cup stored \cup Aimed \cup StaleSubs : s.keys <= keys'[s.device]
    BY <1>4, <1>5, <1>6
  <2>2. \A k \in DOMAIN mutations' :
          mutations'[k].op = "add" => mutations'[k].keys <= keys'[mutations'[k].device]
    BY <1>1, <1>2, <1>4, <1>5, <1>6
  <2> QED
    BY <1>1, <1>3, <2>1, <2>2 DEF KeysKnown
<1>8. \A s \in subs \cup Aimed \cup StaleSubs :
        s.device \in live' /\ s.keys = keys'[s.device] => Current(s) /\ keys'[s.device] = keys[s.device]
  BY <1>1, <1>4, <1>5, <1>6 DEF Current
<1>9. GoneForGood'
  BY <1>3, <1>8 DEF Keys, GoneForGood, Current
<1>10. \A e \in live' : SubscribedNow(e)' => SubscribedNow(e) /\ e \in live /\ keys'[e] = keys[e]
  BY <1>1, <1>8 DEF SubscribedNow, Current
<1>11. NewestStays'
  <2> SUFFICES ASSUME NEW e \in live'
               PROVE  /\ SubscribedNow(e)' => \A k \in DOMAIN mutations' : Spares(k, e)'
                      /\ \A j, k \in DOMAIN mutations' :
                           j < k /\ mutations'[j].op = "add" /\ mutations'[j].device = e
                             /\ mutations'[j].keys = keys'[e] => Spares(k, e)'
    BY DEF NewestStays
  <2>1. \A k : k = last => Spares(k, e)'
    BY <1>1, <1>2, <1>5 DEF Spares
  <2>2. keys'[e] = keys[e] => \A k \in DOMAIN mutations : Spares(k, e) => Spares(k, e)'
    BY <1>2 DEF Spares
  <2>3. ASSUME SubscribedNow(e)', NEW k \in DOMAIN mutations' PROVE Spares(k, e)'
    <3>1. k # last => k \in DOMAIN mutations /\ Spares(k, e)
      BY <1>2, <1>10, <2>3 DEF Keys, NewestStays
    <3> QED
      BY <1>10, <2>1, <2>2, <2>3, <3>1
  <2>4. ASSUME NEW j \in DOMAIN mutations', NEW k \in DOMAIN mutations', j < k,
               mutations'[j].op = "add", mutations'[j].device = e, mutations'[j].keys = keys'[e]
        PROVE  Spares(k, e)'
    <3>1. j \in DOMAIN mutations /\ mutations'[j] = mutations[j]
      BY <1>2, <2>4 DEF last
    <3>2. e \in live /\ keys'[e] = keys[e]
      BY <1>1, <1>4, <1>5, <1>6, <2>4, <3>1
    <3>3. k # last => k \in DOMAIN mutations /\ Spares(k, e)
      BY <1>2, <2>4, <3>1, <3>2 DEF Keys, NewestStays
    <3> QED
      BY <2>1, <2>2, <3>2, <3>3
  <2> QED
    BY <2>3, <2>4
<1>12. SentToSubscribed'
  <2>1. \A e \in Device : SubscribedNow(e) /\ keys'[e] = keys[e] => SubscribedNow(e)'
    BY <1>1 DEF SubscribedNow
  <2>2. \A s \in Aimed : Current(s)' => SubscribedNow(s.device)'
    BY <1>6, <1>8, <2>1 DEF Keys, SentToSubscribed, Current
  <2>3. ASSUME NEW e \in Device, told'[e] # {}
        PROVE  e \in live' /\ SubscribedNow(e)'
    <3>1. told[e] # {} /\ keys'[e] = keys[e]
      BY <1>1, <1>5, <2>3, DevicesType
    <3> QED
      BY <1>1, <2>1, <3>1 DEF Keys, SentToSubscribed
  <2> QED
    BY <1>3, <2>2, <2>3 DEF SentToSubscribed
<1> QED
  BY <1>7, <1>9, <1>11, <1>12 DEF Keys

(* An endpoint stops being accepted, and a change of it may join the queue.    *)
LEMMA LeaveKeys ==
  ASSUME Core, Keys, NEW d \in Device, live' = live \ {d}, told' = [told EXCEPT ![d] = {}],
         UNCHANGED <<subs, stored, chain, sending, keys>>,
         \/ UNCHANGED mutations
         \/ mutations' = Append(mutations, [op |-> "remove", device |-> d])
  PROVE  Keys'
<1> DEFINE op == [op |-> "remove", device |-> d]
           last == Len(mutations) + 1
<1>1. op \in Op /\ op.op = "remove" /\ op.device = d
  BY DEF Op
<1>2. UNCHANGED mutations \/ mutations' = Append(mutations, op)
  OBVIOUS
<1> HIDE DEF op
<1>3. /\ \A k \in DOMAIN mutations : k \in DOMAIN mutations' /\ mutations'[k] = mutations[k]
      /\ \A k \in DOMAIN mutations' :
           k \in DOMAIN mutations \/ (mutations'[k] = op /\ k = last)
      /\ DOMAIN mutations = 1 .. Len(mutations) /\ Len(mutations) \in Nat
  BY <1>1, <1>2, MutationsType
<1>4. Aimed' = Aimed
  BY DEF Aimed
<1>5. StaleSubs' = StaleSubs
  <2>1. \A k \in DOMAIN mutations' : Drops(k)' =>
          k \in DOMAIN mutations /\ Drops(k) /\ mutations'[k] = mutations[k]
    BY <1>1, <1>3 DEF Drops
  <2>2. \A k \in DOMAIN mutations : Drops(k) =>
          Drops(k)' /\ k \in DOMAIN mutations' /\ mutations'[k] = mutations[k]
    BY <1>3 DEF Drops
  <2> QED
    BY <2>1, <2>2 DEF StaleSubs
<1>6. KeysKnown'
  BY <1>1, <1>3, <1>4, <1>5 DEF Keys, KeysKnown
<1>7. GoneForGood'
  BY <1>5 DEF Keys, GoneForGood, Current
<1>8. \A e : SubscribedNow(e)' <=> SubscribedNow(e)
  BY DEF SubscribedNow
<1>9. NewestStays'
  <2> SUFFICES ASSUME NEW e \in live'
               PROVE  /\ SubscribedNow(e) => \A k \in DOMAIN mutations' : Spares(k, e)'
                      /\ \A j, k \in DOMAIN mutations' :
                           j < k /\ mutations'[j].op = "add" /\ mutations'[j].device = e
                             /\ mutations'[j].keys = keys[e] => Spares(k, e)'
    BY <1>8 DEF NewestStays
  <2>1. e \in live /\ e # d
    OBVIOUS
  <2>2. \A k \in DOMAIN mutations' : k \in DOMAIN mutations \/ Spares(k, e)'
    BY <1>1, <1>3, <2>1 DEF Spares
  <2>3. \A k \in DOMAIN mutations : Spares(k, e) => Spares(k, e)'
    BY <1>3 DEF Spares
  <2>4. /\ SubscribedNow(e) => \A k \in DOMAIN mutations : Spares(k, e)
        /\ \A i, k \in DOMAIN mutations :
             i < k /\ mutations[i].op = "add" /\ mutations[i].device = e
               /\ mutations[i].keys = keys[e] => Spares(k, e)
    BY <2>1 DEF Keys, NewestStays
  <2>5. ASSUME NEW j \in DOMAIN mutations', NEW k \in DOMAIN mutations', j < k,
               mutations'[j].op = "add", mutations'[j].device = e, mutations'[j].keys = keys[e]
        PROVE  Spares(k, e)'
    <3>1. j \in DOMAIN mutations /\ mutations'[j] = mutations[j]
      BY <1>1, <1>3, <2>1, <2>5
    <3> QED
      BY <2>2, <2>3, <2>4, <2>5, <3>1
  <2> QED
    BY <2>2, <2>3, <2>4, <2>5
<1>10. SentToSubscribed'
  <2>1. \A e \in Device : told'[e] # {} => e # d /\ told[e] # {}
    BY DevicesType
  <2> QED
    BY <1>4, <1>8, <2>1 DEF Keys, SentToSubscribed, Current
<1> QED
  BY <1>6, <1>7, <1>9, <1>10 DEF Keys

LEMMA CrashKeys ==
  ASSUME Core, Keys, Crash
  PROVE  Keys'
<1>1. /\ \A i \in Instance : chain'[i] = << >> /\ sending'[i].left = {} /\ sending'[i].stale = {}
      /\ DOMAIN mutations' = {} /\ subs' = stored /\ \A d \in Device : told'[d] = {}
      /\ UNCHANGED <<stored, keys, live>>
  BY DEF Crash, NotSending, deviceVars
<1>2. Aimed' = {} /\ StaleSubs' = {}
  BY <1>1 DEF Aimed, StaleSubs, Drops
<1> QED
  BY <1>1, <1>2 DEF Keys, KeysKnown, GoneForGood, NewestStays, SentToSubscribed

LEMMA InitKeys == Init => Keys
<1> SUFFICES ASSUME Init PROVE Keys
  OBVIOUS
<1>1. /\ \A i \in Instance : chain[i] = << >> /\ sending[i].left = {} /\ sending[i].stale = {}
      /\ DOMAIN mutations = {} /\ subs = InitialSubs /\ stored = InitialSubs
      /\ \A d \in Device : told[d] = {} /\ keys[d] = KeysIn(InitialSubs, d)
  BY DEF Init, NotSending
<1>2. Aimed = {} /\ StaleSubs = {}
  BY <1>1 DEF Aimed, StaleSubs, Drops
<1>3. ASSUME NEW s \in InitialSubs PROVE s.keys <= keys[s.device]
  <2>1. s \in Sub /\ s.device \in Device /\ s.keys \in Nat /\ s.device \in DevicesOf(InitialSubs)
    BY PushAssumption, BoundsType DEF PushAssumption, Sub, DevicesOf
  <2> DEFINE t == CHOOSE t \in InitialSubs : t.device = s.device
  <2>2. t \in InitialSubs /\ t.device = s.device
    OBVIOUS
  <2>3. t = s
    BY <2>2, PushAssumption DEF PushAssumption
  <2>4. KeysIn(InitialSubs, s.device) = t.keys
    BY <2>1 DEF KeysIn
  <2> HIDE DEF t
  <2> QED
    BY <1>1, <2>1, <2>3, <2>4
<1> QED
  BY <1>1, <1>2, <1>3 DEF Keys, KeysKnown, GoneForGood, NewestStays, SentToSubscribed

LEMMA KeysStep ==
  ASSUME Core, Keys, [Next]_vars
  PROVE  Keys'
<1>1. CASE Registry
  BY <1>1, RegistryKeys
<1>2. ASSUME NEW i \in Instance, Deliver(i) PROVE Keys'
  BY <1>2, StartSendKeys, SendsDoneKeys, AnswerKeys DEF Deliver
<1>3. CASE Mutate
  <2>1. CASE MutationFails
    <3>1. /\ mutations # << >> /\ Unblock(Head(mutations), chain) /\ mutations' = Tail(mutations)
          /\ UNCHANGED <<subs, stored, keys, live, told>>
      BY <2>1, WritingType DEF MutationFails, deviceVars, history
    <3> QED
      BY <3>1, FailsKeys
  <2> QED
    BY <1>3, <2>1, StartsKeys, WrittenKeys, KeptKeys DEF Mutate
<1>4. CASE Browser
  <2>1. ASSUME NEW d \in Device, Unsubscribe(d) \/ Lapse(d) PROVE Keys'
    <3>1. /\ live' = live \ {d} /\ told' = [told EXCEPT ![d] = {}]
          /\ UNCHANGED <<subs, stored, chain, sending, keys>>
          /\ \/ UNCHANGED mutations
             \/ mutations' = Append(mutations, [op |-> "remove", device |-> d])
      BY <2>1 DEF Unsubscribe, Lapse, storeVars
    <3> QED
      BY <3>1, LeaveKeys
  <2> QED
    BY <1>4, <2>1, SubscribeKeys DEF Browser
<1>5. CASE Crash
  BY <1>5, CrashKeys
<1>6. CASE UNCHANGED vars
  <2>1. UNCHANGED <<subs, stored, mutations, keys, live, chain, sending, told>>
    BY <1>6 DEF vars
  <2>2. Aimed' = Aimed /\ StaleSubs' = StaleSubs
    BY <2>1 DEF Aimed, StaleSubs, Drops
  <2> QED
    BY <2>1, <2>2, ChainKeepsKeys
<1> QED
  BY <1>1, <1>2, <1>3, <1>4, <1>5, <1>6 DEF Next

-----------------------------------------------------------------------------
(* EndIsTold.                                                                  *)

Ends == EndQueued /\ EndSent

EndSentTo(i, r, d) ==
  <<i, r>> \in told[d] /\ ask[i] # r => ClearFrom(chain[i], Unsent(i), r)

LEMMA EndSentPerDevice ==
  /\ EndSent <=> \A s \in subs, i \in Instance, r \in 1 .. MaxAsks : EndSentTo(i, r, s.device)
  /\ EndSent' <=> \A s \in subs', i \in Instance, r \in 1 .. MaxAsks : EndSentTo(i, r, s.device)'
BY DEF EndSent, EndSentTo

LEMMA ClearAtEnd ==
  ASSUME NEW q \in Seq(Delivery), NEW p \in Seq(Delivery), NEW n \in Nat, n <= Len(q) + 1,
         NEW r, ClearFrom(p, 1, r)
  PROVE  ClearFrom(q \o p, n, r)
<1>1. PICK k \in DOMAIN p : p[k].type = "clear" /\ p[k].request = r /\ p[k].to = All
  BY DEF ClearFrom
<1>2. /\ Len(q) \in Nat /\ k \in 1 .. Len(p) /\ Len(p) \in Nat
      /\ q \o p \in Seq(Delivery) /\ Len(q \o p) = Len(q) + Len(p)
      /\ (q \o p)[Len(q) + k] = p[k]
  BY <1>1, ConcatProperties, LenProperties
<1>3. Len(q) + k \in DOMAIN (q \o p) /\ Len(q) + k >= n
  BY <1>2, LenProperties
<1> QED
  BY <1>1, <1>2, <1>3 DEF ClearFrom

(* Instance j has the request r of now on and p is queued for it.              *)
LEMMA GrowEnds ==
  ASSUME Core, Ends, NEW j \in Instance, NEW r, NEW p \in Seq(Delivery),
         ask' = [ask EXCEPT ![j] = r], chain' = [chain EXCEPT ![j] = @ \o p],
         UNCHANGED <<subs, sending, told>>,
         r # ask[j] /\ ask[j] # 0 => ClearFrom(p, 1, ask[j]),
         \A k \in DOMAIN p : p[k].type = "attention" => p[k].request = r /\ r # 0
  PROVE  Ends'
<1>1. chain[j] \in Seq(Delivery) /\ chain'[j] = chain[j] \o p /\ ask'[j] = r
  BY DEF Core, TypeOK
<1>2. \A i \in Instance : i # j => chain'[i] = chain[i] /\ ask'[i] = ask[i]
  BY DEF Core, TypeOK
<1>3. \A i \in Instance : Unsent(i)' = Unsent(i)
  BY DEF Unsent
<1>4. ClearBehind(chain'[j], r)
  <2>1. ClearBehind(chain[j], ask[j])
    BY DEF Ends, EndQueued
  <2>2. r # ask[j] => ask[j] = 0 \/ ClearFrom(p, 1, ask[j])
    OBVIOUS
  <2>3. ClearBehind(chain[j] \o p, r)
    BY <1>1, <2>1, <2>2, BehindGrows
  <2> QED
    BY <1>1, <2>3
<1>5. EndQueued'
  BY <1>1, <1>2, <1>4 DEF Ends, EndQueued
<1>6. ASSUME NEW s \in subs, NEW i \in Instance, NEW n \in 1 .. MaxAsks
      PROVE  EndSentTo(i, n, s.device)'
  <2>1. EndSentTo(i, n, s.device)
    BY EndSentPerDevice DEF Ends
  <2>2. CASE i # j
    BY <1>2, <1>3, <2>1, <2>2 DEF EndSentTo
  <2>3. CASE i = j
    <3>1. CASE ask[i] # n
      BY <1>1, <1>3, <2>1, <2>3, <3>1, ClearGrows DEF EndSentTo
    <3>2. CASE ask[i] = n
      <4>1. CASE r = n
        BY <1>1, <2>3, <4>1 DEF EndSentTo
      <4>2. CASE r # n
        <5>1. ClearFrom(p, 1, n)
          BY <2>3, <3>2, <4>2, BoundsType
        <5>2. Unsent(i) \in Nat /\ Unsent(i) <= Len(chain[i]) + 1
          BY UnsentType
        <5>3. ClearFrom(chain'[i], Unsent(i), n)
          BY <1>1, <2>3, <5>1, <5>2, ClearAtEnd
        <5> QED
          BY <1>3, <5>3 DEF EndSentTo
      <4> QED
        BY <4>1, <4>2
    <3> QED
      BY <3>1, <3>2
  <2> QED
    BY <2>2, <2>3
<1> QED
  BY <1>5, <1>6, EndSentPerDevice DEF Ends

LEMMA RegistryEnds ==
  ASSUME Core, Ends, Registry
  PROVE  Ends'
<1>1. PICK j \in Instance : Ask(j) \/ Resolve(j) \/ Renew(j) \/ ActivityStop(j)
  BY DEF Registry
<1>2. UNCHANGED <<subs, sending, told>>
  BY <1>1 DEF Ask, Resolve, Renew, RegistryEvent, ActivityStop, storeVars, history
<1>3. CASE ActivityStop(j)
  <2>1. PICK p \in Seq(Delivery) : /\ Len(p) = 1 /\ p[1].type = "stop"
                                   /\ chain' = [chain EXCEPT ![j] = @ \o p]
    BY <1>3, StopChain
  <2>2. ask' = [ask EXCEPT ![j] = ask[j]]
    BY <1>3 DEF ActivityStop, Core, TypeOK
  <2>3. \A k \in DOMAIN p : p[k].type = "stop"
    BY <2>1, LenProperties
  <2> QED
    BY <1>2, <2>1, <2>2, <2>3, GrowEnds
<1>4. CASE Ask(j) \/ Resolve(j) \/ Renew(j)
  <2>1. PICK r \in 0 .. MaxAsks : RegistryEvent(j, r)
    BY <1>4, AskedType
  <2>2. PICK p \in Seq(Delivery) : /\ p = Announced(j, ask[j], r, ask')
                                   /\ chain' = [chain EXCEPT ![j] = @ \o p]
    BY <2>1, EventChain
  <2>3. ask' = [ask EXCEPT ![j] = r] /\ ask[j] \in 0 .. MaxAsks
    BY <2>1 DEF RegistryEvent, Core, TypeOK
  <2>4. /\ r # ask[j] /\ ask[j] # 0 => ClearFrom(p, 1, ask[j])
        /\ \A k \in DOMAIN p : p[k].type = "attention" => p[k].request = r /\ r # 0
    BY <2>2, <2>3, AnnouncedContent
  <2> QED
    BY <1>2, <2>2, <2>3, <2>4, GrowEnds
<1> QED
  BY <1>1, <1>3, <1>4

(* Chains that lose at most a head that is sent, or may not be sent.           *)
LEMMA PopEnds ==
  ASSUME Core, Ends, subs' \subseteq subs, UNCHANGED <<ask, told>>,
         \A i \in Instance :
           \/ chain'[i] = chain[i] /\ Unsent(i)' = Unsent(i)
           \/ /\ chain[i] # << >> /\ chain'[i] = Tail(chain[i]) /\ Unsent(i)' = 1
              /\ Unsent(i) = 2 \/ subs' = {} \/ Head(chain[i]).type # "clear"
  PROVE  Ends'
<1>1. EndQueued'
  BY BehindPops, SendingType DEF Ends, EndQueued
<1>2. ASSUME NEW s \in subs', NEW i \in Instance, NEW r \in 1 .. MaxAsks
      PROVE  EndSentTo(i, r, s.device)'
  <2>1. EndSentTo(i, r, s.device)
    BY EndSentPerDevice DEF Ends
  <2>2. CASE chain'[i] = chain[i] /\ Unsent(i)' = Unsent(i)
    BY <2>1, <2>2 DEF EndSentTo
  <2>3. CASE /\ chain[i] # << >> /\ chain'[i] = Tail(chain[i]) /\ Unsent(i)' = 1
             /\ Unsent(i) = 2 \/ subs' = {} \/ Head(chain[i]).type # "clear"
    <3>1. ASSUME ClearFrom(chain[i], Unsent(i), r)
          PROVE  ClearFrom(chain[i], 2, r)
      <4>1. CASE Unsent(i) = 2
        BY <3>1, <4>1
      <4>2. CASE Unsent(i) # 2
        <5>1. PICK k \in DOMAIN chain[i] : /\ chain[i][k].type = "clear"
                                           /\ chain[i][k].request = r /\ chain[i][k].to = All
          BY <3>1 DEF ClearFrom
        <5>2. Head(chain[i]) = chain[i][1] /\ DOMAIN chain[i] = 1 .. Len(chain[i])
                /\ Len(chain[i]) \in Nat
          BY <2>3, SendingType
        <5>3. k # 1
          BY <2>3, <4>2, <5>1, <5>2
        <5>4. k >= 2
          BY <5>2, <5>3
        <5> QED
          BY <5>1, <5>4 DEF ClearFrom
      <4> QED
        BY <4>1, <4>2
    <3>2. ClearFrom(chain[i], 2, r) => ClearFrom(Tail(chain[i]), 1, r)
      <4>1. chain[i] \in Seq(Delivery) /\ 1 \in Nat /\ 1 + 1 = 2 /\ 1 >= 1
        BY SendingType
      <4> QED
        BY <2>3, <4>1, ClearPops
    <3> QED
      BY <2>1, <2>3, <3>1, <3>2 DEF EndSentTo
  <2> QED
    BY <2>2, <2>3
<1> QED
  BY <1>1, <1>2, EndSentPerDevice DEF Ends

(* The queued messages keep their kinds, requests and targets.                 *)
LEMMA BehindSame ==
  ASSUME NEW q \in Seq(Delivery), NEW t \in Seq(Delivery), Len(t) = Len(q),
         \A k \in 1 .. Len(q) : /\ t[k].type = q[k].type /\ t[k].request = q[k].request
                                /\ t[k].to = q[k].to,
         NEW r
  PROVE  /\ ClearBehind(q, r) => ClearBehind(t, r)
         /\ \A n, x : ClearFrom(q, n, x) => ClearFrom(t, n, x)
<1>1. DOMAIN q = 1 .. Len(q) /\ DOMAIN t = 1 .. Len(q)
  BY LenProperties
<1>2. \A n, x : ClearFrom(q, n, x) => ClearFrom(t, n, x)
  BY <1>1 DEF ClearFrom
<1> QED
  BY <1>1, <1>2 DEF ClearBehind

LEMMA StartSendEnds ==
  ASSUME Core, Ends, NEW j \in Instance, StartSend(j)
  PROVE  Ends'
<1>1. /\ sending[j].stage = "idle" /\ chain[j] # << >> /\ Head(chain[j]) \in Delivery
      /\ Targets(Head(chain[j])) \subseteq Sub
      /\ UNCHANGED <<ask, subs>>
  BY StartCases DEF registryVars, storeVars
<1>2. chain \in [Instance -> Seq(Delivery)] /\ chain[j] \in Seq(Delivery)
  BY DEF Core, TypeOK
<1>3. Head(chain[j]) = chain[j][1] /\ 1 \in DOMAIN chain[j] /\ Unsent(j) = 1
  BY <1>1, <1>2 DEF Unsent
<1>4. ASSUME Finish(j) /\ UNCHANGED <<tried, told>>,
             Head(chain[j]).type = "stop" \/ Targets(Head(chain[j])) = {}
      PROVE  Ends'
  <2>1. \A i \in Instance : i # j => chain'[i] = chain[i] /\ sending'[i] = sending[i]
    BY <1>2, <1>4, SendingType DEF Finish
  <2>2. \A i \in Instance : i # j => Unsent(i)' = Unsent(i)
    BY <2>1 DEF Unsent
  <2>3. chain'[j] = Tail(chain[j]) /\ Unsent(j)' = 1
    BY <1>2, <1>4, SendingType DEF Finish, Unsent, NotSending
  <2>4. CASE Head(chain[j]).type # "clear"
    BY <1>1, <1>4, <2>1, <2>2, <2>3, <2>4, PopEnds
  <2>5. CASE Head(chain[j]).type = "clear" /\ Targets(Head(chain[j])) = {}
    <3>1. CASE Head(chain[j]).to = All
      <4>1. subs' = {}
        BY <1>1, <2>5, <3>1 DEF Targets
      <4> QED
        BY <1>1, <1>4, <2>1, <2>2, <2>3, <4>1, PopEnds
    <3>2. CASE Head(chain[j]).to # All
      <4>1. EndQueued'
        BY <1>1, <1>2, <2>1, <2>3, BehindPops DEF Ends, EndQueued
      <4>2. ASSUME NEW s \in subs, NEW i \in Instance, NEW r \in 1 .. MaxAsks
            PROVE  EndSentTo(i, r, s.device)'
        <5>1. EndSentTo(i, r, s.device)
          BY EndSentPerDevice DEF Ends
        <5>2. CASE i # j
          BY <1>1, <1>4, <2>1, <2>2, <5>1, <5>2 DEF EndSentTo
        <5>3. CASE i = j
          <6>1. ASSUME ClearFrom(chain[j], 1, r) PROVE ClearFrom(chain[j], 1 + 1, r)
            <7>1. PICK k \in DOMAIN chain[j] : /\ chain[j][k].type = "clear"
                                               /\ chain[j][k].request = r /\ chain[j][k].to = All
              BY <6>1 DEF ClearFrom
            <7>2. k # 1 /\ k \in 1 .. Len(chain[j]) /\ Len(chain[j]) \in Nat
              BY <1>2, <1>3, <3>2, <7>1, LenProperties
            <7>3. k >= 1 + 1
              BY <7>2
            <7> QED
              BY <7>1, <7>3 DEF ClearFrom
          <6>2. ClearFrom(chain[j], 1, r) => ClearFrom(chain'[j], 1, r)
            <7>1. 1 \in Nat /\ 1 >= 1
              OBVIOUS
            <7> QED
              BY <1>1, <1>2, <2>3, <6>1, <7>1, ClearPops
          <6> QED
            BY <1>1, <1>3, <1>4, <2>3, <5>1, <5>3, <6>2 DEF EndSentTo
        <5> QED
          BY <5>2, <5>3
      <4> QED
        BY <1>1, <4>1, <4>2, EndSentPerDevice DEF Ends
    <3> QED
      BY <3>1, <3>2
  <2> QED
    BY <1>4, <2>4, <2>5
<1>5. ASSUME NEW m \in Delivery, m.type = Head(chain[j]).type, m.request = Head(chain[j]).request,
             m.to = Head(chain[j]).to, Begins(j, m)
      PROVE  Ends'
  <2>1. /\ Len(chain'[j]) = Len(chain[j]) /\ chain'[j][1] = m
        /\ \A k \in 2 .. Len(chain[j]) : chain'[j][k] = chain[j][k]
        /\ \A l \in Instance : l # j => chain'[l] = chain[l] /\ sending'[l] = sending[l]
        /\ sending'[j] = [stage |-> "sending", left |-> Targets(Head(chain[j])), stale |-> {}]
        /\ chain' \in [Instance -> Seq(Delivery)]
    BY <1>1, <1>5, BeginsType, Zenon
  <2>2. \A k \in 1 .. Len(chain[j]) :
          /\ chain'[j][k].type = chain[j][k].type /\ chain'[j][k].request = chain[j][k].request
          /\ chain'[j][k].to = chain[j][k].to
    <3>1. \A k \in 1 .. Len(chain[j]) : k = 1 \/ k \in 2 .. Len(chain[j])
      BY <1>2
    <3> QED
      BY <1>3, <1>5, <2>1, <3>1
  <2>3. chain'[j] \in Seq(Delivery)
    BY <2>1
  <2>4. /\ \A r : ClearBehind(chain[j], r) => ClearBehind(chain'[j], r)
        /\ \A n, x : ClearFrom(chain[j], n, x) => ClearFrom(chain'[j], n, x)
    BY <1>2, <2>1, <2>2, <2>3, BehindSame
  <2>5. EndQueued'
    BY <1>1, <2>1, <2>4 DEF Ends, EndQueued
  <2>6. \A i \in Instance : i # j => Unsent(i)' = Unsent(i)
    BY <2>1 DEF Unsent
  <2>7. Unsent(j)' = 2
    BY <2>1 DEF Unsent
  <2>8. \A e \in Device : told'[e] \subseteq told[e]
    BY <1>5 DEF Begins
  <2>9. ASSUME NEW s \in subs, NEW i \in Instance, NEW r \in 1 .. MaxAsks,
               <<i, r>> \in told'[s.device], ask[i] # r
        PROVE  ClearFrom(chain'[i], Unsent(i)', r)
    <3>1. s.device \in Device /\ s.device \in DevicesOf(subs)
      BY DEF Core, TypeOK, Sub, DevicesOf
    <3>2. EndSentTo(i, r, s.device) /\ <<i, r>> \in told[s.device]
      BY <2>8, <2>9, <3>1, EndSentPerDevice DEF Ends
    <3>3. ClearFrom(chain[i], Unsent(i), r)
      BY <2>9, <3>2 DEF EndSentTo
    <3>4. CASE i # j
      BY <2>1, <2>6, <3>3, <3>4
    <3>5. CASE i = j
      <4>1. PICK k \in DOMAIN chain[j] : /\ chain[j][k].type = "clear"
                                         /\ chain[j][k].request = r /\ chain[j][k].to = All
        BY <3>3, <3>5 DEF ClearFrom
      <4>2. CASE k = 1
        <5>1. DevicesOf(Targets(Head(chain[j]))) = DevicesOf(subs)
          BY <1>3, <4>1, <4>2 DEF Targets
        <5>2. <<i, r>> \notin told'[s.device]
          BY <1>3, <1>5, <3>1, <3>5, <4>1, <4>2, <5>1 DEF Begins
        <5> QED
          BY <2>9, <5>2
      <4>3. CASE k # 1
        <5>1. k \in 1 .. Len(chain[j]) /\ Len(chain[j]) \in Nat
          BY <1>2, LenProperties
        <5>2. k >= 2
          BY <4>3, <5>1
        <5>3. ClearFrom(chain[j], 2, r)
          BY <4>1, <5>2 DEF ClearFrom
        <5> QED
          BY <2>4, <2>7, <3>5, <5>3
      <4> QED
        BY <4>2, <4>3
    <3> QED
      BY <3>4, <3>5
  <2> QED
    BY <1>1, <2>5, <2>9, EndSentPerDevice DEF Ends, EndSentTo
<1> QED
  BY <1>4, <1>5, StartCases

LEMMA AnswerEnds ==
  ASSUME Core, Ends, NEW j \in Instance, NEW s \in Sub,
         SendOk(j, s) \/ SendGone(j, s) \/ SendFails(j, s)
  PROVE  Ends'
<1>1. PICK gone \in SUBSET Sub :
        sending' = [sending EXCEPT ![j] =
          [stage |-> "sending", left |-> sending[j].left \ {s}, stale |-> gone]]
  BY SendCases
<1>2. sending[j].stage = "sending" /\ UNCHANGED <<ask, subs, chain>>
  BY SendCases DEF registryVars, storeVars
<1>3. \A i \in Instance : Unsent(i)' = Unsent(i)
  BY <1>1, <1>2, SendingType DEF Unsent
<1>4. EndQueued'
  BY <1>2 DEF Ends, EndQueued
<1>5. ASSUME NEW t \in subs, NEW i \in Instance, NEW r \in 1 .. MaxAsks
      PROVE  EndSentTo(i, r, t.device)'
  <2>1. EndSentTo(i, r, t.device)
    BY EndSentPerDevice DEF Ends
  <2>2. CASE <<i, r>> \in told[t.device]
    BY <1>2, <1>3, <2>1, <2>2 DEF EndSentTo
  <2>3. CASE <<i, r>> \notin told[t.device] /\ <<i, r>> \in told'[t.device]
    <3>1. i = j /\ Head(chain[j]).type = "attention" /\ r = Head(chain[j]).request
      <4>1. told' # told
        BY <2>3
      <4>2. SendOk(j, s)
        BY <4>1 DEF SendGone, SendFails, history
      <4>3. told' = [told EXCEPT ![s.device] = @ \cup {<<j, Head(chain[j]).request>>}]
              /\ Head(chain[j]).type = "attention"
        BY <4>1, <4>2 DEF SendOk
      <4> QED
        BY <2>3, <4>3, DevicesType
    <3>2. chain[j] \in Seq(Delivery) /\ chain[j] # << >> /\ Unsent(j) = 2
      BY <1>2, SendingType DEF Unsent
    <3>3. Head(chain[j]) = chain[j][1] /\ 1 \in DOMAIN chain[j]
      BY <3>2
    <3>4. r # ask[j] => ClearFrom(chain[j], 1 + 1, r)
      BY <3>1, <3>3 DEF Ends, EndQueued, ClearBehind
    <3> QED
      BY <1>2, <1>3, <3>1, <3>2, <3>4 DEF EndSentTo
  <2>4. CASE <<i, r>> \notin told'[t.device]
    BY <2>4 DEF EndSentTo
  <2> QED
    BY <2>2, <2>3, <2>4
<1> QED
  BY <1>2, <1>4, <1>5, EndSentPerDevice DEF Ends

LEMMA SendsDoneEnds ==
  ASSUME Core, Ends, NEW j \in Instance, SendsDone(j)
  PROVE  Ends'
<1>1. sending[j].stage = "sending" /\ chain[j] # << >> /\ UNCHANGED <<ask, subs, told>>
  BY SendingType DEF SendsDone, registryVars, history
<1>2. Unsent(j) = 2
  BY <1>1 DEF Unsent
<1>3. CASE Finish(j)
  <2>1. \A i \in Instance : i # j => chain'[i] = chain[i] /\ sending'[i] = sending[i]
    BY <1>3, SendingType DEF Finish, Core, TypeOK
  <2>2. \A i \in Instance : i # j => Unsent(i)' = Unsent(i)
    BY <2>1 DEF Unsent
  <2>3. chain'[j] = Tail(chain[j]) /\ Unsent(j)' = 1
    BY <1>3, SendingType DEF Finish, Unsent, NotSending, Core, TypeOK
  <2> QED
    BY <1>1, <1>2, <2>1, <2>2, <2>3, PopEnds
<1>4. CASE sending' = [sending EXCEPT ![j].stage = "dropping"] /\ UNCHANGED chain
  <2>1. \A i \in Instance : Unsent(i)' = Unsent(i)
    BY <1>1, <1>4, SendingType DEF Unsent
  <2> QED
    BY <1>1, <1>4, <2>1, PopEnds
<1> QED
  BY <1>3, <1>4 DEF SendsDone

LEMMA QuietEnds ==
  ASSUME Core, Ends, UNCHANGED <<ask, subs, chain, sending>>,
         \A d \in Device : told'[d] \subseteq told[d]
  PROVE  Ends'
<1>1. \A i : Unsent(i)' = Unsent(i)
  BY DEF Unsent
<1>2. \A s \in subs : s.device \in Device
  BY DEF Core, TypeOK, Sub
<1>3. EndQueued'
  BY DEF Ends, EndQueued
<1>4. \A s \in subs, i \in Instance, r \in 1 .. MaxAsks : EndSentTo(i, r, s.device)'
  BY <1>1, <1>2, EndSentPerDevice DEF Ends, EndSentTo
<1> QED
  BY <1>3, <1>4, EndSentPerDevice DEF Ends

LEMMA UnblockEnds ==
  ASSUME Core, mutations # << >>, NEW chains \in [Instance -> Seq(Delivery)],
         \A i \in Instance : chain[i] # << >> => chains[i] # << >>,
         Unblock(Head(mutations), chains), NEW i \in Instance
  PROVE  /\ \A r : ClearBehind(chains[i], r) => ClearBehind(chain'[i], r)
         /\ \A r : ClearFrom(chains[i], Unsent(i), r) => ClearFrom(chain'[i], Unsent(i)', r)
<1>1. CASE Unsent(i) = 2 /\ chains[i] # << >> /\ chain'[i] = Tail(chains[i]) /\ Unsent(i)' = 1
  <2>1. chains[i] \in Seq(Delivery) /\ 1 \in Nat /\ 1 + 1 = 2 /\ 1 >= 1
    OBVIOUS
  <2> QED
    BY <1>1, <2>1, ClearPops, BehindPops
<1>2. CASE chain'[i] = chains[i] /\ Unsent(i)' = Unsent(i)
  BY <1>2
<1> QED
  BY <1>1, <1>2, UnblockCases

LEMMA KeptEnds ==
  ASSUME Core, Keys, Ends, MutationKept
  PROVE  Ends'
<1> DEFINE op == Head(mutations)
<1>1. /\ mutations # << >> /\ op \in Op /\ Unblock(op, CaughtUp(op))
      /\ subs' = Changed(op) /\ UNCHANGED <<ask, told>>
  BY KeptCases DEF registryVars
<1>2. /\ CaughtUp(op) \in [Instance -> Seq(Delivery)]
      /\ \A i \in Instance : chain[i] # << >> => CaughtUp(op)[i] # << >>
  BY <1>1, CaughtUpType
<1>3. ASSUME NEW i \in Instance
      PROVE  /\ ClearBehind(CaughtUp(op)[i], ask[i])
             /\ \A n, r : ClearFrom(chain[i], n, r) => ClearFrom(CaughtUp(op)[i], n, r)
  <2>1. ClearBehind(chain[i], ask[i]) /\ chain[i] \in Seq(Delivery)
    BY SendingType DEF Ends, EndQueued
  <2>2. CASE op.op = "add"
    <3> DEFINE p == CatchUp(i, Added(op))
    <3>1. p \in Seq(Delivery)
      BY <1>1, <2>2, AddedType, CatchUpType DEF Core
    <3>2. \A k \in DOMAIN p : p[k].type = "attention" => p[k].request = ask[i] /\ ask[i] # 0
      BY DEF CatchUp, Message
    <3>3. CaughtUp(op)[i] = chain[i] \o p
      BY <2>2 DEF CaughtUp
    <3> HIDE DEF p
    <3>4. ClearBehind(chain[i] \o p, ask[i])
      BY <2>1, <3>1, <3>2, BehindGrows
    <3>5. \A n, r : ClearFrom(chain[i], n, r) => ClearFrom(chain[i] \o p, n, r)
      BY <2>1, <3>1, ClearGrows
    <3> QED
      BY <3>3, <3>4, <3>5
  <2>3. CASE op.op # "add"
    <3>1. CaughtUp(op)[i] = chain[i]
      BY <2>3 DEF CaughtUp
    <3> QED
      BY <2>1, <3>1
  <2> QED
    BY <2>2, <2>3
<1>4. \A i \in Instance :
        /\ \A r : ClearBehind(CaughtUp(op)[i], r) => ClearBehind(chain'[i], r)
        /\ \A r : ClearFrom(CaughtUp(op)[i], Unsent(i), r) => ClearFrom(chain'[i], Unsent(i)', r)
  BY <1>1, <1>2, UnblockEnds
<1>5. EndQueued'
  BY <1>1, <1>3, <1>4 DEF EndQueued
<1>6. ASSUME NEW s \in subs', NEW i \in Instance, NEW r \in 1 .. MaxAsks
      PROVE  EndSentTo(i, r, s.device)'
  <2>1. CASE <<i, r>> \in told[s.device]
    <3>1. s.device \in Device
      BY <1>1, ChangedFrom, SMTT(30) DEF Core, TypeOK, Sub
    <3>2. SubscribedNow(s.device)
      BY <2>1, <3>1 DEF Keys, SentToSubscribed
    <3>3. PICK t \in subs : t.device = s.device
      BY <3>2 DEF SubscribedNow
    <3>4. EndSentTo(i, r, s.device)
      BY <3>3, EndSentPerDevice DEF Ends
    <3> QED
      BY <1>1, <1>3, <1>4, <2>1, <3>4 DEF EndSentTo
  <2>2. CASE <<i, r>> \notin told[s.device]
    BY <1>1, <2>2 DEF EndSentTo
  <2> QED
    BY <2>1, <2>2
<1> QED
  BY <1>5, <1>6, EndSentPerDevice DEF Ends

LEMMA FailsEnds ==
  ASSUME Core, Ends, MutationFails
  PROVE  Ends'
<1>1. mutations # << >> /\ Unblock(Head(mutations), chain) /\ UNCHANGED <<ask, subs, told>>
  BY WritingType DEF MutationFails, registryVars, history
<1>2. \A i \in Instance :
        /\ \A r : ClearBehind(chain[i], r) => ClearBehind(chain'[i], r)
        /\ \A r : ClearFrom(chain[i], Unsent(i), r) => ClearFrom(chain'[i], Unsent(i)', r)
  BY <1>1, UnblockEnds DEF Core, TypeOK
<1>3. EndQueued'
  BY <1>1, <1>2 DEF Ends, EndQueued
<1>4. \A s \in subs, i \in Instance, r \in 1 .. MaxAsks : EndSentTo(i, r, s.device)'
  BY <1>1, <1>2, EndSentPerDevice DEF Ends, EndSentTo
<1> QED
  BY <1>1, <1>3, <1>4, EndSentPerDevice DEF Ends

LEMMA EndsStep ==
  ASSUME Core, Keys, Ends, [Next]_vars
  PROVE  Ends'
<1>1. CASE Registry
  BY <1>1, RegistryEnds
<1>2. ASSUME NEW i \in Instance, Deliver(i) PROVE Ends'
  BY <1>2, StartSendEnds, SendsDoneEnds, AnswerEnds DEF Deliver
<1>3. CASE Mutate
  <2>1. CASE MutationStarts \/ MutationWritten
    <3>1. UNCHANGED <<ask, subs, chain, sending, told>>
      BY <2>1 DEF MutationStarts, MutationWritten, registryVars, history
    <3> QED
      BY <3>1, QuietEnds
  <2> QED
    BY <1>3, <2>1, KeptEnds, FailsEnds DEF Mutate
<1>4. CASE Browser
  <2>1. UNCHANGED <<ask, subs, chain, sending>>
    BY <1>4 DEF Browser, Subscribe, Unsubscribe, Lapse, registryVars, storeVars
  <2>2. \A d \in Device : told'[d] \subseteq told[d]
    BY <1>4, DevicesType DEF Browser, Subscribe, Unsubscribe, Lapse
  <2> QED
    BY <2>1, <2>2, QuietEnds
<1>5. CASE Crash
  <2>1. /\ \A i \in Instance : chain'[i] = << >>
        /\ \A d \in Device : told'[d] = {}
        /\ subs' = stored
    BY <1>5 DEF Crash
  <2>2. \A s \in stored : s.device \in Device
    BY DEF Core, TypeOK, Sub
  <2> QED
    BY <2>1, <2>2 DEF Ends, EndQueued, ClearBehind, EndSent
<1>6. CASE UNCHANGED vars
  <2>1. UNCHANGED <<ask, subs, chain, sending, told>>
    BY <1>6 DEF vars
  <2> QED
    BY <2>1, QuietEnds
<1> QED
  BY <1>1, <1>2, <1>3, <1>4, <1>5, <1>6 DEF Next

LEMMA InitEnds == Init => Ends
<1> SUFFICES ASSUME Init PROVE Ends
  OBVIOUS
<1>1. /\ \A i \in Instance : chain[i] = << >>
      /\ \A d \in Device : told[d] = {}
      /\ subs = InitialSubs
  BY DEF Init
<1>2. \A s \in InitialSubs : s.device \in Device
  BY PushAssumption DEF PushAssumption, Sub
<1> QED
  BY <1>1, <1>2 DEF Ends, EndQueued, ClearBehind, EndSent

(* EndIsTold: a subscribed device that took the alert of a request that is     *)
(* over has been sent its clear or is about to be, whatever replacements,      *)
(* catch-ups, renewed keys, dropped endpoints and crashes come between         *)
(* (push.ts 357-382, 445-456).                                                 *)
THEOREM EveryEndIsTold == Spec => []EndIsTold
<1>1. Core /\ Keys /\ Ends => EndIsTold
  BY DEF Ends, EndSent, EndIsTold, ClearFrom, Queued
<1>2. Core /\ Keys /\ Ends /\ [Next]_vars => Core' /\ Keys' /\ Ends'
  BY CoreStep, KeysStep, EndsStep
<1> QED
  BY InitCore, InitKeys, InitEnds, <1>1, <1>2, PTL DEF Spec
===============================================================================
