--------------------------- MODULE HostDirectoryProofs ---------------------------
(***************************************************************************)
(* What is proved of HostDirectory for every number of hosts, instances,   *)
(* file names and launches, for every capacity, and whatever identities    *)
(* and file names the hosts claim.                                         *)
(***************************************************************************)
EXTENDS HostDirectory, TLAPS, FiniteSetTheorems, SequenceTheorems,
        WellFoundedInduction

(* Induction over the naturals, for the set of those of which something holds.            *)
LEMMA SetInduction ==
  ASSUME NEW S, 0 \in S, \A k \in Nat : k \in S => k + 1 \in S
  PROVE  Nat \subseteq S
<1> DEFINE T == Nat \ S
<1> SUFFICES ASSUME T # {} PROVE FALSE
  OBVIOUS
<1>1. PICK k \in T : \A l \in T : ~ (<<l, k>> \in OpToRel(<, Nat))
  <2>1. T \subseteq Nat
    OBVIOUS
  <2> QED BY <2>1, WFMin, NatLessThanWellFounded, Zenon
<1>2. \A l \in T : ~ (l < k)
  <2> SUFFICES ASSUME NEW l \in T, l < k PROVE FALSE
    OBVIOUS
  <2>1. <<l, k>> \in Nat \X Nat /\ <<l, k>>[1] < <<l, k>>[2]
    OBVIOUS
  <2>2. <<l, k>> \in OpToRel(<, Nat)
    BY <2>1 DEF OpToRel
  <2> QED BY <1>1, <2>2
<1>3. k \in Nat /\ k # 0
  OBVIOUS
<1>4. k - 1 \in Nat /\ k - 1 < k
  BY <1>3
<1>5. k - 1 \in S
  BY <1>2, <1>4
<1>6. (k - 1) + 1 \in S
  BY <1>4, <1>5
<1> QED BY <1>3, <1>6

-----------------------------------------------------------------------------
(* Maps from instances to hosts, kept as sequences.                                        *)

IsMap(hosts) == hosts \in Seq(Host) /\ Distinct(hosts)

LEMMA NoneIsNoHost == None \notin Host /\ None \notin Instance
BY DirectoryAssumption

LEMMA InstanceType == \A h \in Host : InstanceOf[h] \in Instance
BY DirectoryAssumption

LEMMA HostForIs ==
  ASSUME NEW hosts \in Seq(Host), NEW i
  PROVE  \/ /\ i \notin InstancesOf(hosts) /\ HostFor(hosts, i) = None
         \/ /\ i \in InstancesOf(hosts) /\ HostFor(hosts, i) \in Host
            /\ PlaceOf(hosts, i) \in 1 .. Len(hosts)
            /\ hosts[PlaceOf(hosts, i)] = HostFor(hosts, i)
            /\ InstanceOf[HostFor(hosts, i)] = i
<1>1. CASE i \notin InstancesOf(hosts)
  BY <1>1 DEF HostFor
<1>2. CASE i \in InstancesOf(hosts)
  <2>1. \E k \in DOMAIN hosts : InstanceOf[hosts[k]] = i
    BY <1>2 DEF InstancesOf
  <2>2. PlaceOf(hosts, i) \in DOMAIN hosts /\ InstanceOf[hosts[PlaceOf(hosts, i)]] = i
    BY <2>1 DEF PlaceOf
  <2>3. DOMAIN hosts = 1 .. Len(hosts)
    OBVIOUS
  <2>4. HostFor(hosts, i) = hosts[PlaceOf(hosts, i)]
    BY <1>2 DEF HostFor
  <2> QED BY <1>2, <2>2, <2>3, <2>4
<1> QED BY <1>1, <1>2

LEMMA PlaceFor ==
  ASSUME NEW hosts, IsMap(hosts), NEW k \in 1 .. Len(hosts)
  PROVE  /\ InstanceOf[hosts[k]] \in InstancesOf(hosts)
         /\ HostFor(hosts, InstanceOf[hosts[k]]) = hosts[k] /\ hosts[k] \in Host
         /\ PlaceOf(hosts, InstanceOf[hosts[k]]) = k
<1> DEFINE i == InstanceOf[hosts[k]]
<1>1. hosts \in Seq(Host) /\ k \in DOMAIN hosts /\ DOMAIN hosts = 1 .. Len(hosts)
  BY DEF IsMap
<1>2. i \in InstancesOf(hosts)
  BY <1>1 DEF InstancesOf
<1>3. /\ PlaceOf(hosts, i) \in 1 .. Len(hosts) /\ hosts[PlaceOf(hosts, i)] = HostFor(hosts, i)
      /\ InstanceOf[HostFor(hosts, i)] = i
  BY <1>1, <1>2, HostForIs
<1>4. PlaceOf(hosts, i) = k
  BY <1>1, <1>3 DEF IsMap, Distinct
<1> QED BY <1>1, <1>2, <1>3, <1>4

LEMMA BindIsSet ==
  ASSUME NEW hosts, IsMap(hosts), NEW h \in Host
  PROVE  /\ IsMap(Bind(hosts, h))
         /\ \A i \in Instance : HostFor(Bind(hosts, h), i) =
              IF i = InstanceOf[h] THEN h ELSE HostFor(hosts, i)
<1> DEFINE p == PlaceOf(hosts, InstanceOf[h])
           after == Bind(hosts, h)
<1>1. hosts \in Seq(Host) /\ Len(hosts) \in Nat /\ DOMAIN hosts = 1 .. Len(hosts)
  BY DEF IsMap
<1>2. /\ after \in Seq(Host) /\ Len(hosts) <= Len(after)
      /\ \E q \in 1 .. Len(after) :
           /\ after[q] = h
           /\ \A k \in 1 .. Len(after) : k # q => k \in 1 .. Len(hosts) /\ after[k] = hosts[k]
           /\ q \in 1 .. Len(hosts) => InstanceOf[hosts[q]] = InstanceOf[h]
           /\ q \notin 1 .. Len(hosts) => InstanceOf[h] \notin InstancesOf(hosts)
  <2>1. CASE InstanceOf[h] \in InstancesOf(hosts)
    <3>1. p \in 1 .. Len(hosts) /\ InstanceOf[hosts[p]] = InstanceOf[h]
      BY <1>1, <2>1, HostForIs
    <3>2. after = [hosts EXCEPT ![p] = h]
      BY <2>1 DEF Bind
    <3> HIDE DEF p, after
    <3>3. after \in Seq(Host) /\ Len(after) = Len(hosts) /\ after[p] = h
          /\ \A k \in 1 .. Len(hosts) : k # p => after[k] = hosts[k]
      BY <1>1, <3>1, <3>2
    <3> QED BY <1>1, <3>1, <3>3
  <2>2. CASE InstanceOf[h] \notin InstancesOf(hosts)
    <3>1. after = Append(hosts, h)
      BY <2>2 DEF Bind
    <3> HIDE DEF after
    <3>2. /\ after \in Seq(Host) /\ Len(after) = Len(hosts) + 1 /\ after[Len(hosts) + 1] = h
          /\ \A k \in 1 .. Len(hosts) : after[k] = hosts[k]
      BY <1>1, <3>1
    <3>3. Len(hosts) + 1 \in 1 .. Len(after) /\ Len(hosts) + 1 \notin 1 .. Len(hosts)
          /\ \A k \in 1 .. Len(after) : k # Len(hosts) + 1 => k \in 1 .. Len(hosts)
      BY <1>1, <3>2
    <3> QED BY <1>1, <2>2, <3>2, <3>3
  <2> QED BY <2>1, <2>2
<1>3. PICK q \in 1 .. Len(after) :
        /\ after[q] = h
        /\ \A k \in 1 .. Len(after) : k # q => k \in 1 .. Len(hosts) /\ after[k] = hosts[k]
        /\ q \in 1 .. Len(hosts) => InstanceOf[hosts[q]] = InstanceOf[h]
        /\ q \notin 1 .. Len(hosts) => InstanceOf[h] \notin InstancesOf(hosts)
  BY <1>2
<1> HIDE DEF after
<1>4. \A k \in 1 .. Len(after) : InstanceOf[after[k]] = InstanceOf[h] => k = q
  <2> SUFFICES ASSUME NEW k \in 1 .. Len(after), InstanceOf[after[k]] = InstanceOf[h], k # q
               PROVE  FALSE
    OBVIOUS
  <2>1. k \in 1 .. Len(hosts) /\ InstanceOf[hosts[k]] = InstanceOf[h]
    BY <1>3
  <2>2. InstanceOf[h] \in InstancesOf(hosts)
    BY <1>1, <2>1 DEF InstancesOf
  <2>3. q \in 1 .. Len(hosts) /\ InstanceOf[hosts[q]] = InstanceOf[h]
    BY <1>3, <2>2
  <2> QED BY <1>1, <2>1, <2>3 DEF IsMap, Distinct
<1>5. DOMAIN after = 1 .. Len(after)
  BY <1>2
<1>6. Distinct(after)
  <2> SUFFICES ASSUME NEW j \in 1 .. Len(after), NEW k \in 1 .. Len(after),
                      InstanceOf[after[j]] = InstanceOf[after[k]]
               PROVE  j = k
    BY <1>5 DEF Distinct
  <2>1. CASE j = q \/ k = q
    BY <1>3, <1>4, <2>1
  <2>2. CASE j # q /\ k # q
    BY <1>1, <1>3, <2>2 DEF IsMap, Distinct
  <2> QED BY <2>1, <2>2
<1>7. IsMap(after)
  BY <1>2, <1>6 DEF IsMap
<1>8. ASSUME NEW i \in Instance
      PROVE  HostFor(after, i) = IF i = InstanceOf[h] THEN h ELSE HostFor(hosts, i)
  <2>1. CASE i = InstanceOf[h]
    BY <1>3, <1>7, <2>1, PlaceFor
  <2>2. CASE i # InstanceOf[h] /\ i \in InstancesOf(hosts)
    <3>1. PICK k \in 1 .. Len(hosts) : InstanceOf[hosts[k]] = i /\ hosts[k] = HostFor(hosts, i)
      BY <1>1, <2>2, HostForIs
    <3>2. k \in 1 .. Len(after) /\ k # q
      <4>1. k # q
        BY <1>3, <2>2, <3>1
      <4> QED BY <1>1, <1>2, <4>1
    <3>3. after[k] = hosts[k]
      BY <1>3, <3>2
    <3> QED BY <1>7, <2>2, <3>1, <3>2, <3>3, PlaceFor
  <2>3. CASE i # InstanceOf[h] /\ i \notin InstancesOf(hosts)
    <3>1. i \notin InstancesOf(after)
      <4> SUFFICES ASSUME NEW k \in 1 .. Len(after), InstanceOf[after[k]] = i PROVE FALSE
        BY <1>5 DEF InstancesOf
      <4>1. k \in 1 .. Len(hosts) /\ InstanceOf[hosts[k]] = i
        BY <1>3, <2>3
      <4> QED BY <1>1, <2>3, <4>1 DEF InstancesOf
    <3> QED BY <1>1, <1>2, <2>3, <3>1, HostForIs
  <2> QED BY <2>1, <2>2, <2>3
<1> QED BY <1>7, <1>8 DEF after

(* What deleting a key leaves, place by place.                                              *)
LEMMA UnbindPlaces ==
  ASSUME NEW hosts, IsMap(hosts), NEW j, j \in InstancesOf(hosts),
         NEW p, p = PlaceOf(hosts, j), NEW after, after = Unbind(hosts, j)
  PROVE  /\ p \in 1 .. Len(hosts) /\ InstanceOf[hosts[p]] = j
         /\ after \in Seq(Host) /\ Len(after) = Len(hosts) - 1
         /\ \A k \in 1 .. Len(after) : after[k] = IF k < p THEN hosts[k] ELSE hosts[k + 1]
<1>1. hosts \in Seq(Host) /\ Len(hosts) \in Nat /\ DOMAIN hosts = 1 .. Len(hosts)
  BY DEF IsMap
<1>2. p \in 1 .. Len(hosts) /\ InstanceOf[hosts[p]] = j
  BY <1>1, HostForIs
<1>3. after = SubSeq(hosts, 1, p - 1) \o SubSeq(hosts, p + 1, Len(hosts))
  BY DEF Unbind, RemoveAt
<1>4. /\ after \in Seq(Host) /\ Len(after) = Len(hosts) - 1
      /\ \A k \in 1 .. Len(after) : after[k] = IF k < p THEN hosts[k] ELSE hosts[k + 1]
  <2> DEFINE a == SubSeq(hosts, 1, p - 1)
             b == SubSeq(hosts, p + 1, Len(hosts))
  <2>1. a \in Seq(Host) /\ Len(a) = p - 1 /\ \A k \in 1 .. p - 1 : a[k] = hosts[k]
    BY <1>1, <1>2
  <2>2. b \in Seq(Host) /\ Len(b) = Len(hosts) - p
        /\ \A k \in 1 .. Len(hosts) - p : b[k] = hosts[p + k]
    <3> DEFINE n == Len(hosts)
    <3>1. n \in Nat /\ p + 1 \in Int /\ n \in Int /\ \A k \in p + 1 .. n : hosts[k] \in Host
      BY <1>1, <1>2
    <3>2. /\ b \in Seq(Host) /\ Len(b) = IF p + 1 <= n THEN n - (p + 1) + 1 ELSE 0
          /\ \A k \in 1 .. n - (p + 1) + 1 : b[k] = hosts[(p + 1) + k - 1]
      BY <3>1, SubSeqProperties
    <3> HIDE DEF b, n
    <3>3. Len(b) = n - p /\ n - (p + 1) + 1 = n - p
      <4>1. p \in Nat /\ p <= n
        BY <1>2 DEF n
      <4>2. CASE p = n
        <5>1. ~(p + 1 <= n)
          BY <3>1, <4>1, <4>2
        <5> QED BY <3>1, <3>2, <4>1, <4>2, <5>1
      <4>3. CASE p < n
        <5>1. p + 1 <= n /\ n - (p + 1) + 1 = n - p
          BY <3>1, <4>1, <4>3
        <5> QED BY <3>2, <5>1
      <4> QED BY <3>1, <4>1, <4>2, <4>3
    <3>4. \A k \in 1 .. n - p : b[k] = hosts[p + k]
      <4> TAKE k \in 1 .. n - p
      <4>1. b[k] = hosts[(p + 1) + k - 1]
        BY <3>2, <3>3
      <4>2. (p + 1) + k - 1 = p + k
        BY <1>2, <3>1
      <4> QED BY <4>1, <4>2
    <3> QED BY <3>2, <3>3, <3>4 DEF n
  <2> HIDE DEF a, b
  <2>3. /\ a \o b \in Seq(Host) /\ Len(a \o b) = Len(hosts) - 1
        /\ \A k \in 1 .. Len(hosts) - 1 : (a \o b)[k] = IF k < p THEN a[k] ELSE b[k - (p - 1)]
    <3>1. /\ a \o b \in Seq(Host) /\ Len(a \o b) = Len(a) + Len(b)
          /\ \A k \in 1 .. Len(a) + Len(b) :
               (a \o b)[k] = IF k <= Len(a) THEN a[k] ELSE b[k - Len(a)]
      BY <2>1, <2>2, ConcatProperties
    <3>2. Len(a) = p - 1 /\ Len(a) + Len(b) = Len(hosts) - 1
      BY <1>1, <1>2, <2>1, <2>2
    <3>3. \A k \in 1 .. Len(hosts) - 1 : (k <= p - 1) = (k < p)
      BY <1>1, <1>2
    <3> QED BY <3>1, <3>2, <3>3
  <2>4. ASSUME NEW k \in 1 .. Len(hosts) - 1
        PROVE  (a \o b)[k] = IF k < p THEN hosts[k] ELSE hosts[k + 1]
    <3>1. CASE k < p
      <4>1. k \in 1 .. p - 1
        BY <1>1, <1>2, <3>1
      <4> QED BY <2>1, <2>3, <3>1, <4>1
    <3>2. CASE ~(k < p)
      <4>1. k - (p - 1) \in 1 .. Len(hosts) - p /\ p + (k - (p - 1)) = k + 1
        BY <1>1, <1>2, <3>2
      <4> QED BY <2>2, <2>3, <3>2, <4>1
    <3> QED BY <3>1, <3>2
  <2>5. after = a \o b
    BY <1>3 DEF a, b
  <2> QED BY <2>3, <2>4, <2>5
<1> QED BY <1>2, <1>4

LEMMA UnbindIsDelete ==
  ASSUME NEW hosts, IsMap(hosts), NEW j
  PROVE  /\ IsMap(Unbind(hosts, j))
         /\ \A i \in Instance : HostFor(Unbind(hosts, j), i) =
              IF i = j THEN None ELSE HostFor(hosts, i)
<1> DEFINE p == PlaceOf(hosts, j)
           after == Unbind(hosts, j)
<1>1. hosts \in Seq(Host) /\ Len(hosts) \in Nat /\ DOMAIN hosts = 1 .. Len(hosts)
  BY DEF IsMap
<1>2. CASE j \notin InstancesOf(hosts)
  <2>1. after = hosts
    BY <1>2 DEF Unbind
  <2>2. HostFor(hosts, j) = None
    BY <1>1, <1>2, HostForIs
  <2> QED BY <2>1, <2>2
<1>3. CASE j \in InstancesOf(hosts)
  <2> HIDE DEF p, after
  <2>1. p \in 1 .. Len(hosts) /\ InstanceOf[hosts[p]] = j
    BY <1>3, UnbindPlaces DEF p, after
  <2>3. /\ after \in Seq(Host) /\ Len(after) = Len(hosts) - 1
        /\ \A k \in 1 .. Len(after) : after[k] = IF k < p THEN hosts[k] ELSE hosts[k + 1]
    BY <1>3, UnbindPlaces DEF p, after
  <2>4. DOMAIN after = 1 .. Len(after)
    BY <2>3
  <2>5. \A k \in 1 .. Len(after) : \E l \in 1 .. Len(hosts) :
          /\ after[k] = hosts[l] /\ l # p /\ l = IF k < p THEN k ELSE k + 1
    BY <1>1, <2>1, <2>3
  <2>6. Distinct(after)
    <3> SUFFICES ASSUME NEW k \in 1 .. Len(after), NEW m \in 1 .. Len(after),
                        InstanceOf[after[k]] = InstanceOf[after[m]]
                 PROVE  k = m
      BY <2>4 DEF Distinct
    <3>1. PICK l \in 1 .. Len(hosts) : after[k] = hosts[l] /\ l = IF k < p THEN k ELSE k + 1
      BY <2>5
    <3>2. PICK n \in 1 .. Len(hosts) : after[m] = hosts[n] /\ n = IF m < p THEN m ELSE m + 1
      BY <2>5
    <3>3. l = n
      BY <1>1, <3>1, <3>2 DEF IsMap, Distinct
    <3> QED BY <1>1, <2>1, <2>3, <3>1, <3>2, <3>3
  <2>7. IsMap(after)
    BY <2>3, <2>6 DEF IsMap
  <2>8. ASSUME NEW i \in Instance
        PROVE  HostFor(after, i) = IF i = j THEN None ELSE HostFor(hosts, i)
    <3>1. CASE i = j
      <4>1. i \notin InstancesOf(after)
        <5> SUFFICES ASSUME NEW k \in 1 .. Len(after), InstanceOf[after[k]] = j PROVE FALSE
          BY <2>4, <3>1 DEF InstancesOf
        <5>1. PICK l \in 1 .. Len(hosts) : after[k] = hosts[l] /\ l # p
          BY <2>5
        <5> QED BY <1>1, <2>1, <5>1 DEF IsMap, Distinct
      <4> QED BY <2>3, <3>1, <4>1, HostForIs
    <3>2. CASE i # j /\ i \in InstancesOf(hosts)
      <4>1. PICK l \in 1 .. Len(hosts) : InstanceOf[hosts[l]] = i /\ hosts[l] = HostFor(hosts, i)
        BY <1>1, <3>2, HostForIs
      <4>2. l # p
        BY <2>1, <3>2, <4>1
      <4>3. \E k \in 1 .. Len(after) : after[k] = hosts[l]
        <5>1. CASE l < p
          <6>1. l \in 1 .. Len(after)
            BY <1>1, <2>1, <2>3, <5>1
          <6> QED BY <2>3, <5>1, <6>1
        <5>2. CASE l > p
          <6>1. l - 1 \in 1 .. Len(after) /\ ~(l - 1 < p) /\ (l - 1) + 1 = l
            BY <1>1, <2>1, <2>3, <5>2
          <6>2. after[l - 1] = hosts[l]
            BY <2>3, <6>1
          <6> QED BY <6>1, <6>2
        <5> QED BY <1>1, <2>1, <4>2, <5>1, <5>2
      <4> QED BY <2>7, <3>2, <4>1, <4>3, PlaceFor
    <3>3. CASE i # j /\ i \notin InstancesOf(hosts)
      <4>1. i \notin InstancesOf(after)
        BY <1>1, <2>4, <2>5, <3>3 DEF InstancesOf
      <4> QED BY <1>1, <2>3, <3>3, <4>1, HostForIs
    <3> QED BY <3>1, <3>2, <3>3
  <2> QED BY <2>7, <2>8 DEF after
<1> QED BY <1>2, <1>3

-----------------------------------------------------------------------------
(* The recursive functions of a round: each is what its definition says.                   *)

(* The names of the known files. *)
LEMMA NamesOfIs ==
  ASSUME entries \in Seq(Host)
  PROVE  /\ NamesOf[0] = << >>
         /\ \A k \in 1 .. Len(entries) :
              NamesOf[k] = IF NameOf[entries[k]] \in ToSet(NamesOf[k - 1]) THEN NamesOf[k - 1]
                           ELSE Append(NamesOf[k - 1], NameOf[entries[k]])
<1> DEFINE More(was, k) == IF NameOf[entries[k]] \in ToSet(was) THEN was ELSE Append(was, NameOf[entries[k]])
           Is(m, g) == g = [k \in 0 .. m |-> IF k = 0 THEN << >>
                                             ELSE More(g[k - 1], k)]
           P(m) == \E g : Is(m, g)
           S == {m \in Nat : P(m)}
<1> HIDE DEF More
<1>1. P(0)
  <2> DEFINE g == [k \in 0 .. 0 |-> << >>]
  <2>1. Is(0, g)
    OBVIOUS
  <2> QED BY <2>1
<1>2. ASSUME NEW m \in Nat, P(m) PROVE P(m + 1)
  <2>1. PICK g : Is(m, g)
    BY <1>2
  <2> DEFINE h == [k \in 0 .. m + 1 |-> IF k = 0 THEN << >> ELSE More(g[k - 1], k)]
  <2>2. \A k \in 0 .. m : h[k] = g[k]
    BY <2>1
  <2>3. ASSUME NEW k \in 0 .. m + 1, k # 0 PROVE h[k - 1] = g[k - 1]
    <3>1. k - 1 \in 0 .. m
      BY <2>3
    <3> QED BY <2>2, <3>1
  <2>4. Is(m + 1, h)
    BY <2>3
  <2> QED BY <2>4
<1> HIDE DEF P
<1>3. Len(entries) \in Nat
  OBVIOUS
<1>4. 0 \in S /\ \A m \in Nat : m \in S => m + 1 \in S
  BY <1>1, <1>2
<1>5. Len(entries) \in S
  BY <1>3, <1>4, SetInduction, Zenon
<1>6. P(Len(entries))
  BY <1>5
<1>7. NamesOf = [k \in 0 .. Len(entries) |-> IF k = 0 THEN << >>
                                 ELSE More(NamesOf[k - 1], k)]
  BY <1>6 DEF P, NamesOf, More
<1>8. 0 \in 0 .. Len(entries) /\ \A k \in 1 .. Len(entries) : k \in 0 .. Len(entries) /\ k # 0
  BY <1>3
<1>9. NamesOf[0] = << >>
  BY <1>7, <1>8
<1>10. \A k \in 1 .. Len(entries) : NamesOf[k] = More(NamesOf[k - 1], k)
  BY <1>7, <1>8
<1> QED BY <1>9, <1>10 DEF More

(* The carried bindings. *)
LEMMA CarriedIs ==
  ASSUME entries \in Seq(Host)
  PROVE  /\ Carried[0] = << >>
         /\ \A k \in 1 .. Len(entries) :
              Carried[k] = IF InstanceOf[entries[k]] \in round.retained
                           THEN Bind(Carried[k - 1], entries[k]) ELSE Carried[k - 1]
<1> DEFINE More(was, k) == IF InstanceOf[entries[k]] \in round.retained THEN Bind(was, entries[k]) ELSE was
           Is(m, g) == g = [k \in 0 .. m |-> IF k = 0 THEN << >>
                                             ELSE More(g[k - 1], k)]
           P(m) == \E g : Is(m, g)
           S == {m \in Nat : P(m)}
<1> HIDE DEF More
<1>1. P(0)
  <2> DEFINE g == [k \in 0 .. 0 |-> << >>]
  <2>1. Is(0, g)
    OBVIOUS
  <2> QED BY <2>1
<1>2. ASSUME NEW m \in Nat, P(m) PROVE P(m + 1)
  <2>1. PICK g : Is(m, g)
    BY <1>2
  <2> DEFINE h == [k \in 0 .. m + 1 |-> IF k = 0 THEN << >> ELSE More(g[k - 1], k)]
  <2>2. \A k \in 0 .. m : h[k] = g[k]
    BY <2>1
  <2>3. ASSUME NEW k \in 0 .. m + 1, k # 0 PROVE h[k - 1] = g[k - 1]
    <3>1. k - 1 \in 0 .. m
      BY <2>3
    <3> QED BY <2>2, <3>1
  <2>4. Is(m + 1, h)
    BY <2>3
  <2> QED BY <2>4
<1> HIDE DEF P
<1>3. Len(entries) \in Nat
  OBVIOUS
<1>4. 0 \in S /\ \A m \in Nat : m \in S => m + 1 \in S
  BY <1>1, <1>2
<1>5. Len(entries) \in S
  BY <1>3, <1>4, SetInduction, Zenon
<1>6. P(Len(entries))
  BY <1>5
<1>7. Carried = [k \in 0 .. Len(entries) |-> IF k = 0 THEN << >>
                                 ELSE More(Carried[k - 1], k)]
  BY <1>6 DEF P, Carried, More
<1>8. 0 \in 0 .. Len(entries) /\ \A k \in 1 .. Len(entries) : k \in 0 .. Len(entries) /\ k # 0
  BY <1>3
<1>9. Carried[0] = << >>
  BY <1>7, <1>8
<1>10. \A k \in 1 .. Len(entries) : Carried[k] = More(Carried[k - 1], k)
  BY <1>7, <1>8
<1> QED BY <1>9, <1>10 DEF More

(* What the loop over the found entries starts from. *)
FirstTurn == [next |-> Carried[Len(entries)], retained |-> round.retained,
              observed |-> << >>, dead |-> dead]

(* The turns of the loop over the found entries. *)
LEMMA TurnIs ==
  ASSUME round.found \in Seq(Host)
  PROVE  /\ Turn[0] = FirstTurn
         /\ \A k \in 1 .. Len(round.found) :
              Turn[k] = SettleOne(Turn[k - 1], round.found[k])
<1> DEFINE More(was, k) == SettleOne(was, round.found[k])
           Is(m, g) == g = [k \in 0 .. m |-> IF k = 0 THEN FirstTurn
                                             ELSE More(g[k - 1], k)]
           P(m) == \E g : Is(m, g)
           S == {m \in Nat : P(m)}
<1> HIDE DEF More
<1>1. P(0)
  <2> DEFINE g == [k \in 0 .. 0 |-> FirstTurn]
  <2>1. Is(0, g)
    OBVIOUS
  <2> QED BY <2>1
<1>2. ASSUME NEW m \in Nat, P(m) PROVE P(m + 1)
  <2>1. PICK g : Is(m, g)
    BY <1>2
  <2> DEFINE h == [k \in 0 .. m + 1 |-> IF k = 0 THEN FirstTurn ELSE More(g[k - 1], k)]
  <2>2. \A k \in 0 .. m : h[k] = g[k]
    BY <2>1
  <2>3. ASSUME NEW k \in 0 .. m + 1, k # 0 PROVE h[k - 1] = g[k - 1]
    <3>1. k - 1 \in 0 .. m
      BY <2>3
    <3> QED BY <2>2, <3>1
  <2>4. Is(m + 1, h)
    BY <2>3
  <2> QED BY <2>4
<1> HIDE DEF P
<1>3. Len(round.found) \in Nat
  OBVIOUS
<1>4. 0 \in S /\ \A m \in Nat : m \in S => m + 1 \in S
  BY <1>1, <1>2
<1>5. Len(round.found) \in S
  BY <1>3, <1>4, SetInduction, Zenon
<1>6. P(Len(round.found))
  BY <1>5
<1>7. Turn = [k \in 0 .. Len(round.found) |-> IF k = 0 THEN FirstTurn
                                 ELSE More(Turn[k - 1], k)]
  BY <1>6 DEF P, Turn, More, FirstTurn
<1>8. 0 \in 0 .. Len(round.found) /\ \A k \in 1 .. Len(round.found) : k \in 0 .. Len(round.found) /\ k # 0
  BY <1>3
<1>9. Turn[0] = FirstTurn
  BY <1>7, <1>8
<1>10. \A k \in 1 .. Len(round.found) : Turn[k] = More(Turn[k - 1], k)
  BY <1>7, <1>8
<1> QED BY <1>9, <1>10 DEF More

(* The cards, answer after answer. *)
LEMMA ReconciledIs ==
  ASSUME Settled.observed \in Seq(Host)
  PROVE  /\ Reconciled[0] = card
         /\ \A k \in 1 .. Len(Settled.observed) :
              Reconciled[k] = Refreshed(Reconciled[k - 1], Settled.observed[k])
<1> DEFINE More(was, k) == Refreshed(was, Settled.observed[k])
           Is(m, g) == g = [k \in 0 .. m |-> IF k = 0 THEN card
                                             ELSE More(g[k - 1], k)]
           P(m) == \E g : Is(m, g)
           S == {m \in Nat : P(m)}
<1> HIDE DEF More
<1>1. P(0)
  <2> DEFINE g == [k \in 0 .. 0 |-> card]
  <2>1. Is(0, g)
    OBVIOUS
  <2> QED BY <2>1
<1>2. ASSUME NEW m \in Nat, P(m) PROVE P(m + 1)
  <2>1. PICK g : Is(m, g)
    BY <1>2
  <2> DEFINE h == [k \in 0 .. m + 1 |-> IF k = 0 THEN card ELSE More(g[k - 1], k)]
  <2>2. \A k \in 0 .. m : h[k] = g[k]
    BY <2>1
  <2>3. ASSUME NEW k \in 0 .. m + 1, k # 0 PROVE h[k - 1] = g[k - 1]
    <3>1. k - 1 \in 0 .. m
      BY <2>3
    <3> QED BY <2>2, <3>1
  <2>4. Is(m + 1, h)
    BY <2>3
  <2> QED BY <2>4
<1> HIDE DEF P
<1>3. Len(Settled.observed) \in Nat
  OBVIOUS
<1>4. 0 \in S /\ \A m \in Nat : m \in S => m + 1 \in S
  BY <1>1, <1>2
<1>5. Len(Settled.observed) \in S
  BY <1>3, <1>4, SetInduction, Zenon
<1>6. P(Len(Settled.observed))
  BY <1>5
<1>7. Reconciled = [k \in 0 .. Len(Settled.observed) |-> IF k = 0 THEN card
                                 ELSE More(Reconciled[k - 1], k)]
  BY <1>6 DEF P, Reconciled, More
<1>8. 0 \in 0 .. Len(Settled.observed) /\ \A k \in 1 .. Len(Settled.observed) : k \in 0 .. Len(Settled.observed) /\ k # 0
  BY <1>3
<1>9. Reconciled[0] = card
  BY <1>7, <1>8
<1>10. \A k \in 1 .. Len(Settled.observed) : Reconciled[k] = More(Reconciled[k - 1], k)
  BY <1>7, <1>8
<1> QED BY <1>9, <1>10 DEF More

-----------------------------------------------------------------------------
(* The invariant.                                                                          *)

(* Every publication was written by its host under its name, and a live host's stands.     *)
WorldHolds ==
  /\ \A n \in Name : file[n] # None => born[file[n]] # 0 /\ NameOf[file[n]] = n
  /\ \A h \in alive : born[h] # 0 /\ file[NameOf[h]] = h

(* The entries a round has found claim different instances, and were published.            *)
FoundHolds ==
  /\ Distinct(round.found)
  /\ \A k \in 1 .. Len(round.found) : born[round.found[k]] # 0

(* A host whose endpoint was found gone is gone for good.                                  *)
AnswersHold ==
  \A h \in DOMAIN round.answers :
    round.answers[h].status = "gone" => h \notin alive /\ born[h] # 0

(* A host remembered as dead published under that name, and is dead.                       *)
DeadHolds ==
  \A n \in Name : dead[n] # None =>
    NameOf[dead[n]] = n /\ born[dead[n]] # 0 /\ dead[n] \notin alive

(* A capability is of the generation that was pressed, and the process that was pressed is  *)
(* the one the instance is bound to, as long as the directory has not let it go.            *)
LaunchHolds ==
  \A l \in Launch :
    /\ launch[l].stage \in {"minted", "released"} => launch[l].minted = launch[l].generation
    /\ launch[l].stage \in {"linking", "minted"} /\ l \notin letGo =>
         EntryFor(launch[l].instance) = launch[l].host /\ launch[l].host # None

Inv == /\ TypeOK /\ WorldHolds /\ FoundHolds /\ AnswersHold
       /\ DeadHolds /\ LaunchHolds /\ CardIsRouted

-----------------------------------------------------------------------------
(* The end of a round, turn by turn.                                                       *)

LEMMA EntryForIs ==
  ASSUME TypeOK, NEW i
  PROVE  EntryFor(i) = None \/ (EntryFor(i) \in Host /\ InstanceOf[EntryFor(i)] = i)
<1>1. entries \in Seq(Host)
  BY DEF TypeOK
<1> QED BY <1>1, HostForIs DEF EntryFor

(* What is carried over is the bindings of the retained instances.                         *)
LEMMA CarriedHolds ==
  ASSUME TypeOK
  PROVE  /\ IsMap(Carried[Len(entries)])
         /\ \A i \in Instance : HostFor(Carried[Len(entries)], i) =
              IF i \in round.retained THEN EntryFor(i) ELSE None
<1> DEFINE N == Len(entries)
           Upto(k) == {InstanceOf[entries[j]] : j \in 1 .. k}
           P(k) == /\ IsMap(Carried[k])
                   /\ \A i \in Instance : HostFor(Carried[k], i) =
                        IF i \in round.retained \cap Upto(k) THEN EntryFor(i) ELSE None
           S == {k \in Nat : k <= N => P(k)}
<1>1. IsMap(entries) /\ entries \in Seq(Host) /\ N \in Nat /\ DOMAIN entries = 1 .. N
  BY DEF TypeOK, IsMap
<1>2. P(0)
  <2>1. Carried[0] = << >> /\ Upto(0) = {}
    BY <1>1, CarriedIs
  <2>2. << >> \in Seq(Host) /\ IsMap(<< >>) /\ InstancesOf(<< >>) = {}
    BY DEF IsMap, Distinct, InstancesOf
  <2>3. \A i : HostFor(<< >>, i) = None
    BY <2>2 DEF HostFor
  <2> QED BY <2>1, <2>2, <2>3
<1>3. ASSUME NEW k \in Nat, k + 1 <= N, P(k) PROVE P(k + 1)
  <2> DEFINE h == entries[k + 1]
  <2>1. k + 1 \in 1 .. N /\ (k + 1) - 1 = k
    BY <1>1, <1>3
  <2>2. Carried[k + 1] = IF InstanceOf[h] \in round.retained
                         THEN Bind(Carried[k], h) ELSE Carried[k]
    BY <1>1, <2>1, CarriedIs
  <2>3. h \in Host /\ EntryFor(InstanceOf[h]) = h
    BY <1>1, <2>1, PlaceFor DEF EntryFor
  <2>4. Upto(k + 1) = Upto(k) \cup {InstanceOf[h]}
    <3>1. \A j : j \in 1 .. k + 1 <=> j \in 1 .. k \/ j = k + 1
      BY <1>3
    <3> QED BY <3>1
  <2> HIDE DEF Upto, h
  <2>5. CASE InstanceOf[h] \in round.retained
    <3>1. Carried[k + 1] = Bind(Carried[k], h)
      BY <2>2, <2>5
    <3>2. /\ IsMap(Bind(Carried[k], h))
          /\ \A i \in Instance : HostFor(Bind(Carried[k], h), i) =
               IF i = InstanceOf[h] THEN h ELSE HostFor(Carried[k], i)
      BY <1>3, <2>3, BindIsSet
    <3>3. ASSUME NEW i \in Instance
          PROVE  HostFor(Carried[k + 1], i) =
                   IF i \in round.retained \cap Upto(k + 1) THEN EntryFor(i) ELSE None
      <4>1. HostFor(Carried[k], i) =
              IF i \in round.retained \cap Upto(k) THEN EntryFor(i) ELSE None
        BY <1>3
      <4> QED BY <2>3, <2>4, <2>5, <3>1, <3>2, <4>1
    <3> QED BY <3>1, <3>2, <3>3
  <2>6. CASE InstanceOf[h] \notin round.retained
    <3>1. Carried[k + 1] = Carried[k]
      BY <2>2, <2>6
    <3>2. round.retained \cap Upto(k + 1) = round.retained \cap Upto(k)
      BY <2>4, <2>6
    <3> QED BY <1>3, <3>1, <3>2
  <2> QED BY <2>5, <2>6
<1> HIDE DEF P
<1>4. 0 \in S /\ \A k \in Nat : k \in S => k + 1 \in S
  <2>1. 0 \in S
    BY <1>2
  <2>2. ASSUME NEW k \in Nat, k \in S PROVE k + 1 \in S
    <3>1. SUFFICES ASSUME k + 1 <= N PROVE P(k + 1)
      OBVIOUS
    <3>2. P(k)
      BY <1>1, <2>2, <3>1
    <3> QED BY <1>3, <3>1, <3>2
  <2> QED BY <2>1, <2>2
<1>5. N \in S
  BY <1>1, <1>4, SetInduction, Zenon
<1>6. P(N)
  BY <1>1, <1>5
<1>7. ASSUME NEW i \in Instance, i \notin Upto(N) PROVE EntryFor(i) = None
  <2>1. i \notin InstancesOf(entries)
    BY <1>1, <1>7 DEF InstancesOf
  <2> QED BY <2>1 DEF EntryFor, HostFor
<1>8. ASSUME NEW i \in Instance
      PROVE  HostFor(Carried[N], i) = IF i \in round.retained THEN EntryFor(i) ELSE None
  <2> HIDE DEF Upto
  <2>1. HostFor(Carried[N], i) =
          IF i \in round.retained \cap Upto(N) THEN EntryFor(i) ELSE None
    BY <1>6 DEF P
  <2> QED BY <1>7, <2>1
<1> QED BY <1>6, <1>8 DEF P

(* The names under which something is remembered.                                          *)
Marked(known) == {n \in Name : known[n] # None}

IsMemory(known) ==
  known \in [Name -> Host \cup {None}] /\ IsFiniteSet(Marked(known))
  /\ Cardinality(Marked(known)) <= MaxDead

LEMMA RememberDeadIs ==
  ASSUME NEW known, IsMemory(known), NEW h \in Host
  PROVE  /\ IsMemory(RememberDead(known, h))
         /\ \A n \in Name : RememberDead(known, h)[n] # known[n] =>
              n = NameOf[h] /\ RememberDead(known, h)[n] = h
<1> DEFINE after == RememberDead(known, h)
<1>1. NameOf[h] \in Name /\ MaxDead \in Nat
  BY DirectoryAssumption
<1>2. known \in [Name -> Host \cup {None}]
  BY DEF IsMemory
<1>3. CASE after = known
  BY <1>3
<1>4. CASE after # known
  <2>1. after = [known EXCEPT ![NameOf[h]] = h] /\ ~(Cardinality(Marked(known)) >= MaxDead)
    BY <1>4 DEF RememberDead, Marked
  <2> HIDE DEF after
  <2>2. after \in [Name -> Host \cup {None}]
        /\ \A n \in Name : after[n] = IF n = NameOf[h] THEN h ELSE known[n]
    BY <1>1, <1>2, <2>1
  <2>3. Marked(after) \subseteq Marked(known) \cup {NameOf[h]}
    BY <2>2 DEF Marked
  <2>4. IsFiniteSet(Marked(known) \cup {NameOf[h]})
        /\ Cardinality(Marked(known) \cup {NameOf[h]}) <= Cardinality(Marked(known)) + 1
        /\ Cardinality(Marked(known)) \in Nat
    <3>1. IsFiniteSet(Marked(known)) /\ Cardinality(Marked(known)) \in Nat
      BY FS_CardinalityType DEF IsMemory
    <3>2. /\ IsFiniteSet(Marked(known) \cup {NameOf[h]})
          /\ Cardinality(Marked(known) \cup {NameOf[h]}) =
               IF NameOf[h] \in Marked(known) THEN Cardinality(Marked(known))
                                              ELSE Cardinality(Marked(known)) + 1
      BY <3>1, FS_AddElement
    <3> QED BY <3>1, <3>2
  <2>5. /\ IsFiniteSet(Marked(after)) /\ Cardinality(Marked(after)) \in Nat
        /\ Cardinality(Marked(after)) <= Cardinality(Marked(known) \cup {NameOf[h]})
        /\ Cardinality(Marked(known) \cup {NameOf[h]}) \in Nat
    BY <2>3, <2>4, FS_Subset, FS_CardinalityType
  <2>6. Cardinality(Marked(after)) <= MaxDead
    BY <1>1, <2>1, <2>4, <2>5
  <2> QED BY <2>2, <2>5, <2>6 DEF IsMemory, after
<1> QED BY <1>3, <1>4

Settling == [next : Seq(Host), retained : SUBSET Instance, observed : Seq(Host),
             dead : [Name -> Host \cup {None}]]

(* What k turns leave: a binding in force is kept or cut but never moved, the retained     *)
(* instances keep theirs, an observed host answered and is bound, and only hosts whose     *)
(* endpoint is gone were remembered as dead.                                               *)
Bindings(s) ==
  \A i \in Instance :
    EntryFor(i) # None =>
      /\ HostFor(s.next, i) \in {None, EntryFor(i)}
      /\ i \in s.retained => HostFor(s.next, i) = EntryFor(i)

Observed(s, k) ==
  \A j \in 1 .. Len(s.observed) :
    /\ \E m \in 1 .. k : s.observed[j] = round.found[m]
    /\ round.answers[s.observed[j]].status = "ok"
    /\ EntryFor(InstanceOf[s.observed[j]]) \in {None, s.observed[j]}
    /\ HostFor(s.next, InstanceOf[s.observed[j]]) = s.observed[j]

Buried(s) ==
  \A n \in Name : s.dead[n] # dead[n] =>
    \E h \in ToSet(round.found) :
      s.dead[n] = h /\ NameOf[h] = n /\ round.answers[h].status = "gone"

TurnHolds(s, k) ==
  /\ s \in Settling /\ IsMap(s.next) /\ IsMemory(s.dead)
  /\ Bindings(s) /\ Observed(s, k) /\ Buried(s)

(* A host's answer settles one instance: its own.                                          *)
LEMMA SettleOneKeeps ==
  ASSUME TypeOK, FoundHolds, DOMAIN round.answers = ToSet(round.found),
         NEW k \in Nat, k + 1 <= Len(round.found),
         NEW s, TurnHolds(s, k)
  PROVE  TurnHolds(SettleOne(s, round.found[k + 1]), k + 1)
<1> DEFINE h == round.found[k + 1]
           i == InstanceOf[h]
           a == round.answers[h]
           after == SettleOne(s, h)
<1>1. round.found \in Seq(Host) /\ Len(round.found) \in Nat /\ k + 1 \in 1 .. Len(round.found)
      /\ DOMAIN round.found = 1 .. Len(round.found)
  BY DEF TypeOK, PollRound
<1>2. h \in Host /\ i \in Instance /\ h \in ToSet(round.found)
  BY <1>1, InstanceType DEF ToSet
<1>3. /\ s \in Settling /\ IsMap(s.next) /\ IsMemory(s.dead)
      /\ Bindings(s) /\ Observed(s, k) /\ Buried(s)
      /\ s.next \in Seq(Host) /\ s.retained \subseteq Instance /\ s.observed \in Seq(Host)
      /\ Len(s.observed) \in Nat /\ s.dead \in [Name -> Host \cup {None}]
  BY DEF TurnHolds, Settling
<1>4. \A j \in 1 .. Len(s.observed) : s.observed[j] \in Host /\ InstanceOf[s.observed[j]] \in Instance
                                      /\ InstanceOf[s.observed[j]] # i
  <2> SUFFICES ASSUME NEW j \in 1 .. Len(s.observed)
               PROVE  s.observed[j] \in Host /\ InstanceOf[s.observed[j]] \in Instance
                      /\ InstanceOf[s.observed[j]] # i
    OBVIOUS
  <2>1. PICK m \in 1 .. k : s.observed[j] = round.found[m]
    BY <1>3 DEF Observed
  <2>2. m \in 1 .. Len(round.found) /\ m # k + 1
    BY <1>1, <2>1
  <2>3. InstanceOf[round.found[m]] # i
    BY <1>1, <2>2 DEF FoundHolds, Distinct
  <2>4. s.observed[j] \in Host
    BY <1>3
  <2> QED BY <2>1, <2>3, <2>4, InstanceType
<1>5. EntryFor(i) = None \/ (EntryFor(i) \in Host /\ InstanceOf[EntryFor(i)] = i)
  BY EntryForIs
<1>6. Observed(s, k + 1)
  <2>1. \A m \in 1 .. k : m \in 1 .. k + 1
    OBVIOUS
  <2> QED BY <1>3, <2>1 DEF Observed
<1> HIDE DEF h, i, a, after
<1>7. CASE Finished(a)
  <2> DEFINE next == Unbind(s.next, i)
             memory == RememberDead(s.dead, h)
  <2>1. after = [s EXCEPT !.retained = @ \ {i}, !.next = next, !.dead = memory]
    BY <1>7 DEF SettleOne, a, i, after
  <2>2. IsMap(next) /\ \A j \in Instance : HostFor(next, j) = IF j = i THEN None ELSE HostFor(s.next, j)
    BY <1>3, UnbindIsDelete
  <2>3. /\ IsMemory(memory)
        /\ \A n \in Name : memory[n] # s.dead[n] => n = NameOf[h] /\ memory[n] = h
    BY <1>2, <1>3, RememberDeadIs
  <2>4. next \in Seq(Host) /\ memory \in [Name -> Host \cup {None}]
    BY <2>2, <2>3 DEF IsMap, IsMemory
  <2> HIDE DEF next, memory
  <2>5. /\ after \in Settling /\ after.next = next /\ after.retained = s.retained \ {i}
        /\ after.observed = s.observed /\ after.dead = memory
    BY <1>3, <2>1, <2>4 DEF Settling
  <2>6. Bindings(after)
    BY <1>3, <2>2, <2>5 DEF Bindings
  <2>7. Observed(after, k + 1)
    BY <1>4, <1>6, <2>2, <2>5 DEF Observed
  <2>8. Buried(after)
    <3> SUFFICES ASSUME NEW n \in Name, memory[n] # dead[n]
                 PROVE  \E g \in ToSet(round.found) :
                          memory[n] = g /\ NameOf[g] = n /\ round.answers[g].status = "gone"
      BY <2>5 DEF Buried
    <3>1. CASE memory[n] = s.dead[n]
      BY <1>3, <3>1 DEF Buried
    <3>2. CASE memory[n] # s.dead[n]
      BY <1>2, <1>7, <2>3, <3>2 DEF Finished, a
    <3> QED BY <3>1, <3>2
  <2> QED BY <2>2, <2>3, <2>5, <2>6, <2>7, <2>8 DEF TurnHolds, after, h
<1>8. CASE ~Finished(a) /\ (a.status # "ok" \/ Mismatched(h))
  <2> DEFINE next == IF EntryFor(i) # None THEN Bind(s.next, EntryFor(i)) ELSE s.next
  <2>1. after = [s EXCEPT !.retained = @ \cup {i}, !.next = next]
    BY <1>8 DEF SettleOne, Keep, a, i, after
  <2>2. IsMap(next) /\ \A j \in Instance : HostFor(next, j) =
          IF j = i /\ EntryFor(i) # None THEN EntryFor(i) ELSE HostFor(s.next, j)
    BY <1>3, <1>5, BindIsSet
  <2>3. next \in Seq(Host)
    BY <2>2 DEF IsMap
  <2> HIDE DEF next
  <2>4. /\ after \in Settling /\ after.next = next /\ after.retained = s.retained \cup {i}
        /\ after.observed = s.observed /\ after.dead = s.dead
    BY <1>2, <1>3, <2>1, <2>3 DEF Settling
  <2>5. Bindings(after)
    BY <1>3, <2>2, <2>4 DEF Bindings
  <2>6. Observed(after, k + 1)
    BY <1>4, <1>6, <2>2, <2>4 DEF Observed
  <2>7. Buried(after)
    BY <1>3, <2>4 DEF Buried
  <2> QED BY <1>3, <2>2, <2>4, <2>5, <2>6, <2>7 DEF TurnHolds, after, h
<1>9. CASE ~Finished(a) /\ a.status = "ok" /\ ~Mismatched(h)
           /\ i \notin InstancesOf(s.next) /\ Len(s.next) >= MaxEntries
  <2>1. after = s
    BY <1>9 DEF SettleOne, a, i, after
  <2> QED BY <1>3, <1>6, <2>1 DEF TurnHolds, after, h
<1>10. CASE ~Finished(a) /\ a.status = "ok" /\ ~Mismatched(h)
            /\ ~(i \notin InstancesOf(s.next) /\ Len(s.next) >= MaxEntries)
  <2> DEFINE next == Bind(s.next, h)
             seen == Append(s.observed, h)
  <2>1. after = [s EXCEPT !.next = next, !.observed = seen]
    BY <1>10 DEF SettleOne, a, i, after
  <2>2. IsMap(next) /\ \A j \in Instance : HostFor(next, j) = IF j = i THEN h ELSE HostFor(s.next, j)
    BY <1>2, <1>3, BindIsSet DEF i
  <2>3. next \in Seq(Host)
    BY <2>2 DEF IsMap
  <2>4. /\ seen \in Seq(Host) /\ Len(seen) = Len(s.observed) + 1 /\ seen[Len(s.observed) + 1] = h
        /\ \A j \in 1 .. Len(s.observed) : seen[j] = s.observed[j]
    BY <1>2, <1>3
  <2>5. EntryFor(i) \in {None, h}
    BY <1>10 DEF Mismatched, i
  <2> HIDE DEF next, seen
  <2>6. /\ after \in Settling /\ after.next = next /\ after.retained = s.retained
        /\ after.observed = seen /\ after.dead = s.dead
    BY <1>3, <2>1, <2>3, <2>4 DEF Settling
  <2>7. Bindings(after)
    BY <1>3, <2>2, <2>5, <2>6 DEF Bindings
  <2>8. Observed(after, k + 1)
    <3> SUFFICES ASSUME NEW j \in 1 .. Len(seen)
                 PROVE  /\ \E m \in 1 .. k + 1 : seen[j] = round.found[m]
                        /\ round.answers[seen[j]].status = "ok"
                        /\ EntryFor(InstanceOf[seen[j]]) \in {None, seen[j]}
                        /\ HostFor(next, InstanceOf[seen[j]]) = seen[j]
      BY <2>6 DEF Observed
    <3>1. CASE j = Len(s.observed) + 1
      <4>1. seen[j] = h /\ k + 1 \in 1 .. k + 1
        BY <2>4, <3>1
      <4> QED BY <1>2, <1>10, <2>2, <2>5, <4>1 DEF h, i, a
    <3>2. CASE j # Len(s.observed) + 1
      <4>1. j \in 1 .. Len(s.observed) /\ seen[j] = s.observed[j]
        BY <1>3, <2>4, <3>2
      <4> QED BY <1>4, <1>6, <2>2, <4>1 DEF Observed
    <3> QED BY <3>1, <3>2
  <2>9. Buried(after)
    BY <1>3, <2>6 DEF Buried
  <2> QED BY <1>3, <2>2, <2>6, <2>7, <2>8, <2>9 DEF TurnHolds, after, h
<1> QED BY <1>7, <1>8, <1>9, <1>10

LEMMA NamesAreFinite ==
  ASSUME TypeOK, DeadHolds
  PROVE  IsMemory(dead)
<1> DEFINE T == {NameOf[h] : h \in Host}
<1>1. IsFiniteSet(T)
  <2>1. NameOf \in Surjection(Host, T) /\ IsFiniteSet(Host)
    BY DirectoryAssumption DEF Surjection
  <2> QED BY <2>1, FS_Surjection
<1>2. Marked(dead) \subseteq T
  BY DEF Marked, TypeOK, DeadHolds
<1>3. IsFiniteSet(Marked(dead))
  BY <1>1, <1>2, FS_Subset
<1> QED BY <1>3 DEF IsMemory, TypeOK, Marked

(* What the whole loop leaves.                                                             *)
LEMMA TurnsHold ==
  ASSUME TypeOK, FoundHolds, DeadHolds, DOMAIN round.answers = ToSet(round.found)
  PROVE  TurnHolds(Settled, Len(round.found))
<1> DEFINE N == Len(round.found)
           S == {k \in Nat : k <= N => TurnHolds(Turn[k], k)}
<1>1. round.found \in Seq(Host) /\ N \in Nat
  BY DEF TypeOK, PollRound
<1>2. TurnHolds(Turn[0], 0)
  <2> DEFINE first == Carried[Len(entries)]
  <2>1. Turn[0] = FirstTurn
    BY <1>1, TurnIs
  <2>2. /\ IsMap(first) /\ first \in Seq(Host)
        /\ \A i \in Instance : HostFor(first, i) = IF i \in round.retained THEN EntryFor(i) ELSE None
    BY CarriedHolds DEF IsMap
  <2> HIDE DEF first
  <2>3. IsMemory(dead)
    BY NamesAreFinite
  <2>4. round.retained \subseteq Instance /\ dead \in [Name -> Host \cup {None}]
    BY DEF TypeOK, PollRound
  <2>5. /\ FirstTurn \in Settling /\ FirstTurn.next = first /\ FirstTurn.dead = dead
        /\ FirstTurn.retained = round.retained /\ FirstTurn.observed = << >>
    BY <2>2, <2>4 DEF FirstTurn, Settling, first
  <2>6. Bindings(FirstTurn)
    BY <2>2, <2>5 DEF Bindings
  <2>7. Observed(FirstTurn, 0)
    <3>1. \A j \in 1 .. Len(FirstTurn.observed) : FALSE
      BY <2>5
    <3> QED BY <3>1 DEF Observed
  <2>8. Buried(FirstTurn)
    BY <2>5 DEF Buried
  <2> QED BY <2>1, <2>2, <2>3, <2>5, <2>6, <2>7, <2>8 DEF TurnHolds
<1>3. ASSUME NEW k \in Nat, k + 1 <= N, TurnHolds(Turn[k], k) PROVE TurnHolds(Turn[k + 1], k + 1)
  <2>1. k + 1 \in 1 .. N /\ (k + 1) - 1 = k
    BY <1>1, <1>3
  <2>2. Turn[k + 1] = SettleOne(Turn[k], round.found[k + 1])
    BY <1>1, <2>1, TurnIs
  <2> QED BY <1>3, <2>2, SettleOneKeeps
<1>4. 0 \in S /\ \A k \in Nat : k \in S => k + 1 \in S
  <2>1. 0 \in S
    BY <1>2
  <2>2. ASSUME NEW k \in Nat, k \in S PROVE k + 1 \in S
    <3>1. SUFFICES ASSUME k + 1 <= N PROVE TurnHolds(Turn[k + 1], k + 1)
      OBVIOUS
    <3>2. TurnHolds(Turn[k], k)
      BY <1>1, <2>2, <3>1
    <3> QED BY <1>3, <3>1, <3>2
  <2> QED BY <2>1, <2>2
<1>5. N \in S
  BY <1>1, <1>4, SetInduction, Zenon
<1>6. TurnHolds(Turn[N], N)
  BY <1>1, <1>5
<1> QED BY <1>6 DEF Settled

(* A card is as it was, or was read from one of the first k observed hosts.                 *)
CardsFrom(cards, k) ==
  /\ cards \in [Instance -> Card \cup {None}]
  /\ \A i \in Instance :
       \/ cards[i] = card[i]
       \/ \E j \in 1 .. k : /\ InstanceOf[Settled.observed[j]] = i
                            /\ cards[i] \in Card /\ cards[i].host = Settled.observed[j]

LEMMA AnswerType ==
  ASSUME TypeOK, NEW h \in DOMAIN round.answers, round.answers[h].status = "ok"
  PROVE  round.answers[h].generation \in 1 .. MaxGeneration /\ round.answers[h].offer \in Offer
<1>1. round.answers \in UNION {[hosts -> Answer] : hosts \in SUBSET Host}
  BY DEF TypeOK, PollRound
<1>2. PICK hosts \in SUBSET Host : round.answers \in [hosts -> Answer]
  BY <1>1
<1>3. round.answers[h] \in Answer
  BY <1>2
<1> QED BY <1>3 DEF Answer

LEMMA ReconciledHolds ==
  ASSUME TypeOK, FoundHolds, DeadHolds, DOMAIN round.answers = ToSet(round.found)
  PROVE  CardsFrom(Reconciled[Len(Settled.observed)], Len(Settled.observed))
<1> DEFINE seen == Settled.observed
           N == Len(seen)
           S == {k \in Nat : k <= N => CardsFrom(Reconciled[k], k)}
<1>1. TurnHolds(Settled, Len(round.found))
  BY TurnsHold
<1>2. seen \in Seq(Host) /\ N \in Nat /\ Observed(Settled, Len(round.found))
  BY <1>1 DEF TurnHolds, Settling
<1>3. card \in [Instance -> Card \cup {None}]
  BY DEF TypeOK
<1>4. CardsFrom(Reconciled[0], 0)
  <2>1. Reconciled[0] = card
    BY <1>2, ReconciledIs
  <2> QED BY <1>3, <2>1 DEF CardsFrom
<1>5. ASSUME NEW k \in Nat, k + 1 <= N, CardsFrom(Reconciled[k], k)
      PROVE  CardsFrom(Reconciled[k + 1], k + 1)
  <2> DEFINE h == seen[k + 1]
             i == InstanceOf[h]
             a == round.answers[h]
             new == [host |-> h, generation |-> a.generation, offer |-> a.offer]
             was == Reconciled[k]
             now == Reconciled[k + 1]
  <2>1. k + 1 \in 1 .. N /\ (k + 1) - 1 = k
    BY <1>2, <1>5
  <2>2. now = Refreshed(was, h)
    BY <1>2, <2>1, ReconciledIs
  <2>3. h \in Host /\ i \in Instance
    BY <1>2, <2>1, InstanceType
  <2>4. h \in DOMAIN round.answers /\ a.status = "ok"
    <3>1. PICK m \in 1 .. Len(round.found) : h = round.found[m]
      BY <1>2, <2>1 DEF Observed
    <3>2. m \in DOMAIN round.found
      BY DEF TypeOK, PollRound
    <3> QED BY <1>2, <2>1, <3>1, <3>2 DEF Observed, ToSet
  <2>5. new \in Card /\ new.host = h
    BY <2>3, <2>4, AnswerType DEF Card
  <2>6. now = was \/ now = [was EXCEPT ![i] = new]
    BY <2>2 DEF Refreshed
  <2>7. /\ was \in [Instance -> Card \cup {None}]
        /\ \A l \in Instance :
             \/ was[l] = card[l]
             \/ \E j \in 1 .. k : /\ InstanceOf[seen[j]] = l
                                  /\ was[l] \in Card /\ was[l].host = seen[j]
    BY <1>5 DEF CardsFrom
  <2> HIDE DEF h, i, a, new, was, now
  <2>8. now \in [Instance -> Card \cup {None}]
    BY <2>3, <2>5, <2>6, <2>7
  <2>9. ASSUME NEW l \in Instance
        PROVE  \/ now[l] = card[l]
               \/ \E j \in 1 .. k + 1 : /\ InstanceOf[seen[j]] = l
                                        /\ now[l] \in Card /\ now[l].host = seen[j]
    <3>1. CASE now[l] = was[l]
      <4>1. \A j \in 1 .. k : j \in 1 .. k + 1
        OBVIOUS
      <4> QED BY <2>7, <3>1, <4>1
    <3>2. CASE now[l] # was[l]
      <4>1. l = i /\ now[l] = new
        BY <2>3, <2>6, <2>7, <3>2
      <4>2. k + 1 \in 1 .. k + 1 /\ seen[k + 1] = h /\ InstanceOf[h] = i
        BY DEF h, i
      <4> QED BY <2>5, <4>1, <4>2
    <3> QED BY <3>1, <3>2
  <2> QED BY <2>8, <2>9 DEF CardsFrom, now
<1> HIDE DEF seen
<1>6. 0 \in S /\ \A k \in Nat : k \in S => k + 1 \in S
  <2>1. 0 \in S
    BY <1>4
  <2>2. ASSUME NEW k \in Nat, k \in S PROVE k + 1 \in S
    <3>1. SUFFICES ASSUME k + 1 <= N PROVE CardsFrom(Reconciled[k + 1], k + 1)
      OBVIOUS
    <3>2. CardsFrom(Reconciled[k], k)
      BY <1>2, <2>2, <3>1
    <3> QED BY <1>5, <3>1, <3>2
  <2> QED BY <2>1, <2>2
<1>7. N \in S
  BY <1>2, <1>6, SetInduction, Zenon
<1> QED BY <1>2, <1>7 DEF seen

-----------------------------------------------------------------------------
(* What the end of a round does to the bindings, the memory and the cards.                 *)
LEMMA SettleEffect ==
  ASSUME TypeOK, FoundHolds, DeadHolds, CardIsRouted, Settle
  PROVE  /\ entries' \in Seq(Host) /\ Distinct(entries)'
         /\ IsMemory(dead')
         /\ \A n \in Name : dead'[n] # dead[n] =>
              \E h \in DOMAIN round.answers :
                dead'[n] = h /\ NameOf[h] = n /\ round.answers[h].status = "gone"
         /\ \A i \in Instance : EntryFor(i) # None => EntryFor(i)' \in {None, EntryFor(i)}
         /\ card' \in [Instance -> Card \cup {None}]
         /\ \A i \in Instance : card'[i] # None => EntryFor(i)' = card'[i].host
         /\ letGo' = letGo \cup {l \in Launch : /\ launch[l].stage \in {"linking", "minted"}
                                               /\ EntryFor(launch[l].instance)' = None}
         /\ round' = NoRound /\ UNCHANGED <<worldVars, launch>>
<1>1. /\ DOMAIN round.answers = ToSet(round.found)
      /\ entries' = Settled.next /\ dead' = Settled.dead
      /\ round' = NoRound /\ UNCHANGED <<worldVars, launch>>
  BY DEF Settle
<1>2. card' = [i \in Instance |->
                 IF i \in InstancesOf(Settled.observed) \cup Settled.retained
                 THEN Reconciled[Len(Settled.observed)][i] ELSE None]
  BY DEF Settle
<1> DEFINE s == Settled
           cards == Reconciled[Len(Settled.observed)]
<1>3. TurnHolds(s, Len(round.found))
  BY <1>1, TurnsHold
<1>4. CardsFrom(cards, Len(s.observed))
  BY <1>1, ReconciledHolds
<1>5. \A i : EntryFor(i)' = HostFor(s.next, i)
  BY <1>1 DEF EntryFor
<1>6. entries' \in Seq(Host) /\ Distinct(entries)'
  BY <1>1, <1>3 DEF TurnHolds, IsMap, Distinct
<1>7. IsMemory(dead')
  BY <1>1, <1>3 DEF TurnHolds
<1>8. \A n \in Name : dead'[n] # dead[n] =>
        \E h \in DOMAIN round.answers :
          dead'[n] = h /\ NameOf[h] = n /\ round.answers[h].status = "gone"
  BY <1>1, <1>3 DEF TurnHolds, Buried
<1>9. \A i \in Instance : EntryFor(i) # None => EntryFor(i)' \in {None, EntryFor(i)}
  BY <1>3, <1>5 DEF TurnHolds, Bindings
<1>10. card' \in [Instance -> Card \cup {None}]
  BY <1>2, <1>4 DEF CardsFrom
<1>11. ASSUME NEW i \in Instance, card'[i] # None PROVE EntryFor(i)' = card'[i].host
  <2>1. card'[i] = cards[i] /\ i \in InstancesOf(s.observed) \cup s.retained
    BY <1>2, <1>11
  <2>2. s.observed \in Seq(Host) /\ DOMAIN s.observed = 1 .. Len(s.observed)
    BY <1>3 DEF TurnHolds, Settling
  <2>3. \A j \in 1 .. Len(s.observed) :
          /\ EntryFor(InstanceOf[s.observed[j]]) \in {None, s.observed[j]}
          /\ HostFor(s.next, InstanceOf[s.observed[j]]) = s.observed[j]
    BY <1>3 DEF TurnHolds, Observed
  <2>4. CASE cards[i] # card[i]
    BY <1>4, <1>5, <2>1, <2>3, <2>4 DEF CardsFrom
  <2>5. CASE cards[i] = card[i]
    <3>1. card[i] # None /\ EntryFor(i) = card[i].host
      BY <1>11, <2>1, <2>5 DEF CardIsRouted
    <3>2. EntryFor(i) # None
      BY <3>1, <1>11, NoneIsNoHost DEF TypeOK, Card
    <3>3. CASE i \in s.retained
      BY <1>3, <1>5, <2>1, <2>5, <3>1, <3>2, <3>3 DEF TurnHolds, Bindings
    <3>4. CASE i \in InstancesOf(s.observed)
      <4>1. PICK j \in 1 .. Len(s.observed) : InstanceOf[s.observed[j]] = i
        BY <2>2, <3>4 DEF InstancesOf
      <4> QED BY <1>5, <2>1, <2>3, <2>5, <3>1, <3>2, <4>1
    <3> QED BY <2>1, <3>3, <3>4
  <2> QED BY <2>4, <2>5
<1>12. letGo' = letGo \cup {l \in Launch : /\ launch[l].stage \in {"linking", "minted"}
                                          /\ HostFor(Settled.next, launch[l].instance) = None}
  BY DEF Settle
<1>13. \A l \in Launch : EntryFor(launch[l].instance)' = HostFor(Settled.next, launch[l].instance)
  <2>1. launch' = launch
    BY <1>1
  <2> QED BY <1>1, <2>1 DEF EntryFor
<1> QED BY <1>1, <1>6, <1>7, <1>8, <1>9, <1>10, <1>11, <1>12, <1>13

-----------------------------------------------------------------------------
(* What the other steps leave of the invariant.                                            *)

LEMMA NoRoundIs ==
  /\ NoRound \in PollRound /\ NoRound.found = << >> /\ DOMAIN NoRound.answers = {}
  /\ NoRound.stage = "idle"
<1>1. [h \in {} |-> None] \in UNION {[hosts -> Answer] : hosts \in SUBSET Host}
      /\ DOMAIN [h \in {} |-> None] = {}
  <2>1. [h \in {} |-> None] \in [{} -> Answer]
    OBVIOUS
  <2> QED BY <2>1
<1> DEFINE none == [h \in {} |-> None]
<1> HIDE DEF none
<1>2. /\ [n \in Name |-> None] \in [Name -> Instance \cup {None}]
      /\ << >> \in Seq(Name) /\ << >> \in Seq(Host)
  OBVIOUS
<1>3. NoRound = [stage |-> "idle", known |-> [n \in Name |-> None], unread |-> << >>,
                 candidates |-> {}, files |-> 0, found |-> << >>, ambiguous |-> {},
                 retained |-> {}, answers |-> none]
  BY DEF NoRound, none
<1> QED BY <1>1, <1>2, <1>3 DEF PollRound, none

LEMMA EmptyRound ==
  ASSUME round' = NoRound
  PROVE  (round \in PollRound)' /\ FoundHolds' /\ AnswersHold'
<1>1. Len(<< >>) = 0 /\ DOMAIN << >> = {}
  OBVIOUS
<1> QED BY <1>1, NoRoundIs DEF FoundHolds, AnswersHold, Distinct

LEMMA InitInv == Init => Inv
<1> SUFFICES ASSUME Init PROVE Inv
  OBVIOUS
<1>1. round = NoRound /\ NoRound \in PollRound /\ NoRound.found = << >>
      /\ DOMAIN NoRound.answers = {}
  BY NoRoundIs DEF Init
<1>2. Marked(dead) = {} /\ Cardinality({}) = 0 /\ MaxDead \in Nat
  BY FS_EmptySet, DirectoryAssumption DEF Init, Marked
<1>3. << >> \in Seq(Host) /\ DOMAIN << >> = {} /\ Len(<< >>) = 0
  OBVIOUS
<1>4. Cardinality(Host) \in Nat /\ 1 \in 1 .. MaxGeneration /\ 0 \in 0 .. MaxGeneration
      /\ "view" \in Offer
  BY FS_CardinalityType, DirectoryAssumption
<1>5. Idle \in Resolution /\ Idle.stage = "idle"
  BY <1>4 DEF Idle, Resolution
<1>6. TypeOK
  <2>1. file \in [Name -> Host \cup {None}] /\ born \in [Host -> 0 .. Cardinality(Host)]
        /\ alive \subseteq Host /\ room \in [Host -> 1 .. MaxGeneration]
    BY <1>4 DEF Init
  <2>2. entries \in Seq(Host) /\ Distinct(entries) /\ dead \in [Name -> Host \cup {None}]
        /\ Cardinality({n \in Name : dead[n] # None}) <= MaxDead
    <3>1. dead \in [Name -> Host \cup {None}] /\ entries = << >>
      BY DEF Init
    <3>2. Cardinality({n \in Name : dead[n] # None}) <= MaxDead
      BY <1>2 DEF Marked
    <3> QED BY <1>3, <3>1, <3>2 DEF Distinct
  <2>3. round \in PollRound /\ card \in [Instance -> Card \cup {None}]
        /\ launch \in [Launch -> Resolution] /\ letGo \subseteq Launch
    BY <1>1, <1>5 DEF Init
  <2> QED BY <2>1, <2>2, <2>3 DEF TypeOK
<1>7. WorldHolds /\ DeadHolds /\ CardIsRouted
  BY DEF Init, WorldHolds, DeadHolds, CardIsRouted
<1>8. FoundHolds /\ AnswersHold
  BY <1>1, <1>3 DEF FoundHolds, AnswersHold, Distinct
<1>9. LaunchHolds
  BY <1>5 DEF Init, LaunchHolds
<1> QED BY <1>6, <1>7, <1>8, <1>9 DEF Inv

LEMMA PublishKeeps ==
  ASSUME Inv, NEW h \in Host, Publish(h)
  PROVE  Inv'
<1> USE DEF Inv
<1>1. /\ born[h] = 0 /\ (file[NameOf[h]] = None \/ file[NameOf[h]] \notin alive)
      /\ born' = [born EXCEPT ![h] = 1 + Cardinality({g \in Host : born[g] # 0})]
      /\ alive' = alive \cup {h} /\ file' = [file EXCEPT ![NameOf[h]] = h]
      /\ UNCHANGED <<room, entries, dead, round, card, launch, letGo>>
  BY DEF Publish
<1>2. 1 + Cardinality({g \in Host : born[g] # 0}) \in 1 .. Cardinality(Host)
  <2> DEFINE B == {g \in Host : born[g] # 0}
  <2>1. IsFiniteSet(Host) /\ B \subseteq Host /\ h \in Host \ B
    BY <1>1, DirectoryAssumption
  <2>2. B # Host
    BY <2>1
  <2>3. Cardinality(B) \in Nat /\ Cardinality(Host) \in Nat /\ Cardinality(B) < Cardinality(Host)
    BY <2>1, <2>2, FS_Subset, FS_CardinalityType
  <2> QED BY <2>3
<1>3. NameOf[h] \in Name
  BY DirectoryAssumption
<1>4. born \in [Host -> 0 .. Cardinality(Host)] /\ file \in [Name -> Host \cup {None}]
      /\ alive \subseteq Host
  BY DEF TypeOK
<1>5. /\ born' \in [Host -> 0 .. Cardinality(Host)] /\ file' \in [Name -> Host \cup {None}]
      /\ alive' \subseteq Host
      /\ \A g \in Host : born[g] # 0 => born'[g] # 0 /\ g # h
      /\ born'[h] # 0
      /\ \A n \in Name : file'[n] = IF n = NameOf[h] THEN h ELSE file[n]
  <2> DEFINE b == 1 + Cardinality({g \in Host : born[g] # 0})
  <2> HIDE DEF b
  <2>1. b \in 1 .. Cardinality(Host) /\ born' = [born EXCEPT ![h] = b]
    BY <1>1, <1>2 DEF b
  <2>2. b \in 0 .. Cardinality(Host) /\ b # 0
    BY <2>1
  <2> QED BY <1>1, <1>3, <1>4, <2>1, <2>2
<1>6. TypeOK'
  BY <1>1, <1>5 DEF TypeOK, Distinct
<1>7. WorldHolds'
  <2>1. ASSUME NEW n \in Name, file'[n] # None PROVE born'[file'[n]] # 0 /\ NameOf[file'[n]] = n
    BY <1>4, <1>5, <2>1 DEF WorldHolds
  <2>2. ASSUME NEW g \in alive' PROVE born'[g] # 0 /\ file'[NameOf[g]] = g
    <3>1. CASE g = h
      BY <1>3, <1>5, <3>1
    <3>2. CASE g # h
      <4>1. g \in alive /\ g \in Host /\ file[NameOf[g]] = g /\ born[g] # 0 /\ NameOf[g] \in Name
        BY <1>1, <1>4, <2>2, <3>2, DirectoryAssumption DEF WorldHolds
      <4>2. NameOf[g] # NameOf[h]
        BY <1>1, <1>4, <4>1, NoneIsNoHost
      <4> QED BY <1>5, <4>1, <4>2
    <3> QED BY <3>1, <3>2
  <2> QED BY <2>1, <2>2 DEF WorldHolds
<1>8. FoundHolds'
  <2>1. \A k \in 1 .. Len(round.found) : round.found[k] \in Host
    BY DEF TypeOK, PollRound
  <2> QED BY <1>1, <1>5, <2>1 DEF FoundHolds, Distinct
<1>9. AnswersHold'
  <2>1. DOMAIN round.answers \subseteq Host
    BY DEF TypeOK, PollRound
  <2> QED BY <1>1, <1>5, <2>1 DEF AnswersHold
<1>10. DeadHolds'
  <2>1. \A n \in Name : dead[n] \in Host \cup {None}
    BY DEF TypeOK
  <2> QED BY <1>1, <1>5, <2>1 DEF DeadHolds
<1>11. LaunchHolds' /\ CardIsRouted'
  BY <1>1 DEF LaunchHolds, CardIsRouted, EntryFor
<1> QED BY <1>6, <1>7, <1>8, <1>9, <1>10, <1>11

(* Deaths, prunings and new rooms.                                                          *)
LEMMA WorldKeeps ==
  ASSUME Inv, World
  PROVE  Inv'
<1> USE DEF Inv
<1>1. ASSUME NEW h \in Host, Publish(h) PROVE Inv'
  BY <1>1, PublishKeeps
<1>2. ASSUME NEW h \in Host, Die(h) PROVE Inv'
  <2>1. /\ alive' = alive \ {h} /\ room' = [room EXCEPT ![h] = 1]
        /\ UNCHANGED <<file, born, entries, dead, round, card, launch, letGo>>
    BY <1>2 DEF Die
  <2>2. TypeOK'
    <3>1. room' \in [Host -> 1 .. MaxGeneration]
      <4>1. 1 \in 1 .. MaxGeneration
        BY DirectoryAssumption
      <4> QED BY <2>1, <4>1 DEF TypeOK
    <3>2. alive' \subseteq Host
      BY <2>1 DEF TypeOK
    <3> QED BY <2>1, <3>1, <3>2 DEF TypeOK, Distinct
  <2>3. WorldHolds' /\ AnswersHold' /\ DeadHolds'
    BY <2>1 DEF WorldHolds, AnswersHold, DeadHolds
  <2>4. FoundHolds' /\ LaunchHolds' /\ CardIsRouted'
    BY <2>1 DEF FoundHolds, Distinct, LaunchHolds, CardIsRouted, EntryFor
  <2> QED BY <2>2, <2>3, <2>4
<1>3. ASSUME NEW h \in Host, NewRoom(h) PROVE Inv'
  <2>1. /\ room' = [room EXCEPT ![h] = @ + 1] /\ room[h] < MaxGeneration
        /\ UNCHANGED <<file, born, alive, entries, dead, round, card, launch, letGo>>
    BY <1>3 DEF NewRoom
  <2>2. room' \in [Host -> 1 .. MaxGeneration]
    <3>1. room \in [Host -> 1 .. MaxGeneration] /\ MaxGeneration \in Nat
      BY DirectoryAssumption DEF TypeOK
    <3>2. room[h] + 1 \in 1 .. MaxGeneration
      BY <2>1, <3>1
    <3> QED BY <2>1, <3>1, <3>2
  <2>3. TypeOK'
    BY <2>1, <2>2 DEF TypeOK, Distinct
  <2>4. WorldHolds' /\ AnswersHold' /\ DeadHolds'
    BY <2>1 DEF WorldHolds, AnswersHold, DeadHolds
  <2>5. FoundHolds' /\ LaunchHolds' /\ CardIsRouted'
    BY <2>1 DEF FoundHolds, Distinct, LaunchHolds, CardIsRouted, EntryFor
  <2> QED BY <2>3, <2>4, <2>5
<1>4. ASSUME NEW n \in Name, Prune(n) PROVE Inv'
  <2>1. /\ file[n] # None /\ file[n] \notin alive /\ file' = [file EXCEPT ![n] = None]
        /\ UNCHANGED <<born, alive, room, entries, dead, round, card, launch, letGo>>
    BY <1>4 DEF Prune
  <2>2. file' \in [Name -> Host \cup {None}]
        /\ \A m \in Name : file'[m] = IF m = n THEN None ELSE file[m]
    BY <2>1 DEF TypeOK
  <2>3. TypeOK'
    BY <2>1, <2>2 DEF TypeOK, Distinct
  <2>4. WorldHolds'
    <3>1. ASSUME NEW g \in alive PROVE file'[NameOf[g]] = g
      <4>1. g \in Host /\ NameOf[g] \in Name /\ file[NameOf[g]] = g
        BY DirectoryAssumption DEF TypeOK, WorldHolds
      <4> QED BY <2>1, <2>2, <4>1
    <3> QED BY <2>1, <2>2, <3>1 DEF WorldHolds
  <2>5. AnswersHold' /\ DeadHolds'
    BY <2>1 DEF AnswersHold, DeadHolds
  <2>6. FoundHolds' /\ LaunchHolds' /\ CardIsRouted'
    BY <2>1 DEF FoundHolds, Distinct, LaunchHolds, CardIsRouted, EntryFor
  <2> QED BY <2>3, <2>4, <2>5, <2>6
<1> QED BY <1>1, <1>2, <1>3, <1>4 DEF World

(* A file read, or not, in a round that has found what it has found.                        *)
LEMMA ReadKeeps ==
  ASSUME Inv, NEW n \in Name, NEW r \in PollRound,
         r.found = round.found, r.answers = round.answers
  PROVE  /\ Unread(n, r) \in PollRound
         /\ Unread(n, r).found = round.found /\ Unread(n, r).answers = round.answers
         /\ file[n] # None =>
              /\ Read(n, r) \in PollRound /\ Read(n, r).answers = round.answers
              /\ Distinct(Read(n, r).found)
              /\ \A k \in 1 .. Len(Read(n, r).found) : born[Read(n, r).found[k]] # 0
<1> USE DEF Inv
<1>1. /\ r.files \in Nat /\ r.retained \subseteq Instance /\ r.known \in [Name -> Instance \cup {None}]
      /\ r.found \in Seq(Host) /\ r.ambiguous \subseteq Instance
  BY DEF PollRound
<1>2. Unread(n, r) \in PollRound
      /\ Unread(n, r).found = round.found /\ Unread(n, r).answers = round.answers
  <2> DEFINE kept == r.retained \cup
                       (IF file[n] = None THEN {} ELSE IF r.known[n] = None THEN {} ELSE {r.known[n]})
  <2>1. Unread(n, r) = [r EXCEPT !.files = @ + 1, !.retained = kept]
    BY DEF Unread
  <2>2. kept \subseteq Instance /\ r.files + 1 \in Nat
    BY <1>1
  <2> HIDE DEF kept
  <2> QED BY <2>1, <2>2 DEF PollRound
<1>3. ASSUME file[n] # None
      PROVE  /\ Read(n, r) \in PollRound /\ Read(n, r).answers = round.answers
             /\ Distinct(Read(n, r).found)
             /\ \A k \in 1 .. Len(Read(n, r).found) : born[Read(n, r).found[k]] # 0
  <2> DEFINE h == file[n]
             i == InstanceOf[file[n]]
             kept == r.retained \cup ({r.known[n]} \ {None, i})
             once == [r EXCEPT !.files = @ + 1, !.retained = kept]
  <2>1. h \in Host /\ i \in Instance /\ born[h] # 0
    BY <1>3, InstanceType DEF TypeOK, WorldHolds
  <2>2. kept \subseteq Instance /\ r.files + 1 \in Nat
    BY <1>1
  <2>3. IsMap(r.found) /\ \A k \in 1 .. Len(r.found) : born[r.found[k]] # 0
    BY <1>1 DEF IsMap, FoundHolds
  <2> HIDE DEF kept
  <2>4. /\ once \in PollRound /\ once.found = r.found /\ once.answers = round.answers
        /\ once.retained = kept /\ once.ambiguous = r.ambiguous
    BY <2>2 DEF PollRound
  <2>5. CASE i \in r.ambiguous
    <3>1. Read(n, r) = once
      BY <2>5 DEF Read, kept
    <3> QED BY <2>3, <2>4, <3>1 DEF IsMap
  <2>6. CASE i \notin r.ambiguous /\ i \in InstancesOf(r.found)
    <3> DEFINE cut == Unbind(r.found, i)
    <3>1. Read(n, r) = [once EXCEPT !.retained = @ \cup {i}, !.ambiguous = @ \cup {i}, !.found = cut]
      <4>1. Read(n, r) = [once EXCEPT !.retained = @ \cup {i}, !.ambiguous = @ \cup {i},
                                      !.found = Unbind(@, i)]
        BY <2>6 DEF Read, kept
      <4> QED BY <4>1, <2>4
    <3>2. IsMap(cut) /\ \A j \in Instance : HostFor(cut, j) =
            IF j = i THEN None ELSE HostFor(r.found, j)
      BY <2>3, UnbindIsDelete
    <3>3. \A k \in 1 .. Len(cut) : born[cut[k]] # 0
      <4> SUFFICES ASSUME NEW k \in 1 .. Len(cut) PROVE born[cut[k]] # 0
        OBVIOUS
      <4> DEFINE j == InstanceOf[cut[k]]
      <4>1. HostFor(cut, j) = cut[k] /\ cut[k] \in Host
        BY <3>2, PlaceFor
      <4>2. j \in Instance
        BY <4>1, InstanceType
      <4>3. HostFor(r.found, j) = cut[k]
        BY <3>2, <4>1, <4>2, NoneIsNoHost
      <4>4. \E l \in 1 .. Len(r.found) : r.found[l] = cut[k]
        BY <1>1, <4>1, <4>3, HostForIs, NoneIsNoHost
      <4> QED BY <2>3, <4>4
    <3>4. cut \in Seq(Host)
      BY <3>2 DEF IsMap
    <3> HIDE DEF cut
    <3> DEFINE now == Read(n, r)
    <3>5. now \in PollRound /\ now.found = cut /\ now.answers = round.answers
      <4> DEFINE kept2 == kept \cup {i}
                 split == r.ambiguous \cup {i}
      <4>1. kept2 \subseteq Instance /\ split \subseteq Instance
        BY <1>1, <2>1, <2>2
      <4>2. Read(n, r) = [once EXCEPT !.retained = kept2, !.ambiguous = split, !.found = cut]
        BY <2>4, <3>1
      <4> HIDE DEF kept2, split, once
      <4> QED BY <2>4, <3>4, <4>1, <4>2 DEF PollRound
    <3> QED BY <3>2, <3>3, <3>5 DEF IsMap
  <2>7. CASE i \notin r.ambiguous /\ i \notin InstancesOf(r.found)
    <3> DEFINE more == Append(r.found, h)
    <3>1. Read(n, r) = [once EXCEPT !.found = more]
      <4>1. Read(n, r) = [once EXCEPT !.found = Append(@, file[n])]
        BY <2>7 DEF Read, kept
      <4> QED BY <4>1, <2>4
    <3>2. /\ more \in Seq(Host) /\ Len(more) = Len(r.found) + 1 /\ more[Len(r.found) + 1] = h
          /\ \A k \in 1 .. Len(r.found) : more[k] = r.found[k]
          /\ DOMAIN more = 1 .. Len(more) /\ Len(r.found) \in Nat
          /\ DOMAIN r.found = 1 .. Len(r.found)
      BY <1>1, <2>1
    <3> HIDE DEF more
    <3>3. \A k \in 1 .. Len(more) :
            \/ k = Len(r.found) + 1 /\ more[k] = h
            \/ k \in 1 .. Len(r.found) /\ more[k] = r.found[k] /\ InstanceOf[more[k]] # i
      <4> SUFFICES ASSUME NEW k \in 1 .. Len(more), k # Len(r.found) + 1
                   PROVE  k \in 1 .. Len(r.found) /\ more[k] = r.found[k] /\ InstanceOf[more[k]] # i
        BY <3>2
      <4>1. k \in 1 .. Len(r.found) /\ more[k] = r.found[k]
        BY <3>2
      <4> QED BY <2>7, <3>2, <4>1 DEF InstancesOf
    <3>4. Distinct(more)
      <4> SUFFICES ASSUME NEW j \in 1 .. Len(more), NEW k \in 1 .. Len(more),
                          InstanceOf[more[j]] = InstanceOf[more[k]]
                   PROVE  j = k
        BY <3>2 DEF Distinct
      <4>1. CASE j = Len(r.found) + 1 \/ k = Len(r.found) + 1
        BY <3>2, <3>3, <4>1
      <4>2. CASE j # Len(r.found) + 1 /\ k # Len(r.found) + 1
        BY <2>3, <3>2, <3>3, <4>2, SMTT(30) DEF IsMap, Distinct
      <4> QED BY <4>1, <4>2
    <3>5. \A k \in 1 .. Len(more) : born[more[k]] # 0
      BY <2>1, <2>3, <3>3
    <3> DEFINE now == Read(n, r)
    <3>6. now \in PollRound /\ now.found = more /\ now.answers = round.answers
      BY <2>4, <3>1, <3>2 DEF PollRound
    <3> QED BY <3>4, <3>5, <3>6
  <2> QED BY <2>5, <2>6, <2>7
<1> QED BY <1>2, <1>3

(* A step that changes the round only, for another one whose found hosts were published     *)
(* and whose answers are still right.                                                       *)
LEMMA RoundOnly ==
  ASSUME Inv, UNCHANGED <<worldVars, entries, dead, card, launch, letGo>>,
         (round \in PollRound)', FoundHolds', AnswersHold'
  PROVE  Inv'
<1> USE DEF Inv
<1>1. UNCHANGED <<file, born, alive, room>>
  BY DEF worldVars
<1>2. TypeOK'
  BY <1>1 DEF TypeOK, Distinct
<1>3. WorldHolds' /\ DeadHolds'
  BY <1>1 DEF WorldHolds, DeadHolds
<1>4. LaunchHolds' /\ CardIsRouted'
  BY DEF LaunchHolds, CardIsRouted, EntryFor
<1> QED BY <1>2, <1>3, <1>4

(* The last of a set of places.                                                             *)
LEMMA LastOne ==
  ASSUME NEW N \in Nat, NEW S \in SUBSET (1 .. N), S # {}
  PROVE  \E k \in S : \A j \in S : j <= k
<1> DEFINE T == {N - k : k \in S}
<1>1. T \subseteq Nat /\ T # {}
  <2>1. \A k \in S : N - k \in Nat
    OBVIOUS
  <2> QED BY <2>1
<1>2. PICK t \in T : \A u \in T : ~ (<<u, t>> \in OpToRel(<, Nat))
  BY <1>1, WFMin, NatLessThanWellFounded, Zenon
<1>3. PICK k \in S : t = N - k
  BY <1>2
<1>4. ASSUME NEW j \in S PROVE j <= k
  <2>1. N - j \in T /\ N - j \in Nat /\ t \in Nat
    BY <1>1
  <2>2. ~ (N - j < t)
    <3> SUFFICES ASSUME N - j < t PROVE FALSE
      OBVIOUS
    <3>1. <<N - j, t>> \in Nat \X Nat /\ <<N - j, t>>[1] < <<N - j, t>>[2]
      BY <2>1
    <3>2. <<N - j, t>> \in OpToRel(<, Nat)
      BY <3>1 DEF OpToRel
    <3> QED BY <1>2, <2>1, <3>2
  <2>3. j \in 1 .. N /\ k \in 1 .. N
    OBVIOUS
  <2> QED BY <1>3, <2>2, <2>3
<1> QED BY <1>4

(* The files a round starts from.                                                           *)
LEMMA KnownType ==
  ASSUME TypeOK
  PROVE  KnownFiles \in [Name -> Instance \cup {None}] /\ KnownNames \in Seq(Name)
<1>1. entries \in Seq(Host) /\ Len(entries) \in Nat /\ DOMAIN entries = 1 .. Len(entries)
  BY DEF TypeOK
<1>2. ASSUME NEW n \in Name PROVE KnownFiles[n] \in Instance \cup {None}
  <2> DEFINE at == {k \in DOMAIN entries : NameOf[entries[k]] = n}
             last == CHOOSE k \in at : \A j \in at : j <= k
  <2>1. KnownFiles[n] = IF at = {} THEN None ELSE InstanceOf[entries[last]]
    BY DEF KnownFiles
  <2>2. CASE at # {}
    <3>1. at \in SUBSET (1 .. Len(entries))
      BY <1>1
    <3> HIDE DEF at
    <3>2. \E k \in at : \A j \in at : j <= k
      BY <1>1, <2>2, <3>1, LastOne
    <3>3. last \in 1 .. Len(entries)
      BY <3>1, <3>2
    <3>4. entries[last] \in Host
      BY <1>1, <3>3
    <3> QED BY <2>1, <2>2, <3>4, InstanceType
  <2> QED BY <2>1, <2>2
<1>3. KnownFiles \in [Name -> Instance \cup {None}]
  BY <1>2 DEF KnownFiles
<1> DEFINE N == Len(entries)
           S == {k \in Nat : k <= N => NamesOf[k] \in Seq(Name)}
<1>4. 0 \in S
  <2>1. NamesOf[0] = << >>
    BY <1>1, NamesOfIs
  <2>2. NamesOf[0] \in Seq(Name)
    BY <2>1
  <2> QED BY <2>2
<1>5. ASSUME NEW k \in Nat, k \in S PROVE k + 1 \in S
  <2>1. SUFFICES ASSUME k + 1 <= N PROVE NamesOf[k + 1] \in Seq(Name)
    OBVIOUS
  <2>2. k + 1 \in 1 .. N /\ (k + 1) - 1 = k /\ NamesOf[k] \in Seq(Name)
    BY <1>1, <1>5, <2>1
  <2>3. NamesOf[k + 1] = NamesOf[k] \/ NamesOf[k + 1] = Append(NamesOf[k], NameOf[entries[k + 1]])
    BY <1>1, <2>2, NamesOfIs
  <2>4. NameOf[entries[k + 1]] \in Name
    BY <1>1, <2>2, DirectoryAssumption
  <2> QED BY <2>2, <2>3, <2>4, SMTT(30)
<1>6. N \in S
  BY <1>1, <1>4, <1>5, SetInduction, Zenon
<1>7. KnownNames \in Seq(Name)
  BY <1>1, <1>6 DEF KnownNames
<1> QED BY <1>3, <1>7

LEMMA BeginRoundKeeps ==
  ASSUME Inv, BeginRound
  PROVE  Inv'
<1>1. /\ round' = [NoRound EXCEPT !.stage = "known", !.known = KnownFiles, !.unread = KnownNames]
      /\ UNCHANGED <<worldVars, entries, dead, card, launch, letGo>>
  BY DEF BeginRound
<1>2. KnownFiles \in [Name -> Instance \cup {None}] /\ KnownNames \in Seq(Name)
  BY KnownType DEF Inv
<1>3. /\ round' \in PollRound /\ round'.found = << >> /\ DOMAIN round'.answers = {}
  BY <1>1, <1>2, NoRoundIs DEF PollRound
<1>4. Len(<< >>) = 0 /\ DOMAIN << >> = {}
  OBVIOUS
<1>5. FoundHolds' /\ AnswersHold'
  BY <1>3, <1>4 DEF FoundHolds, AnswersHold, Distinct
<1> QED BY <1>1, <1>3, <1>5, RoundOnly

LEMMA DirectoryLostKeeps ==
  ASSUME Inv, DirectoryLost
  PROVE  Inv'
<1>1. /\ \/ round' = [NoRound EXCEPT !.stage = "query"]
         \/ round' = [NoRound EXCEPT !.stage = "query", !.retained = InstancesOf(entries)]
      /\ UNCHANGED <<worldVars, entries, dead, card, launch, letGo>>
  BY DEF DirectoryLost
<1>2. InstancesOf(entries) \subseteq Instance
  <2>1. \A k \in DOMAIN entries : entries[k] \in Host
    BY DEF Inv, TypeOK
  <2> QED BY <2>1, InstanceType DEF InstancesOf
<1>3. /\ round' \in PollRound /\ round'.found = << >> /\ DOMAIN round'.answers = {}
  BY <1>1, <1>2, NoRoundIs DEF PollRound
<1>4. Len(<< >>) = 0 /\ DOMAIN << >> = {}
  OBVIOUS
<1>5. FoundHolds' /\ AnswersHold'
  BY <1>3, <1>4 DEF FoundHolds, AnswersHold, Distinct
<1> QED BY <1>1, <1>3, <1>5, RoundOnly

(* A file is read, or fails to be, whether it was known or is new.                          *)
LEMMA ReadStepKeeps ==
  ASSUME Inv, NEW n \in Name, NEW r \in PollRound,
         r.found = round.found, r.answers = round.answers,
         round' = Unread(n, r) \/ (file[n] # None /\ round' = Read(n, r)),
         UNCHANGED <<worldVars, entries, dead, card, launch, letGo>>
  PROVE  Inv'
<1>1. /\ (round \in PollRound)' /\ round'.answers = round.answers
      /\ Distinct(round'.found)
      /\ \A k \in 1 .. Len(round'.found) : born[round'.found[k]] # 0
  BY ReadKeeps DEF Inv, FoundHolds
<1>2. born' = born /\ alive' = alive
  BY DEF worldVars
<1>3. FoundHolds' /\ AnswersHold'
  BY <1>1, <1>2 DEF FoundHolds, AnswersHold, Distinct, Inv
<1> QED BY <1>1, <1>3, RoundOnly

LEMMA RevisitKeeps ==
  ASSUME Inv, NEW n \in Name, Revisit(n) \/ RevisitFails(n)
  PROVE  Inv'
<1> DEFINE r == [round EXCEPT !.unread = Tail(@)]
<1>1. round.unread \in Seq(Name) /\ round.unread # << >> /\ round \in PollRound
  BY DEF Revisit, RevisitFails, Revisits, Inv, TypeOK, PollRound
<1>2. r \in PollRound /\ r.found = round.found /\ r.answers = round.answers
  <2> DEFINE rest == Tail(round.unread)
  <2>1. rest \in Seq(Name)
    BY <1>1
  <2> HIDE DEF rest
  <2>2. r = [round EXCEPT !.unread = rest]
    BY DEF rest
  <2> QED BY <1>1, <2>1, <2>2 DEF PollRound
<1>3. /\ round' = Unread(n, r) \/ (file[n] # None /\ round' = Read(n, r))
      /\ UNCHANGED <<worldVars, entries, dead, card, launch, letGo>>
  BY DEF Revisit, RevisitFails, Revisits
<1> HIDE DEF r
<1> QED BY <1>2, <1>3, ReadStepKeeps

LEMMA DiscoverKeeps ==
  ASSUME Inv, NEW h \in Host, Discover(h) \/ DiscoverFails(h)
  PROVE  Inv'
<1> DEFINE r == [round EXCEPT !.candidates = @ \ {h}]
<1>1. round \in PollRound /\ round.candidates \subseteq Host /\ NameOf[h] \in Name
  BY DirectoryAssumption DEF Inv, TypeOK, PollRound
<1>2. r \in PollRound /\ r.found = round.found /\ r.answers = round.answers
  BY <1>1 DEF PollRound
<1>3. /\ \/ round' = Unread(NameOf[h], r)
         \/ file[NameOf[h]] # None /\ round' = Read(NameOf[h], r)
      /\ UNCHANGED <<worldVars, entries, dead, card, launch, letGo>>
  BY DEF Discover, DiscoverFails, Discovers
<1> HIDE DEF r
<1> QED BY <1>1, <1>2, <1>3, ReadStepKeeps

LEMMA ReadDoneKeeps ==
  ASSUME Inv, ReadDone
  PROVE  Inv'
<1>1. /\ round' = [round EXCEPT !.stage = "query", !.candidates = {}]
      /\ UNCHANGED <<worldVars, entries, dead, card, launch, letGo>>
  BY DEF ReadDone
<1>2. (round \in PollRound)' /\ round'.found = round.found /\ round'.answers = round.answers
  BY <1>1 DEF Inv, TypeOK, PollRound
<1>3. born' = born /\ alive' = alive
  BY <1>1 DEF worldVars
<1>4. FoundHolds' /\ AnswersHold'
  BY <1>2, <1>3 DEF FoundHolds, AnswersHold, Distinct, Inv
<1> QED BY <1>1, <1>2, <1>4, RoundOnly

(* A scan only forgets the dead.                                                            *)
LEMMA ScanKeeps ==
  ASSUME Inv, Scan
  PROVE  Inv'
<1> USE DEF Inv
<1>1. PICK scanned \in Scans :
        /\ dead' = Remembered(scanned, round.known)
        /\ round' = [round EXCEPT !.stage = "read",
                       !.candidates = {file[n] : n \in {m \in scanned :
                          /\ round.known[m] = None
                          /\ m \notin SeenDead(scanned, round.known)}}]
  BY DEF Scan
<1>2. UNCHANGED <<worldVars, entries, card, launch, letGo>>
  BY DEF Scan
<1>3. UNCHANGED <<file, born, alive, room>>
  BY <1>2 DEF worldVars
<1> DEFINE found == {file[n] : n \in {m \in scanned :
                       /\ round.known[m] = None
                       /\ m \notin SeenDead(scanned, round.known)}}
<1>4. found \subseteq Host
  <2>1. \A n \in scanned : n \in Name /\ file[n] # None
    BY DEF Scans
  <2> QED BY <2>1 DEF TypeOK
<1>5. round' = [round EXCEPT !.stage = "read", !.candidates = found]
  BY <1>1
<1> HIDE DEF found
<1>6. (round \in PollRound)' /\ round'.found = round.found /\ round'.answers = round.answers
  BY <1>4, <1>5 DEF TypeOK, PollRound
<1>7. dead' \in [Name -> Host \cup {None}] /\ \A n \in Name : dead'[n] \in {None, dead[n]}
  <2>1. \A n \in Name : Remembered(scanned, round.known)[n] \in {None, dead[n]}
    BY DEF Remembered
  <2>2. dead' = [n \in Name |-> dead'[n]]
    BY <1>1 DEF Remembered
  <2>3. \A n \in Name : dead[n] \in Host \cup {None}
    BY DEF TypeOK
  <2> QED BY <1>1, <2>1, <2>2, <2>3
<1>8. Cardinality(Marked(dead')) <= MaxDead
  <2>1. IsFiniteSet(Marked(dead)) /\ Cardinality(Marked(dead)) <= MaxDead
    BY NamesAreFinite DEF IsMemory
  <2>2. Marked(dead') \subseteq Marked(dead)
    BY <1>7 DEF Marked
  <2>3. /\ Cardinality(Marked(dead')) <= Cardinality(Marked(dead))
        /\ Cardinality(Marked(dead')) \in Nat /\ Cardinality(Marked(dead)) \in Nat
    BY <2>1, <2>2, FS_Subset, FS_CardinalityType
  <2> QED BY <2>1, <2>3, DirectoryAssumption
<1>9. TypeOK'
  <2>1. Cardinality({n \in Name : dead'[n] # None}) <= MaxDead
    BY <1>8 DEF Marked
  <2> QED BY <1>2, <1>3, <1>6, <1>7, <2>1 DEF TypeOK, Distinct
<1>10. WorldHolds' /\ DeadHolds'
  BY <1>3, <1>7 DEF WorldHolds, DeadHolds
<1>11. FoundHolds' /\ AnswersHold'
  BY <1>3, <1>6 DEF FoundHolds, AnswersHold, Distinct
<1>12. LaunchHolds' /\ CardIsRouted'
  BY <1>2 DEF LaunchHolds, CardIsRouted, EntryFor
<1> QED BY <1>9, <1>10, <1>11, <1>12

LEMMA AnsweredKeeps ==
  ASSUME Inv, NEW h \in Host, NEW a \in Answer, Answered(h, a),
         a.status = "gone" => h \notin alive
  PROVE  Inv'
<1> USE DEF Inv
<1> DEFINE answers == [g \in DOMAIN round.answers \cup {h} |->
                         IF g = h THEN a ELSE round.answers[g]]
<1>1. /\ h \in ToSet(round.found) /\ round' = [round EXCEPT !.answers = answers]
      /\ UNCHANGED <<worldVars, entries, dead, card, launch, letGo>>
  BY DEF Answered
<1>2. PICK hosts \in SUBSET Host : round.answers \in [hosts -> Answer]
  BY DEF TypeOK, PollRound
<1>3. answers \in [hosts \cup {h} -> Answer] /\ hosts \cup {h} \in SUBSET Host
  BY <1>2
<1>4. answers \in UNION {[gs -> Answer] : gs \in SUBSET Host}
  BY <1>3
<1>5. born[h] # 0
  <2>1. DOMAIN round.found = 1 .. Len(round.found)
    BY DEF TypeOK, PollRound
  <2>2. PICK k \in DOMAIN round.found : round.found[k] = h
    BY <1>1 DEF ToSet
  <2> QED BY <2>1, <2>2 DEF FoundHolds
<1>6. DOMAIN answers = DOMAIN round.answers \cup {h} /\ answers[h] = a
      /\ \A g \in DOMAIN round.answers : g # h => answers[g] = round.answers[g]
  OBVIOUS
<1> HIDE DEF answers
<1>7. (round \in PollRound)' /\ round'.found = round.found /\ round'.answers = answers
  BY <1>1, <1>4 DEF TypeOK, PollRound
<1>8. born' = born /\ alive' = alive
  BY <1>1 DEF worldVars
<1>9. FoundHolds'
  BY <1>7, <1>8 DEF FoundHolds, Distinct
<1>10. AnswersHold'
  BY <1>5, <1>6, <1>7, <1>8 DEF AnswersHold
<1> QED BY <1>1, <1>7, <1>9, <1>10, RoundOnly

LEMMA QueryKeeps ==
  ASSUME Inv, NEW h \in Host, QueryFails(h) \/ QuerySettles(h)
  PROVE  Inv'
<1>1. CASE QueryFails(h)
  <2>1. [status |-> "unavailable"] \in Answer /\ [status |-> "unavailable"].status # "gone"
    BY DEF Answer
  <2> QED BY <1>1, <2>1, AnsweredKeeps DEF QueryFails
<1>2. CASE h \notin alive /\ Answered(h, [status |-> "gone"])
  <2>1. [status |-> "gone"] \in Answer
    BY DEF Answer
  <2> QED BY <1>2, <2>1, AnsweredKeeps
<1>3. ASSUME NEW o \in Offer,
             Answered(h, [status |-> "ok", generation |-> room[h], offer |-> o])
      PROVE  Inv'
  <2> DEFINE a == [status |-> "ok", generation |-> room[h], offer |-> o]
  <2>1. room[h] \in 1 .. MaxGeneration
    BY DEF Inv, TypeOK
  <2>2. a \in Answer /\ a.status # "gone"
    BY <2>1 DEF Answer
  <2> HIDE DEF a
  <2> QED BY <1>3, <2>2, AnsweredKeeps DEF a
<1> QED BY <1>1, <1>2, <1>3 DEF QuerySettles

LEMMA SettleKeeps ==
  ASSUME Inv, Settle
  PROVE  Inv'
<1> USE DEF Inv
<1>1. /\ entries' \in Seq(Host) /\ Distinct(entries)' /\ IsMemory(dead')
      /\ \A n \in Name : dead'[n] # dead[n] =>
           \E h \in DOMAIN round.answers :
             dead'[n] = h /\ NameOf[h] = n /\ round.answers[h].status = "gone"
      /\ card' \in [Instance -> Card \cup {None}]
      /\ \A i \in Instance : card'[i] # None => EntryFor(i)' = card'[i].host
      /\ round' = NoRound /\ UNCHANGED <<worldVars, launch>>
      /\ \A i \in Instance : EntryFor(i) # None => EntryFor(i)' \in {None, EntryFor(i)}
      /\ letGo' = letGo \cup {l \in Launch : /\ launch[l].stage \in {"linking", "minted"}
                                            /\ EntryFor(launch[l].instance)' = None}
  BY SettleEffect
<1>2. UNCHANGED <<file, born, alive, room>>
  BY <1>1 DEF worldVars
<1>3. (round \in PollRound)' /\ FoundHolds' /\ AnswersHold'
  BY <1>1, EmptyRound
<1>4. TypeOK'
  <2>1. dead' \in [Name -> Host \cup {None}] /\ Cardinality({n \in Name : dead'[n] # None}) <= MaxDead
    BY <1>1 DEF IsMemory, Marked
  <2> QED BY <1>1, <1>2, <1>3, <2>1 DEF TypeOK
<1>5. DeadHolds'
  <2> SUFFICES ASSUME NEW n \in Name, dead'[n] # None
               PROVE  NameOf[dead'[n]] = n /\ born[dead'[n]] # 0 /\ dead'[n] \notin alive
    BY <1>2 DEF DeadHolds
  <2>1. CASE dead'[n] = dead[n]
    BY <2>1 DEF DeadHolds
  <2>2. CASE dead'[n] # dead[n]
    BY <1>1, <2>2 DEF AnswersHold
  <2> QED BY <2>1, <2>2
<1>6. WorldHolds'
  BY <1>1, <1>2 DEF WorldHolds
<1>7. CardIsRouted'
  BY <1>1 DEF CardIsRouted
<1>8. LaunchHolds'
  <2>1. launch' = launch /\ \A l \in Launch : launch[l].instance \in Instance \cup {None}
    BY <1>1 DEF TypeOK, Resolution
  <2>2. ASSUME NEW l \in Launch, launch'[l].stage \in {"linking", "minted"}, l \notin letGo'
        PROVE  HostFor(entries', launch'[l].instance) = launch'[l].host /\ launch'[l].host # None
    <3> DEFINE i == launch[l].instance
    <3>1. EntryFor(i) = launch[l].host /\ launch[l].host # None
      BY <1>1, <2>1, <2>2 DEF LaunchHolds
    <3>2. i \in Instance
      BY <3>1, <2>1, EntryForIs, InstanceType
    <3>3. HostFor(entries', i) # None
      BY <1>1, <2>1, <2>2 DEF EntryFor
    <3> HIDE DEF i
    <3>4. HostFor(entries', i) = EntryFor(i)
      BY <1>1, <3>1, <3>2, <3>3 DEF EntryFor
    <3> QED BY <2>1, <3>1, <3>4 DEF i
  <2>3. ASSUME NEW l \in Launch, launch'[l].stage \in {"minted", "released"}
        PROVE  launch'[l].minted = launch'[l].generation
    BY <2>1, <2>3 DEF LaunchHolds
  <2> QED BY <2>2, <2>3 DEF LaunchHolds, EntryFor
<1> QED BY <1>3, <1>4, <1>5, <1>6, <1>7, <1>8

LEMMA ExpireKeeps ==
  ASSUME Inv, NEW i \in Instance, Expire(i)
  PROVE  Inv'
<1> USE DEF Inv
<1>1. card' = [card EXCEPT ![i] = None] /\ UNCHANGED <<worldVars, entries, dead, round, launch, letGo>>
  BY DEF Expire
<1>2. UNCHANGED <<file, born, alive, room>>
  BY <1>1 DEF worldVars
<1>3. card' \in [Instance -> Card \cup {None}] /\ \A j \in Instance : card'[j] \in {None, card[j]}
  BY <1>1 DEF TypeOK
<1>4. TypeOK'
  BY <1>1, <1>2, <1>3 DEF TypeOK, Distinct
<1>5. WorldHolds' /\ DeadHolds' /\ FoundHolds' /\ AnswersHold'
  BY <1>1, <1>2 DEF WorldHolds, DeadHolds, FoundHolds, AnswersHold, Distinct
<1>6. LaunchHolds' /\ CardIsRouted'
  BY <1>1, <1>3 DEF LaunchHolds, CardIsRouted, EntryFor
<1> QED BY <1>4, <1>5, <1>6

(* A step of one launch.                                                                    *)
LEMMA LaunchOnly ==
  ASSUME Inv, NEW l \in Launch, NEW new \in Resolution,
         new.stage \in {"minted", "released"} => new.minted = new.generation,
         launch' = [launch EXCEPT ![l] = new], letGo' \in {letGo, letGo \ {l}},
         new.stage \in {"linking", "minted"} /\ l \notin letGo' =>
           EntryFor(new.instance) = new.host /\ new.host # None,
         UNCHANGED <<worldVars, entries, dead, round, card>>
  PROVE  Inv'
<1> USE DEF Inv
<1>1. UNCHANGED <<file, born, alive, room>>
  BY DEF worldVars
<1>2. launch \in [Launch -> Resolution]
  BY DEF TypeOK
<1>3. launch' \in [Launch -> Resolution]
      /\ \A k \in Launch : launch'[k] = IF k = l THEN new ELSE launch[k]
  BY <1>2
<1>4. TypeOK'
  BY <1>1, <1>3 DEF TypeOK, Distinct
<1>5. WorldHolds' /\ DeadHolds' /\ FoundHolds' /\ AnswersHold'
  BY <1>1 DEF WorldHolds, DeadHolds, FoundHolds, AnswersHold, Distinct
<1>6. CardIsRouted' /\ \A i : EntryFor(i)' = EntryFor(i)
  BY DEF CardIsRouted, EntryFor
<1>7. LaunchHolds'
  <2>1. ASSUME NEW k \in Launch, k # l, launch[k].stage \in {"linking", "minted"}, k \notin letGo'
        PROVE  EntryFor(launch[k].instance) = launch[k].host /\ launch[k].host # None
    BY <2>1 DEF LaunchHolds
  <2>2. ASSUME NEW k \in Launch
        PROVE  /\ launch'[k].stage \in {"minted", "released"} =>
                    launch'[k].minted = launch'[k].generation
               /\ launch'[k].stage \in {"linking", "minted"} /\ k \notin letGo' =>
                    HostFor(entries', launch'[k].instance) = launch'[k].host /\ launch'[k].host # None
    <3>1. CASE k = l
      <4>1. launch'[k] = new
        BY <1>3, <3>1
      <4> QED BY <3>1, <4>1 DEF EntryFor
    <3>2. CASE k # l
      <4>1. launch'[k] = launch[k]
        BY <1>3, <3>2
      <4>2. launch[k].stage \in {"minted", "released"} => launch[k].minted = launch[k].generation
        BY DEF LaunchHolds
      <4> QED BY <2>1, <3>2, <4>1, <4>2 DEF EntryFor
    <3> QED BY <3>1, <3>2
  <2> QED BY <2>2 DEF LaunchHolds, EntryFor
<1> QED BY <1>4, <1>5, <1>6, <1>7

LEMMA ResolveKeeps ==
  ASSUME Inv, NEW l \in Launch, Resolve(l)
  PROVE  Inv'
<1> USE DEF Inv
<1>1. launch \in [Launch -> Resolution] /\ launch[l] \in Resolution
  BY DEF TypeOK
<1>2. 1 \in 1 .. MaxGeneration /\ 0 \in 0 .. MaxGeneration /\ MaxGeneration \in Nat
  BY DirectoryAssumption
<1>3. Idle \in Resolution /\ Idle.stage = "idle"
  BY <1>2, DirectoryAssumption DEF Idle, Resolution
<1>4. ASSUME NEW i \in Instance, NEW g \in 1 .. MaxGeneration, NEW want \in Offer,
             Press(l, i, g, want)
      PROVE  Inv'
  <2> DEFINE h == EntryFor(i)
             new == [stage |-> "linking", instance |-> i, generation |-> g, want |-> want,
                     host |-> h, minted |-> 0]
  <2>1. h \in Host \cup {None}
    BY EntryForIs
  <2>2. launch' = [launch EXCEPT ![l] = new] /\ UNCHANGED <<worldVars, entries, dead, round, card, letGo>>
    BY <1>4 DEF Press
  <2>4. h # None
    <3>1. card[i] # None /\ h = card[i].host
      BY <1>4 DEF Press, Authorized, CardIsRouted
    <3>2. card[i].host \in Host
      BY <3>1 DEF TypeOK, Card
    <3> QED BY <3>1, <3>2, NoneIsNoHost
  <2>5. EntryFor(i) = h
    OBVIOUS
  <2> HIDE DEF h
  <2>3. new \in Resolution /\ new.stage = "linking" /\ EntryFor(new.instance) = new.host /\ new.host # None
    BY <1>2, <2>1, <2>4, <2>5 DEF Resolution
  <2> HIDE DEF new
  <2> QED BY <2>2, <2>3, LaunchOnly
<1>5. CASE Link(l)
  <2>1. UNCHANGED <<worldVars, entries, dead, round, card>>
    BY <1>5 DEF Link
  <2>2. CASE launch' = [launch EXCEPT ![l] = Idle] /\ letGo' = letGo \ {l}
    BY <1>3, <2>1, <2>2, LaunchOnly
  <2>3. CASE /\ Mints(launch[l].host, launch[l].generation)
             /\ launch' = [launch EXCEPT ![l].stage = "minted",
                                         ![l].minted = room[launch[l].host]]
             /\ UNCHANGED letGo
    <3> DEFINE m == room[launch[l].host]
               new == [launch[l] EXCEPT !.stage = "minted", !.minted = m]
    <3>1. launch[l].host \in Host /\ m = launch[l].generation
      BY <2>3 DEF Mints, TypeOK
    <3>2. launch[l].generation \in 1 .. MaxGeneration
      BY <1>1 DEF Resolution
    <3>3. m \in 0 .. MaxGeneration
      BY <1>2, <3>1, <3>2
    <3>4. launch' = [launch EXCEPT ![l] = new]
      BY <1>1, <2>3
    <3> HIDE DEF m
    <3>5. new \in Resolution /\ new.minted = new.generation
          /\ new.instance = launch[l].instance /\ new.host = launch[l].host
      BY <1>1, <3>1, <3>3 DEF Resolution
    <3>6. l \notin letGo' => EntryFor(new.instance) = new.host /\ new.host # None
      BY <1>5, <2>3, <3>5 DEF LaunchHolds, Link
    <3> HIDE DEF new
    <3> QED BY <2>1, <2>3, <3>4, <3>5, <3>6, LaunchOnly
  <2> QED BY <1>5, <2>2, <2>3 DEF Link
<1>6. CASE Release(l)
  <2> DEFINE ok == Authorized(launch[l].instance, launch[l].generation, launch[l].want)
             new == [launch[l] EXCEPT !.stage = "released"]
  <2>1. launch[l].stage = "minted" /\ UNCHANGED <<worldVars, entries, dead, round, card>>
        /\ (launch' = [launch EXCEPT ![l] = new] \/ launch' = [launch EXCEPT ![l] = Idle])
        /\ letGo' = letGo \ {l}
    BY <1>1, <1>6 DEF Release
  <2>2. new \in Resolution /\ new.stage = "released" /\ new.minted = launch[l].minted /\ new.generation = launch[l].generation
    BY <1>1 DEF Resolution
  <2>3. launch[l].minted = launch[l].generation
    BY <2>1 DEF LaunchHolds
  <2> HIDE DEF new
  <2> QED BY <1>3, <2>1, <2>2, <2>3, LaunchOnly
<1>7. CASE Respond(l)
  <2>1. launch' = [launch EXCEPT ![l] = Idle] /\ UNCHANGED <<worldVars, entries, dead, round, card, letGo>>
    BY <1>7 DEF Respond
  <2> QED BY <1>3, <2>1, LaunchOnly
<1> QED BY <1>4, <1>5, <1>6, <1>7 DEF Resolve

LEMMA NextInv == Inv /\ [Next]_vars => Inv'
<1> SUFFICES ASSUME Inv, [Next]_vars PROVE Inv'
  OBVIOUS
<1>1. CASE World
  BY <1>1, WorldKeeps
<1>2. CASE Round
  <2>1. CASE BeginRound \/ Scan \/ ReadDone \/ Settle
    BY <2>1, BeginRoundKeeps, ScanKeeps, ReadDoneKeeps, SettleKeeps
  <2>2. CASE \E n \in Name : Revisit(n) \/ RevisitFails(n)
    BY <2>2, RevisitKeeps
  <2>3. CASE \E h \in Host : Discover(h) \/ DiscoverFails(h)
    BY <2>3, DiscoverKeeps
  <2>4. CASE \E h \in Host : QueryFails(h) \/ QuerySettles(h)
    BY <2>4, QueryKeeps
  <2> QED BY <1>2, <2>1, <2>2, <2>3, <2>4 DEF Round
<1>3. CASE DirectoryLost
  BY <1>3, DirectoryLostKeeps
<1>4. CASE \E i \in Instance : Expire(i)
  BY <1>4, ExpireKeeps
<1>5. CASE \E l \in Launch : Resolve(l)
  BY <1>5, ResolveKeeps
<1>6. CASE UNCHANGED vars
  <2>1. UNCHANGED <<worldVars, entries, dead, card, launch, letGo>> /\ round' = round
        /\ born' = born /\ alive' = alive
    BY <1>6 DEF vars, worldVars
  <2>2. (round \in PollRound)' /\ FoundHolds' /\ AnswersHold'
    BY <2>1 DEF Inv, TypeOK, FoundHolds, AnswersHold, Distinct
  <2> QED BY <2>1, <2>2, RoundOnly
<1> QED BY <1>1, <1>2, <1>3, <1>4, <1>5, <1>6 DEF Next

LEMMA InvHolds == Spec => []Inv
BY InitInv, NextInv, PTL DEF Spec

-----------------------------------------------------------------------------
(* The bindings are one host per instance, and nothing but dead publications fills the     *)
(* memory that keeps a round from reading them again, which never outgrows MaxDead          *)
(* (omp-registry.ts 81-84, 411, 470-475).                                                   *)
THEOREM TypeInvariant == Spec => []TypeOK
<1>1. Inv => TypeOK
  BY DEF Inv
<1> QED BY InvHolds, <1>1, PTL

(* Whatever files, deaths, rivals, failures and sweeps there are, a card is of the host     *)
(* that its instance is bound to (omp-registry.ts 407-411, 540-552).                        *)
THEOREM CardsAreRouted == Spec => []CardIsRouted
<1>1. Inv => CardIsRouted
  BY DEF Inv
<1> QED BY InvHolds, <1>1, PTL

(* No live host's file is passed over as dead, however long it is remembered                *)
(* (omp-registry.ts 81-84, 300-308, 333-336).                                               *)
THEOREM DeadAreDead == Spec => []DeadStaysDead
<1>1. Inv => DeadStaysDead
  BY DEF Inv, DeadHolds, DeadStaysDead
<1> QED BY InvHolds, <1>1, PTL

(* No step moves an instance from one process to another: it is unbound first, whatever     *)
(* rival publications answer (omp-registry.ts 438-442).                                     *)
THEOREM BindingsNeverMove == Spec => NeverRetargeted
<1>1. Inv /\ [Next]_vars =>
        [\A i \in Instance : EntryFor(i) # None => EntryFor(i)' \in {None, EntryFor(i)}]_entries
  <2> SUFFICES ASSUME Inv, [Next]_vars, entries' # entries
               PROVE  \A i \in Instance : EntryFor(i) # None => EntryFor(i)' \in {None, EntryFor(i)}
    OBVIOUS
  <2>1. Settle
    BY DEF vars, Next, World, Publish, Die, NewRoom, Prune, Round, BeginRound, Scan, ReadDone,
           Revisit, RevisitFails, Revisits, Discover, DiscoverFails, Discovers, QueryFails,
           QuerySettles, Answered, DirectoryLost, Expire, Resolve, Press, Link, Release, Respond
  <2> QED BY <2>1, SettleEffect DEF Inv
<1> QED BY InvHolds, <1>1, PTL DEF Spec, NeverRetargeted

(* A capability is released only for the room that its card shows at that moment: of its    *)
(* generation, and of its process unless the directory let the pressed one go meanwhile     *)
(* (omp-registry.ts 438-442, 486-492, 501-531).                                             *)
THEOREM ReleasedIsShown == Spec => ReleasedOpensTheCard
<1> DEFINE Shown ==
      \A l \in Launch :
        (launch[l].stage = "minted" /\ launch'[l].stage = "released") =>
          LET c == card[launch[l].instance]
          IN /\ c # None /\ c.generation = launch[l].minted
             /\ c.host = launch[l].host \/ l \in letGo
<1>1. Inv /\ [Next]_vars => [Shown]_launch
  <2> SUFFICES ASSUME Inv, [Next]_vars, NEW l \in Launch,
                      launch[l].stage = "minted", launch'[l].stage = "released"
               PROVE  LET c == card[launch[l].instance]
                      IN /\ c # None /\ c.generation = launch[l].minted
                         /\ c.host = launch[l].host \/ l \in letGo
    OBVIOUS
  <2>1. launch \in [Launch -> Resolution] /\ launch' # launch
    BY DEF Inv, TypeOK
  <2>2. PICK k \in Launch : Resolve(k)
    BY <2>1 DEF vars, worldVars, Next, World, Publish, Die, NewRoom, Prune, Round, BeginRound, Scan,
           ReadDone, Settle, Revisit, RevisitFails, Revisits, Discover, DiscoverFails, Discovers,
           QueryFails, QuerySettles, Answered, DirectoryLost, Expire
  <2>3. Release(l)
    <3>1. Release(k) /\ k = l
      BY <2>1, <2>2 DEF Resolve, Press, Link, Release, Respond, Idle, Resolution
    <3> QED BY <3>1
  <2>4. Authorized(launch[l].instance, launch[l].generation, launch[l].want)
    BY <2>1, <2>3 DEF Release, Idle
  <2>5. launch[l].minted = launch[l].generation
    BY DEF Inv, LaunchHolds
  (* The card is of the process the instance is bound to, and so is the launch.             *)
  <2>6. l \notin letGo => EntryFor(launch[l].instance) = launch[l].host /\ launch[l].host # None
    BY DEF Inv, LaunchHolds
  <2>7. launch[l].instance \in Instance \/ l \in letGo
    BY <2>6, EntryForIs, InstanceType DEF Inv
  <2>8. l \notin letGo => card[launch[l].instance].host = launch[l].host
    BY <2>4, <2>6, <2>7 DEF Inv, CardIsRouted, Authorized
  <2> QED BY <2>4, <2>5, <2>8 DEF Authorized
<1> QED BY InvHolds, <1>1, PTL DEF Spec, ReleasedOpensTheCard

-----------------------------------------------------------------------------
(* What hosts with an identity and a file name of their own are promised: a round retires   *)
(* no card of a live one.  (With rivals it may: a rival's publication of the same identity  *)
(* that proves dead retires the card while the live host's own file is unreadable.)         *)

OwnFiles ==
  \A g, h \in Host : InstanceOf[g] = InstanceOf[h] \/ NameOf[g] = NameOf[h] => g = h

(* The bound hosts come first.                                                              *)
BoundFirst(hosts) ==
  \A j, k \in 1 .. Len(hosts) : j < k /\ hosts[k] \in ToSet(entries) => hosts[j] \in ToSet(entries)

(* A bound host that the round r will not lose.                                             *)
Covered(h, r) ==
  \/ InstanceOf[h] \in r.retained
  \/ h \in ToSet(r.found)
  \/ r.stage = "known" /\ NameOf[h] \in ToSet(r.unread)

BindingsFit ==
  Len(entries) <= MaxEntries /\ \A h \in ToSet(entries) : born[h] # 0

RoundHolds ==
  /\ round.ambiguous \subseteq round.retained
  /\ BoundFirst(round.found)
  /\ round.stage = "known" =>
       /\ round.known = KnownFiles
       /\ ToSet(round.unread) \subseteq {NameOf[h] : h \in ToSet(entries)}
       /\ ToSet(round.found) \subseteq ToSet(entries)
  /\ round.candidates \cap ToSet(entries) = {}
  /\ round.stage # "idle" => \A h \in alive \cap ToSet(entries) : Covered(h, round)

OwnInv == Inv /\ BindingsFit /\ RoundHolds

LEMMA ToSetIs ==
  ASSUME NEW S, NEW s \in Seq(S)
  PROVE  /\ ToSet(s) \subseteq S
         /\ \A k \in 1 .. Len(s) : s[k] \in ToSet(s)
         /\ \A x \in ToSet(s) : \E k \in 1 .. Len(s) : s[k] = x
BY DEF ToSet

LEMMA OwnBinding ==
  ASSUME OwnFiles, TypeOK, NEW h \in Host
  PROVE  EntryFor(InstanceOf[h]) = IF h \in ToSet(entries) THEN h ELSE None
<1>1. entries \in Seq(Host) /\ IsMap(entries)
  BY DEF TypeOK, IsMap
<1>2. CASE h \in ToSet(entries)
  <2>1. PICK k \in 1 .. Len(entries) : entries[k] = h
    BY <1>1, <1>2, ToSetIs
  <2> QED BY <1>1, <1>2, <2>1, PlaceFor DEF EntryFor
<1>3. CASE h \notin ToSet(entries)
  <2> SUFFICES ASSUME EntryFor(InstanceOf[h]) # None PROVE FALSE
    BY <1>3
  <2>1. \E k \in 1 .. Len(entries) : InstanceOf[entries[k]] = InstanceOf[h]
    BY <1>1, HostForIs DEF EntryFor
  <2>2. PICK k \in 1 .. Len(entries) : InstanceOf[entries[k]] = InstanceOf[h]
    BY <2>1
  <2>3. entries[k] \in Host /\ entries[k] \in ToSet(entries)
    BY <1>1, <2>2, ToSetIs
  <2> QED BY <1>3, <2>2, <2>3 DEF OwnFiles
<1> QED BY <1>2, <1>3

LEMMA OwnKnownFile ==
  ASSUME OwnFiles, TypeOK, NEW h \in Host
  PROVE  KnownFiles[NameOf[h]] = IF h \in ToSet(entries) THEN InstanceOf[h] ELSE None
<1> DEFINE n == NameOf[h]
           at == {k \in DOMAIN entries : NameOf[entries[k]] = n}
           last == CHOOSE k \in at : \A j \in at : j <= k
<1>1. entries \in Seq(Host) /\ Len(entries) \in Nat /\ DOMAIN entries = 1 .. Len(entries)
      /\ n \in Name
  BY DirectoryAssumption DEF TypeOK
<1>2. KnownFiles[n] = IF at = {} THEN None ELSE InstanceOf[entries[last]]
  BY <1>1 DEF KnownFiles
<1>3. \A k \in at : k \in 1 .. Len(entries) /\ entries[k] = h
  BY <1>1 DEF OwnFiles
<1>4. CASE at = {}
  <2>1. h \notin ToSet(entries)
    BY <1>1, <1>4, ToSetIs
  <2> QED BY <1>2, <1>4, <2>1
<1>5. CASE at # {}
  <2>1. at \in SUBSET (1 .. Len(entries))
    BY <1>3
  <2>2. last \in at
    <3> HIDE DEF at
    <3>1. \E k \in at : \A j \in at : j <= k
      BY <1>1, <1>5, <2>1, LastOne
    <3> QED BY <3>1
  <2>3. entries[last] = h /\ h \in ToSet(entries)
    BY <1>1, <1>3, <2>2, ToSetIs
  <2> QED BY <1>2, <1>5, <2>3
<1> QED BY <1>4, <1>5

LEMMA KnownNamesAre ==
  ASSUME TypeOK
  PROVE  ToSet(KnownNames) = {NameOf[h] : h \in ToSet(entries)}
<1>1. entries \in Seq(Host) /\ Len(entries) \in Nat
  BY DEF TypeOK
<1> DEFINE N == Len(entries)
           Upto(k) == {NameOf[entries[j]] : j \in 1 .. k}
           P(k) == NamesOf[k] \in Seq(Name) /\ ToSet(NamesOf[k]) = Upto(k)
           S == {k \in Nat : k <= N => P(k)}
<1>2. P(0)
  <2>1. NamesOf[0] = << >> /\ Upto(0) = {}
    BY <1>1, NamesOfIs
  <2>2. << >> \in Seq(Name) /\ ToSet(<< >>) = {}
    BY DEF ToSet
  <2> QED BY <2>1, <2>2
<1>3. ASSUME NEW k \in Nat, k + 1 <= N, P(k) PROVE P(k + 1)
  <2> DEFINE n == NameOf[entries[k + 1]]
             was == NamesOf[k]
             now == NamesOf[k + 1]
  <2>1. k + 1 \in 1 .. N /\ (k + 1) - 1 = k
    BY <1>1, <1>3
  <2>2. now = IF n \in ToSet(was) THEN was ELSE Append(was, n)
    BY <1>1, <2>1, NamesOfIs
  <2>3. n \in Name
    BY <1>1, <2>1, DirectoryAssumption
  <2>4. Upto(k + 1) = Upto(k) \cup {n}
    <3>1. \A j : j \in 1 .. k + 1 <=> j \in 1 .. k \/ j = k + 1
      BY <1>3
    <3> QED BY <3>1
  <2>5. was \in Seq(Name) /\ ToSet(was) = Upto(k)
    BY <1>3
  <2> HIDE DEF Upto, n, was, now
  <2>6. CASE n \in ToSet(was)
    BY <2>2, <2>4, <2>5, <2>6 DEF now
  <2>7. CASE n \notin ToSet(was)
    <3>1. now = Append(was, n)
      BY <2>2, <2>7
    <3>2. /\ now \in Seq(Name) /\ Len(now) = Len(was) + 1 /\ now[Len(was) + 1] = n
          /\ \A j \in 1 .. Len(was) : now[j] = was[j]
          /\ DOMAIN now = 1 .. Len(now) /\ DOMAIN was = 1 .. Len(was) /\ Len(was) \in Nat
      BY <2>3, <2>5, <3>1
    <3>3. \A j : j \in 1 .. Len(now) <=> j \in 1 .. Len(was) \/ j = Len(was) + 1
      BY <3>2
    <3>4. ToSet(now) = ToSet(was) \cup {n}
      BY <3>2, <3>3 DEF ToSet
    <3> QED BY <2>4, <2>5, <3>2, <3>4 DEF now
  <2> QED BY <2>6, <2>7
<1> HIDE DEF P
<1>4. 0 \in S /\ \A k \in Nat : k \in S => k + 1 \in S
  <2>1. 0 \in S
    BY <1>2
  <2>2. ASSUME NEW k \in Nat, k \in S PROVE k + 1 \in S
    <3>1. SUFFICES ASSUME k + 1 <= N PROVE P(k + 1)
      OBVIOUS
    <3>2. P(k)
      BY <1>1, <2>2, <3>1
    <3> QED BY <1>3, <3>1, <3>2
  <2> QED BY <2>1, <2>2
<1>5. N \in S
  BY <1>1, <1>4, SetInduction, Zenon
<1>6. P(N)
  BY <1>1, <1>5
<1>7. Upto(N) = {NameOf[h] : h \in ToSet(entries)}
  BY <1>1, ToSetIs
<1> QED BY <1>6, <1>7 DEF P, KnownNames

(* A Map has as many keys as places.                                                        *)
LEMMA MapSize ==
  ASSUME NEW hosts, IsMap(hosts)
  PROVE  IsFiniteSet(InstancesOf(hosts)) /\ Cardinality(InstancesOf(hosts)) = Len(hosts)
<1> DEFINE n == Len(hosts)
           T == InstancesOf(hosts)
           f == [k \in 1 .. n |-> InstanceOf[hosts[k]]]
<1>1. n \in Nat /\ DOMAIN hosts = 1 .. n
  BY DEF IsMap
<1>2. f \in Surjection(1 .. n, T)
  BY <1>1 DEF Surjection, InstancesOf
<1>3. f \in Injection(1 .. n, T)
  <2>1. f \in [1 .. n -> T]
    BY <1>2 DEF Surjection
  <2>2. \A j, k \in 1 .. n : f[j] = f[k] => j = k
    BY <1>1 DEF IsMap, Distinct
  <2>3. DOMAIN f = 1 .. n
    OBVIOUS
  <2> HIDE DEF f
  <2> QED BY <2>1, <2>2, <2>3 DEF Injection, IsInjective
<1>4. IsFiniteSet(1 .. n) /\ Cardinality(1 .. n) = n
  <2>1. 1 \in Int /\ n \in Int /\ (IF 1 > n THEN 0 ELSE n - 1 + 1) = n
    BY <1>1
  <2> QED BY <2>1, FS_Interval
<1> HIDE DEF n, T, f
<1>5. IsFiniteSet(T) /\ Cardinality(T) = Cardinality(1 .. n)
  BY <1>2, <1>3, <1>4, FS_Surjection
<1> QED BY <1>4, <1>5 DEF n, T

LEMMA BindSize ==
  ASSUME NEW hosts, IsMap(hosts), NEW h \in Host
  PROVE  Len(Bind(hosts, h)) = IF InstanceOf[h] \in InstancesOf(hosts)
                               THEN Len(hosts) ELSE Len(hosts) + 1
BY DEF Bind, IsMap

LEMMA UnbindSize ==
  ASSUME NEW hosts, IsMap(hosts), NEW i
  PROVE  Len(Unbind(hosts, i)) <= Len(hosts) /\ Len(Unbind(hosts, i)) \in Nat
<1>1. hosts \in Seq(Host) /\ Len(hosts) \in Nat
  BY DEF IsMap
<1>2. CASE i \in InstancesOf(hosts)
  <2> DEFINE p == PlaceOf(hosts, i)
             after == Unbind(hosts, i)
  <2>1. after \in Seq(Host) /\ Len(after) = Len(hosts) - 1
    BY <1>2, UnbindPlaces
  <2> HIDE DEF after
  <2>2. Len(after) \in Nat
    BY <2>1
  <2> QED BY <1>1, <2>1, <2>2 DEF after
<1>3. CASE i \notin InstancesOf(hosts)
  BY <1>1, <1>3 DEF Unbind
<1> QED BY <1>2, <1>3

(* Bindings of bound instances are no more than the bindings, and fewer if one is missing.  *)
LEMMA BindingsAreFew ==
  ASSUME TypeOK, NEW hosts, IsMap(hosts),
         \A i \in Instance : HostFor(hosts, i) # None => EntryFor(i) # None
  PROVE  /\ Len(hosts) <= Len(entries)
         /\ \A i \in Instance :
              EntryFor(i) # None /\ HostFor(hosts, i) = None => Len(hosts) < Len(entries)
<1>1. IsMap(entries) /\ entries \in Seq(Host) /\ hosts \in Seq(Host)
      /\ Len(hosts) \in Nat /\ Len(entries) \in Nat
  BY DEF TypeOK, IsMap
<1>2. \A i : (i \in InstancesOf(entries) <=> EntryFor(i) # None)
             /\ (i \in InstancesOf(hosts) <=> HostFor(hosts, i) # None)
  BY <1>1, HostForIs, NoneIsNoHost DEF EntryFor
<1>3. InstancesOf(hosts) \subseteq Instance
  BY <1>1, InstanceType DEF InstancesOf
<1>4. InstancesOf(hosts) \subseteq InstancesOf(entries)
  BY <1>2, <1>3
<1>5. /\ IsFiniteSet(InstancesOf(entries)) /\ IsFiniteSet(InstancesOf(hosts))
      /\ Cardinality(InstancesOf(entries)) = Len(entries)
      /\ Cardinality(InstancesOf(hosts)) = Len(hosts)
  BY <1>1, MapSize
<1>6. Len(hosts) <= Len(entries)
  BY <1>4, <1>5, FS_Subset
<1>7. ASSUME NEW i \in Instance, EntryFor(i) # None, HostFor(hosts, i) = None
      PROVE  Len(hosts) < Len(entries)
  <2>1. InstancesOf(hosts) # InstancesOf(entries)
    BY <1>2, <1>7
  <2> QED BY <1>1, <1>4, <1>5, <2>1, FS_Subset
<1> QED BY <1>6, <1>7

(* What k turns leave of the bindings of live hosts.                                        *)
Awaited(h, s, k) ==
  \/ InstanceOf[h] \in s.retained
  \/ h \in ToSet(s.observed)
  \/ \E m \in k + 1 .. Len(round.found) : round.found[m] = h

LoopHolds(s, k) ==
  /\ Len(s.next) <= MaxEntries
  /\ \A i \in Instance : HostFor(s.next, i) # None =>
       HostFor(s.next, i) \in ToSet(entries) \cup ToSet(round.found)
  /\ \A m \in k + 1 .. Len(round.found) : round.found[m] \in ToSet(entries) =>
       \A i \in Instance : HostFor(s.next, i) # None => EntryFor(i) # None
  /\ \A h \in alive \cap ToSet(entries) : Awaited(h, s, k)

LEMMA OwnSettleOneKeeps ==
  ASSUME OwnFiles, OwnInv, DOMAIN round.answers = ToSet(round.found),
         NEW k \in Nat, k + 1 <= Len(round.found),
         NEW s, TurnHolds(s, k), LoopHolds(s, k)
  PROVE  LoopHolds(SettleOne(s, round.found[k + 1]), k + 1)
<1> USE DEF OwnInv, Inv
<1> DEFINE h == round.found[k + 1]
           i == InstanceOf[h]
           a == round.answers[h]
           after == SettleOne(s, h)
           N == Len(round.found)
<1>1. round.found \in Seq(Host) /\ N \in Nat /\ k + 1 \in 1 .. N
      /\ DOMAIN round.found = 1 .. N /\ entries \in Seq(Host) /\ alive \subseteq Host
  BY DEF TypeOK, PollRound
<1>2. h \in Host /\ i \in Instance /\ h \in ToSet(round.found)
  BY <1>1, InstanceType DEF ToSet
<1>3. /\ s \in Settling /\ IsMap(s.next) /\ IsMemory(s.dead)
      /\ s.next \in Seq(Host) /\ s.retained \subseteq Instance /\ s.observed \in Seq(Host)
      /\ Len(s.next) \in Nat /\ s.dead \in [Name -> Host \cup {None}]
  BY DEF TurnHolds, Settling
<1>4. /\ Len(s.next) <= MaxEntries /\ Len(entries) <= MaxEntries /\ MaxEntries \in Nat
      /\ Len(entries) \in Nat
  BY <1>1, DirectoryAssumption DEF LoopHolds, BindingsFit
<1>5. EntryFor(i) = IF h \in ToSet(entries) THEN h ELSE None
  BY <1>2, OwnBinding
<1>6. h \in ToSet(entries) =>
        \A j \in Instance : HostFor(s.next, j) # None => EntryFor(j) # None
  <2>1. k + 1 \in k + 1 .. N
    BY <1>1
  <2> QED BY <2>1 DEF LoopHolds
<1>7. h \in ToSet(entries) /\ HostFor(s.next, i) = None => Len(s.next) < Len(entries)
  BY <1>2, <1>3, <1>5, <1>6, BindingsAreFew, NoneIsNoHost
<1>8. \A m \in (k + 1) + 1 .. N :
        /\ m \in k + 1 .. N /\ m \in 1 .. N
        /\ round.found[m] \in ToSet(entries) => h \in ToSet(entries)
  <2> SUFFICES ASSUME NEW m \in (k + 1) + 1 .. N
               PROVE  /\ m \in k + 1 .. N /\ m \in 1 .. N
                      /\ round.found[m] \in ToSet(entries) => h \in ToSet(entries)
    OBVIOUS
  <2>1. m \in k + 1 .. N /\ m \in 1 .. N /\ k + 1 < m
    BY <1>1
  <2> QED BY <1>1, <2>1 DEF RoundHolds, BoundFirst
<1>9. ASSUME NEW g \in alive \cap ToSet(entries)
      PROVE  \/ InstanceOf[g] \in s.retained
             \/ g \in ToSet(s.observed)
             \/ \E m \in (k + 1) + 1 .. N : round.found[m] = g
             \/ g = h
  <2>1. CASE \E m \in k + 1 .. N : round.found[m] = g
    <3>1. PICK m \in k + 1 .. N : round.found[m] = g
      BY <2>1
    <3>2. m = k + 1 \/ m \in (k + 1) + 1 .. N
      BY <1>1
    <3> QED BY <3>1, <3>2
  <2> QED BY <1>9, <2>1 DEF LoopHolds, Awaited
<1>10. \A g \in alive : g \in Host /\ (InstanceOf[g] = i => g = h)
  BY <1>1, <1>2 DEF OwnFiles
<1>11. \A j \in Instance : HostFor(s.next, j) # None =>
         HostFor(s.next, j) \in ToSet(entries) \cup ToSet(round.found)
  BY DEF LoopHolds
<1>12. i \in InstancesOf(s.next) <=> HostFor(s.next, i) # None
  BY <1>3, HostForIs, NoneIsNoHost
<1>13. ASSUME NEW next, IsMap(next), after.next = next, Len(next) <= MaxEntries,
              \A j \in Instance :
                \/ HostFor(next, j) \in {None, HostFor(s.next, j)}
                \/ j = i /\ HostFor(next, j) = h,
              \A g \in alive \cap ToSet(entries) :
                InstanceOf[g] \in s.retained /\ InstanceOf[g] # i => InstanceOf[g] \in after.retained,
              \A g \in alive \cap ToSet(entries) : g \in ToSet(s.observed) => g \in ToSet(after.observed),
              h \in alive \cap ToSet(entries) =>
                i \in after.retained \/ h \in ToSet(after.observed)
       PROVE  LoopHolds(after, k + 1)
  <2>1. \A j \in Instance : HostFor(next, j) # None =>
          HostFor(next, j) \in ToSet(entries) \cup ToSet(round.found)
    BY <1>2, <1>11, <1>13
  <2>2. ASSUME NEW m \in (k + 1) + 1 .. N, round.found[m] \in ToSet(entries)
        PROVE  \A j \in Instance : HostFor(next, j) # None => EntryFor(j) # None
    <3>1. h \in ToSet(entries) /\ EntryFor(i) # None
      BY <1>2, <1>5, <1>8, <2>2, NoneIsNoHost
    <3> QED BY <1>6, <1>13, <3>1
  <2>3. ASSUME NEW g \in alive \cap ToSet(entries)
        PROVE  Awaited(g, after, k + 1)
    <3>1. CASE g = h
      BY <1>13, <2>3, <3>1 DEF Awaited
    <3>2. CASE g # h
      <4>1. InstanceOf[g] # i
        BY <1>10, <2>3, <3>2
      <4> QED BY <1>9, <1>13, <2>3, <3>2, <4>1 DEF Awaited
    <3> QED BY <3>1, <3>2
  <2> QED BY <1>13, <2>1, <2>2, <2>3 DEF LoopHolds
<1> HIDE DEF h, i, a, after, N
<1>14. CASE Finished(a)
  <2> DEFINE next == Unbind(s.next, i)
             memory == RememberDead(s.dead, h)
  <2>1. after = [s EXCEPT !.retained = @ \ {i}, !.next = next, !.dead = memory]
    BY <1>14 DEF SettleOne, a, i, after
  <2>2. IsMap(next) /\ \A j \in Instance : HostFor(next, j) = IF j = i THEN None ELSE HostFor(s.next, j)
    BY <1>3, UnbindIsDelete
  <2>3. Len(next) <= MaxEntries
    BY <1>3, <1>4, UnbindSize
  <2> HIDE DEF next, memory
  <2>4. after.next = next /\ after.retained = s.retained \ {i} /\ after.observed = s.observed
    BY <1>3, <2>1 DEF Settling
  <2>5. h \notin alive
    BY <1>2, <1>14 DEF Finished, a, AnswersHold
  <2> QED BY <1>13, <2>2, <2>3, <2>4, <2>5 DEF after, h, N
<1>15. CASE ~Finished(a) /\ (a.status # "ok" \/ Mismatched(h))
  <2> DEFINE next == IF EntryFor(i) # None THEN Bind(s.next, h) ELSE s.next
  <2>1. after = [s EXCEPT !.retained = @ \cup {i}, !.next = next]
    <3>1. after = Keep(s, i)
      BY <1>15 DEF SettleOne, a, i, after
    <3>2. EntryFor(i) # None => EntryFor(i) = h
      BY <1>5
    <3> QED BY <3>1, <3>2 DEF Keep
  <2>2. IsMap(next) /\ \A j \in Instance : HostFor(next, j) =
          IF j = i /\ EntryFor(i) # None THEN h ELSE HostFor(s.next, j)
    BY <1>2, <1>3, BindIsSet DEF i
  <2>3. Len(next) <= MaxEntries
    <3>1. CASE EntryFor(i) = None
      BY <1>4, <3>1
    <3>2. CASE EntryFor(i) # None /\ i \in InstancesOf(s.next)
      BY <1>2, <1>3, <1>4, <3>2, BindSize DEF i
    <3>3. CASE EntryFor(i) # None /\ i \notin InstancesOf(s.next)
      <4>1. Len(s.next) < Len(entries)
        BY <1>5, <1>7, <1>12, <3>3
      <4>2. Len(next) = Len(s.next) + 1
        BY <1>2, <1>3, <3>3, BindSize DEF i
      <4> HIDE DEF next
      <4> QED BY <1>3, <1>4, <4>1, <4>2
    <3> QED BY <3>1, <3>2, <3>3
  <2> HIDE DEF next
  <2>4. after.next = next /\ after.retained = s.retained \cup {i} /\ after.observed = s.observed
    BY <1>3, <2>1 DEF Settling
  <2> QED BY <1>13, <2>2, <2>3, <2>4 DEF after, h, N
<1>16. CASE ~Finished(a) /\ a.status = "ok" /\ ~Mismatched(h)
            /\ i \notin InstancesOf(s.next) /\ Len(s.next) >= MaxEntries
  <2>1. after = s
    BY <1>16 DEF SettleOne, a, i, after
  <2>2. h \notin ToSet(entries)
    BY <1>3, <1>4, <1>7, <1>12, <1>16
  <2> QED BY <1>3, <1>4, <1>13, <2>1, <2>2 DEF after, h, N
<1>17. CASE ~Finished(a) /\ a.status = "ok" /\ ~Mismatched(h)
            /\ ~(i \notin InstancesOf(s.next) /\ Len(s.next) >= MaxEntries)
  <2> DEFINE next == Bind(s.next, h)
             seen == Append(s.observed, h)
  <2>1. after = [s EXCEPT !.next = next, !.observed = seen]
    BY <1>17 DEF SettleOne, a, i, after
  <2>2. IsMap(next) /\ \A j \in Instance : HostFor(next, j) = IF j = i THEN h ELSE HostFor(s.next, j)
    BY <1>2, <1>3, BindIsSet DEF i
  <2>3. Len(next) <= MaxEntries
    BY <1>2, <1>3, <1>4, <1>17, BindSize DEF i
  <2>4. h \in ToSet(seen) /\ ToSet(s.observed) \subseteq ToSet(seen)
    <3>1. /\ Len(seen) = Len(s.observed) + 1 /\ seen[Len(s.observed) + 1] = h /\ seen \in Seq(Host)
          /\ \A j \in 1 .. Len(s.observed) : seen[j] = s.observed[j]
          /\ DOMAIN seen = 1 .. Len(seen) /\ DOMAIN s.observed = 1 .. Len(s.observed)
          /\ Len(s.observed) \in Nat
      BY <1>2, <1>3
    <3> HIDE DEF seen
    <3>2. Len(s.observed) + 1 \in DOMAIN seen /\ \A j \in DOMAIN s.observed : j \in DOMAIN seen
      BY <3>1
    <3> QED BY <3>1, <3>2 DEF ToSet
  <2> HIDE DEF next, seen
  <2>5. after.next = next /\ after.retained = s.retained /\ after.observed = seen
    BY <1>3, <2>1 DEF Settling
  <2> QED BY <1>13, <2>2, <2>3, <2>4, <2>5 DEF after, h, N
<1> QED BY <1>14, <1>15, <1>16, <1>17

LEMMA OwnLoopHolds ==
  ASSUME OwnFiles, OwnInv, round.stage = "query", DOMAIN round.answers = ToSet(round.found)
  PROVE  LoopHolds(Settled, Len(round.found)) /\ TurnHolds(Settled, Len(round.found))
<1> USE DEF OwnInv, Inv
<1> DEFINE N == Len(round.found)
           P(k) == TurnHolds(Turn[k], k) /\ LoopHolds(Turn[k], k)
           S == {k \in Nat : k <= N => P(k)}
<1>1. round.found \in Seq(Host) /\ N \in Nat /\ DOMAIN round.found = 1 .. N
      /\ Len(entries) \in Nat /\ MaxEntries \in Nat
  BY DirectoryAssumption DEF TypeOK, PollRound
<1>2. P(0)
  <2> DEFINE first == Carried[Len(entries)]
  <2>1. Turn[0] = FirstTurn
    BY <1>1, TurnIs
  <2>2. /\ IsMap(first) /\ first \in Seq(Host)
        /\ \A i \in Instance : HostFor(first, i) = IF i \in round.retained THEN EntryFor(i) ELSE None
    BY CarriedHolds DEF IsMap
  <2> HIDE DEF first
  <2>3. /\ FirstTurn.next = first /\ FirstTurn.dead = dead
        /\ FirstTurn.retained = round.retained /\ FirstTurn.observed = << >>
    BY DEF FirstTurn, first
  <2>4. FirstTurn \in Settling
    BY <2>2 DEF FirstTurn, Settling, first, TypeOK, PollRound
  <2>5. TurnHolds(FirstTurn, 0)
    <3>1. IsMemory(dead) /\ Bindings(FirstTurn) /\ Buried(FirstTurn)
      BY <2>2, <2>3, NamesAreFinite DEF Bindings, Buried
    <3>2. Observed(FirstTurn, 0)
      <4>1. \A j \in 1 .. Len(FirstTurn.observed) : FALSE
        BY <2>3
      <4> QED BY <4>1 DEF Observed
    <3> QED BY <2>2, <2>3, <2>4, <3>1, <3>2 DEF TurnHolds
  <2>6. \A i \in Instance : HostFor(first, i) # None => EntryFor(i) # None
    BY <2>2
  <2>7. Len(first) <= MaxEntries
    <3>1. Len(first) <= Len(entries) /\ Len(first) \in Nat
      BY <2>2, <2>6, BindingsAreFew
    <3> QED BY <1>1, <3>1 DEF BindingsFit
  <2>8. ASSUME NEW i \in Instance, HostFor(first, i) # None
        PROVE  HostFor(first, i) \in ToSet(entries)
    <3>1. HostFor(first, i) = EntryFor(i) /\ entries \in Seq(Host)
      BY <2>2, <2>8 DEF TypeOK
    <3>2. \E k \in 1 .. Len(entries) : entries[k] = EntryFor(i)
      BY <2>6, <2>8, <3>1, HostForIs DEF EntryFor
    <3> QED BY <3>1, <3>2, ToSetIs
  <2>9. ASSUME NEW h \in alive \cap ToSet(entries) PROVE Awaited(h, FirstTurn, 0)
    <3>1. InstanceOf[h] \in round.retained \/ h \in ToSet(round.found)
      BY <2>9 DEF RoundHolds, Covered
    <3>2. CASE h \in ToSet(round.found)
      <4>1. PICK k \in 1 .. N : round.found[k] = h
        BY <1>1, <3>2, ToSetIs
      <4>2. k \in 0 + 1 .. N
        BY <1>1
      <4> QED BY <4>1, <4>2 DEF Awaited
    <3> QED BY <2>3, <3>1, <3>2 DEF Awaited
  <2>10. LoopHolds(FirstTurn, 0)
    BY <2>3, <2>6, <2>7, <2>8, <2>9 DEF LoopHolds
  <2> QED BY <2>1, <2>5, <2>10
<1>3. ASSUME NEW k \in Nat, k + 1 <= N, P(k) PROVE P(k + 1)
  <2>1. k + 1 \in 1 .. N /\ (k + 1) - 1 = k
    BY <1>1, <1>3
  <2>2. Turn[k + 1] = SettleOne(Turn[k], round.found[k + 1])
    BY <1>1, <2>1, TurnIs
  <2>3. TurnHolds(Turn[k + 1], k + 1)
    BY <1>3, <2>2, SettleOneKeeps
  <2>4. LoopHolds(Turn[k + 1], k + 1)
    BY <1>3, <2>2, OwnSettleOneKeeps
  <2> QED BY <2>3, <2>4
<1> HIDE DEF P
<1>4. 0 \in S /\ \A k \in Nat : k \in S => k + 1 \in S
  <2>1. 0 \in S
    BY <1>2
  <2>2. ASSUME NEW k \in Nat, k \in S PROVE k + 1 \in S
    <3>1. SUFFICES ASSUME k + 1 <= N PROVE P(k + 1)
      OBVIOUS
    <3>2. P(k)
      BY <1>1, <2>2, <3>1
    <3> QED BY <1>3, <3>1, <3>2
  <2> QED BY <2>1, <2>2
<1>5. N \in S
  BY <1>1, <1>4, SetInduction, Zenon
<1>6. P(N)
  BY <1>1, <1>5
<1> QED BY <1>6 DEF P, Settled

(* A round that takes its turns retires the card of no live host.                           *)
LEMMA SettleShows ==
  ASSUME OwnFiles, OwnInv, Settle, NEW i \in Instance, card[i] # None, card[i].host \in alive
  PROVE  card'[i] # None
<1> USE DEF OwnInv, Inv
<1> DEFINE h == card[i].host
<1>1. /\ round.stage = "query" /\ DOMAIN round.answers = ToSet(round.found)
      /\ card' = [j \in Instance |->
                    IF j \in InstancesOf(Settled.observed) \cup Settled.retained
                    THEN Reconciled[Len(Settled.observed)][j] ELSE None]
  BY DEF Settle
<1>2. LoopHolds(Settled, Len(round.found)) /\ TurnHolds(Settled, Len(round.found))
  BY <1>1, OwnLoopHolds
<1>3. EntryFor(i) = h /\ h \in Host
  BY DEF CardIsRouted, TypeOK
<1>4. InstanceOf[h] = i /\ h \in ToSet(entries)
  <2>1. entries \in Seq(Host)
    BY DEF TypeOK
  <2>2. InstanceOf[h] = i /\ \E k \in 1 .. Len(entries) : entries[k] = h
    BY <1>3, <2>1, HostForIs, NoneIsNoHost DEF EntryFor
  <2> QED BY <2>1, <2>2, ToSetIs
<1>5. Settled.observed \in Seq(Host) /\ DOMAIN Settled.observed = 1 .. Len(Settled.observed)
  BY <1>2 DEF TurnHolds, Settling
<1>6. i \in Settled.retained \/ h \in ToSet(Settled.observed)
  <2>1. Awaited(h, Settled, Len(round.found))
    BY <1>2, <1>4 DEF LoopHolds
  <2>2. ~ \E m \in Len(round.found) + 1 .. Len(round.found) : TRUE
    <3>1. Len(round.found) \in Nat
      BY DEF TypeOK, PollRound
    <3> QED BY <3>1
  <2> QED BY <1>4, <2>1, <2>2 DEF Awaited
<1>7. i \in InstancesOf(Settled.observed) \cup Settled.retained
  <2>1. CASE h \in ToSet(Settled.observed)
    BY <1>4, <2>1 DEF ToSet, InstancesOf
  <2> QED BY <1>6, <2>1
<1>8. card'[i] = Reconciled[Len(Settled.observed)][i]
  BY <1>1, <1>7
<1>9. CardsFrom(Reconciled[Len(Settled.observed)], Len(Settled.observed))
  BY <1>1, ReconciledHolds
<1> QED BY <1>8, <1>9, NoneIsNoCard DEF CardsFrom

-----------------------------------------------------------------------------
(* The invariant of a round, step by step.                                                  *)

(* A step that leaves the round and the bindings, and revives nobody.                       *)
LEMMA OwnUnmoved ==
  ASSUME OwnInv, UNCHANGED <<entries, round>>,
         \A h \in Host : born[h] # 0 => born'[h] # 0,
         \A h \in alive' : h \in alive \/ born[h] = 0
  PROVE  BindingsFit' /\ RoundHolds'
<1> USE DEF OwnInv, Inv
<1>1. entries \in Seq(Host)
  BY DEF TypeOK
<1>2. ToSet(entries) \subseteq Host
  BY <1>1, ToSetIs
<1>3. BindingsFit'
  BY <1>2 DEF BindingsFit
<1>4. \A h \in alive' \cap ToSet(entries) : h \in alive
  BY DEF BindingsFit
<1>5. KnownFiles' = KnownFiles
  BY DEF KnownFiles
<1>6. RoundHolds'
  BY <1>4, <1>5 DEF RoundHolds, BoundFirst, Covered
<1> QED BY <1>3, <1>6

LEMMA OwnWorld ==
  ASSUME OwnInv, World
  PROVE  BindingsFit' /\ RoundHolds'
<1> USE DEF OwnInv, Inv
<1>1. born \in [Host -> 0 .. Cardinality(Host)] /\ Cardinality(Host) \in Nat
  BY FS_CardinalityType, DirectoryAssumption DEF TypeOK
<1>2. ASSUME NEW h \in Host, Publish(h) PROVE BindingsFit' /\ RoundHolds'
  <2> DEFINE b == 1 + Cardinality({g \in Host : born[g] # 0})
  <2>1. born[h] = 0 /\ born' = [born EXCEPT ![h] = b] /\ alive' = alive \cup {h}
        /\ UNCHANGED <<entries, round>>
    BY <1>2 DEF Publish
  <2> HIDE DEF b
  <2>2. \A g \in Host : born[g] # 0 => born'[g] # 0
    BY <1>1, <2>1
  <2> QED BY <2>1, <2>2, OwnUnmoved
<1>3. ASSUME NEW h \in Host, Die(h) PROVE BindingsFit' /\ RoundHolds'
  <2>1. UNCHANGED <<entries, round, born>> /\ alive' \subseteq alive
    BY <1>3 DEF Die
  <2> QED BY <2>1, OwnUnmoved
<1>4. ASSUME NEW h \in Host, NewRoom(h) PROVE BindingsFit' /\ RoundHolds'
  <2>1. UNCHANGED <<entries, round, born, alive>>
    BY <1>4 DEF NewRoom
  <2> QED BY <2>1, OwnUnmoved
<1>5. ASSUME NEW n \in Name, Prune(n) PROVE BindingsFit' /\ RoundHolds'
  <2>1. UNCHANGED <<entries, round, born, alive>>
    BY <1>5 DEF Prune
  <2> QED BY <2>1, OwnUnmoved
<1> QED BY <1>2, <1>3, <1>4, <1>5 DEF World

LEMMA OwnBeginRound ==
  ASSUME OwnInv, BeginRound
  PROVE  BindingsFit' /\ RoundHolds'
<1> USE DEF OwnInv, Inv
<1>1. /\ round' = [NoRound EXCEPT !.stage = "known", !.known = KnownFiles, !.unread = KnownNames]
      /\ UNCHANGED <<born, alive, entries>>
  BY DEF BeginRound, worldVars
<1>2. /\ round'.stage = "known" /\ round'.known = KnownFiles /\ round'.unread = KnownNames
      /\ round'.candidates = {} /\ round'.ambiguous = {} /\ round'.found = << >>
  BY <1>1 DEF NoRound
<1>3. KnownFiles' = KnownFiles
  BY <1>1 DEF KnownFiles
<1>4. ToSet(KnownNames) = {NameOf[h] : h \in ToSet(entries)}
  BY KnownNamesAre
<1>5. ToSet(<< >>) = {} /\ Len(<< >>) = 0
  BY DEF ToSet
<1>6. BindingsFit'
  BY <1>1 DEF BindingsFit
<1>7. RoundHolds'
  BY <1>1, <1>2, <1>3, <1>4, <1>5 DEF RoundHolds, BoundFirst, Covered
<1> QED BY <1>6, <1>7

LEMMA OwnDirectoryLost ==
  ASSUME OwnInv, DirectoryLost
  PROVE  BindingsFit' /\ RoundHolds'
<1> USE DEF OwnInv, Inv
<1>1. UNCHANGED <<born, alive, entries>>
  BY DEF DirectoryLost, worldVars
<1>2. \/ /\ \A n \in Name : file[n] = None
         /\ round' = [NoRound EXCEPT !.stage = "query"]
      \/ round' = [NoRound EXCEPT !.stage = "query", !.retained = InstancesOf(entries)]
  BY DEF DirectoryLost
<1>3. /\ round'.stage = "query" /\ round'.candidates = {} /\ round'.ambiguous = {}
      /\ round'.found = << >>
  BY <1>2 DEF NoRound
<1>4. ASSUME NEW h \in alive \cap ToSet(entries) PROVE InstanceOf[h] \in round'.retained
  <2>1. h \in Host /\ NameOf[h] \in Name /\ file[NameOf[h]] = h
    BY DirectoryAssumption DEF TypeOK, WorldHolds
  <2>2. file[NameOf[h]] # None
    BY <2>1, NoneIsNoHost
  <2>3. round'.retained = InstancesOf(entries)
    BY <1>2, <2>1, <2>2 DEF NoRound
  <2> QED BY <2>3 DEF InstancesOf, ToSet
<1>5. ToSet(<< >>) = {} /\ Len(<< >>) = 0
  BY DEF ToSet
<1>6. BindingsFit'
  BY <1>1 DEF BindingsFit
<1>7. RoundHolds'
  BY <1>1, <1>3, <1>4, <1>5 DEF RoundHolds, BoundFirst, Covered
<1> QED BY <1>6, <1>7

(* What reading a file does to a round, and what failing to does.                           *)
LEMMA ReadIs ==
  ASSUME NEW n, NEW r \in PollRound, NEW h, h = file[n], NEW i, i = InstanceOf[h],
         NEW now, now = Read(n, r)
  PROVE  /\ now.stage = r.stage /\ now.known = r.known /\ now.unread = r.unread
         /\ now.candidates = r.candidates /\ r.retained \subseteq now.retained
         /\ \/ /\ i \in r.ambiguous /\ now.found = r.found /\ now.ambiguous = r.ambiguous
            \/ /\ i \in InstancesOf(r.found) /\ now.found = Unbind(r.found, i)
               /\ i \in now.retained /\ now.ambiguous = r.ambiguous \cup {i}
            \/ /\ i \notin InstancesOf(r.found) /\ now.found = Append(r.found, h)
               /\ now.ambiguous = r.ambiguous
<1> DEFINE kept == r.retained \cup ({r.known[n]} \ {None, i})
           once == [r EXCEPT !.files = @ + 1, !.retained = kept]
<1>1. Read(n, r) =
        IF i \in r.ambiguous THEN once
        ELSE IF i \in InstancesOf(r.found)
        THEN [once EXCEPT !.retained = @ \cup {i}, !.ambiguous = @ \cup {i}, !.found = Unbind(@, i)]
        ELSE [once EXCEPT !.found = Append(@, h)]
  BY DEF Read
<1>2. r.retained \subseteq kept
  OBVIOUS
<1> HIDE DEF kept
<1>3. /\ once.stage = r.stage /\ once.known = r.known /\ once.unread = r.unread
      /\ once.candidates = r.candidates /\ once.retained = kept /\ once.found = r.found
      /\ once.ambiguous = r.ambiguous
      /\ DOMAIN once = {"stage", "known", "unread", "candidates", "files", "found", "ambiguous",
                        "retained", "answers"}
  BY DEF PollRound
<1> HIDE DEF once
<1>4. CASE i \in r.ambiguous
  BY <1>1, <1>2, <1>3, <1>4
<1>5. CASE i \notin r.ambiguous /\ i \in InstancesOf(r.found)
  <2> DEFINE kept2 == kept \cup {i}
             split == r.ambiguous \cup {i}
             cut == Unbind(r.found, i)
  <2>1. now = [once EXCEPT !.retained = kept2, !.ambiguous = split, !.found = cut]
    BY <1>1, <1>3, <1>5
  <2>2. r.retained \subseteq kept2 /\ i \in kept2
    BY <1>2
  <2> HIDE DEF kept2, split, cut
  <2>3. /\ now.stage = r.stage /\ now.known = r.known /\ now.unread = r.unread
        /\ now.candidates = r.candidates /\ now.retained = kept2 /\ now.found = cut
        /\ now.ambiguous = split
    BY <1>3, <2>1
  <2> QED BY <1>5, <2>2, <2>3 DEF split, cut
<1>6. CASE i \notin r.ambiguous /\ i \notin InstancesOf(r.found)
  <2> DEFINE more == Append(r.found, h)
  <2>1. now = [once EXCEPT !.found = more]
    BY <1>1, <1>3, <1>6
  <2> HIDE DEF more
  <2>2. /\ now.stage = r.stage /\ now.known = r.known /\ now.unread = r.unread
        /\ now.candidates = r.candidates /\ now.retained = kept /\ now.found = more
        /\ now.ambiguous = r.ambiguous
    BY <1>3, <2>1
  <2> QED BY <1>2, <1>6, <2>2 DEF more
<1> QED BY <1>4, <1>5, <1>6

LEMMA UnreadIs ==
  ASSUME NEW n, NEW r \in PollRound, NEW now, now = Unread(n, r)
  PROVE  /\ now.stage = r.stage /\ now.known = r.known /\ now.unread = r.unread
         /\ now.candidates = r.candidates /\ now.found = r.found /\ now.ambiguous = r.ambiguous
         /\ r.retained \subseteq now.retained
         /\ file[n] # None /\ r.known[n] # None => r.known[n] \in now.retained
<1> DEFINE kept == r.retained \cup
                     (IF file[n] = None THEN {} ELSE IF r.known[n] = None THEN {} ELSE {r.known[n]})
<1>1. now = [r EXCEPT !.files = @ + 1, !.retained = kept]
  BY DEF Unread
<1>2. /\ r.retained \subseteq kept
      /\ file[n] # None /\ r.known[n] # None => r.known[n] \in kept
  OBVIOUS
<1> HIDE DEF kept
<1> QED BY <1>1, <1>2 DEF PollRound

(* Deleting a key keeps the order.                                                          *)
LEMMA UnbindKeepsOrder ==
  ASSUME NEW hosts, IsMap(hosts), BoundFirst(hosts), NEW i, i \in InstancesOf(hosts)
  PROVE  /\ BoundFirst(Unbind(hosts, i))
         /\ \A h \in ToSet(hosts) : InstanceOf[h] = i \/ h \in ToSet(Unbind(hosts, i))
         /\ ToSet(Unbind(hosts, i)) \subseteq ToSet(hosts)
<1> DEFINE p == PlaceOf(hosts, i)
           after == Unbind(hosts, i)
<1>1. hosts \in Seq(Host) /\ Len(hosts) \in Nat
  BY DEF IsMap
<1>2. /\ p \in 1 .. Len(hosts) /\ InstanceOf[hosts[p]] = i
      /\ after \in Seq(Host) /\ Len(after) = Len(hosts) - 1
      /\ \A k \in 1 .. Len(after) : after[k] = IF k < p THEN hosts[k] ELSE hosts[k + 1]
  <2> HIDE DEF p, after
  <2> QED BY UnbindPlaces DEF p, after
<1> HIDE DEF p, after
<1>3. \A k \in 1 .. Len(after) : \E l \in 1 .. Len(hosts) :
        after[k] = hosts[l] /\ l = IF k < p THEN k ELSE k + 1
  BY <1>1, <1>2
<1>4. BoundFirst(after)
  <2> SUFFICES ASSUME NEW j \in 1 .. Len(after), NEW k \in 1 .. Len(after), j < k,
                      after[k] \in ToSet(entries)
               PROVE  after[j] \in ToSet(entries)
    BY DEF BoundFirst
  <2>1. PICK l \in 1 .. Len(hosts) : after[j] = hosts[l] /\ l = IF j < p THEN j ELSE j + 1
    BY <1>3
  <2>2. PICK m \in 1 .. Len(hosts) : after[k] = hosts[m] /\ m = IF k < p THEN k ELSE k + 1
    BY <1>3
  <2>3. l < m
    BY <1>1, <1>2, <2>1, <2>2
  <2> QED BY <2>1, <2>2, <2>3 DEF BoundFirst
<1>5. ASSUME NEW h \in ToSet(hosts), InstanceOf[h] # i PROVE h \in ToSet(after)
  <2>1. PICK l \in 1 .. Len(hosts) : hosts[l] = h
    BY <1>1, ToSetIs
  <2>2. l # p
    BY <1>2, <1>5, <2>1
  <2>3. CASE l < p
    <3>1. l \in 1 .. Len(after) /\ after[l] = h
      <4>1. l \in 1 .. Len(after)
        BY <1>1, <1>2, <2>3
      <4> QED BY <1>2, <2>1, <2>3, <4>1
    <3> QED BY <1>2, <3>1, ToSetIs
  <2>4. CASE l > p
    <3>1. l - 1 \in 1 .. Len(after) /\ ~(l - 1 < p) /\ (l - 1) + 1 = l
      BY <1>1, <1>2, <2>4
    <3>2. after[l - 1] = h
      BY <1>2, <2>1, <3>1
    <3> QED BY <1>2, <3>1, <3>2, ToSetIs
  <2> QED BY <1>2, <2>2, <2>3, <2>4
<1>6. ToSet(after) \subseteq ToSet(hosts)
  <2> SUFFICES ASSUME NEW h \in ToSet(after) PROVE h \in ToSet(hosts)
    OBVIOUS
  <2>1. PICK k \in 1 .. Len(after) : after[k] = h
    BY <1>2, ToSetIs
  <2>2. PICK l \in 1 .. Len(hosts) : after[k] = hosts[l]
    BY <1>3
  <2> QED BY <1>1, <2>1, <2>2, ToSetIs
<1> QED BY <1>4, <1>5, <1>6 DEF after

LEMMA AppendToSet ==
  ASSUME NEW S, NEW s \in Seq(S), NEW x \in S
  PROVE  ToSet(Append(s, x)) = ToSet(s) \cup {x}
<1> DEFINE t == Append(s, x)
<1>1. /\ t \in Seq(S) /\ Len(t) = Len(s) + 1 /\ t[Len(s) + 1] = x
      /\ \A k \in 1 .. Len(s) : t[k] = s[k]
      /\ DOMAIN t = 1 .. Len(t) /\ DOMAIN s = 1 .. Len(s) /\ Len(s) \in Nat
  OBVIOUS
<1> HIDE DEF t
<1>2. \A k : k \in 1 .. Len(t) <=> k \in 1 .. Len(s) \/ k = Len(s) + 1
  BY <1>1
<1>3. ToSet(t) = ToSet(s) \cup {x}
  BY <1>1, <1>2 DEF ToSet
<1> QED BY <1>3 DEF t

(* A file of a known or of a new name, read or not.                                         *)
LEMMA OwnReadStep ==
  ASSUME OwnFiles, OwnInv, NEW n \in Name, NEW r \in PollRound,
         round.stage # "idle",
         r.stage = round.stage, r.known = round.known, r.found = round.found,
         r.ambiguous = round.ambiguous, r.retained = round.retained,
         r.candidates \subseteq round.candidates,
         ToSet(r.unread) \subseteq ToSet(round.unread),
         ToSet(round.unread) \subseteq ToSet(r.unread) \cup {n},
         file[n] # None => (file[n] \in ToSet(entries) <=> round.stage = "known"),
         round' = Unread(n, r) \/ (file[n] # None /\ round' = Read(n, r)),
         UNCHANGED <<worldVars, entries>>
  PROVE  BindingsFit' /\ RoundHolds'
<1> USE DEF OwnInv, Inv
<1>1. UNCHANGED <<born, alive, entries>>
  BY DEF worldVars
<1>2. BindingsFit'
  BY <1>1 DEF BindingsFit
<1>3. KnownFiles' = KnownFiles
  BY <1>1 DEF KnownFiles
<1>4. IsMap(round.found) /\ round.found \in Seq(Host) /\ alive \subseteq Host
      /\ entries \in Seq(Host) /\ ToSet(entries) \subseteq Host
  BY ToSetIs DEF IsMap, TypeOK, PollRound, FoundHolds
<1>5. /\ round'.stage = round.stage /\ round'.known = round.known /\ round'.unread = r.unread
      /\ round'.candidates = r.candidates /\ round.retained \subseteq round'.retained
  BY ReadIs, UnreadIs
(* What is left to show of the new round. *)
<1>6. ASSUME round'.ambiguous \subseteq round'.retained,
             BoundFirst(round'.found),
             round.stage = "known" => ToSet(round'.found) \subseteq ToSet(entries),
             \A h \in alive \cap ToSet(entries) :
               h \in ToSet(round.found) \/ (NameOf[h] = n /\ round.stage = "known") =>
                 InstanceOf[h] \in round'.retained \/ h \in ToSet(round'.found)
      PROVE  RoundHolds'
  <2>1. BoundFirst(round.found)'
    BY <1>1, <1>6 DEF BoundFirst
  <2>2. \A h \in alive \cap ToSet(entries) : Covered(h, round')
    <3> SUFFICES ASSUME NEW h \in alive \cap ToSet(entries) PROVE Covered(h, round')
      OBVIOUS
    <3>1. Covered(h, round)
      BY DEF RoundHolds
    <3> QED BY <1>5, <1>6, <3>1 DEF Covered
  <2> QED BY <1>1, <1>3, <1>5, <1>6, <2>1, <2>2 DEF RoundHolds, Covered
<1>7. ASSUME NEW h \in alive \cap ToSet(entries), NameOf[h] = n
      PROVE  file[n] = h /\ file[n] # None
  BY <1>4, <1>7, NoneIsNoHost DEF WorldHolds
<1>8. CASE round' = Unread(n, r)
  <2>1. round'.found = round.found /\ round'.ambiguous = round.ambiguous
        /\ (file[n] # None /\ round.known[n] # None => round.known[n] \in round'.retained)
    BY <1>8, UnreadIs
  <2>2. ASSUME NEW h \in alive \cap ToSet(entries), NameOf[h] = n, round.stage = "known"
        PROVE  InstanceOf[h] \in round'.retained
    <3>1. round.known[n] = InstanceOf[h] /\ InstanceOf[h] # None
      BY <1>4, <2>2, OwnKnownFile, InstanceType, NoneIsNoHost DEF RoundHolds
    <3> QED BY <1>7, <2>1, <2>2, <3>1
  <2> QED BY <1>2, <1>5, <1>6, <2>1, <2>2 DEF RoundHolds
<1>9. CASE file[n] # None /\ round' = Read(n, r)
  <2> DEFINE h == file[n]
             i == InstanceOf[h]
  <2>1. h \in Host /\ i \in Instance
    BY <1>9, InstanceType DEF TypeOK
  <2>2. \/ /\ i \in round.ambiguous /\ round'.found = round.found
           /\ round'.ambiguous = round.ambiguous
        \/ /\ i \in InstancesOf(round.found) /\ round'.found = Unbind(round.found, i)
           /\ i \in round'.retained /\ round'.ambiguous = round.ambiguous \cup {i}
        \/ /\ i \notin InstancesOf(round.found) /\ round'.found = Append(round.found, h)
           /\ round'.ambiguous = round.ambiguous
    BY <1>9, ReadIs
  <2>3. \A g \in alive \cap ToSet(entries) : NameOf[g] = n => g = h
    BY <1>7
  <2> HIDE DEF h, i
  <2>4. CASE i \in round.ambiguous /\ round'.found = round.found
             /\ round'.ambiguous = round.ambiguous
    <3>1. i \in round'.retained
      BY <1>5, <2>4 DEF RoundHolds
    <3> QED BY <1>2, <1>5, <1>6, <2>3, <2>4, <3>1 DEF RoundHolds, i
  <2>5. CASE /\ i \in InstancesOf(round.found) /\ round'.found = Unbind(round.found, i)
             /\ i \in round'.retained /\ round'.ambiguous = round.ambiguous \cup {i}
    <3>1. /\ BoundFirst(round'.found)
          /\ \A g \in ToSet(round.found) : InstanceOf[g] = i \/ g \in ToSet(round'.found)
          /\ ToSet(round'.found) \subseteq ToSet(round.found)
      BY <1>4, <2>5, UnbindKeepsOrder DEF RoundHolds
    <3>2. round'.ambiguous \subseteq round'.retained
      BY <1>5, <2>5 DEF RoundHolds
    <3>3. round.stage = "known" => ToSet(round'.found) \subseteq ToSet(entries)
      BY <3>1 DEF RoundHolds
    <3> QED BY <1>2, <1>6, <2>3, <2>5, <3>1, <3>2, <3>3 DEF i
  <2>6. CASE /\ i \notin InstancesOf(round.found) /\ round'.found = Append(round.found, h)
             /\ round'.ambiguous = round.ambiguous
    <3> DEFINE more == Append(round.found, h)
    <3>1. ToSet(more) = ToSet(round.found) \cup {h}
      BY <1>4, <2>1, AppendToSet
    <3>2. h \in ToSet(entries) <=> round.stage = "known"
      BY <1>9 DEF h
    <3>3. /\ more \in Seq(Host) /\ Len(more) = Len(round.found) + 1
          /\ more[Len(round.found) + 1] = h /\ Len(round.found) \in Nat
          /\ \A k \in 1 .. Len(round.found) : more[k] = round.found[k]
      BY <1>4, <2>1
    <3> HIDE DEF more
    <3>4. BoundFirst(more)
      <4> SUFFICES ASSUME NEW j \in 1 .. Len(more), NEW k \in 1 .. Len(more), j < k,
                          more[k] \in ToSet(entries)
                   PROVE  more[j] \in ToSet(entries)
        BY DEF BoundFirst
      <4>1. j \in 1 .. Len(round.found) /\ more[j] = round.found[j]
            /\ (k \in 1 .. Len(round.found) \/ k = Len(round.found) + 1)
        BY <3>3
      <4>2. CASE k = Len(round.found) + 1
        <5>1. round.stage = "known"
          BY <3>2, <3>3, <4>2
        <5>2. round.found[j] \in ToSet(round.found)
          BY <1>4, <4>1, ToSetIs
        <5> QED BY <4>1, <5>1, <5>2 DEF RoundHolds
      <4>3. CASE k \in 1 .. Len(round.found)
        BY <3>3, <4>1, <4>3 DEF RoundHolds, BoundFirst
      <4> QED BY <4>1, <4>2, <4>3
    <3>5. round.stage = "known" => ToSet(more) \subseteq ToSet(entries)
      BY <3>1, <3>2 DEF RoundHolds
    <3>6. round'.found = more
      BY <2>6 DEF more
    <3>7. round'.ambiguous \subseteq round'.retained
      BY <1>5, <2>6 DEF RoundHolds
    <3> QED BY <1>2, <1>6, <2>3, <3>1, <3>4, <3>5, <3>6, <3>7
  <2> QED BY <2>2, <2>4, <2>5, <2>6
<1> QED BY <1>8, <1>9

LEMMA OwnRevisit ==
  ASSUME OwnFiles, OwnInv, NEW n \in Name, Revisit(n) \/ RevisitFails(n)
  PROVE  BindingsFit' /\ RoundHolds'
<1> USE DEF OwnInv, Inv
<1> DEFINE rest == Tail(round.unread)
           r == [round EXCEPT !.unread = rest]
<1>1. /\ round.stage = "known" /\ n = Head(round.unread) /\ round.unread # << >>
      /\ round.unread \in Seq(Name) /\ round \in PollRound
      /\ round' = Unread(n, r) \/ (file[n] # None /\ round' = Read(n, r))
      /\ UNCHANGED <<worldVars, entries>>
  BY DEF Revisit, RevisitFails, Revisits, TypeOK, PollRound
<1>2. /\ rest \in Seq(Name) /\ Len(round.unread) \in Nat /\ Len(rest) = Len(round.unread) - 1
      /\ \A k \in 1 .. Len(rest) : rest[k] = round.unread[k + 1]
      /\ n = round.unread[1] /\ Len(round.unread) >= 1
  BY <1>1
<1> HIDE DEF rest
<1>3. ToSet(rest) \subseteq ToSet(round.unread)
  <2> SUFFICES ASSUME NEW x \in ToSet(rest) PROVE x \in ToSet(round.unread)
    OBVIOUS
  <2>1. PICK k \in 1 .. Len(rest) : rest[k] = x
    BY <1>2, ToSetIs
  <2>2. k + 1 \in 1 .. Len(round.unread)
    BY <1>2
  <2> QED BY <1>1, <1>2, <2>1, <2>2, ToSetIs
<1>4. ToSet(round.unread) \subseteq ToSet(rest) \cup {n}
  <2> SUFFICES ASSUME NEW x \in ToSet(round.unread), x # n PROVE x \in ToSet(rest)
    OBVIOUS
  <2>1. PICK k \in 1 .. Len(round.unread) : round.unread[k] = x
    BY <1>1, ToSetIs
  <2>2. k # 1
    BY <1>2, <2>1
  <2>3. k - 1 \in 1 .. Len(rest) /\ (k - 1) + 1 = k
    BY <1>2, <2>2
  <2>4. rest[k - 1] = x
    BY <1>2, <2>1, <2>3
  <2> QED BY <1>2, <2>3, <2>4, ToSetIs
<1>5. /\ r \in PollRound /\ r.stage = round.stage /\ r.known = round.known
      /\ r.found = round.found /\ r.ambiguous = round.ambiguous /\ r.retained = round.retained
      /\ r.candidates = round.candidates /\ r.unread = rest
  BY <1>1, <1>2 DEF PollRound
<1>6. ASSUME file[n] # None PROVE file[n] \in ToSet(entries)
  <2>1. file[n] \in Host /\ NameOf[file[n]] = n
    BY <1>6 DEF TypeOK, WorldHolds
  <2>2. n \in ToSet(round.unread)
    <3>1. 1 \in 1 .. Len(round.unread)
      BY <1>2
    <3> QED BY <1>1, <1>2, <3>1, ToSetIs
  <2>3. PICK h \in ToSet(entries) : NameOf[h] = n
    BY <1>1, <2>2 DEF RoundHolds
  <2>4. entries \in Seq(Host) /\ h \in Host
    BY ToSetIs DEF TypeOK
  <2> QED BY <2>1, <2>3, <2>4 DEF OwnFiles
<1> HIDE DEF r
<1> QED BY <1>1, <1>3, <1>4, <1>5, <1>6, OwnReadStep

LEMMA OwnDiscover ==
  ASSUME OwnFiles, OwnInv, NEW h \in Host, Discover(h) \/ DiscoverFails(h)
  PROVE  BindingsFit' /\ RoundHolds'
<1> USE DEF OwnInv, Inv
<1> DEFINE n == NameOf[h]
           r == [round EXCEPT !.candidates = @ \ {h}]
<1>1. /\ round.stage = "read" /\ h \in round.candidates /\ n \in Name /\ round \in PollRound
      /\ round.candidates \subseteq Host
      /\ round' = Unread(n, r) \/ (file[n] # None /\ round' = Read(n, r))
      /\ UNCHANGED <<worldVars, entries>>
  BY DirectoryAssumption
     DEF Discover, DiscoverFails, Discovers, NextCandidate, TypeOK, PollRound
<1>2. /\ r \in PollRound /\ r.stage = round.stage /\ r.known = round.known
      /\ r.found = round.found /\ r.ambiguous = round.ambiguous /\ r.retained = round.retained
      /\ r.candidates = round.candidates \ {h} /\ r.unread = round.unread
  BY <1>1 DEF PollRound
<1>3. ASSUME file[n] # None PROVE file[n] \notin ToSet(entries)
  <2>1. file[n] \in Host /\ NameOf[file[n]] = n
    BY <1>1, <1>3 DEF TypeOK, WorldHolds
  <2>2. file[n] = h
    BY <2>1 DEF OwnFiles
  <2> QED BY <1>1, <2>2 DEF RoundHolds
<1> HIDE DEF r, n
<1> QED BY <1>1, <1>2, <1>3, OwnReadStep

LEMMA OwnScan ==
  ASSUME OwnFiles, OwnInv, Scan
  PROVE  BindingsFit' /\ RoundHolds'
<1> USE DEF OwnInv, Inv
<1>1. PICK scanned \in Scans :
        round' = [round EXCEPT !.stage = "read",
                    !.candidates = {file[n] : n \in {m \in scanned :
                       /\ round.known[m] = None
                       /\ m \notin SeenDead(scanned, round.known)}}]
  BY DEF Scan
<1>2. /\ round.stage = "known" /\ round.unread = << >> /\ UNCHANGED <<born, alive, entries>>
  BY DEF Scan, worldVars
<1> DEFINE new == {file[n] : n \in {m \in scanned :
                     /\ round.known[m] = None
                     /\ m \notin SeenDead(scanned, round.known)}}
<1>3. new \cap ToSet(entries) = {}
  <2> SUFFICES ASSUME NEW n \in scanned, round.known[n] = None, file[n] \in ToSet(entries)
               PROVE  FALSE
    OBVIOUS
  <2>1. n \in Name /\ file[n] # None
    BY DEF Scans
  <2>2. file[n] \in Host /\ NameOf[file[n]] = n
    BY <2>1 DEF TypeOK, WorldHolds
  <2>3. KnownFiles[n] = InstanceOf[file[n]]
    BY <2>2, OwnKnownFile
  <2> QED BY <1>2, <2>2, <2>3, InstanceType, NoneIsNoHost DEF RoundHolds
<1>4. round' = [round EXCEPT !.stage = "read", !.candidates = new]
  BY <1>1
<1> HIDE DEF new
<1>5. /\ round'.stage = "read" /\ round'.candidates = new /\ round'.found = round.found
      /\ round'.ambiguous = round.ambiguous /\ round'.retained = round.retained
  BY <1>4 DEF TypeOK, PollRound
<1>6. ToSet(<< >>) = {}
  BY DEF ToSet
<1>7. BindingsFit'
  BY <1>2 DEF BindingsFit
<1>8. RoundHolds'
  BY <1>2, <1>3, <1>5, <1>6 DEF RoundHolds, BoundFirst, Covered
<1> QED BY <1>7, <1>8

LEMMA OwnReadDone ==
  ASSUME OwnInv, ReadDone
  PROVE  BindingsFit' /\ RoundHolds'
<1> USE DEF OwnInv, Inv
<1>1. /\ round.stage = "read" /\ round' = [round EXCEPT !.stage = "query", !.candidates = {}]
      /\ UNCHANGED <<born, alive, entries>>
  BY DEF ReadDone, worldVars
<1>2. /\ round'.stage = "query" /\ round'.candidates = {} /\ round'.found = round.found
      /\ round'.ambiguous = round.ambiguous /\ round'.retained = round.retained
  BY <1>1 DEF TypeOK, PollRound
<1>3. BindingsFit' /\ RoundHolds'
  BY <1>1, <1>2 DEF BindingsFit, RoundHolds, BoundFirst, Covered
<1> QED BY <1>3

LEMMA OwnAnswered ==
  ASSUME OwnInv, NEW h \in Host, NEW a, Answered(h, a)
  PROVE  BindingsFit' /\ RoundHolds'
<1> USE DEF OwnInv, Inv
<1> DEFINE answers == [g \in DOMAIN round.answers \cup {h} |->
                         IF g = h THEN a ELSE round.answers[g]]
<1>1. /\ round.stage = "query" /\ round' = [round EXCEPT !.answers = answers]
      /\ UNCHANGED <<born, alive, entries>>
  BY DEF Answered, worldVars
<1> HIDE DEF answers
<1>2. /\ round'.stage = "query" /\ round'.candidates = round.candidates
      /\ round'.found = round.found /\ round'.ambiguous = round.ambiguous
      /\ round'.retained = round.retained
  BY <1>1 DEF TypeOK, PollRound
<1>3. BindingsFit' /\ RoundHolds'
  BY <1>1, <1>2 DEF BindingsFit, RoundHolds, BoundFirst, Covered
<1> QED BY <1>3

LEMMA OwnSettle ==
  ASSUME OwnFiles, OwnInv, Settle
  PROVE  BindingsFit' /\ RoundHolds'
<1> USE DEF OwnInv, Inv
<1>1. /\ round.stage = "query" /\ DOMAIN round.answers = ToSet(round.found)
      /\ entries' = Settled.next /\ round' = NoRound /\ UNCHANGED <<born, alive>>
  BY DEF Settle, worldVars
<1>2. LoopHolds(Settled, Len(round.found)) /\ TurnHolds(Settled, Len(round.found))
  BY <1>1, OwnLoopHolds
<1>3. IsMap(entries') /\ entries' \in Seq(Host)
  BY <1>1, <1>2 DEF TurnHolds, IsMap
<1>4. ASSUME NEW h \in ToSet(entries') PROVE born[h] # 0
  <2>1. PICK k \in 1 .. Len(entries') : entries'[k] = h
    BY <1>3, ToSetIs
  <2>2. HostFor(entries', InstanceOf[h]) = h /\ h \in Host
    BY <1>3, <2>1, PlaceFor
  <2>3. h \in ToSet(entries) \cup ToSet(round.found)
    BY <1>1, <1>2, <2>2, InstanceType, NoneIsNoHost DEF LoopHolds
  <2>4. CASE h \in ToSet(round.found)
    <3>1. round.found \in Seq(Host)
      BY DEF TypeOK, PollRound
    <3>2. \E m \in 1 .. Len(round.found) : round.found[m] = h
      BY <2>4, <3>1, ToSetIs
    <3> QED BY <3>2 DEF FoundHolds
  <2> QED BY <2>3, <2>4 DEF BindingsFit
<1>5. BindingsFit'
  BY <1>1, <1>2, <1>4 DEF BindingsFit, LoopHolds
<1>6. /\ NoRound.ambiguous = {} /\ NoRound.found = << >> /\ NoRound.stage = "idle"
      /\ NoRound.candidates = {}
  BY DEF NoRound
<1>7. Len(<< >>) = 0
  OBVIOUS
<1>8. RoundHolds'
  BY <1>1, <1>6, <1>7 DEF RoundHolds, BoundFirst
<1> QED BY <1>5, <1>8

LEMMA OwnInit ==
  ASSUME Init
  PROVE  BindingsFit /\ RoundHolds
<1>1. /\ NoRound.ambiguous = {} /\ NoRound.found = << >> /\ NoRound.stage = "idle"
      /\ NoRound.candidates = {}
  BY DEF NoRound
<1>2. Len(<< >>) = 0 /\ ToSet(<< >>) = {}
  BY DEF ToSet
<1>3. 0 <= MaxEntries
  BY DirectoryAssumption
<1> QED BY <1>1, <1>2, <1>3 DEF Init, BindingsFit, RoundHolds, BoundFirst

LEMMA OwnNext ==
  ASSUME OwnFiles, OwnInv, [Next]_vars
  PROVE  OwnInv'
<1>1. Inv'
  BY NextInv DEF OwnInv
<1>2. CASE World
  BY <1>1, <1>2, OwnWorld DEF OwnInv
<1>3. CASE Round
  <2>1. CASE BeginRound \/ Scan \/ ReadDone \/ Settle
    BY <1>1, <2>1, OwnBeginRound, OwnScan, OwnReadDone, OwnSettle DEF OwnInv
  <2>2. CASE \E n \in Name : Revisit(n) \/ RevisitFails(n)
    BY <1>1, <2>2, OwnRevisit DEF OwnInv
  <2>3. CASE \E h \in Host : Discover(h) \/ DiscoverFails(h)
    BY <1>1, <2>3, OwnDiscover DEF OwnInv
  <2>4. CASE \E h \in Host : QueryFails(h) \/ QuerySettles(h)
    BY <1>1, <2>4, OwnAnswered DEF OwnInv, QueryFails, QuerySettles
  <2> QED BY <1>3, <2>1, <2>2, <2>3, <2>4 DEF Round
<1>4. CASE DirectoryLost
  BY <1>1, <1>4, OwnDirectoryLost DEF OwnInv
<1>5. CASE (\E i \in Instance : Expire(i)) \/ (\E l \in Launch : Resolve(l)) \/ UNCHANGED vars
  <2>1. UNCHANGED <<entries, round, born, alive>>
    BY <1>5 DEF Expire, Resolve, Press, Link, Release, Respond, vars, worldVars
  <2>2. BindingsFit' /\ RoundHolds'
    BY <2>1, OwnUnmoved
  <2> QED BY <1>1, <2>2 DEF OwnInv
<1> QED BY <1>2, <1>3, <1>4, <1>5 DEF Next

(* When every host has an identity and a file name of its own, a round retires the card of  *)
(* no live one, whatever file cannot be read, directory cannot be scanned, query fails or   *)
(* budget is spent (omp-registry.ts 39-45, 60 and 276).                                     *)
THEOREM LiveCardsStay ==
  ASSUME OwnFiles
  PROVE  Spec => FinishedOnlyDropped
<1>1. Init => OwnInv
  BY InitInv, OwnInit DEF OwnInv
<1>2. OwnInv /\ [Next]_vars => OwnInv'
  BY OwnNext
<1> DEFINE Stays ==
      \A i \in Instance :
        (round.stage = "query" /\ round'.stage = "idle" /\ card[i] # None /\ card'[i] = None)
          => card[i].host \notin alive \/ ~Publishes(card[i].host)
<1>3. OwnInv /\ [Next]_vars => [Stays]_vars
  <2> SUFFICES ASSUME OwnInv, [Next]_vars, NEW i \in Instance,
                      round.stage = "query", round'.stage = "idle",
                      card[i] # None, card'[i] = None, card[i].host \in alive
               PROVE  FALSE
    OBVIOUS
  <2>1. card' # card /\ round' # round
    OBVIOUS
  <2>2. Settle
    BY <2>1 DEF vars, worldVars, Next, World, Publish, Die, NewRoom, Prune, Round, BeginRound, Scan,
           ReadDone, Revisit, RevisitFails, Revisits, Discover, DiscoverFails, Discovers,
           QueryFails, QuerySettles, Answered, DirectoryLost, Expire, Resolve, Press, Link,
           Release, Respond
  <2> QED BY <2>2, SettleShows
<1> QED BY <1>1, <1>2, <1>3, PTL DEF Spec, FinishedOnlyDropped
=============================================================================
