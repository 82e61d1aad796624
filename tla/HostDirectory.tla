----------------------------- MODULE HostDirectory -----------------------------
(***************************************************************************)
(* Discovery and launch: apps/gateway/src/omp-registry.ts.                 *)
(*                                                                         *)
(* OMP hosts publish one file each in a directory the gateway only reads.  *)
(* A poll round revisits the files it knows, scans the directory, reads    *)
(* unknown files newest first, queries every host it found, binds the      *)
(* answers to instances and reconciles the registry.  A launch brokers one *)
(* capability from the host its instance is bound to.  Every await is a    *)
(* step of its own: hosts appear, die, are pruned and change room between  *)
(* any two of them, and launches run beside the round.                     *)
(*                                                                         *)
(* Data abstracted: a host writes its file once, so the host is the file's *)
(* identity, its process id and its endpoint.  The registry is one card    *)
(* per instance whose TTL may run out at any time (SessionRegistry says    *)
(* when).  What a card offers beyond its generation is view, control, or   *)
(* control with a pending request.                                         *)
(***************************************************************************)
EXTENDS Naturals, Sequences, FiniteSets, SequencesExt

CONSTANTS
  Host,         (* OMP processes                                             *)
  Instance,     (* instance identities                                       *)
  Name,         (* file names in the discovery directory                     *)
  Launch,       (* concurrent launch requests                                *)
  None,
  InstanceOf,   (* the identity a host's file claims                         *)
  NameOf,       (* the name of its file                                      *)
  Offer,        (* what cards offer: "view", "control", "asking"             *)
  MaxEntries,   (* registry.maxSessions: files read and hosts bound a round  *)
  MaxNames,     (* MAX_DISCOVERY_NAMES                                       *)
  MaxDead,      (* dead publications remembered                              *)
  MaxGeneration (* bound: rooms a host opens                                 *)

ASSUME DirectoryAssumption ==
  /\ IsFiniteSet(Host)
  /\ InstanceOf \in [Host -> Instance]
  /\ NameOf \in [Host -> Name]
  /\ {MaxEntries, MaxNames, MaxGeneration} \subseteq Nat \ {0}
  /\ MaxDead \in Nat
  /\ Offer \subseteq {"view", "control", "asking"} /\ "view" \in Offer
  /\ None \notin Host \cup Instance

VARIABLES
  file,      (* the host whose publication stands under each name            *)
  born,      (* when each host published: 0, not yet; larger is newer        *)
  alive,     (* hosts whose endpoint accepts connections                     *)
  room,      (* the generation each live host's room has reached             *)
  entries,   (* OmpHostReader.#entries: bound hosts, in Map order            *)
  dead,      (* OmpHostReader.#dead: per name, the identity found dead       *)
  round,     (* the poll round in flight                                     *)
  card,      (* the registry's card of each instance                         *)
  launch,    (* OmpLaunchResolver.resolve: the requests in flight            *)
  letGo      (* history: the requests whose instance lost its binding since  *)

worldVars == <<file, born, alive, room>>
vars == <<file, born, alive, room, entries, dead, round, card, launch, letGo>>

Card == [host : Host, generation : 1 .. MaxGeneration, offer : Offer]
Answer == [status : {"ok"}, generation : 1 .. MaxGeneration, offer : Offer]
          \cup [status : {"gone", "unavailable"}]

ASSUME NoneIsNoCard == None \notin Card

InstancesOf(hosts) == {InstanceOf[hosts[k]] : k \in DOMAIN hosts}

(* A Map from instances to hosts, kept as the sequence of its hosts: get, set *)
(* and delete.                                                                *)
PlaceOf(hosts, i) == CHOOSE k \in DOMAIN hosts : InstanceOf[hosts[k]] = i

HostFor(hosts, i) ==
  IF i \in InstancesOf(hosts) THEN hosts[PlaceOf(hosts, i)] ELSE None

Bind(hosts, h) ==
  IF InstanceOf[h] \in InstancesOf(hosts)
  THEN [hosts EXCEPT ![PlaceOf(hosts, InstanceOf[h])] = h]
  ELSE Append(hosts, h)

Unbind(hosts, i) ==
  IF i \in InstancesOf(hosts) THEN RemoveAt(hosts, PlaceOf(hosts, i)) ELSE hosts

(* entryFor: the host bound to i, if any.                                     *)
EntryFor(i) == HostFor(entries, i)

(* knownFiles: the instance each known file was bound to (the last one when    *)
(* two bindings share a file), and its keys in insertion order.               *)
KnownFiles ==
  [n \in Name |->
     LET of == {k \in DOMAIN entries : NameOf[entries[k]] = n}
     IN IF of = {} THEN None
        ELSE InstanceOf[entries[CHOOSE k \in of : \A j \in of : j <= k]]]

NamesOf[k \in 0 .. Len(entries)] ==
  IF k = 0 THEN << >>
  ELSE IF NameOf[entries[k]] \in ToSet(NamesOf[k - 1]) THEN NamesOf[k - 1]
  ELSE Append(NamesOf[k - 1], NameOf[entries[k]])

KnownNames == NamesOf[Len(entries)]

NoRound == [stage |-> "idle", known |-> [n \in Name |-> None], unread |-> << >>,
            candidates |-> {}, files |-> 0, found |-> << >>, ambiguous |-> {},
            retained |-> {}, answers |-> [h \in {} |-> None]]

Idle == [stage |-> "idle", instance |-> None, generation |-> 1, want |-> "view",
         host |-> None, minted |-> 0]

PollRound == [stage : {"idle", "known", "read", "query"}, known : [Name -> Instance \cup {None}],
              unread : Seq(Name), candidates : SUBSET Host, files : Nat, found : Seq(Host),
              ambiguous : SUBSET Instance, retained : SUBSET Instance,
              answers : UNION {[hosts -> Answer] : hosts \in SUBSET Host}]

Resolution == [stage : {"idle", "linking", "minted", "released"},
               instance : Instance \cup {None}, generation : 1 .. MaxGeneration,
               want : Offer, host : Host \cup {None}, minted : 0 .. MaxGeneration]

(* No two hosts of a Map are bound to one instance.                           *)
Distinct(hosts) ==
  \A j, k \in DOMAIN hosts : InstanceOf[hosts[j]] = InstanceOf[hosts[k]] => j = k

TypeOK ==
  /\ file \in [Name -> Host \cup {None}]
  /\ born \in [Host -> 0 .. Cardinality(Host)]
  /\ alive \subseteq Host
  /\ room \in [Host -> 1 .. MaxGeneration]
  /\ entries \in Seq(Host) /\ Distinct(entries)
  /\ dead \in [Name -> Host \cup {None}]
  /\ Cardinality({n \in Name : dead[n] # None}) <= MaxDead
  /\ round \in PollRound
  /\ card \in [Instance -> Card \cup {None}]
  /\ launch \in [Launch -> Resolution]
  /\ letGo \subseteq Launch

Init ==
  /\ file = [n \in Name |-> None]
  /\ born = [h \in Host |-> 0]
  /\ alive = {}
  /\ room = [h \in Host |-> 1]
  /\ entries = << >>
  /\ dead = [n \in Name |-> None]
  /\ round = NoRound
  /\ card = [i \in Instance |-> None]
  /\ launch = [l \in Launch |-> Idle]
  /\ letGo = {}

-----------------------------------------------------------------------------
(* OMP, which the gateway only observes: a host listens, then writes its      *)
(* file once; a killed host leaves the file until OMP prunes it or another    *)
(* host takes the name.                                                       *)

Publish(h) ==
  /\ born[h] = 0
  /\ file[NameOf[h]] = None \/ file[NameOf[h]] \notin alive
  /\ born' = [born EXCEPT ![h] = 1 + Cardinality({g \in Host : born[g] # 0})]
  /\ alive' = alive \cup {h}
  /\ file' = [file EXCEPT ![NameOf[h]] = h]
  /\ UNCHANGED <<room, entries, dead, round, card, launch, letGo>>

Die(h) ==
  /\ h \in alive
  /\ alive' = alive \ {h}
  /\ room' = [room EXCEPT ![h] = 1]
  /\ UNCHANGED <<file, born, entries, dead, round, card, launch, letGo>>

Prune(n) ==
  /\ file[n] # None /\ file[n] \notin alive
  /\ file' = [file EXCEPT ![n] = None]
  /\ UNCHANGED <<born, alive, room, entries, dead, round, card, launch, letGo>>

NewRoom(h) ==
  /\ h \in alive /\ room[h] < MaxGeneration
  /\ room' = [room EXCEPT ![h] = @ + 1]
  /\ UNCHANGED <<file, born, alive, entries, dead, round, card, launch, letGo>>

-----------------------------------------------------------------------------
(* #readEntries.                                                              *)

BeginRound ==
  /\ round.stage = "idle"
  /\ round' = [NoRound EXCEPT !.stage = "known", !.known = KnownFiles,
                 !.unread = KnownNames]
  /\ UNCHANGED <<worldVars, entries, dead, card, launch, letGo>>

(* The directory is missing (nothing is published), or cannot be opened or     *)
(* scanned: then every bound instance is retained.                            *)
DirectoryLost ==
  /\ round.stage = "known"
  /\ \/ /\ round.files = 0
        /\ \A n \in Name : file[n] = None
        /\ round' = [NoRound EXCEPT !.stage = "query"]
     \/ /\ round.files = 0 \/ round.unread = << >>
        /\ round' = [NoRound EXCEPT !.stage = "query", !.retained = InstancesOf(entries)]
  /\ UNCHANGED <<worldVars, entries, dead, card, launch, letGo>>

(* readEntry of the file at n when it is missing, or when it cannot be read:    *)
(* then the instance it was bound to is retained.                              *)
Unread(n, r) ==
  LET kept == IF r.known[n] = None THEN {} ELSE {r.known[n]}
  IN [r EXCEPT !.files = @ + 1,
               !.retained = @ \cup (IF file[n] = None THEN {} ELSE kept)]

(* readEntry of the file at n when it parses: two files that claim one          *)
(* instance bind neither.                                                      *)
Read(n, r) ==
  LET i == InstanceOf[file[n]]
      other == {r.known[n]} \ {None, i}
      once == [r EXCEPT !.files = @ + 1, !.retained = @ \cup other]
  IN IF i \in r.ambiguous THEN once
     ELSE IF i \in InstancesOf(r.found)
     THEN [once EXCEPT !.retained = @ \cup {i}, !.ambiguous = @ \cup {i},
                       !.found = Unbind(@, i)]
     ELSE [once EXCEPT !.found = Append(@, file[n])]

(* The next known file, in the order of its binding.                            *)
Revisits(n) ==
  /\ round.stage = "known"
  /\ round.unread # << >> /\ n = Head(round.unread)
  /\ UNCHANGED <<worldVars, entries, dead, card, launch, letGo>>

Revisit(n) ==
  Revisits(n) /\ file[n] # None /\ round' = Read(n, [round EXCEPT !.unread = Tail(@)])

RevisitFails(n) ==
  Revisits(n) /\ round' = Unread(n, [round EXCEPT !.unread = Tail(@)])

(* Dead publications still standing unchanged among the scanned names.        *)
SeenDead(scanned, known) ==
  {n \in scanned : known[n] = None /\ file[n] # None /\ dead[n] = file[n]}

(* What a scan leaves in #dead: replaced files are forgotten, and, when the   *)
(* scan was complete, files OMP has pruned.                                   *)
Remembered(scanned, known) ==
  [n \in Name |->
     IF n \in SeenDead(scanned, known) THEN dead[n]
     ELSE IF n \in scanned /\ known[n] = None THEN None
     ELSE IF Cardinality({m \in Name : file[m] # None}) < MaxNames THEN None
     ELSE dead[n]]

(* At most MaxNames names, whichever the directory lists first.               *)
Scans == {s \in SUBSET {n \in Name : file[n] # None} :
            \/ Cardinality(s) = MaxNames
            \/ Cardinality(s) < MaxNames /\ \A n \in Name : file[n] # None => n \in s}

Scan ==
  /\ round.stage = "known"
  /\ round.unread = << >>
  /\ \E scanned \in Scans :
       /\ dead' = Remembered(scanned, round.known)
       /\ round' = [round EXCEPT !.stage = "read",
                      !.candidates = {file[n] : n \in {m \in scanned :
                         /\ round.known[m] = None
                         /\ m \notin SeenDead(scanned, round.known)}}]
  /\ UNCHANGED <<worldVars, entries, card, launch, letGo>>

(* Newest first.                                                              *)
NextCandidate(h) ==
  h \in round.candidates /\ \A g \in round.candidates : born[g] <= born[h]

Discovers(h) ==
  /\ round.stage = "read"
  /\ round.files < MaxEntries
  /\ NextCandidate(h)
  /\ UNCHANGED <<worldVars, entries, dead, card, launch, letGo>>

Discover(h) ==
  /\ Discovers(h) /\ file[NameOf[h]] # None
  /\ round' = Read(NameOf[h], [round EXCEPT !.candidates = @ \ {h}])

DiscoverFails(h) ==
  Discovers(h) /\ round' = Unread(NameOf[h], [round EXCEPT !.candidates = @ \ {h}])

ReadDone ==
  /\ round.stage = "read"
  /\ round.candidates = {} \/ round.files >= MaxEntries
  /\ round' = [round EXCEPT !.stage = "query", !.candidates = {}]
  /\ UNCHANGED <<worldVars, entries, dead, card, launch, letGo>>

-----------------------------------------------------------------------------
(* observe(): the queries, and what is made of their answers.                 *)

Answered(h, a) ==
  /\ round.stage = "query"
  /\ h \in ToSet(round.found) \ DOMAIN round.answers
  /\ round' = [round EXCEPT !.answers = [g \in DOMAIN @ \cup {h} |->
                                             IF g = h THEN a ELSE @[g]]]
  /\ UNCHANGED <<worldVars, entries, dead, card, launch, letGo>>

(* #query of a snapshot.  Only an endpoint that is gone says so; any query      *)
(* may time out or be refused for a moment.                                    *)
QueryFails(h) == Answered(h, [status |-> "unavailable"])

QuerySettles(h) ==
  \/ /\ h \in alive
     /\ \E o \in Offer :
          Answered(h, [status |-> "ok", generation |-> room[h], offer |-> o])
  \/ /\ h \notin alive
     /\ Answered(h, [status |-> "gone"])

(* Mutant of Mismatched: any answering publication takes the card over.        *)
MismatchedNever(h) == FALSE

(* A publication whose process is not the one its instance is bound to.        *)
Mismatched(h) == EntryFor(InstanceOf[h]) \notin {None, h}

(* Mutant of Finished: any failed query retires the host.                      *)
FinishedOnFailure(a) == a.status # "ok"

(* Only ENOENT and ECONNREFUSED prove a host finished.                         *)
Finished(a) == a.status = "gone"

(* Mutant of RememberDead: the name is remembered, whatever stands there now.   *)
RememberDeadName(known, h) ==
  IF Cardinality({n \in Name : known[n] # None}) >= MaxDead THEN known
  ELSE [known EXCEPT ![NameOf[h]] = file[NameOf[h]]]

(* Mutant of RememberDead: nothing is remembered.                               *)
RememberDeadNever(known, h) == known

(* #rememberDead: the identity the file had when it was read.                   *)
RememberDead(known, h) ==
  IF Cardinality({n \in Name : known[n] # None}) >= MaxDead THEN known
  ELSE [known EXCEPT ![NameOf[h]] = h]

(* Mutant of Keep: the binding is forgotten.                                     *)
KeepUnbound(s, i) == [s EXCEPT !.retained = @ \cup {i}]

(* An instance with no usable answer survives the round, bound as it was.        *)
Keep(s, i) ==
  [s EXCEPT !.retained = @ \cup {i},
            !.next = IF EntryFor(i) # None THEN Bind(@, EntryFor(i)) ELSE @]

(* One turn of the loop over the found entries.                                 *)
SettleOne(s, h) ==
  LET a == round.answers[h]
      i == InstanceOf[h]
  IN IF Finished(a)
     THEN [s EXCEPT !.retained = @ \ {i}, !.next = Unbind(@, i),
                    !.dead = RememberDead(@, h)]
     ELSE IF a.status # "ok" \/ Mismatched(h)
     THEN Keep(s, i)
     ELSE IF i \notin InstancesOf(s.next) /\ Len(s.next) >= MaxEntries
     THEN s
     ELSE [s EXCEPT !.next = Bind(@, h), !.observed = Append(@, h)]

(* registry.reconcile, one answer: an older generation changes nothing, and    *)
(* a full registry admits nobody.                                              *)
Refreshed(cards, h) ==
  LET i == InstanceOf[h]
      a == round.answers[h]
      full == Cardinality({j \in Instance : cards[j] # None}) >= MaxEntries
  IN IF \/ cards[i] # None /\ a.generation < cards[i].generation
        \/ cards[i] = None /\ full
     THEN cards
     ELSE [cards EXCEPT ![i] = [host |-> h, generation |-> a.generation, offer |-> a.offer]]

(* The bindings of the retained instances, after k of the entries.               *)
Carried[k \in 0 .. Len(entries)] ==
  IF k = 0 THEN << >>
  ELSE IF InstanceOf[entries[k]] \in round.retained
  THEN Bind(Carried[k - 1], entries[k])
  ELSE Carried[k - 1]

(* The loop over the found entries, after k turns, and after the last one.        *)
Turn[k \in 0 .. Len(round.found)] ==
  IF k = 0
  THEN [next |-> Carried[Len(entries)], retained |-> round.retained,
        observed |-> << >>, dead |-> dead]
  ELSE SettleOne(Turn[k - 1], round.found[k])

Settled == Turn[Len(round.found)]

(* The cards, after k of the answers.                                            *)
Reconciled[k \in 0 .. Len(Settled.observed)] ==
  IF k = 0 THEN card ELSE Refreshed(Reconciled[k - 1], Settled.observed[k])

(* The end of observe(), and reconcile(), which nothing but microtasks parts.    *)
Settle ==
  /\ round.stage = "query"
  /\ DOMAIN round.answers = ToSet(round.found)
  /\ entries' = Settled.next
  /\ dead' = Settled.dead
  /\ card' = [i \in Instance |->
                IF i \in InstancesOf(Settled.observed) \cup Settled.retained
                THEN Reconciled[Len(Settled.observed)][i] ELSE None]
  /\ round' = NoRound
  /\ letGo' = letGo \cup {l \in Launch : /\ launch[l].stage \in {"linking", "minted"}
                                     /\ HostFor(Settled.next, launch[l].instance) = None}
  /\ UNCHANGED <<worldVars, launch>>

(* The registry's sweep.                                                       *)
Expire(i) ==
  /\ card[i] # None
  /\ card' = [card EXCEPT ![i] = None]
  /\ UNCHANGED <<worldVars, entries, dead, round, launch, letGo>>

-----------------------------------------------------------------------------
(* OmpLaunchResolver.resolve.                                                  *)

(* registry.authorizeLaunch.                                                   *)
Authorized(i, g, want) ==
  /\ card[i] # None
  /\ card[i].generation = g
  /\ CASE want = "view" -> TRUE
       [] want = "control" -> card[i].offer # "view"
       [] want = "asking" -> card[i].offer = "asking"

(* A launch of the card the operator was shown, at some time, as generation g.  *)
(* It goes to the entry the last round bound; CardIsRouted says there is one,    *)
(* so that #entryFor has no need to list the directory again.                   *)
Press(l, i, g, want) ==
  /\ launch[l].stage = "idle"
  /\ Authorized(i, g, want)
  /\ launch' = [launch EXCEPT ![l] =
       [stage |-> "linking", instance |-> i, generation |-> g, want |-> want,
        host |-> EntryFor(i), minted |-> 0]]
  /\ UNCHANGED <<worldVars, entries, dead, round, card, letGo>>

(* The host mints a capability only for the generation it was asked for.        *)
Mints(h, g) == h \in alive /\ room[h] = g

(* The link query, answered with a capability (of the host's current room), or  *)
(* refused, or failed.                                                          *)
Link(l) ==
  /\ launch[l].stage = "linking"
  /\ \/ launch' = [launch EXCEPT ![l] = Idle] /\ letGo' = letGo \ {l}
     \/ /\ Mints(launch[l].host, launch[l].generation)
        /\ launch' = [launch EXCEPT ![l].stage = "minted",
                                    ![l].minted = room[launch[l].host]]
        /\ UNCHANGED letGo
  /\ UNCHANGED <<worldVars, entries, dead, round, card>>

(* The second authorizeLaunch, and the response.                                *)
Release(l) ==
  /\ launch[l].stage = "minted"
  /\ launch' = [launch EXCEPT ![l] =
       IF Authorized(launch[l].instance, launch[l].generation, launch[l].want)
       THEN [@ EXCEPT !.stage = "released"] ELSE Idle]
  /\ letGo' = letGo \ {l}
  /\ UNCHANGED <<worldVars, entries, dead, round, card>>

Respond(l) ==
  /\ launch[l].stage = "released"
  /\ launch' = [launch EXCEPT ![l] = Idle]
  /\ UNCHANGED <<worldVars, entries, dead, round, card, letGo>>

-----------------------------------------------------------------------------
World == \/ \E h \in Host : Publish(h) \/ Die(h) \/ NewRoom(h)
         \/ \E n \in Name : Prune(n)

Round ==
  \/ BeginRound \/ Scan \/ ReadDone \/ Settle
  \/ \E n \in Name : Revisit(n) \/ RevisitFails(n)
  \/ \E h \in Host : Discover(h) \/ DiscoverFails(h)
  \/ \E h \in Host : QueryFails(h) \/ QuerySettles(h)

Resolve(l) ==
  \/ \E i \in Instance, g \in 1 .. MaxGeneration, want \in Offer : Press(l, i, g, want)
  \/ Link(l) \/ Release(l) \/ Respond(l)

Next == \/ World
        \/ Round
        \/ DirectoryLost
        \/ \E i \in Instance : Expire(i)
        \/ \E l \in Launch : Resolve(l)

Spec == Init /\ [][Next]_vars

(* The interval keeps starting rounds, and every await of a round settles.      *)
FairSpec == Spec /\ WF_vars(Round)

-----------------------------------------------------------------------------
(* Properties.                                                                *)

Publishes(h) == file[NameOf[h]] = h

(* A poll removes a card only when its host really is finished: its endpoint    *)
(* is dead, or its file has left the directory.  Unreadable files, unusable     *)
(* directories, failed queries and budgets never retire the card of a live host *)
(* whose identity and file name are its own (omp-registry.ts 39-45, 60 and 276, *)
(* ARCHITECTURE.md 1.2).                                                        *)
FinishedOnlyDropped ==
  [][\A i \in Instance :
       (round.stage = "query" /\ round'.stage = "idle"
          /\ card[i] # None /\ card'[i] = None)
       => card[i].host \notin alive \/ ~Publishes(card[i].host)]_vars

(* An instance that is bound to a process is never bound to another one without *)
(* being unbound first, whatever files come to claim it (omp-registry.ts        *)
(* 438-442).                                                                    *)
NeverRetargeted ==
  [][\A i \in Instance : EntryFor(i) # None => EntryFor(i)' \in {None, EntryFor(i)}]_entries

(* A card the directory shows is bound to the process it was read from, so that *)
(* a launch of it is put to that process (omp-registry.ts 407-411, 540-552).    *)
CardIsRouted ==
  \A i \in Instance : card[i] # None => EntryFor(i) = card[i].host

(* A publication remembered as dead is not a live host's: a file replaced       *)
(* between its reading and its query, or after it, is read again                *)
(* (omp-registry.ts 81-84, 300-308, 333-336).                                   *)
DeadStaysDead ==
  \A n \in Name : dead[n] # None /\ dead[n] = file[n] => dead[n] \notin alive

(* A released capability opens the room that the card shows at that moment: it   *)
(* is of the card's generation, and of the card's process unless the directory   *)
(* let the pressed process go meanwhile, although rooms, bindings and cards all  *)
(* move during the two awaits and rivals claim the instance.  (The second        *)
(* authorization compares no process, so that only the binding's rules keep the  *)
(* two together: omp-registry.ts 438-442, 486-492, 501-531.)                     *)
ReleasedOpensTheCard ==
  [][\A l \in Launch :
       (launch[l].stage = "minted" /\ launch'[l].stage = "released") =>
         LET c == card[launch[l].instance]
         IN /\ c # None /\ c.generation = launch[l].minted
            /\ c.host = launch[l].host \/ l \in letGo]_launch

(* A directory, a file or an endpoint that is there and fails all the same.      *)
Fault ==
  \/ DirectoryLost
  \/ \E n \in Name : file[n] # None /\ RevisitFails(n)
  \/ \E h \in Host : (file[NameOf[h]] # None /\ DiscoverFails(h)) \/ QueryFails(h)

(* Once nothing fails any more, every live published host is shown again and     *)
(* again, however many dead files are left behind, as long as the live hosts     *)
(* fit the capacity (omp-registry.ts 70-79, 276-315; OMP_INTEGRATION.md 2).      *)
LiveHostsShown ==
  <>[][~Fault]_vars =>
    \A h \in Host :
      []<>(\/ h \notin alive \/ ~Publishes(h)
           \/ Cardinality(alive) > MaxEntries
           \/ card[InstanceOf[h]] # None)
=============================================================================
