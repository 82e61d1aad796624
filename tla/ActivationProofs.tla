--------------------------- MODULE ActivationProofs ---------------------------
(***************************************************************************)
(* Proofs about Activation, for any versions, configurations, commands and  *)
(* faults.  First that the pointer only ever moves to a runtime that has    *)
(* answered; then what a command leaves behind, done, reverted, killed or   *)
(* cut by a restart: the invariant PlanInv relates what is on disk and in   *)
(* the service manager to the steps the command has still to do.            *)
(***************************************************************************)
EXTENDS Activation, TLAPS, FiniteSetTheorems, WellFoundedInduction

(* Every b among the steps s has an a somewhere before it.                          *)
Before(a, b, s) == \A i \in DOMAIN s : s[i] = b => \E j \in 1 .. i - 1 : s[j] = a

Has(a, s) == \E i \in DOMAIN s : s[i] = a

Undoing == {"halt", "disable", "remove"}

(* What a start of the service would execute.                                       *)
Startable == IF manager.platform = "darwin" THEN disk.definition ELSE manager.registered

RunsTarget == manager.running # None => manager.running.version = op.target

(* A command under way that will start the service and move the pointer.                *)
Advancing == op.start /\ Has("point", op.todo)

(* A command that will start the service and move the pointer does so in one order,   *)
(* and what a step needs of an earlier one is true once that one is behind: the       *)
(* definition, then what the manager holds, then what runs, then what has answered     *)
(* is the target of the command.                                                    *)
Ordered ==
  Advancing =>
    /\ \A u \in Undoing : ~Has(u, op.todo)
    /\ Before("define", "load", op.todo) \/ disk.definition = op.target
    /\ Before("load", "start", op.todo) \/ Startable = op.target
    /\ Before("start", "ready", op.todo) \/ RunsTarget
    /\ Before("ready", "point", op.todo) \/ op.target \in op.proven

(* The fields of the records, whatever is in most of them.                            *)
IsOp(o) ==
  o \in [cmd : {o.cmd}, todo : Seq(Step), way : {o.way}, target : {o.target},
         start : BOOLEAN, settings : {o.settings}, installed : {o.installed},
         active : {o.active}, prior : {o.prior}, config : {o.config},
         touched : {o.touched}, errors : {o.errors}, proven : {o.proven},
         outcome : {o.outcome}]

IsDisk(d) ==
  d \in [config : {d.config}, token : {d.token}, staged : {d.staged}, pointer : {d.pointer},
         history : {d.history}, damaged : {d.damaged}, definition : {d.definition}]

IsManager(m) ==
  m \in [platform : {m.platform}, registered : {m.registered}, running : {m.running}]

Shaped == IsOp(op) /\ op.active \in BOOLEAN /\ IsDisk(disk) /\ IsManager(manager)

IInv == Shaped /\ Ordered

-----------------------------------------------------------------------------
(* Sequences of steps.                                                              *)

LEMMA TailKeepsOrder ==
  ASSUME NEW s \in Seq(Step), s # <<>>, NEW a, NEW b, Before(a, b, s), Head(s) # a
  PROVE  Before(a, b, Tail(s))
<1> SUFFICES ASSUME NEW i \in DOMAIN Tail(s), Tail(s)[i] = b
             PROVE  \E j \in 1 .. i - 1 : Tail(s)[j] = a
  BY DEF Before
<1>1. i \in 1 .. Len(s) - 1 /\ i + 1 \in DOMAIN s /\ s[i + 1] = b
  OBVIOUS
<1>2. PICK j \in 1 .. (i + 1) - 1 : s[j] = a
  BY <1>1 DEF Before
<1>3. j # 1
  BY <1>2
<1>4. j - 1 \in 1 .. i - 1 /\ Tail(s)[j - 1] = s[j]
  BY <1>1, <1>2, <1>3
<1> QED BY <1>2, <1>4

LEMMA HeadIsFirst ==
  ASSUME NEW s \in Seq(Step), s # <<>>, NEW a, NEW b, Before(a, b, s)
  PROVE  Head(s) # b
BY DEF Before

LEMMA HeadIsThere ==
  ASSUME NEW s \in Seq(Step), s # <<>>
  PROVE  Has(Head(s), s)
BY DEF Has

LEMMA TailHasLess ==
  ASSUME NEW s \in Seq(Step), s # <<>>, NEW a, Has(a, Tail(s))
  PROVE  Has(a, s)
<1>1. PICK i \in DOMAIN Tail(s) : Tail(s)[i] = a
  BY DEF Has
<1>2. i + 1 \in DOMAIN s /\ s[i + 1] = a
  BY <1>1
<1> QED BY <1>2 DEF Has

(* The plans of a command that starts the service and moves the pointer.                *)
PlanIsOrdered(s) ==
  /\ s \in Seq(Step)
  /\ \A u \in Undoing : ~Has(u, s)
  /\ Before("define", "load", s) /\ Before("load", "start", s)
  /\ Before("start", "ready", s) /\ Before("ready", "point", s)

LEMMA CommittedIsOrdered == PlanIsOrdered(Committed(TRUE))
<1> DEFINE A == <<"define", "stop", "load">>
           B == <<"start", "ready">>
           C == <<"point", "record">>
           s == (A \o B) \o C
<1>1. Committed(TRUE) = s
  BY DEF Committed, ServiceSteps
<1>2. /\ A \in Seq(Step) /\ Len(A) = 3 /\ A[1] = "define" /\ A[2] = "stop" /\ A[3] = "load"
      /\ B \in Seq(Step) /\ Len(B) = 2 /\ B[1] = "start" /\ B[2] = "ready"
      /\ C \in Seq(Step) /\ Len(C) = 2 /\ C[1] = "point" /\ C[2] = "record"
  BY DEF Step
<1> HIDE DEF A, B, C
<1>3. /\ A \o B \in Seq(Step) /\ Len(A \o B) = 5
      /\ \A i \in 1 .. 3 : (A \o B)[i] = A[i]
      /\ \A i \in 4 .. 5 : (A \o B)[i] = B[i - 3]
  <2>1. A \in Seq(Step) /\ B \in Seq(Step)
    BY <1>2
  <2>2. A \o B \in Seq(Step) /\ Len(A \o B) = Len(A) + Len(B)
    BY <2>1
  <2>3. \A i \in 1 .. Len(A) + Len(B) :
          (A \o B)[i] = IF i <= Len(A) THEN A[i] ELSE B[i - Len(A)]
    BY <2>1
  <2> QED BY <1>2, <2>2, <2>3
<1>4. /\ s \in Seq(Step) /\ DOMAIN s = 1 .. 7
      /\ s[1] = "define" /\ s[2] = "stop" /\ s[3] = "load" /\ s[4] = "start"
      /\ s[5] = "ready" /\ s[6] = "point" /\ s[7] = "record"
  <2>1. s \in Seq(Step) /\ Len(s) = 7
    BY <1>2, <1>3
  <2>2. \A i \in 1 .. 5 : s[i] = (A \o B)[i]
    BY <1>2, <1>3
  <2>3. \A i \in 6 .. 7 : s[i] = C[i - 5]
    BY <1>2, <1>3
  <2> HIDE DEF s
  <2>4. s[1] = A[1] /\ s[2] = A[2] /\ s[3] = A[3] /\ s[4] = B[1] /\ s[5] = B[2]
    BY <1>3, <2>2
  <2>5. s[6] = C[1] /\ s[7] = C[2]
    BY <2>3
  <2> QED BY <1>2, <2>1, <2>4, <2>5
<1> HIDE DEF s
<1>5. \A u \in Undoing : ~Has(u, s)
  BY <1>4 DEF Undoing, Has
<1>6. Before("define", "load", s) /\ Before("load", "start", s)
  BY <1>4 DEF Before
<1>7. Before("start", "ready", s) /\ Before("ready", "point", s)
  BY <1>4 DEF Before
<1> QED BY <1>1, <1>4, <1>5, <1>6, <1>7 DEF PlanIsOrdered

(* Steps put before an ordered plan, or after it, that are none of those it orders.       *)
Neutral == {"configure", "stage", "prune", "restore"}

LEMMA PrefixedIsOrdered ==
  ASSUME NEW s, PlanIsOrdered(s), NEW p \in Neutral
  PROVE  PlanIsOrdered(<<p>> \o s)
<1> DEFINE t == <<p>> \o s
<1>1. /\ t \in Seq(Step) /\ Len(t) = Len(s) + 1 /\ t[1] = p
      /\ \A i \in 1 .. Len(s) : t[i + 1] = s[i]
  BY DEF PlanIsOrdered, Neutral, Step
<1>2. \A i \in DOMAIN t : i = 1 \/ (i - 1 \in DOMAIN s /\ t[i] = s[i - 1])
  BY <1>1 DEF PlanIsOrdered
<1>3. p \notin Undoing \cup {"load", "start", "ready", "point"}
  BY DEF Neutral, Undoing
<1> HIDE DEF t
<1>4. \A u \in Undoing : ~Has(u, t)
  BY <1>1, <1>2, <1>3 DEF Has, PlanIsOrdered
<1>5. ASSUME NEW a, NEW b, Before(a, b, s), p # b
      PROVE  Before(a, b, t)
  <2> SUFFICES ASSUME NEW i \in DOMAIN t, t[i] = b
               PROVE  \E j \in 1 .. i - 1 : t[j] = a
    BY DEF Before
  <2>1. i \in Nat /\ i - 1 \in DOMAIN s /\ s[i - 1] = b
    BY <1>1, <1>2, <1>5
  <2>2. PICK j \in 1 .. (i - 1) - 1 : s[j] = a
    BY <2>1, <1>5 DEF Before
  <2>3. j + 1 \in 1 .. i - 1 /\ t[j + 1] = a
    BY <1>1, <2>1, <2>2 DEF PlanIsOrdered
  <2> QED BY <2>3
<1>6. PlanIsOrdered(t)
  BY <1>1, <1>3, <1>4, <1>5 DEF PlanIsOrdered
<1> QED BY <1>6 DEF t

LEMMA SuffixedIsOrdered ==
  ASSUME NEW s, PlanIsOrdered(s), NEW p \in Neutral
  PROVE  PlanIsOrdered(s \o <<p>>)
<1> DEFINE t == s \o <<p>>
<1>1. /\ t \in Seq(Step) /\ Len(t) = Len(s) + 1 /\ t[Len(t)] = p
      /\ \A i \in 1 .. Len(s) : t[i] = s[i]
  BY DEF PlanIsOrdered, Neutral, Step
<1>2. \A i \in DOMAIN t : t[i] = p \/ (i \in DOMAIN s /\ t[i] = s[i])
  BY <1>1 DEF PlanIsOrdered
<1>3. p \notin Undoing \cup {"load", "start", "ready", "point"}
  BY DEF Neutral, Undoing
<1> HIDE DEF t
<1>4. \A u \in Undoing : ~Has(u, t)
  BY <1>1, <1>2, <1>3 DEF Has, PlanIsOrdered
<1>5. ASSUME NEW a, NEW b, Before(a, b, s), p # b
      PROVE  Before(a, b, t)
  <2> SUFFICES ASSUME NEW i \in DOMAIN t, t[i] = b
               PROVE  \E j \in 1 .. i - 1 : t[j] = a
    BY DEF Before
  <2>1. i \in DOMAIN s /\ s[i] = b
    BY <1>2, <1>5
  <2>2. PICK j \in 1 .. i - 1 : s[j] = a
    BY <2>1, <1>5 DEF Before
  <2>3. t[j] = a
    BY <1>1, <2>1, <2>2 DEF PlanIsOrdered
  <2> QED BY <2>2, <2>3
<1>6. PlanIsOrdered(t)
  BY <1>1, <1>3, <1>4, <1>5 DEF PlanIsOrdered
<1> QED BY <1>6 DEF t

(* An install moves the pointer between what it writes first and the pruning.             *)
LEMMA InstallIsOrdered ==
  PlanIsOrdered(<<"configure", "stage">> \o Committed(TRUE) \o <<"prune">>)
<1> DEFINE c == Committed(TRUE)
           s == <<"stage">> \o c
           t == <<"configure">> \o s
<1>1. c \in Seq(Step) /\ PlanIsOrdered(c)
  BY CommittedIsOrdered DEF PlanIsOrdered
<1> HIDE DEF c
<1>2. s \in Seq(Step) /\ PlanIsOrdered(s)
  BY <1>1, PrefixedIsOrdered DEF PlanIsOrdered, Neutral
<1>3. PlanIsOrdered(t)
  BY <1>2, PrefixedIsOrdered DEF Neutral
<1>4. t = <<"configure", "stage">> \o c
  BY <1>1
<1>5. PlanIsOrdered(t \o <<"prune">>)
  BY <1>3, SuffixedIsOrdered DEF Neutral
<1> QED BY <1>4, <1>5 DEF c

(* Steps among which the pointer is not moved.                                         *)
Unpointed == Step \ {"point"}

LEMMA UnpointedHasNoPoint ==
  ASSUME NEW s \in Seq(Unpointed)
  PROVE  s \in Seq(Step) /\ ~Has("point", s)
BY DEF Unpointed, Has

LEMMA ServiceStepsAreUnpointed ==
  ASSUME NEW start \in BOOLEAN
  PROVE  ServiceSteps(start) \in Seq(Unpointed)
<1> DEFINE A == <<"define", "stop", "load">>
           B == IF start THEN <<"start", "ready">> ELSE <<>>
<1>1. A \in Seq(Unpointed)
  BY DEF Unpointed, Step
<1>2. B \in Seq(Unpointed)
  <2>1. <<"start", "ready">> \in Seq(Unpointed)
    BY DEF Unpointed, Step
  <2>2. <<>> \in Seq(Unpointed)
    OBVIOUS
  <2> QED BY <2>1, <2>2
<1>3. ServiceSteps(start) = A \o B
  BY DEF ServiceSteps
<1> HIDE DEF A, B
<1> QED BY <1>1, <1>2, <1>3

LEMMA UninstallStepsAreUnpointed ==
  ASSUME NEW active
  PROVE  UninstallSteps(active) \in Seq(Unpointed)
<1> DEFINE A == IF manager.platform # "linux" /\ active THEN <<"halt">> ELSE <<>>
           B == <<"disable", "remove">>
<1>1. A \in Seq(Unpointed)
  <2>1. <<"halt">> \in Seq(Unpointed)
    BY DEF Unpointed, Step
  <2>2. <<>> \in Seq(Unpointed)
    OBVIOUS
  <2> QED BY <2>1, <2>2
<1>2. B \in Seq(Unpointed)
  BY DEF Unpointed, Step
<1>3. UninstallSteps(active) = A \o B
  BY DEF UninstallSteps
<1> HIDE DEF A, B
<1> QED BY <1>1, <1>2, <1>3

LEMMA CommittedAreSteps ==
  ASSUME NEW start \in BOOLEAN
  PROVE  Committed(start) \in Seq(Step)
<1> DEFINE A == ServiceSteps(start)
           B == <<"point", "record">>
<1>1. A \in Seq(Step)
  BY ServiceStepsAreUnpointed, UnpointedHasNoPoint
<1>2. B \in Seq(Step)
  BY DEF Step
<1>3. Committed(start) = A \o B
  BY DEF Committed
<1> HIDE DEF A, B
<1> QED BY <1>1, <1>2, <1>3

-----------------------------------------------------------------------------
(* A step of the command under way.                                                  *)

LEMMA ActiveIsBoolean == Active \in BOOLEAN
BY DEF Active

(* Ended writes the outcome and nothing else.                                          *)
SamePlan(o, e) ==
  /\ e.todo = o.todo /\ e.start = o.start /\ e.target = o.target /\ e.proven = o.proven
  /\ e.active = o.active

LEMMA EndedKeeps ==
  ASSUME NEW o, IsOp(o)
  PROVE  IsOp(Ended(o)) /\ SamePlan(o, Ended(o))
<1> DEFINE how == IF o.errors THEN "incomplete"
                  ELSE IF o.way = "revert" THEN "failed" ELSE "ok"
<1>1. Ended(o) = o \/ Ended(o) = [o EXCEPT !.outcome = how]
  BY DEF Ended
<1> HIDE DEF how
<1> QED BY <1>1 DEF IsOp, SamePlan

(* What the head of the plan finds.                                                    *)
LEMMA HeadIsReady ==
  ASSUME IInv, ~Idle, Advancing
  PROVE  /\ Head(op.todo) \notin Undoing
         /\ Head(op.todo) = "load" => disk.definition = op.target
         /\ Head(op.todo) = "start" => Startable = op.target
         /\ Head(op.todo) = "ready" => RunsTarget
         /\ Head(op.todo) = "point" => op.target \in op.proven
<1>1. op.todo \in Seq(Step) /\ op.todo # <<>>
  BY DEF IInv, Shaped, IsOp, Idle
<1>2. Head(op.todo) \notin Undoing
  BY <1>1, HeadIsThere DEF IInv, Ordered
<1>3. \A a, b : Before(a, b, op.todo) => Head(op.todo) # b
  BY <1>1, HeadIsFirst
<1> QED BY <1>2, <1>3 DEF IInv, Ordered

(* What a step that takes the head off the plan must bring about, and leave alone.        *)
Advances ==
  /\ op'.todo = Tail(op.todo) /\ op'.start = op.start /\ op'.target = op.target
  /\ op.proven \subseteq op'.proven
  /\ Advancing =>
       /\ disk.definition = op.target \/ Head(op.todo) = "define" => disk'.definition = op.target
       /\ Startable = op.target \/ Head(op.todo) = "load" => Startable' = op.target
       /\ RunsTarget \/ Head(op.todo) = "start" => RunsTarget'
       /\ Head(op.todo) = "ready" => op.target \in op'.proven

LEMMA AdvanceKeepsOrder ==
  ASSUME IInv, ~Idle, Advances
  PROVE  Ordered'
<1>1. op.todo \in Seq(Step) /\ op.todo # <<>>
  BY DEF IInv, Shaped, IsOp, Idle
<1> SUFFICES ASSUME op'.start, Has("point", op'.todo)
             PROVE  /\ \A u \in Undoing : ~Has(u, op'.todo)
                    /\ Before("define", "load", op'.todo) \/ disk'.definition = op'.target
                    /\ Before("load", "start", op'.todo) \/ Startable' = op'.target
                    /\ Before("start", "ready", op'.todo) \/ RunsTarget'
                    /\ Before("ready", "point", op'.todo) \/ op'.target \in op'.proven
  BY DEF Ordered, Advancing, Undoing, Has, Before
<1>2. Advancing
  BY <1>1, TailHasLess DEF Advances, Advancing
<1>3. \A u \in Undoing : ~Has(u, op'.todo)
  BY <1>1, <1>2, TailHasLess DEF Advances, IInv, Ordered
<1>4. \A a, b : Before(a, b, op.todo) => Before(a, b, op'.todo) \/ Head(op.todo) = a
  BY <1>1, TailKeepsOrder DEF Advances
<1>5. Before("define", "load", op'.todo) \/ disk'.definition = op'.target
  BY <1>2, <1>4 DEF Advances, IInv, Ordered
<1>6. Before("load", "start", op'.todo) \/ Startable' = op'.target
  BY <1>2, <1>4 DEF Advances, IInv, Ordered
<1>7. Before("start", "ready", op'.todo) \/ RunsTarget'
  BY <1>2, <1>4 DEF Advances, IInv, Ordered
<1>8. Before("ready", "point", op'.todo) \/ op'.target \in op'.proven
  BY <1>2, <1>4 DEF Advances, IInv, Ordered
<1> QED BY <1>3, <1>5, <1>6, <1>7, <1>8

(* Done and Touched take the head off the plan.                                          *)
TakesHead ==
  /\ IsOp(op') /\ op'.todo = Tail(op.todo) /\ op'.start = op.start /\ op'.target = op.target
  /\ op'.proven = op.proven /\ op'.active = op.active

LEMMA DoneTakesHead ==
  ASSUME IInv, ~Idle, Done \/ Touched
  PROVE  TakesHead
<1>1. op.todo \in Seq(Step) /\ Tail(op.todo) \in Seq(Step)
  BY DEF IInv, Shaped, IsOp, Idle
<1> DEFINE rest == Tail(op.todo)
           d == [op EXCEPT !.todo = rest]
           e == [op EXCEPT !.todo = rest, !.touched = TRUE]
<1>2. op' = Ended(d) \/ op' = Ended(e)
  BY DEF Done, Touched
<1>3. rest \in Seq(Step)
  BY <1>1
<1> HIDE DEF rest
<1>4. /\ IsOp(d) /\ d.todo = rest /\ d.start = op.start /\ d.target = op.target
      /\ d.proven = op.proven /\ d.active = op.active
  BY <1>3 DEF IInv, Shaped, IsOp
<1>5. /\ IsOp(e) /\ e.todo = rest /\ e.start = op.start /\ e.target = op.target
      /\ e.proven = op.proven /\ e.active = op.active
  BY <1>3 DEF IInv, Shaped, IsOp
<1> HIDE DEF d, e
<1>6. CASE op' = Ended(d)
  BY <1>4, <1>6, EndedKeeps DEF SamePlan, TakesHead, rest
<1>7. CASE op' = Ended(e)
  BY <1>5, <1>7, EndedKeeps DEF SamePlan, TakesHead, rest
<1> QED BY <1>2, <1>6, <1>7

(* A step of the plan keeps the invariant if it advances the command.                     *)
LEMMA StepKeeps ==
  ASSUME IInv, ~Idle, TakesHead, IsDisk(disk'), IsManager(manager'), Advances
  PROVE  IInv'
<1>1. Ordered'
  BY AdvanceKeepsOrder
<1> QED BY <1>1 DEF IInv, Shaped, TakesHead, IsDisk, IsManager, IsOp

(* Steps that write a file other than the service definition.                            *)
LEMMA FileStepKeeps ==
  ASSUME IInv, ~Idle, Done \/ Touched, IsDisk(disk'), disk'.definition = disk.definition,
         manager' = manager, Head(op.todo) \notin {"define", "load", "start", "ready"}
  PROVE  IInv'
<1>1. TakesHead
  BY DoneTakesHead
<1>2. IsManager(manager')
  BY DEF IInv, Shaped
<1>3. Advances
  BY <1>1 DEF TakesHead, Advances, Startable, RunsTarget
<1> QED BY <1>1, <1>2, <1>3, StepKeeps

(* Steps of a command that takes the service away.                                       *)
LEMMA UndoingStepKeeps ==
  ASSUME IInv, ~Idle, Done, IsDisk(disk'), IsManager(manager'), Head(op.todo) \in Undoing
  PROVE  IInv'
<1>1. TakesHead
  BY DoneTakesHead
<1>2. Advances
  BY <1>1, HeadIsReady DEF TakesHead, Advances
<1> QED BY <1>1, <1>2, StepKeeps

LEMMA ConfigureKeeps == ASSUME IInv, Configure PROVE IInv'
<1>1. IsDisk(disk') /\ disk'.definition = disk.definition
  BY DEF IInv, Shaped, Configure, IsDisk
<1> QED BY <1>1, FileStepKeeps DEF Configure, Did

LEMMA StageKeeps == ASSUME IInv, Stage PROVE IInv'
<1>1. IsDisk(disk') /\ disk'.definition = disk.definition
  BY DEF IInv, Shaped, Stage, IsDisk
<1> QED BY <1>1, FileStepKeeps DEF Stage, Did

LEMMA RotateTokenKeeps == ASSUME IInv, RotateToken PROVE IInv'
<1>1. IsDisk(disk') /\ disk'.definition = disk.definition
  BY DEF IInv, Shaped, RotateToken, IsDisk
<1> QED BY <1>1, FileStepKeeps DEF RotateToken, Did

LEMMA PointKeeps == ASSUME IInv, Point PROVE IInv'
<1>1. IsDisk(disk') /\ disk'.definition = disk.definition
  BY DEF IInv, Shaped, Point, IsDisk
<1> QED BY <1>1, FileStepKeeps DEF Point, Did

LEMMA RecordKeeps == ASSUME IInv, Record PROVE IInv'
<1>1. \/ disk' = disk
      \/ \E h : disk' = [disk EXCEPT !.history = h, !.damaged = FALSE]
  BY DEF Record
<1>2. IsDisk(disk') /\ disk'.definition = disk.definition
  BY <1>1 DEF IInv, Shaped, IsDisk
<1> QED BY <1>2, FileStepKeeps DEF Record, Did

LEMMA PruneKeeps == ASSUME IInv, Prune PROVE IInv'
<1>1. \E gone : disk' = [disk EXCEPT !.staged = @ \ gone]
  BY DEF Prune
<1>2. IsDisk(disk') /\ disk'.definition = disk.definition
  BY <1>1 DEF IInv, Shaped, IsDisk
<1> QED BY <1>2, FileStepKeeps DEF Prune, Did

LEMMA RestoreKeeps == ASSUME IInv, Restore PROVE IInv'
<1>1. IsDisk(disk') /\ disk'.definition = disk.definition
  BY DEF IInv, Shaped, Restore, IsDisk
<1> QED BY <1>1, FileStepKeeps DEF Restore, Did

LEMMA HaltKeeps == ASSUME IInv, Halt PROVE IInv'
<1>1. IsDisk(disk') /\ IsManager(manager')
  BY DEF IInv, Shaped, Halt, IsManager
<1> QED BY <1>1, UndoingStepKeeps DEF Halt, Did, Undoing

LEMMA DisableKeeps == ASSUME IInv, Disable PROVE IInv'
<1>1. IsDisk(disk') /\ IsManager(manager')
  BY DEF IInv, Shaped, Disable, IsManager
<1> QED BY <1>1, UndoingStepKeeps DEF Disable, Did, Undoing

LEMMA RemoveDefinitionKeeps == ASSUME IInv, RemoveDefinition PROVE IInv'
<1>1. IsDisk(disk') /\ IsManager(manager')
  BY DEF IInv, Shaped, RemoveDefinition, IsDisk
<1> QED BY <1>1, UndoingStepKeeps DEF RemoveDefinition, Did, Undoing

LEMMA DefineKeeps == ASSUME IInv, Define PROVE IInv'
<1>1. IsDisk(disk') /\ disk'.definition = op.target /\ manager' = manager
  BY DEF IInv, Shaped, Define, IsDisk
<1>2. ~Idle /\ Head(op.todo) = "define" /\ TakesHead
  BY DoneTakesHead DEF Define, Did
<1>3. Advances
  BY <1>1, <1>2 DEF TakesHead, Advances, Startable, RunsTarget
<1> QED BY <1>1, <1>2, <1>3, StepKeeps DEF IInv, Shaped

LEMMA StopKeeps == ASSUME IInv, Stop PROVE IInv'
<1>1. /\ IsManager(manager') /\ disk' = disk /\ manager'.platform = manager.platform
      /\ manager'.platform # "darwin" => manager'.registered = manager.registered
      /\ manager'.running \in {manager.running, None}
  BY DEF IInv, Shaped, Stop, IsManager
<1>2. ~Idle /\ Head(op.todo) = "stop" /\ TakesHead
  BY DoneTakesHead DEF Stop, Did
<1>3. Startable' = Startable
  BY <1>1 DEF Startable
<1>4. RunsTarget => RunsTarget'
  BY <1>1, <1>2 DEF RunsTarget, TakesHead
<1>5. Advances
  BY <1>1, <1>2, <1>3, <1>4 DEF TakesHead, Advances
<1> QED BY <1>1, <1>2, <1>5, StepKeeps DEF IInv, Shaped

LEMMA LoadKeeps == ASSUME IInv, Load PROVE IInv'
<1>1. /\ IsManager(manager') /\ disk' = disk /\ manager'.platform = manager.platform
      /\ manager'.platform # "darwin" => manager'.registered = disk.definition
      /\ manager'.running = manager.running
  BY DEF IInv, Shaped, Load, IsManager
<1>2. ~Idle /\ Head(op.todo) = "load" /\ TakesHead
  BY DoneTakesHead DEF Load, Did
<1>3. Startable' = disk.definition
  BY <1>1 DEF Startable
<1>4. RunsTarget' <=> RunsTarget
  BY <1>1, <1>2 DEF RunsTarget, TakesHead
<1>5. Advancing => disk.definition = op.target
  BY <1>2, HeadIsReady
<1>6. Advances
  BY <1>1, <1>2, <1>3, <1>4, <1>5 DEF TakesHead, Advances
<1> QED BY <1>1, <1>2, <1>6, StepKeeps DEF IInv, Shaped

LEMMA StartKeeps == ASSUME IInv, Start PROVE IInv'
<1>1. /\ manager' = [manager EXCEPT !.registered = Startable, !.running = Process0(Startable)]
      /\ disk' = disk
  BY DEF Start, Startable
<1>2. /\ IsManager(manager') /\ manager'.platform = manager.platform
      /\ manager'.registered = Startable /\ manager'.running = Process0(Startable)
  BY <1>1 DEF IInv, Shaped, IsManager
<1>3. ~Idle /\ Head(op.todo) = "start" /\ TakesHead
  BY DoneTakesHead DEF Start, Did
<1>4. Startable' = Startable
  BY <1>1, <1>2 DEF Startable
<1>5. Advancing => Startable = op.target
  BY <1>3, HeadIsReady
<1>6. manager'.running.version = Startable
  BY <1>2 DEF Process0
<1>7. Advancing => RunsTarget'
  BY <1>3, <1>5, <1>6 DEF RunsTarget, TakesHead
<1>8. Advances
  BY <1>1, <1>3, <1>4, <1>7 DEF TakesHead, Advances
<1> QED BY <1>1, <1>2, <1>3, <1>8, StepKeeps DEF IInv, Shaped

LEMMA ReadyKeeps == ASSUME IInv, Ready PROVE IInv'
<1> DEFINE rest == Tail(op.todo)
           more == op.proven \cup {manager.running.version}
           d == [op EXCEPT !.todo = rest, !.proven = more]
<1>1. ~Idle /\ Head(op.todo) = "ready" /\ manager.running # None
  BY DEF Ready, Did, Throws, Answers
<1>2. op' = Ended(d) /\ disk' = disk /\ manager' = manager
  BY DEF Ready
<1>3. rest \in Seq(Step)
  BY <1>1 DEF IInv, Shaped, IsOp, Idle
<1> HIDE DEF rest, more
<1>4. /\ IsOp(d) /\ d.todo = rest /\ d.start = op.start /\ d.target = op.target
      /\ d.proven = more /\ d.active = op.active
  BY <1>3 DEF IInv, Shaped, IsOp
<1> HIDE DEF d
<1>5. /\ IsOp(op') /\ op'.todo = rest /\ op'.start = op.start /\ op'.target = op.target
      /\ op'.proven = more /\ op'.active = op.active
  BY <1>2, <1>4, EndedKeeps DEF SamePlan
<1>6. Advancing => op.target \in more
  BY <1>1, HeadIsReady DEF RunsTarget, more
<1>7. Advances
  BY <1>1, <1>2, <1>5, <1>6 DEF Advances, Startable, RunsTarget, rest, more
<1>8. Ordered'
  BY <1>1, <1>7, AdvanceKeepsOrder
<1> QED BY <1>2, <1>5, <1>8 DEF IInv, Shaped

-----------------------------------------------------------------------------
(* New plans: of a command, and of a catch block.                                        *)

LEMMA UnpointedIsOrdered ==
  ASSUME op'.todo \in Seq(Unpointed)
  PROVE  Ordered'
BY UnpointedHasNoPoint DEF Ordered, Advancing, Has

LEMMA StoppedIsOrdered ==
  ASSUME op'.start = FALSE
  PROVE  Ordered'
BY DEF Ordered, Advancing

LEMMA PlanKeepsOrder ==
  ASSUME PlanIsOrdered(op'.todo)
  PROVE  Ordered'
BY DEF PlanIsOrdered, Ordered, Advancing, Before, Has, Undoing

LEMMA ReadIsShaped ==
  ASSUME NEW cmd
  PROVE  /\ IsOp(Read(cmd)) /\ Read(cmd).active = Active /\ Read(cmd).start = FALSE
<1>1. IsOp(NoOp) /\ NoOp.start = FALSE
  BY DEF NoOp, IsOp
<1> QED BY <1>1 DEF Read, IsOp

LEMMA InstallKeeps ==
  ASSUME IInv, NEW v, NEW start \in BOOLEAN, NEW settings, Install(v, start, settings)
  PROVE  IInv'
<1> DEFINE r == Read("install")
           after == IF start THEN <<"prune">> ELSE <<>>
           plan == <<"configure", "stage">> \o Committed(start) \o after
<1>1. /\ op' = [r EXCEPT !.target = v, !.start = start, !.settings = settings, !.todo = plan]
      /\ disk' = disk /\ manager' = manager
  BY DEF Install, Begin
<1>2. plan \in Seq(Step)
  <2>1. <<"configure", "stage">> \in Seq(Step)
    BY DEF Step
  <2>2. <<"prune">> \in Seq(Step) /\ <<>> \in Seq(Step)
    BY DEF Step
  <2>3. after \in Seq(Step)
    BY <2>2
  <2>4. Committed(start) \in Seq(Step)
    BY CommittedAreSteps
  <2> HIDE DEF after
  <2> QED BY <2>1, <2>3, <2>4
<1>3. start = TRUE => PlanIsOrdered(plan)
  BY InstallIsOrdered
<1> HIDE DEF plan, r
<1>4. IsOp(r) /\ r.active \in BOOLEAN
  BY ReadIsShaped, ActiveIsBoolean DEF r
<1>5. IsOp(op') /\ op'.active \in BOOLEAN /\ op'.todo = plan /\ op'.start = start
  BY <1>1, <1>2, <1>4 DEF IsOp
<1>6. Ordered'
  BY <1>3, <1>5, PlanKeepsOrder, StoppedIsOrdered
<1> QED BY <1>1, <1>5, <1>6 DEF IInv, Shaped

LEMMA RollbackKeeps == ASSUME IInv, NEW v, Rollback(v) PROVE IInv'
<1> DEFINE r == Read("rollback")
           plan == Committed(Active)
<1>1. /\ op' = [r EXCEPT !.target = v, !.start = Active, !.touched = TRUE, !.todo = plan]
      /\ disk' = disk /\ manager' = manager
  BY DEF Rollback, Begin
<1>2. plan \in Seq(Step) /\ Active \in BOOLEAN
  BY CommittedAreSteps, ActiveIsBoolean
<1>3. Active = TRUE => PlanIsOrdered(plan)
  BY CommittedIsOrdered
<1> HIDE DEF plan, r
<1>4. IsOp(r) /\ r.active \in BOOLEAN
  BY <1>2, ReadIsShaped DEF r
<1>5. IsOp(op') /\ op'.active \in BOOLEAN /\ op'.todo = plan /\ op'.start = Active
  BY <1>1, <1>2, <1>4 DEF IsOp
<1>6. Ordered'
  BY <1>2, <1>3, <1>5, PlanKeepsOrder, StoppedIsOrdered
<1> QED BY <1>1, <1>5, <1>6 DEF IInv, Shaped

LEMMA RotateKeeps == ASSUME IInv, Rotate PROVE IInv'
<1> DEFINE r == Read("rotate")
           then == IF Active THEN ServiceSteps(TRUE) ELSE <<>>
           plan == <<"rotate">> \o then
<1>1. /\ op' = [r EXCEPT !.target = disk.pointer, !.start = Active, !.todo = plan]
      /\ disk' = disk /\ manager' = manager
  BY DEF Rotate
<1>2. plan \in Seq(Unpointed)
  <2>1. <<"rotate">> \in Seq(Unpointed)
    BY DEF Unpointed, Step
  <2>2. ServiceSteps(TRUE) \in Seq(Unpointed)
    BY ServiceStepsAreUnpointed
  <2>3. <<>> \in Seq(Unpointed)
    OBVIOUS
  <2>4. then \in Seq(Unpointed)
    BY <2>2, <2>3
  <2> HIDE DEF then
  <2> QED BY <2>1, <2>4
<1> HIDE DEF plan, r
<1>3. IsOp(r) /\ r.active \in BOOLEAN /\ Active \in BOOLEAN /\ plan \in Seq(Step)
  BY <1>2, ReadIsShaped, ActiveIsBoolean, UnpointedHasNoPoint DEF r
<1>4. IsOp(op') /\ op'.active \in BOOLEAN /\ op'.todo = plan
  BY <1>1, <1>3 DEF IsOp
<1>5. Ordered'
  BY <1>2, <1>4, UnpointedIsOrdered
<1> QED BY <1>1, <1>4, <1>5 DEF IInv, Shaped

LEMMA UninstallKeeps == ASSUME IInv, Uninstall PROVE IInv'
<1> DEFINE r == Read("uninstall")
           plan == UninstallSteps(Active)
<1>1. /\ op' = [r EXCEPT !.touched = TRUE, !.todo = plan]
      /\ disk' = disk /\ manager' = manager
  BY DEF Uninstall, Begin
<1>2. plan \in Seq(Unpointed)
  BY UninstallStepsAreUnpointed
<1> HIDE DEF plan, r
<1>3. IsOp(r) /\ r.active \in BOOLEAN /\ plan \in Seq(Step)
  BY <1>2, ReadIsShaped, ActiveIsBoolean, UnpointedHasNoPoint DEF r
<1>4. IsOp(op') /\ op'.active \in BOOLEAN /\ op'.todo = plan
  BY <1>1, <1>3 DEF IsOp
<1>5. Ordered'
  BY <1>2, <1>4, UnpointedIsOrdered
<1> QED BY <1>1, <1>4, <1>5 DEF IInv, Shaped

(* The catch block of an install puts back the configuration, and then takes the service   *)
(* away or activates the prior runtime as an install does.                               *)
LEMMA RevertedInstallIsOrdered ==
  ASSUME IInv
  PROVE  LET o == RevertedInstall
         IN /\ IsOp(o) /\ o.active = op.active
            /\ o.todo \in Seq(Unpointed) \/ PlanIsOrdered(o.todo) \/ o.start = FALSE
<1> DEFINE b == [op EXCEPT !.way = "revert"]
           s == RevertedService(b)
<1>1. IsOp(b) /\ b.active = op.active /\ op.active \in BOOLEAN
  BY DEF IInv, Shaped, IsOp
<1> HIDE DEF b
<1>2. /\ IsOp(s) /\ s.active = op.active
      /\ s.todo \in Seq(Unpointed) \/ PlanIsOrdered(s.todo) \/ s.start = FALSE
  <2>1. CASE ~b.touched
    <3>1. <<>> \in Seq(Unpointed) /\ <<>> \in Seq(Step)
      OBVIOUS
    <3>2. s = [b EXCEPT !.todo = <<>>]
      BY <2>1 DEF RevertedService
    <3> QED BY <1>1, <3>1, <3>2 DEF IsOp
  <2>2. CASE b.touched /\ ~b.installed
    <3> DEFINE plan == UninstallSteps(Active)
    <3>1. plan \in Seq(Unpointed) /\ plan \in Seq(Step)
      BY UninstallStepsAreUnpointed, UnpointedHasNoPoint
    <3>2. s = [b EXCEPT !.todo = plan]
      BY <2>2 DEF RevertedService
    <3> HIDE DEF plan
    <3> QED BY <1>1, <3>1, <3>2 DEF IsOp
  <2>3. CASE b.touched /\ b.installed
    <3> DEFINE plan == Committed(b.active)
    <3>1. plan \in Seq(Step)
      BY <1>1, CommittedAreSteps
    <3>2. b.active = TRUE => PlanIsOrdered(plan)
      BY CommittedIsOrdered
    <3>3. s = [b EXCEPT !.todo = plan, !.target = b.prior, !.start = b.active]
      BY <2>3 DEF RevertedService
    <3> HIDE DEF plan
    <3>4. IsOp(s) /\ s.active = op.active /\ s.todo = plan /\ s.start = b.active
      BY <1>1, <3>1, <3>3 DEF IsOp
    <3> QED BY <1>1, <3>2, <3>4
  <2> QED BY <2>1, <2>2, <2>3
<1> DEFINE plan == <<"restore">> \o s.todo
<1>3. RevertedInstall = [s EXCEPT !.todo = plan]
  BY DEF RevertedInstall, b
<1> HIDE DEF s
<1>4. s.todo \in Seq(Step)
  BY <1>2 DEF IsOp
<1>5. plan \in Seq(Step)
  BY <1>4 DEF Step
<1>6. s.todo \in Seq(Unpointed) => plan \in Seq(Unpointed)
  BY DEF Unpointed, Step
<1>7. PlanIsOrdered(s.todo) => PlanIsOrdered(plan)
  BY PrefixedIsOrdered DEF Neutral
<1> HIDE DEF plan
<1>8. /\ IsOp(RevertedInstall) /\ RevertedInstall.active = op.active
      /\ RevertedInstall.todo = plan /\ RevertedInstall.start = s.start
  BY <1>2, <1>3, <1>5 DEF IsOp
<1> QED BY <1>2, <1>6, <1>7, <1>8

(* A plan that a catch block replaces, or gives up.                                        *)
Replaced(o) ==
  /\ IsOp(o) /\ o.active = op.active
  /\ o.todo \in Seq(Unpointed) \/ PlanIsOrdered(o.todo) \/ o.start = FALSE

LEMMA ReplacedKeeps ==
  ASSUME IInv, NEW o, Replaced(o), op' = Ended(o), disk' = disk, manager' = manager
  PROVE  IInv'
<1>1. /\ IsOp(op') /\ op'.active = op.active /\ op'.todo = o.todo /\ op'.start = o.start
  BY EndedKeeps DEF Replaced, SamePlan
<1>2. Ordered'
  BY <1>1, UnpointedIsOrdered, PlanKeepsOrder, StoppedIsOrdered DEF Replaced
<1> QED BY <1>1, <1>2 DEF IInv, Shaped

LEMMA AbandonedIsReplaced ==
  ASSUME IInv
  PROVE  /\ Replaced([op EXCEPT !.errors = TRUE, !.todo = <<>>])
         /\ Replaced([op EXCEPT !.way = "revert", !.todo = <<>>])
<1>1. <<>> \in Seq(Unpointed) /\ <<>> \in Seq(Step)
  OBVIOUS
<1> QED BY <1>1 DEF IInv, Shaped, IsOp, Replaced

LEMMA RevertedRollbackIsReplaced == ASSUME IInv PROVE Replaced(RevertedRollback)
<1> DEFINE plan == ServiceSteps(op.active)
<1>1. plan \in Seq(Unpointed)
  BY ServiceStepsAreUnpointed DEF IInv, Shaped
<1>2. plan \in Seq(Step)
  BY <1>1, UnpointedHasNoPoint
<1>3. RevertedRollback = [op EXCEPT !.way = "revert", !.todo = plan, !.target = disk.pointer]
  BY DEF RevertedRollback
<1> HIDE DEF plan
<1> QED BY <1>1, <1>2, <1>3 DEF IInv, Shaped, IsOp, Replaced

LEMMA HaltedRotationIsReplaced == ASSUME IInv PROVE Replaced(HaltedRotation)
<1> DEFINE plan == IF Active THEN <<"halt">> ELSE <<>>
<1>1. <<"halt">> \in Seq(Unpointed)
  BY DEF Unpointed, Step
<1>2. <<>> \in Seq(Unpointed)
  OBVIOUS
<1>3. plan \in Seq(Unpointed)
  BY <1>1, <1>2
<1>4. plan \in Seq(Step)
  BY <1>3, UnpointedHasNoPoint
<1>5. HaltedRotation = [op EXCEPT !.way = "revert", !.todo = plan]
  BY DEF HaltedRotation
<1> HIDE DEF plan
<1> QED BY <1>3, <1>4, <1>5 DEF IInv, Shaped, IsOp, Replaced

(* The service is taken away although the configuration could not be put back: the plan      *)
(* goes on after its first step.                                                          *)
LEMMA UnrestoredKeeps ==
  ASSUME IInv, ~Idle, Head(op.todo) = "restore", op' = Ended(Unrestored),
         disk' = disk, manager' = manager
  PROVE  IInv'
<1>1. CASE ~(op.touched /\ ~op.installed)
  <2>1. Unrestored = [op EXCEPT !.errors = TRUE, !.todo = <<>>]
    BY <1>1 DEF Unrestored
  <2> QED BY <2>1, AbandonedIsReplaced, ReplacedKeeps
<1>2. CASE op.touched /\ ~op.installed
  <2> DEFINE rest == Tail(op.todo)
             d == [op EXCEPT !.errors = TRUE, !.todo = rest]
  <2>1. op' = Ended(d)
    BY <1>2 DEF Unrestored, IInv, Shaped, IsOp
  <2>2. rest \in Seq(Step)
    BY DEF IInv, Shaped, IsOp, Idle
  <2> HIDE DEF rest
  <2>3. /\ IsOp(d) /\ d.todo = rest /\ d.start = op.start /\ d.target = op.target
        /\ d.proven = op.proven /\ d.active = op.active
    BY <2>2 DEF IInv, Shaped, IsOp
  <2> HIDE DEF d
  <2>4. TakesHead
    BY <2>1, <2>3, EndedKeeps DEF TakesHead, SamePlan, rest
  <2>5. Advances
    BY <2>4 DEF TakesHead, Advances, Startable, RunsTarget
  <2> QED BY <2>4, <2>5, StepKeeps DEF IInv, Shaped
<1> QED BY <1>1, <1>2

LEMMA FailsKeeps == ASSUME IInv, Fails PROVE IInv'
<1>1. ~Idle /\ op' = Ended(Failed) /\ disk' = disk /\ manager' = manager
  BY DEF Fails
<1>2. \/ Failed = Unrestored /\ Head(op.todo) = "restore"
      \/ Failed = [op EXCEPT !.errors = TRUE, !.todo = <<>>]
      \/ Failed = RevertedInstall
      \/ Failed = RevertedRollback
      \/ Failed = HaltedRotation
      \/ Failed = [op EXCEPT !.way = "revert", !.todo = <<>>]
  BY DEF Failed
<1>3. Replaced(RevertedInstall)
  BY RevertedInstallIsOrdered DEF Replaced
<1>4. CASE Failed = Unrestored /\ Head(op.todo) = "restore"
  BY <1>1, <1>4, UnrestoredKeeps
<1>5. CASE Replaced(Failed)
  BY <1>1, <1>5, ReplacedKeeps
<1> QED BY <1>2, <1>3, <1>4, <1>5, AbandonedIsReplaced, RevertedRollbackIsReplaced,
           HaltedRotationIsReplaced

-----------------------------------------------------------------------------
(* The world around a command.                                                           *)

(* The command under way is killed.                                                       *)
LEMMA CutShortKeeps ==
  ASSUME IInv, op' = [op EXCEPT !.todo = <<>>, !.outcome = "killed"],
         disk' = disk, IsManager(manager')
  PROVE  IInv'
<1>1. <<>> \in Seq(Unpointed) /\ <<>> \in Seq(Step)
  OBVIOUS
<1>2. IsOp(op') /\ op'.active = op.active /\ op'.todo = <<>>
  BY <1>1 DEF IInv, Shaped, IsOp
<1>3. Ordered'
  BY <1>1, <1>2, UnpointedIsOrdered
<1> QED BY <1>2, <1>3 DEF IInv, Shaped

LEMMA KilledKeeps == ASSUME IInv, Killed PROVE IInv'
BY CutShortKeeps DEF Killed, IInv, Shaped

LEMMA DiesKeeps == ASSUME IInv, Dies PROVE IInv'
<1>1. /\ IsManager(manager') /\ manager'.platform = manager.platform
      /\ manager'.registered = manager.registered /\ manager'.running = None
      /\ op' = op /\ disk' = disk
  BY DEF IInv, Shaped, Dies, IsManager
<1>2. Ordered'
  BY <1>1 DEF IInv, Ordered, Advancing, Startable, RunsTarget
<1> QED BY <1>1, <1>2 DEF IInv, Shaped

LEMMA RebootKeeps == ASSUME IInv, Reboot PROVE IInv'
<1>1. disk' = disk
  BY DEF Reboot
<1>2. \E v, r : manager' = [manager EXCEPT !.registered = v, !.running = r]
  BY DEF Reboot
<1>3. IsManager(manager')
  BY <1>2 DEF IInv, Shaped, IsManager
<1>4. CASE Idle
  <2>1. op' = op /\ op'.todo = <<>>
    BY <1>4 DEF Reboot, Idle
  <2>2. Ordered'
    BY <2>1, UnpointedIsOrdered
  <2> QED BY <1>1, <1>3, <2>1, <2>2 DEF IInv, Shaped
<1>5. CASE ~Idle
  BY <1>1, <1>3, <1>5, CutShortKeeps DEF Reboot
<1> QED BY <1>4, <1>5

LEMMA DamageKeeps == ASSUME IInv, Damage PROVE IInv'
<1>1. /\ IsDisk(disk') /\ disk'.definition = disk.definition
      /\ op' = op /\ manager' = manager
  BY DEF IInv, Shaped, Damage, IsDisk
<1>2. Ordered'
  BY <1>1 DEF IInv, Ordered, Advancing, Startable, RunsTarget
<1> QED BY <1>1, <1>2 DEF IInv, Shaped

LEMMA InitIsOrdered == Init => IInv
<1> SUFFICES ASSUME Init PROVE IInv
  OBVIOUS
<1>1. IsOp(op) /\ op.active = FALSE /\ op.start = FALSE
  BY DEF Init, NoOp, IsOp
<1>2. IsDisk(disk)
  BY DEF Init, IsDisk
<1>3. IsManager(manager)
  BY DEF Init, IsManager
<1> QED BY <1>1, <1>2, <1>3 DEF IInv, Shaped, Ordered, Advancing

LEMMA NextKeeps == IInv /\ [Next]_vars => IInv'
<1> SUFFICES ASSUME IInv, [Next]_vars PROVE IInv'
  OBVIOUS
<1>1. CASE Commands
  BY <1>1, InstallKeeps, RollbackKeeps, RotateKeeps, UninstallKeeps DEF Commands
<1>2. CASE Configure \/ Stage \/ RotateToken
  BY <1>2, ConfigureKeeps, StageKeeps, RotateTokenKeeps
<1>3. CASE Define \/ Stop \/ Load \/ Start \/ Ready
  BY <1>3, DefineKeeps, StopKeeps, LoadKeeps, StartKeeps, ReadyKeeps
<1>4. CASE Point \/ Record \/ Prune
  BY <1>4, PointKeeps, RecordKeeps, PruneKeeps
<1>5. CASE Restore \/ Halt \/ Disable \/ RemoveDefinition
  BY <1>5, RestoreKeeps, HaltKeeps, DisableKeeps, RemoveDefinitionKeeps
<1>6. CASE Fails
  BY <1>6, FailsKeeps
<1>7. CASE Killed \/ Dies \/ Reboot \/ Damage
  BY <1>7, KilledKeeps, DiesKeeps, RebootKeeps, DamageKeeps
<1>8. CASE UNCHANGED vars
  BY <1>8 DEF vars, IInv, Shaped, Ordered, Advancing, Startable, RunsTarget
<1> QED BY <1>1, <1>2, <1>3, <1>4, <1>5, <1>6, <1>7, <1>8 DEF Next, Steps

(* The step of AuthorityIsProven.                                                          *)
ProvenFirst == disk'.pointer # disk.pointer => ~op.start \/ disk'.pointer \in op.proven

LEMMA PointIsProven == IInv /\ [Next]_vars => ProvenFirst
<1> SUFFICES ASSUME IInv, [Next]_vars, disk'.pointer # disk.pointer, op.start
             PROVE  disk'.pointer \in op.proven
  BY DEF ProvenFirst
<1>1. CASE Point
  <2>1. ~Idle /\ Head(op.todo) = "point" /\ disk'.pointer = op.target
    BY <1>1 DEF Point, Did, IInv, Shaped, IsDisk
  <2>2. Has("point", op.todo)
    BY <2>1, HeadIsThere DEF IInv, Shaped, IsOp, Idle
  <2> QED BY <2>1, <2>2, HeadIsReady DEF Advancing
<1>2. ~Commands /\ ~Fails /\ ~Killed /\ ~Dies /\ ~Reboot /\ ~UNCHANGED vars
  BY DEF Commands, Install, Rollback, Rotate, Uninstall, Begin, Fails, Killed, Dies, Reboot, vars
<1>3. ~Configure /\ ~Stage /\ ~RotateToken /\ ~Define /\ ~Restore /\ ~RemoveDefinition /\ ~Damage
  BY DEF Configure, Stage, RotateToken, Define, Restore, RemoveDefinition, Damage,
         IInv, Shaped, IsDisk
<1>4. ~Stop /\ ~Load /\ ~Start /\ ~Ready /\ ~Halt /\ ~Disable
  BY DEF Stop, Load, Start, Ready, Halt, Disable
<1>5. ~Record
  <2>1. Record => \/ disk' = disk
                  \/ \E h : disk' = [disk EXCEPT !.history = h, !.damaged = FALSE]
    BY DEF Record
  <2> QED BY <2>1 DEF IInv, Shaped, IsDisk
<1>6. ~Prune
  <2>1. Prune => \E gone : disk' = [disk EXCEPT !.staged = @ \ gone]
    BY DEF Prune
  <2> QED BY <2>1 DEF IInv, Shaped, IsDisk
<1> QED BY <1>1, <1>2, <1>3, <1>4, <1>5, <1>6 DEF Next, Steps

(* current.json only ever moves to a runtime that has answered the readiness proof of the     *)
(* same command (activateRuntime, cli.ts), unless the command leaves the service stopped:     *)
(* in an install, in a rollback and in the catch block of an install, on every platform,       *)
(* whatever fails, dies, is killed or restarts in between.                                   *)
THEOREM PointerMovesProven == Spec => AuthorityIsProven
<1>1. IInv /\ [Next]_vars => IInv'
  BY NextKeeps
<1>2. IInv /\ [Next]_vars => (disk'.pointer # disk.pointer => ~op.start \/ disk'.pointer \in op.proven)
  BY PointIsProven DEF ProvenFirst
<1> QED BY InitIsOrdered, <1>1, <1>2, PTL DEF Spec, AuthorityIsProven
-----------------------------------------------------------------------------
(* What a command leaves behind, step by step: proved of the set of the steps it has   *)
(* still to do, of which the next one is always the first in rank.                     *)

Rank(step) ==
  CASE step = "configure" -> 1 [] step = "stage" -> 2 [] step = "rotate" -> 3
    [] step = "restore" -> 4 [] step = "define" -> 5 [] step = "stop" -> 6
    [] step = "load" -> 7 [] step = "start" -> 8 [] step = "ready" -> 9
    [] step = "point" -> 10 [] step = "record" -> 11 [] step = "prune" -> 12
    [] step = "halt" -> 13 [] step = "disable" -> 14 [] OTHER -> 15

Rising(s) == \A i, j \in DOMAIN s : i < j => Rank(s[i]) < Rank(s[j])

StepsOf(s) == {s[i] : i \in DOMAIN s}

(* The steps a command has still to do.                                               *)
Left == StepsOf(op.todo)

ServicePlan(start) ==
  {"define", "stop", "load"} \cup (IF start THEN {"start", "ready"} ELSE {})

CommitPlan(start) == ServicePlan(start) \cup {"point", "record"}

(* The steps of a command as it goes on, or of the revert it has come to.               *)
Plan ==
  CASE op.cmd = "install" /\ op.way = "forward" ->
         {"configure", "stage"} \cup CommitPlan(op.start)
           \cup (IF op.start THEN {"prune"} ELSE {})
    [] op.cmd = "install" /\ op.way = "revert" ->
         {"restore"} \cup (IF ~op.touched THEN {}
                           ELSE IF ~op.installed THEN {"disable", "remove"}
                           ELSE CommitPlan(op.start))
    [] op.cmd = "rollback" ->
         IF op.way = "forward" THEN CommitPlan(op.start) ELSE ServicePlan(op.start)
    [] op.cmd = "rotate" /\ op.way = "forward" ->
         {"rotate"} \cup (IF op.start THEN ServicePlan(TRUE) ELSE {})
    [] op.cmd = "uninstall" /\ op.way = "forward" -> {"disable", "remove"}
    [] OTHER -> {}

(* Commands that may have to halt the service.                                        *)
MayHalt ==
  \/ op.cmd = "install" /\ op.way = "revert" /\ op.touched /\ ~op.installed
  \/ op.cmd = "rotate" /\ op.way = "revert"
  \/ op.cmd = "uninstall" /\ op.way = "forward"

(* Commands that put a runtime in place.                                              *)
Placing ==
  \/ op.cmd = "install" /\ (op.way = "revert" => op.touched /\ op.installed)
  \/ op.cmd = "rollback"
  \/ op.cmd = "rotate" /\ op.way = "forward" /\ op.start

(* A command that was neither killed nor gave up its revert.                           *)
Sound == op.outcome # "killed" /\ ~op.errors

OnPlan ==
  /\ op.todo \in Seq(Step) /\ Rising(op.todo)
  /\ ~Idle => op.outcome = "none"
  /\ op.outcome = "ok" => op.way = "forward" /\ ~op.errors
  /\ op.outcome = "failed" => op.way = "revert" /\ ~op.errors
  /\ Left \subseteq Plan \cup (IF MayHalt THEN {"halt"} ELSE {})
  /\ op.errors => Left \subseteq {"halt", "disable", "remove"} /\ op.way = "revert"
  /\ Sound => \A x \in Left, y \in Plan : Rank(x) < Rank(y) => y \in Left

(* launchd runs only what it holds.                                                  *)
HeldIfRun ==
  manager.platform = "darwin" /\ manager.running # None => manager.registered # None

(* The revert of an install over a service that was stopped.                            *)
OverStop == op.cmd = "install" /\ op.way = "revert" /\ ~op.active

(* What is put in place is there, step by step.                                        *)
Placed ==
  Sound /\ Placing =>
    /\ "define" \notin Left => disk.definition = op.target
    /\ "load" \notin Left => Startable = op.target
    /\ op.start /\ "start" \notin Left => manager.registered = op.target
    /\ "start" \notin Left /\ (op.start \/ Idle) /\ ~OverStop /\ manager.running # None
         => manager.running = Process0(op.target)
    /\ "point" \notin Left /\ op.cmd # "rotate" => disk.pointer = op.target

(* A command that leaves the service stopped found it stopped.                         *)
StaysStopped ==
  /\ op.cmd = "rollback" => (op.start <=> op.active)
  /\ ~op.start /\ ~Idle /\ (op.cmd = "rollback"
                             \/ (op.cmd \in {"install", "rotate"} /\ op.way = "forward"))
       => manager.running = None

(* What the revert of an install has put back, and what it can put back.                *)
PutBack ==
  op.cmd = "install" =>
    /\ op.way = "revert" => op.start = op.active \/ ~op.touched \/ ~op.installed
    /\ op.way = "revert" /\ op.touched /\ op.installed => op.target = op.prior
    /\ op.way = "forward" /\ "stage" \notin Left /\ Sound => op.touched
    /\ op.touched /\ op.installed => op.config # None
    /\ ~op.touched => disk.pointer = op.prior
    /\ op.way = "revert" /\ "restore" \notin Left /\ Sound => disk.config = op.config

(* What the revert of an install over nothing, or over what it found, has removed.         *)
Removed ==
  Sound /\ op.cmd = "install" /\ op.way = "revert" /\ op.touched /\ ~op.installed =>
    /\ "halt" \notin Left /\ manager.platform # "linux" => manager.running = None
    /\ "disable" \notin Left =>
         manager.running = None /\ (manager.platform # "darwin" => manager.registered = None)
    /\ "remove" \notin Left => disk.definition = None

(* A rotation leaves no gateway with the old token.                                     *)
Rotated ==
  /\ op.cmd = "rotate" /\ op.way = "forward" /\ "rotate" \in Left => ~op.touched
  /\ Sound /\ op.cmd = "rotate" /\ op.touched /\ (op.way = "revert" \/ ~op.start)
       /\ "halt" \notin Left /\ manager.running # None
         => manager.running.token = disk.token

(* Whatever a command puts in place is staged, and can be put back.                      *)
TargetStaged ==
  /\ op.cmd = "install" /\ op.way = "forward" => op.target \in Version
  /\ ~Idle /\ Sound /\ Placing /\ "stage" \notin Left => op.target \in disk.staged
  /\ ~Idle /\ op.cmd = "rollback" => disk.pointer # None
  /\ op.cmd = "install" /\ op.installed /\ op.config # None /\ ~Idle
       /\ (op.way = "revert" \/ ~op.start \/ ("prune" \in Left /\ Left # {"prune"}))
         => op.prior \in disk.staged

NamedIsStaged ==
  /\ {disk.pointer, disk.definition, manager.registered} \subseteq disk.staged \cup {None}
  /\ manager.running # None => manager.running.version \in disk.staged

(* The last place of v in the history h, and the versions of the retention window.      *)
LastPlace(h, v) == LET at == {i \in 1 .. Len(h) : h[i] = v}
                   IN CHOOSE i \in at : \A j \in at : j <= i

Since(h, v) == {h[i] : i \in (LastPlace(h, v) + 1) .. Len(h)}

Window(h) == {v \in StepsOf(h) : Cardinality(Since(h, v)) < RetentionLimit}

WindowIsStaged == Window(disk.history) \subseteq disk.staged

-----------------------------------------------------------------------------
(* Ranks, and plans as rising sequences.                                             *)

LEMMA RankValues ==
  /\ Rank("configure") = 1 /\ Rank("stage") = 2 /\ Rank("rotate") = 3
  /\ Rank("restore") = 4 /\ Rank("define") = 5 /\ Rank("stop") = 6
  /\ Rank("load") = 7 /\ Rank("start") = 8 /\ Rank("ready") = 9
  /\ Rank("point") = 10 /\ Rank("record") = 11 /\ Rank("prune") = 12
  /\ Rank("halt") = 13 /\ Rank("disable") = 14 /\ Rank("remove") = 15
BY DEF Rank

LEMMA RankIsNumber == \A x : Rank(x) \in 1 .. 15
BY DEF Rank

(* s does the steps of the set P, in the order of their ranks.                          *)
IsPlan(s, P) == s \in Seq(Step) /\ Rising(s) /\ StepsOf(s) = P

LEMMA NothingIsPlan == IsPlan(<<>>, {})
BY DEF IsPlan, Rising, StepsOf

LEMMA OneIsPlan ==
  ASSUME NEW a \in Step
  PROVE  IsPlan(<<a>>, {a})
<1> DEFINE s == <<a>>
<1>1. s \in Seq(Step) /\ DOMAIN s = 1 .. 1 /\ s[1] = a
  OBVIOUS
<1> HIDE DEF s
<1>2. StepsOf(s) = {a} /\ Rising(s)
  BY <1>1 DEF StepsOf, Rising
<1> QED BY <1>1, <1>2 DEF IsPlan, s

LEMMA JoinedIsPlan ==
  ASSUME NEW s, NEW P, IsPlan(s, P), NEW t, NEW Q, IsPlan(t, Q),
         \A x \in P, y \in Q : Rank(x) < Rank(y)
  PROVE  IsPlan(s \o t, P \cup Q)
<1> DEFINE u == s \o t
<1>1. s \in Seq(Step) /\ t \in Seq(Step)
  BY DEF IsPlan
<1>2. /\ u \in Seq(Step) /\ Len(u) = Len(s) + Len(t) /\ DOMAIN u = 1 .. Len(s) + Len(t)
      /\ \A i \in 1 .. Len(s) : u[i] = s[i]
      /\ \A i \in Len(s) + 1 .. Len(s) + Len(t) : u[i] = t[i - Len(s)]
  BY <1>1
<1>3. DOMAIN s = 1 .. Len(s) /\ DOMAIN t = 1 .. Len(t) /\ Len(s) \in Nat /\ Len(t) \in Nat
  BY <1>1
<1> HIDE DEF u
<1>4. StepsOf(u) = P \cup Q
  <2>1. ASSUME NEW x \in StepsOf(u) PROVE x \in P \cup Q
    <3>1. PICK i \in DOMAIN u : u[i] = x
      BY DEF StepsOf
    <3>2. CASE i <= Len(s)
      <4>1. i \in DOMAIN s /\ s[i] = x
        BY <1>2, <1>3, <3>1, <3>2
      <4> QED BY <4>1 DEF IsPlan, StepsOf
    <3>3. CASE i > Len(s)
      <4>1. i - Len(s) \in DOMAIN t /\ t[i - Len(s)] = x
        BY <1>2, <1>3, <3>1, <3>3
      <4> QED BY <4>1 DEF IsPlan, StepsOf
    <3> QED BY <1>2, <1>3, <3>1, <3>2, <3>3
  <2>2. ASSUME NEW x \in P PROVE x \in StepsOf(u)
    <3>1. PICK i \in DOMAIN s : s[i] = x
      BY DEF IsPlan, StepsOf
    <3>2. i \in DOMAIN u /\ u[i] = x
      BY <1>2, <1>3, <3>1
    <3> QED BY <3>2 DEF StepsOf
  <2>3. ASSUME NEW x \in Q PROVE x \in StepsOf(u)
    <3>1. PICK i \in DOMAIN t : t[i] = x
      BY DEF IsPlan, StepsOf
    <3>2. i + Len(s) \in Len(s) + 1 .. Len(s) + Len(t) /\ (i + Len(s)) - Len(s) = i
      BY <1>3, <3>1
    <3>3. i + Len(s) \in DOMAIN u /\ u[i + Len(s)] = x
      BY <1>2, <1>3, <3>1, <3>2
    <3> QED BY <3>3 DEF StepsOf
  <2> QED BY <2>1, <2>2, <2>3
<1>5. Rising(u)
  <2> SUFFICES ASSUME NEW i \in DOMAIN u, NEW j \in DOMAIN u, i < j
               PROVE  Rank(u[i]) < Rank(u[j])
    BY DEF Rising
  <2>1. CASE j <= Len(s)
    <3>1. i \in DOMAIN s /\ j \in DOMAIN s /\ u[i] = s[i] /\ u[j] = s[j]
      BY <1>2, <1>3, <2>1
    <3> QED BY <3>1 DEF IsPlan, Rising
  <2>2. CASE i <= Len(s) /\ j > Len(s)
    <3>1. i \in DOMAIN s /\ u[i] = s[i] /\ j - Len(s) \in DOMAIN t /\ u[j] = t[j - Len(s)]
      BY <1>2, <1>3, <2>2
    <3>2. s[i] \in P /\ t[j - Len(s)] \in Q
      BY <3>1 DEF IsPlan, StepsOf
    <3> QED BY <3>1, <3>2
  <2>3. CASE i > Len(s)
    <3>1. i \in Len(s) + 1 .. Len(s) + Len(t) /\ j \in Len(s) + 1 .. Len(s) + Len(t)
      BY <1>2, <1>3, <2>3
    <3>2. i - Len(s) \in DOMAIN t /\ j - Len(s) \in DOMAIN t /\ i - Len(s) < j - Len(s)
      BY <1>3, <3>1
    <3>3. u[i] = t[i - Len(s)] /\ u[j] = t[j - Len(s)]
      BY <1>2, <3>1
    <3> QED BY <3>2, <3>3 DEF IsPlan, Rising
  <2> QED BY <1>2, <1>3, <2>1, <2>2, <2>3
<1> QED BY <1>2, <1>4, <1>5 DEF IsPlan, u

LEMMA PairIsPlan ==
  ASSUME NEW a \in Step, NEW b \in Step, Rank(a) < Rank(b)
  PROVE  IsPlan(<<a, b>>, {a, b})
<1> DEFINE s == <<a, b>>
<1>1. s \in Seq(Step) /\ DOMAIN s = 1 .. 2 /\ s[1] = a /\ s[2] = b
  OBVIOUS
<1> HIDE DEF s
<1>2. StepsOf(s) = {a, b}
  BY <1>1 DEF StepsOf
<1>3. Rising(s)
  BY <1>1 DEF Rising
<1> QED BY <1>1, <1>2, <1>3 DEF IsPlan, s

(* The first step of a plan is off: the others are of higher rank.                       *)
LEMMA HeadOfPlan ==
  ASSUME NEW s \in Seq(Step), s # <<>>, Rising(s)
  PROVE  /\ Head(s) \in StepsOf(s) /\ Head(s) \in Step
         /\ Tail(s) \in Seq(Step) /\ Rising(Tail(s))
         /\ StepsOf(Tail(s)) = StepsOf(s) \ {Head(s)}
         /\ \A x \in StepsOf(s) \ {Head(s)} : Rank(Head(s)) < Rank(x)
<1>1. /\ DOMAIN s = 1 .. Len(s) /\ Len(s) \in Nat /\ Len(s) >= 1 /\ Head(s) = s[1]
      /\ Tail(s) \in Seq(Step) /\ DOMAIN Tail(s) = 1 .. Len(s) - 1
      /\ \A i \in 1 .. Len(s) - 1 : Tail(s)[i] = s[i + 1]
  OBVIOUS
<1>2. Head(s) \in StepsOf(s) /\ Head(s) \in Step
  BY <1>1 DEF StepsOf
<1>3. \A i \in 2 .. Len(s) : Rank(s[1]) < Rank(s[i])
  BY <1>1 DEF Rising
<1>4. Rising(Tail(s))
  BY <1>1 DEF Rising
<1>5. \A x \in StepsOf(s) \ {Head(s)} : \E i \in 2 .. Len(s) : x = s[i]
  BY <1>1 DEF StepsOf
<1>6. StepsOf(Tail(s)) = StepsOf(s) \ {Head(s)}
  <2>1. ASSUME NEW x \in StepsOf(Tail(s)) PROVE x \in StepsOf(s) \ {Head(s)}
    <3>1. PICK i \in 1 .. Len(s) - 1 : Tail(s)[i] = x
      BY <1>1 DEF StepsOf
    <3>2. i + 1 \in 2 .. Len(s) /\ s[i + 1] = x
      BY <1>1, <3>1
    <3>3. Rank(s[1]) < Rank(x) /\ Rank(x) \in Nat
      BY <1>3, <3>2, RankIsNumber
    <3> QED BY <1>1, <3>2, <3>3 DEF StepsOf
  <2>2. ASSUME NEW x \in StepsOf(s) \ {Head(s)} PROVE x \in StepsOf(Tail(s))
    <3>1. PICK i \in 2 .. Len(s) : x = s[i]
      BY <1>5
    <3>2. i - 1 \in DOMAIN Tail(s) /\ Tail(s)[i - 1] = x
      BY <1>1, <3>1
    <3> QED BY <3>2 DEF StepsOf
  <2> QED BY <2>1, <2>2
<1> QED BY <1>1, <1>2, <1>3, <1>4, <1>5, <1>6

LEMMA NothingLeft ==
  ASSUME NEW s \in Seq(Step)
  PROVE  s = <<>> <=> StepsOf(s) = {}
<1>1. s # <<>> => 1 \in DOMAIN s /\ s[1] \in StepsOf(s)
  BY DEF StepsOf
<1>2. ASSUME s = <<>> PROVE StepsOf(s) = {}
  BY <1>2 DEF StepsOf
<1> QED BY <1>1, <1>2

LEMMA ServiceIsPlan ==
  ASSUME NEW start \in BOOLEAN
  PROVE  IsPlan(ServiceSteps(start), ServicePlan(start))
<1>5. IsPlan(<<"define", "stop", "load">>, {"define", "stop", "load"})
  <2> DEFINE s == <<"define", "stop", "load">>
  <2>1. /\ s \in Seq(Step) /\ DOMAIN s = 1 .. 3
        /\ s[1] = "define" /\ s[2] = "stop" /\ s[3] = "load"
    BY DEF Step
  <2> HIDE DEF s
  <2>2. StepsOf(s) = {"define", "stop", "load"}
    BY <2>1 DEF StepsOf
  <2>3. Rising(s)
    BY <2>1, RankValues DEF Rising
  <2> QED BY <2>1, <2>2, <2>3 DEF IsPlan, s
<1>6. IsPlan(<<"start", "ready">>, {"start", "ready"})
  BY PairIsPlan, RankValues DEF Step
<1> DEFINE A == <<"define", "stop", "load">>
           B == IF start THEN <<"start", "ready">> ELSE <<>>
           Q == IF start THEN {"start", "ready"} ELSE {}
<1>7. IsPlan(B, Q)
  BY <1>6, NothingIsPlan
<1>8. \A x \in {"define", "stop", "load"}, y \in Q : Rank(x) < Rank(y)
  BY RankValues
<1>9. IsPlan(A, {"define", "stop", "load"}) /\ ServiceSteps(start) = A \o B
      /\ ServicePlan(start) = {"define", "stop", "load"} \cup Q
  BY <1>5 DEF ServiceSteps, ServicePlan
<1> HIDE DEF A, B, Q
<1> QED BY <1>7, <1>8, <1>9, JoinedIsPlan

LEMMA CommitIsPlan ==
  ASSUME NEW start \in BOOLEAN
  PROVE  IsPlan(Committed(start), CommitPlan(start))
<1>1. IsPlan(<<"point", "record">>, {"point", "record"})
  BY PairIsPlan, RankValues DEF Step
<1>2. \A x \in ServicePlan(start), y \in {"point", "record"} : Rank(x) < Rank(y)
  BY RankValues DEF ServicePlan
<1>3. IsPlan(ServiceSteps(start) \o <<"point", "record">>,
             ServicePlan(start) \cup {"point", "record"})
  BY <1>1, <1>2, ServiceIsPlan, JoinedIsPlan
<1> QED BY <1>3 DEF Committed, CommitPlan

LEMMA UninstallIsPlan ==
  ASSUME NEW active \in BOOLEAN
  PROVE  IsPlan(UninstallSteps(active),
                {"disable", "remove"} \cup (IF manager.platform # "linux" /\ active
                                            THEN {"halt"} ELSE {}))
<1> DEFINE A == IF manager.platform # "linux" /\ active THEN <<"halt">> ELSE <<>>
           P == IF manager.platform # "linux" /\ active THEN {"halt"} ELSE {}
<1>1. IsPlan(<<"disable", "remove">>, {"disable", "remove"})
  BY PairIsPlan, RankValues DEF Step
<1>2. IsPlan(<<"halt">>, {"halt"})
  BY OneIsPlan DEF Step
<1>3. IsPlan(A, P)
  BY <1>2, NothingIsPlan
<1>4. \A x \in P, y \in {"disable", "remove"} : Rank(x) < Rank(y)
  BY RankValues
<1>5. IsPlan(A \o <<"disable", "remove">>, P \cup {"disable", "remove"})
  <2> HIDE DEF A, P
  <2> QED BY <1>1, <1>3, <1>4, JoinedIsPlan
<1>6. P \cup {"disable", "remove"} = {"disable", "remove"} \cup P
  OBVIOUS
<1> QED BY <1>5, <1>6 DEF UninstallSteps

LEMMA InstallIsPlan ==
  ASSUME NEW start \in BOOLEAN
  PROVE  IsPlan(<<"configure", "stage">> \o Committed(start)
                  \o (IF start THEN <<"prune">> ELSE <<>>),
                {"configure", "stage"} \cup CommitPlan(start)
                  \cup (IF start THEN {"prune"} ELSE {}))
<1> DEFINE A == <<"configure", "stage">>
           C == Committed(start)
           B == IF start THEN <<"prune">> ELSE <<>>
           P == {"configure", "stage"}
           Q == IF start THEN {"prune"} ELSE {}
<1>1. IsPlan(A, P)
  BY PairIsPlan, RankValues DEF Step
<1>2. IsPlan(C, CommitPlan(start))
  BY CommitIsPlan
<1>3. IsPlan(B, Q)
  <2>1. IsPlan(<<"prune">>, {"prune"})
    BY OneIsPlan DEF Step
  <2> QED BY <2>1, NothingIsPlan
<1>4. \A x \in P, y \in CommitPlan(start) : Rank(x) < Rank(y)
  BY RankValues DEF CommitPlan, ServicePlan
<1>5. \A x \in P \cup CommitPlan(start), y \in Q : Rank(x) < Rank(y)
  BY RankValues DEF CommitPlan, ServicePlan
<1> HIDE DEF A, B, C, P, Q
<1>6. IsPlan(A \o C, P \cup CommitPlan(start))
  BY <1>1, <1>2, <1>4, JoinedIsPlan
<1>7. IsPlan((A \o C) \o B, (P \cup CommitPlan(start)) \cup Q)
  BY <1>3, <1>5, <1>6, JoinedIsPlan
<1> QED BY <1>7 DEF A, B, C, P, Q

-----------------------------------------------------------------------------
(* A command goes on by one step.                                                     *)

PlanInv ==
  /\ TypeOK /\ OnPlan /\ HeldIfRun /\ Placed /\ StaysStopped /\ PutBack /\ Removed
  /\ Rotated /\ TargetStaged /\ NamedIsStaged /\ WindowIsStaged

(* The command is the same, one step further: whether it has touched the service, and   *)
(* what has answered, is up to the step.                                               *)
GoesOn ==
  /\ op'.todo = Tail(op.todo) /\ op'.cmd = op.cmd /\ op'.way = op.way
  /\ op'.target = op.target /\ op'.start = op.start /\ op'.installed = op.installed
  /\ op'.active = op.active /\ op'.prior = op.prior /\ op'.config = op.config
  /\ op'.errors = op.errors /\ op'.settings = op.settings
  /\ op'.outcome = IF Tail(op.todo) # <<>> THEN op.outcome
                   ELSE IF op.errors THEN "incomplete"
                   ELSE IF op.way = "revert" THEN "failed" ELSE "ok"

LEMMA EndedIsTyped ==
  ASSUME NEW o \in Op
  PROVE  /\ Ended(o) \in Op
         /\ Ended(o).todo = o.todo /\ Ended(o).cmd = o.cmd /\ Ended(o).way = o.way
         /\ Ended(o).target = o.target /\ Ended(o).start = o.start
         /\ Ended(o).installed = o.installed /\ Ended(o).active = o.active
         /\ Ended(o).prior = o.prior /\ Ended(o).config = o.config
         /\ Ended(o).errors = o.errors /\ Ended(o).settings = o.settings
         /\ Ended(o).touched = o.touched /\ Ended(o).proven = o.proven
         /\ Ended(o).outcome = IF o.todo # <<>> THEN o.outcome
                               ELSE IF o.errors THEN "incomplete"
                               ELSE IF o.way = "revert" THEN "failed" ELSE "ok"
<1> DEFINE how == IF o.errors THEN "incomplete"
                  ELSE IF o.way = "revert" THEN "failed" ELSE "ok"
<1>1. how \in {"incomplete", "failed", "ok"}
  OBVIOUS
<1>2. Ended(o) = IF o.todo # <<>> THEN o ELSE [o EXCEPT !.outcome = how]
  BY DEF Ended
<1> HIDE DEF how
<1>3. /\ Ended(o) \in Op
      /\ Ended(o).todo = o.todo /\ Ended(o).cmd = o.cmd /\ Ended(o).way = o.way
      /\ Ended(o).target = o.target /\ Ended(o).start = o.start
      /\ Ended(o).installed = o.installed /\ Ended(o).active = o.active
      /\ Ended(o).prior = o.prior /\ Ended(o).config = o.config
      /\ Ended(o).errors = o.errors /\ Ended(o).settings = o.settings
      /\ Ended(o).touched = o.touched /\ Ended(o).proven = o.proven
      /\ Ended(o).outcome = IF o.todo # <<>> THEN o.outcome ELSE how
  BY <1>1, <1>2 DEF Op
<1> QED BY <1>3 DEF how

LEMMA DoneGoesOn ==
  ASSUME op \in Op, ~Idle, Done
  PROVE  op' \in Op /\ GoesOn /\ op'.touched = op.touched /\ op'.proven = op.proven
<1> DEFINE o == [op EXCEPT !.todo = Tail(@)]
<1>1. Tail(op.todo) \in Seq(Step)
  BY DEF Op, Idle
<1>2. /\ o \in Op /\ o.todo = Tail(op.todo) /\ o.cmd = op.cmd /\ o.way = op.way
      /\ o.target = op.target /\ o.start = op.start /\ o.installed = op.installed
      /\ o.active = op.active /\ o.prior = op.prior /\ o.config = op.config
      /\ o.errors = op.errors /\ o.settings = op.settings /\ o.outcome = op.outcome
      /\ o.touched = op.touched /\ o.proven = op.proven
  BY <1>1 DEF Op
<1>3. op' = Ended(o)
  BY DEF Done
<1> HIDE DEF o
<1>4. /\ Ended(o) \in Op
      /\ Ended(o).todo = o.todo /\ Ended(o).cmd = o.cmd /\ Ended(o).way = o.way
      /\ Ended(o).target = o.target /\ Ended(o).start = o.start
      /\ Ended(o).installed = o.installed /\ Ended(o).active = o.active
      /\ Ended(o).prior = o.prior /\ Ended(o).config = o.config
      /\ Ended(o).errors = o.errors /\ Ended(o).settings = o.settings
      /\ Ended(o).touched = o.touched /\ Ended(o).proven = o.proven
      /\ Ended(o).outcome = IF o.todo # <<>> THEN o.outcome
                            ELSE IF o.errors THEN "incomplete"
                            ELSE IF o.way = "revert" THEN "failed" ELSE "ok"
  BY <1>2, EndedIsTyped, Zenon
<1> QED BY <1>2, <1>3, <1>4 DEF GoesOn

LEMMA TouchedGoesOn ==
  ASSUME op \in Op, ~Idle, Touched
  PROVE  op' \in Op /\ GoesOn /\ op'.touched = TRUE /\ op'.proven = op.proven
<1> DEFINE o == [op EXCEPT !.todo = Tail(@), !.touched = TRUE]
<1>1. Tail(op.todo) \in Seq(Step)
  BY DEF Op, Idle
<1>2. /\ o \in Op /\ o.todo = Tail(op.todo) /\ o.cmd = op.cmd /\ o.way = op.way
      /\ o.target = op.target /\ o.start = op.start /\ o.installed = op.installed
      /\ o.active = op.active /\ o.prior = op.prior /\ o.config = op.config
      /\ o.errors = op.errors /\ o.settings = op.settings /\ o.outcome = op.outcome
      /\ o.touched = TRUE /\ o.proven = op.proven
  BY <1>1 DEF Op
<1>3. op' = Ended(o)
  BY DEF Touched
<1> HIDE DEF o
<1>4. /\ Ended(o) \in Op
      /\ Ended(o).todo = o.todo /\ Ended(o).cmd = o.cmd /\ Ended(o).way = o.way
      /\ Ended(o).target = o.target /\ Ended(o).start = o.start
      /\ Ended(o).installed = o.installed /\ Ended(o).active = o.active
      /\ Ended(o).prior = o.prior /\ Ended(o).config = o.config
      /\ Ended(o).errors = o.errors /\ Ended(o).settings = o.settings
      /\ Ended(o).touched = o.touched /\ Ended(o).proven = o.proven
      /\ Ended(o).outcome = IF o.todo # <<>> THEN o.outcome
                            ELSE IF o.errors THEN "incomplete"
                            ELSE IF o.way = "revert" THEN "failed" ELSE "ok"
  BY <1>2, EndedIsTyped, Zenon
<1> QED BY <1>2, <1>3, <1>4 DEF GoesOn

(* What is left after a step, and what must be left while it is the next one.             *)
Next1(h) ==
  /\ h \in Left /\ h \in Step
  /\ \A x \in Step : Rank(x) < Rank(h) => x \notin Left
  /\ Sound => \A y \in Plan : Rank(h) < Rank(y) => y \in Left
  /\ op.outcome = "none" /\ (Sound <=> ~op.errors)
  /\ h \in Plan \cup (IF MayHalt THEN {"halt"} ELSE {})
  /\ op.errors => h \in {"halt", "disable", "remove"} /\ op.way = "revert"

Further(h) ==
  /\ Left' = Left \ {h}
  /\ Idle' <=> Left \ {h} = {}
  /\ Sound' <=> Sound
  /\ op'.todo \in Seq(Step) /\ Rising(op'.todo)

LEMMA NextInRank ==
  ASSUME OnPlan, ~Idle
  PROVE  Next1(Head(op.todo))
<1> DEFINE h == Head(op.todo)
<1>1. op.todo \in Seq(Step) /\ op.todo # <<>> /\ Rising(op.todo)
  BY DEF OnPlan, Idle
<1>2. h \in Left /\ h \in Step /\ \A x \in Left \ {h} : Rank(h) < Rank(x)
  BY <1>1, HeadOfPlan DEF Left
<1>3. op.outcome = "none" /\ (Sound <=> ~op.errors)
  BY DEF OnPlan, Sound
<1> HIDE DEF h
<1>4. \A x \in Step : Rank(x) < Rank(h) => x \notin Left
  <2> SUFFICES ASSUME NEW x \in Step, Rank(x) < Rank(h), x \in Left
               PROVE  FALSE
    OBVIOUS
  <2>1. Rank(x) \in Nat /\ Rank(h) \in Nat
    BY RankIsNumber
  <2> QED BY <1>2, <2>1
<1>5. Sound => \A y \in Plan : Rank(h) < Rank(y) => y \in Left
  BY <1>2 DEF OnPlan
<1>6. /\ h \in Plan \cup (IF MayHalt THEN {"halt"} ELSE {})
      /\ op.errors => h \in {"halt", "disable", "remove"} /\ op.way = "revert"
  BY <1>2 DEF OnPlan
<1> QED BY <1>2, <1>3, <1>4, <1>5, <1>6 DEF Next1, h

LEMMA OneStepFurther ==
  ASSUME OnPlan, ~Idle, GoesOn
  PROVE  Further(Head(op.todo))
<1> DEFINE h == Head(op.todo)
<1>1. op.todo \in Seq(Step) /\ op.todo # <<>> /\ Rising(op.todo)
  BY DEF OnPlan, Idle
<1>2. /\ Tail(op.todo) \in Seq(Step) /\ Rising(Tail(op.todo))
      /\ StepsOf(Tail(op.todo)) = StepsOf(op.todo) \ {h}
  BY <1>1, HeadOfPlan
<1>3. op'.todo \in Seq(Step) /\ Rising(op'.todo) /\ Left' = Left \ {h}
  BY <1>2 DEF GoesOn, Left
<1>4. Idle' <=> Left \ {h} = {}
  BY <1>3, NothingLeft DEF Idle, Left
<1>5. Sound' <=> Sound
  BY DEF GoesOn, Sound, OnPlan
<1> QED BY <1>3, <1>4, <1>5 DEF Further, h

(* The plan is the same plan, unless the step makes an install one that touched.          *)
LEMMA StaysOnPlan ==
  ASSUME op \in Op, OnPlan, ~Idle, GoesOn, op'.touched = op.touched \/ op.way = "forward"
  PROVE  OnPlan'
<1> DEFINE h == Head(op.todo)
<1>1. Further(h) /\ Next1(h)
  BY OneStepFurther, NextInRank
<1>2. Plan' = Plan /\ MayHalt' = MayHalt
  BY DEF Plan, MayHalt, GoesOn
<1> HIDE DEF h
<1>3. op'.todo \in Seq(Step) /\ Rising(op'.todo)
  BY <1>1 DEF Further
<1>4. ~Idle' => op'.outcome = "none"
  BY <1>1 DEF GoesOn, Next1, Idle
<1>5. op'.outcome = "ok" => op'.way = "forward" /\ ~op'.errors
  <2>1. op.way \in {"forward", "revert"}
    BY DEF Op
  <2> QED BY <1>1, <2>1 DEF GoesOn, Next1
<1>6. op'.outcome = "failed" => op'.way = "revert" /\ ~op'.errors
  BY <1>1 DEF GoesOn, Next1
<1>7. Left' \subseteq Plan' \cup (IF MayHalt' THEN {"halt"} ELSE {})
  BY <1>1, <1>2 DEF Further, OnPlan
<1>8. op'.errors => Left' \subseteq {"halt", "disable", "remove"} /\ op'.way = "revert"
  BY <1>1 DEF Further, OnPlan, GoesOn
<1>9. Sound' => \A x \in Left', y \in Plan' : Rank(x) < Rank(y) => y \in Left'
  <2> SUFFICES ASSUME Sound', NEW x \in Left', NEW y \in Plan', Rank(x) < Rank(y)
               PROVE  y \in Left'
    OBVIOUS
  <2>1. x \in Left /\ y \in Plan /\ Sound /\ Left' = Left \ {h} /\ x # h
    BY <1>1, <1>2 DEF Further
  <2>2. y \in Left
    BY <2>1 DEF OnPlan
  <2>3. y # h
    <3>1. Rank(x) \in Nat /\ Rank(h) \in Nat /\ x \in Step
      BY <2>1, RankIsNumber, SMTT(30) DEF Left, StepsOf, OnPlan
    <3>2. ~(Rank(x) < Rank(h))
      BY <1>1, <2>1, <3>1 DEF Next1
    <3> QED BY <3>2
  <2> QED BY <2>1, <2>2, <2>3
<1> QED BY <1>3, <1>4, <1>5, <1>6, <1>7, <1>8, <1>9 DEF OnPlan

(* What a step of the command under way finds and brings about, before its own effect.    *)
LEMMA StepTaken ==
  ASSUME PlanInv, NEW h, Did(h), GoesOn, op'.touched = op.touched \/ op.way = "forward"
  PROVE  ~Idle /\ h = Head(op.todo) /\ Next1(h) /\ Further(h) /\ OnPlan'
<1>1. ~Idle /\ h = Head(op.todo)
  BY DEF Did
<1>2. op \in Op /\ OnPlan
  BY DEF PlanInv, TypeOK
<1> QED BY <1>1, <1>2, NextInRank, OneStepFurther, StaysOnPlan

LEMMA DefineSettles == ASSUME PlanInv, Define PROVE PlanInv'
<1>1. op' \in Op /\ GoesOn /\ op'.touched = op.touched /\ op'.proven = op.proven
  BY DoneGoesOn DEF Define, Did, PlanInv, TypeOK
<1>2. ~Idle /\ Next1("define") /\ Further("define") /\ OnPlan'
  BY <1>1, StepTaken DEF Define
<1>3. /\ disk' = [disk EXCEPT !.definition = op.target]
      /\ manager' = manager /\ spent' = spent /\ disk \in Disk
  BY DEF Define, PlanInv, TypeOK
<1>4. /\ disk'.config = disk.config /\ disk'.token = disk.token /\ disk'.staged = disk.staged
      /\ disk'.pointer = disk.pointer /\ disk'.history = disk.history
      /\ disk'.damaged = disk.damaged /\ disk'.definition = op.target
  BY <1>3 DEF Disk
<1>5. /\ "configure" \notin Left /\ "stage" \notin Left /\ "rotate" \notin Left
      /\ "restore" \notin Left /\ "define" \in Left /\ Sound /\ "load" \in Left
      /\ Placing
  <2>1. Sound /\ "define" \in Plan
    BY <1>2 DEF Next1
  <2>2. Placing /\ "load" \in Plan
    BY <2>1 DEF Placing, Plan, CommitPlan, ServicePlan
  <2> QED BY <1>2, <2>1, <2>2, RankValues DEF Next1, Step
<1>6. op.target \in disk.staged /\ op.target # None
  <2>1. op.target \in disk.staged
    BY <1>2, <1>5 DEF PlanInv, TargetStaged
  <2> QED BY <1>3, <2>1, ActivationAssumption DEF Disk
<1>7. TypeOK'
  BY <1>1, <1>3, <1>4, <1>6 DEF TypeOK, Disk, Op, PlanInv
<1>8. HeldIfRun'
  BY <1>3 DEF PlanInv, HeldIfRun
<1>9. Placed'
  BY <1>1, <1>2, <1>3, <1>4, <1>5, RankValues DEF PlanInv, Placed, Placing, GoesOn, Further,
     Startable, OverStop, Process0
<1>10. StaysStopped'
  BY <1>1, <1>2, <1>3 DEF PlanInv, StaysStopped, GoesOn
<1>11. PutBack'
  BY <1>1, <1>2, <1>3, <1>4, <1>5 DEF PlanInv, PutBack, GoesOn, Further
<1>12. Removed'
  BY <1>1, <1>2, <1>3, <1>4, <1>5 DEF PlanInv, Removed, GoesOn, Further, Placing
<1>13. Rotated'
  BY <1>1, <1>2, <1>3, <1>4, <1>5 DEF PlanInv, Rotated, GoesOn, Further, Placing
<1>14. TargetStaged'
  BY <1>1, <1>2, <1>3, <1>4, <1>5 DEF PlanInv, TargetStaged, GoesOn, Further, Placing
<1>15. NamedIsStaged'
  BY <1>3, <1>4, <1>6 DEF PlanInv, NamedIsStaged
<1>16. WindowIsStaged'
  BY <1>4 DEF PlanInv, WindowIsStaged
<1> QED BY <1>2, <1>7, <1>8, <1>9, <1>10, <1>11, <1>12, <1>13, <1>14, <1>15, <1>16 DEF PlanInv

LEMMA ConfigureSettles == ASSUME PlanInv, Configure PROVE PlanInv'
<1>1. op' \in Op /\ GoesOn /\ op'.touched = op.touched /\ op'.proven = op.proven
  BY DoneGoesOn DEF Configure, Did, PlanInv, TypeOK
<1>2. ~Idle /\ Next1("configure") /\ Further("configure") /\ OnPlan'
  BY <1>1, StepTaken DEF Configure
<1>3. /\ disk' = [disk EXCEPT !.config = op.settings]
      /\ manager' = manager /\ spent' = spent /\ disk \in Disk
  BY DEF Configure, PlanInv, TypeOK
<1>4. /\ disk'.token = disk.token /\ disk'.staged = disk.staged /\ disk'.pointer = disk.pointer
      /\ disk'.history = disk.history /\ disk'.damaged = disk.damaged
      /\ disk'.definition = disk.definition
      /\ disk'.config = op.settings
  BY <1>3 DEF Disk
<1>5. /\ op.cmd = "install" /\ op.way = "forward" /\ Sound
      /\ "stage" \in Left /\ "define" \in Left /\ "load" \in Left /\ "point" \in Left
      /\ op.start => "start" \in Left
  <2>1. "configure" \in Plan /\ Sound
    BY <1>2 DEF Next1
  <2>2. op.cmd = "install" /\ op.way = "forward"
    BY <2>1 DEF Plan, CommitPlan, ServicePlan
  <2>3. {"stage", "define", "load", "point"} \cup (IF op.start THEN {"start"} ELSE {})
          \subseteq Plan
    BY <2>2 DEF Plan, CommitPlan, ServicePlan
  <2> QED BY <1>2, <2>1, <2>2, <2>3, RankValues DEF Next1
<1>7. TypeOK'
  BY <1>1, <1>2, <1>3, <1>4, <1>5 DEF TypeOK, Disk, Op, PlanInv
<1>8. HeldIfRun'
  BY <1>1, <1>2, <1>3, <1>4, <1>5 DEF PlanInv, HeldIfRun
<1>9. Placed'
  BY <1>1, <1>2, <1>3, <1>4, <1>5 DEF PlanInv, Placed, Placing, GoesOn, Further, Startable,
     OverStop, Process0
<1>10. StaysStopped'
  BY <1>1, <1>2, <1>3, <1>4, <1>5 DEF PlanInv, StaysStopped, GoesOn
<1>11. PutBack'
  BY <1>1, <1>2, <1>3, <1>4, <1>5 DEF PlanInv, PutBack, GoesOn, Further
<1>12. Removed'
  BY <1>1, <1>2, <1>3, <1>4, <1>5 DEF PlanInv, Removed, GoesOn, Further, Placing
<1>13. Rotated'
  BY <1>1, <1>2, <1>3, <1>4, <1>5 DEF PlanInv, Rotated, GoesOn, Further, Placing
<1>14. TargetStaged'
  BY <1>1, <1>2, <1>3, <1>4, <1>5 DEF PlanInv, TargetStaged, GoesOn, Further, Placing
<1>15. NamedIsStaged'
  BY <1>1, <1>2, <1>3, <1>4, <1>5 DEF PlanInv, NamedIsStaged
<1>16. WindowIsStaged'
  BY <1>1, <1>2, <1>3, <1>4, <1>5 DEF PlanInv, WindowIsStaged
<1> QED
  BY <1>2, <1>7, <1>8, <1>9, <1>10, <1>11, <1>12, <1>13, <1>14, <1>15, <1>16 DEF PlanInv

LEMMA StageSettles == ASSUME PlanInv, Stage PROVE PlanInv'
<1>1. op' \in Op /\ GoesOn /\ op'.touched = TRUE /\ op'.proven = op.proven
  BY TouchedGoesOn DEF Stage, Did, PlanInv, TypeOK
<1>0. Next1("stage") /\ op.way = "forward"
  <2>1. Next1("stage")
    BY NextInRank DEF Stage, Did, PlanInv
  <2> QED BY <2>1 DEF Next1, Plan, MayHalt, CommitPlan, ServicePlan, PlanInv, TypeOK, Op
<1>2. ~Idle /\ Next1("stage") /\ Further("stage") /\ OnPlan'
  BY <1>0, <1>1, StepTaken DEF Stage
<1>3. /\ disk' = [disk EXCEPT !.staged = disk.staged \cup {op.target}]
      /\ manager' = manager /\ spent' = spent /\ disk \in Disk
  BY DEF Stage, PlanInv, TypeOK
<1>4. /\ disk'.config = disk.config /\ disk'.token = disk.token /\ disk'.pointer = disk.pointer
      /\ disk'.history = disk.history /\ disk'.damaged = disk.damaged
      /\ disk'.definition = disk.definition
      /\ disk'.staged = disk.staged \cup {op.target}
  BY <1>3 DEF Disk
<1>5. /\ op.cmd = "install" /\ op.way = "forward" /\ Sound /\ op.target \in Version
      /\ "define" \in Left /\ "load" \in Left /\ "point" \in Left
      /\ op.start => "start" \in Left
      /\ op.config # None \/ ~op.installed
  <2>1. "stage" \in Plan /\ Sound
    BY <1>2 DEF Next1
  <2>2. op.cmd = "install" /\ op.way = "forward"
    BY <2>1 DEF Plan, CommitPlan, ServicePlan
  <2>3. {"define", "load", "point"} \cup (IF op.start THEN {"start"} ELSE {}) \subseteq Plan
    BY <2>2 DEF Plan, CommitPlan, ServicePlan
  <2>4. op.config # None \/ ~op.installed
    BY <2>2 DEF Stage, Did, Throws, Barred
  <2>5. op.target \in Version
    BY <2>2 DEF PlanInv, TargetStaged
  <2> QED BY <1>2, <2>1, <2>2, <2>3, <2>4, <2>5, RankValues DEF Next1
<1>7. TypeOK'
  BY <1>1, <1>2, <1>3, <1>4, <1>5 DEF TypeOK, Disk, Op, PlanInv
<1>8. HeldIfRun'
  BY <1>1, <1>2, <1>3, <1>4, <1>5 DEF PlanInv, HeldIfRun
<1>9. Placed'
  BY <1>1, <1>2, <1>3, <1>4, <1>5 DEF PlanInv, Placed, Placing, GoesOn, Further, Startable,
     OverStop, Process0
<1>10. StaysStopped'
  BY <1>1, <1>2, <1>3, <1>4, <1>5 DEF PlanInv, StaysStopped, GoesOn
<1>11. PutBack'
  BY <1>1, <1>2, <1>3, <1>4, <1>5 DEF PlanInv, PutBack, GoesOn, Further
<1>12. Removed'
  BY <1>1, <1>2, <1>3, <1>4, <1>5 DEF PlanInv, Removed, GoesOn, Further, Placing
<1>13. Rotated'
  BY <1>1, <1>2, <1>3, <1>4, <1>5 DEF PlanInv, Rotated, GoesOn, Further, Placing
<1>14. TargetStaged'
  BY <1>1, <1>2, <1>3, <1>4, <1>5 DEF PlanInv, TargetStaged, GoesOn, Further, Placing
<1>15. NamedIsStaged'
  BY <1>1, <1>2, <1>3, <1>4, <1>5 DEF PlanInv, NamedIsStaged
<1>16. WindowIsStaged'
  BY <1>1, <1>2, <1>3, <1>4, <1>5 DEF PlanInv, WindowIsStaged
<1> QED
  BY <1>2, <1>7, <1>8, <1>9, <1>10, <1>11, <1>12, <1>13, <1>14, <1>15, <1>16 DEF PlanInv

LEMMA RotateTokenSettles == ASSUME PlanInv, RotateToken PROVE PlanInv'
<1>1. op' \in Op /\ GoesOn /\ op'.touched = TRUE /\ op'.proven = op.proven
  BY TouchedGoesOn DEF RotateToken, Did, PlanInv, TypeOK
<1>0. Next1("rotate") /\ op.way = "forward"
  <2>1. Next1("rotate")
    BY NextInRank DEF RotateToken, Did, PlanInv
  <2> QED BY <2>1 DEF Next1, Plan, MayHalt, CommitPlan, ServicePlan, PlanInv, TypeOK, Op
<1>2. ~Idle /\ Next1("rotate") /\ Further("rotate") /\ OnPlan'
  BY <1>0, <1>1, StepTaken DEF RotateToken
<1>3. /\ disk' = [disk EXCEPT !.token = disk.token + 1]
      /\ manager' = manager /\ spent' = spent /\ disk \in Disk
  BY DEF RotateToken, PlanInv, TypeOK
<1>4. /\ disk'.config = disk.config /\ disk'.staged = disk.staged /\ disk'.pointer = disk.pointer
      /\ disk'.history = disk.history /\ disk'.damaged = disk.damaged
      /\ disk'.definition = disk.definition
      /\ disk'.token = disk.token + 1
  BY <1>3 DEF Disk
<1>5. /\ op.cmd = "rotate" /\ op.way = "forward" /\ Sound
      /\ op.start => "define" \in Left /\ "load" \in Left /\ "start" \in Left
  <2>1. "rotate" \in Plan /\ Sound
    BY <1>2 DEF Next1
  <2>2. op.cmd = "rotate" /\ op.way = "forward"
    BY <2>1 DEF Plan, CommitPlan, ServicePlan
  <2>3. op.start => {"define", "load", "start"} \subseteq Plan
    BY <2>2 DEF Plan, CommitPlan, ServicePlan
  <2> QED BY <1>2, <2>1, <2>2, <2>3, RankValues DEF Next1
<1>7. TypeOK'
  <2>1. disk.token + 1 \in Nat /\ Len(disk'.history) = Len(disk.history)
    BY <1>3, <1>4 DEF Disk
  <2>2. disk' \in Disk
    BY <1>3, <2>1 DEF Disk
  <2> QED BY <1>1, <1>3, <2>1, <2>2 DEF TypeOK, PlanInv
<1>8. HeldIfRun'
  BY <1>1, <1>2, <1>3, <1>4, <1>5 DEF PlanInv, HeldIfRun
<1>9. Placed'
  BY <1>1, <1>2, <1>3, <1>4, <1>5 DEF PlanInv, Placed, Placing, GoesOn, Further, Startable,
     OverStop, Process0
<1>10. StaysStopped'
  BY <1>1, <1>2, <1>3, <1>4, <1>5 DEF PlanInv, StaysStopped, GoesOn
<1>11. PutBack'
  BY <1>1, <1>2, <1>3, <1>4, <1>5 DEF PlanInv, PutBack, GoesOn, Further
<1>12. Removed'
  BY <1>1, <1>2, <1>3, <1>4, <1>5 DEF PlanInv, Removed, GoesOn, Further, Placing
<1>13. Rotated'
  BY <1>1, <1>2, <1>3, <1>4, <1>5 DEF PlanInv, Rotated, GoesOn, Further, StaysStopped
<1>14. TargetStaged'
  BY <1>1, <1>2, <1>3, <1>4, <1>5 DEF PlanInv, TargetStaged, GoesOn, Further, Placing
<1>15. NamedIsStaged'
  BY <1>1, <1>2, <1>3, <1>4, <1>5 DEF PlanInv, NamedIsStaged
<1>16. WindowIsStaged'
  BY <1>1, <1>2, <1>3, <1>4, <1>5 DEF PlanInv, WindowIsStaged
<1> QED
  BY <1>2, <1>7, <1>8, <1>9, <1>10, <1>11, <1>12, <1>13, <1>14, <1>15, <1>16 DEF PlanInv

LEMMA StopSettles == ASSUME PlanInv, Stop PROVE PlanInv'
<1>1. op' \in Op /\ GoesOn /\ op'.touched = op.touched /\ op'.proven = op.proven
  BY DoneGoesOn DEF Stop, Did, PlanInv, TypeOK
<1>2. ~Idle /\ Next1("stop") /\ Further("stop") /\ OnPlan'
  BY <1>1, StepTaken DEF Stop
<1>3. /\ disk' = disk /\ spent' = spent /\ manager \in Manager /\ disk \in Disk
      /\ manager' \in Manager /\ manager'.platform = manager.platform
      /\ manager'.registered \in {manager.registered, None}
      /\ manager'.running \in {manager.running, None}
      /\ manager.platform # "darwin" => manager'.registered = manager.registered
      /\ manager'.registered = None /\ manager.registered # None => manager'.running = None
      /\ ~op.start => manager'.registered = manager.registered
  BY DEF Stop, PlanInv, TypeOK, Manager
<1>4. /\ Placing /\ Sound /\ "load" \in Left /\ "define" \notin Left
      /\ op.start => "start" \in Left
  <2>1. "stop" \in Plan /\ Sound
    BY <1>2 DEF Next1
  <2>2. Placing
    BY <2>1 DEF Placing, Plan, CommitPlan, ServicePlan
  <2>3. {"load"} \cup (IF op.start THEN {"start"} ELSE {}) \subseteq Plan
    BY <2>1 DEF Plan, CommitPlan, ServicePlan
  <2> QED BY <1>2, <2>1, <2>2, <2>3, RankValues DEF Next1, Step
<1>5. Process0(op.target)' = Process0(op.target)
  BY <1>1, <1>3 DEF Process0, GoesOn
<1>7. TypeOK'
  BY <1>1, <1>3 DEF PlanInv, TypeOK
<1>8. HeldIfRun'
  BY <1>3 DEF PlanInv, HeldIfRun
<1>9. Placed'
  BY <1>1, <1>2, <1>3, <1>4, <1>5 DEF PlanInv, Placed, Placing, GoesOn, Further, Startable,
     OverStop, Process0
<1>10. StaysStopped'
  BY <1>1, <1>2, <1>3, <1>4, <1>5 DEF PlanInv, StaysStopped, GoesOn
<1>11. PutBack'
  BY <1>1, <1>2, <1>3, <1>4, <1>5 DEF PlanInv, PutBack, GoesOn, Further
<1>12. Removed'
  BY <1>1, <1>2, <1>3, <1>4, <1>5 DEF PlanInv, Removed, GoesOn, Further, Placing
<1>13. Rotated'
  BY <1>1, <1>2, <1>3, <1>4, <1>5 DEF PlanInv, Rotated, GoesOn, Further, Placing
<1>14. TargetStaged'
  BY <1>1, <1>2, <1>3, <1>4, <1>5 DEF PlanInv, TargetStaged, GoesOn, Further, Placing
<1>15. NamedIsStaged'
  BY <1>1, <1>2, <1>3, <1>4, <1>5 DEF PlanInv, NamedIsStaged
<1>16. WindowIsStaged'
  BY <1>1, <1>2, <1>3, <1>4, <1>5 DEF PlanInv, WindowIsStaged
<1> QED
  BY <1>2, <1>7, <1>8, <1>9, <1>10, <1>11, <1>12, <1>13, <1>14, <1>15, <1>16 DEF PlanInv

LEMMA LoadSettles == ASSUME PlanInv, Load PROVE PlanInv'
<1>1. op' \in Op /\ GoesOn /\ op'.touched = op.touched /\ op'.proven = op.proven
  BY DoneGoesOn DEF Load, Did, PlanInv, TypeOK
<1>2. ~Idle /\ Next1("load") /\ Further("load") /\ OnPlan'
  BY <1>1, StepTaken DEF Load
<1>3. /\ disk' = disk /\ spent' = spent /\ manager \in Manager /\ disk \in Disk
      /\ manager' \in Manager /\ manager'.platform = manager.platform
      /\ manager'.running = manager.running
      /\ manager.platform = "darwin" => manager' = manager
      /\ manager.platform # "darwin" => manager'.registered = disk.definition
  BY DEF Load, PlanInv, TypeOK, Manager, Disk
<1>4. /\ Placing /\ Sound /\ "define" \notin Left /\ disk.definition = op.target
      /\ op.start => "start" \in Left
  <2>1. "load" \in Plan /\ Sound
    BY <1>2 DEF Next1
  <2>2. Placing
    BY <2>1 DEF Placing, Plan, CommitPlan, ServicePlan
  <2>3. op.start => "start" \in Plan
    BY <2>1, <2>2 DEF Plan, Placing, CommitPlan, ServicePlan, PlanInv, PutBack
  <2>4. "define" \notin Left
    BY <1>2, RankValues DEF Next1, Step
  <2> QED BY <1>2, <2>1, <2>2, <2>3, <2>4, RankValues DEF Next1, PlanInv, Placed
<1>5. Process0(op.target)' = Process0(op.target)
  BY <1>1, <1>3 DEF Process0, GoesOn
<1>7. TypeOK'
  BY <1>1, <1>3 DEF PlanInv, TypeOK
<1>8. HeldIfRun'
  BY <1>3 DEF PlanInv, HeldIfRun
<1>9. Placed'
  <2>1. Placing' /\ ~op.start /\ ~OverStop => manager.running = None
    BY <1>1, <1>2, <1>4 DEF PlanInv, Placing, OverStop, StaysStopped, PutBack, GoesOn, TypeOK, Op
  <2>2. OverStop' <=> OverStop
    BY <1>1 DEF OverStop, GoesOn
  <2>3. Startable' = op.target
    BY <1>3, <1>4 DEF Startable
  <2>4. op.start => "start" \in Left'
    BY <1>2, <1>4 DEF Further
  <2>5. "point" \notin Left' /\ op.cmd # "rotate" => disk.pointer = op.target
    BY <1>2, <1>4 DEF PlanInv, Placed, Further
  <2> QED BY <1>1, <1>3, <1>4, <2>1, <2>2, <2>3, <2>4, <2>5 DEF Placed, GoesOn
<1>10. StaysStopped'
  BY <1>1, <1>2, <1>3, <1>4, <1>5 DEF PlanInv, StaysStopped, GoesOn
<1>11. PutBack'
  BY <1>1, <1>2, <1>3, <1>4, <1>5 DEF PlanInv, PutBack, GoesOn, Further
<1>12. Removed'
  BY <1>1, <1>2, <1>3, <1>4, <1>5 DEF PlanInv, Removed, GoesOn, Further, Placing
<1>13. Rotated'
  BY <1>1, <1>2, <1>3, <1>4, <1>5 DEF PlanInv, Rotated, GoesOn, Further, Placing
<1>14. TargetStaged'
  BY <1>1, <1>2, <1>3, <1>4, <1>5 DEF PlanInv, TargetStaged, GoesOn, Further, Placing
<1>15. NamedIsStaged'
  BY <1>1, <1>2, <1>3, <1>4, <1>5 DEF PlanInv, NamedIsStaged
<1>16. WindowIsStaged'
  BY <1>1, <1>2, <1>3, <1>4, <1>5 DEF PlanInv, WindowIsStaged
<1> QED
  BY <1>2, <1>7, <1>8, <1>9, <1>10, <1>11, <1>12, <1>13, <1>14, <1>15, <1>16 DEF PlanInv

LEMMA StartSettles == ASSUME PlanInv, Start PROVE PlanInv'
<1>1. op' \in Op /\ GoesOn /\ op'.touched = op.touched /\ op'.proven = op.proven
  BY DoneGoesOn DEF Start, Did, PlanInv, TypeOK
<1>2. ~Idle /\ Next1("start") /\ Further("start") /\ OnPlan'
  BY <1>1, StepTaken DEF Start
<1>4. /\ Placing /\ Sound /\ op.start /\ Startable = op.target /\ disk.definition = op.target
      /\ op.target \in disk.staged /\ op.target # None
      /\ {"configure", "stage", "define", "load"} \cap Left = {}
  <2>1. "start" \in Plan /\ Sound
    BY <1>2 DEF Next1
  <2>2. Placing
    BY <2>1 DEF Placing, Plan, CommitPlan, ServicePlan
  <2>3. op.start
    BY <2>1 DEF Plan, CommitPlan, ServicePlan
  <2>4. {"configure", "stage", "define", "load"} \cap Left = {}
    BY <1>2, RankValues DEF Next1, Step
  <2>5. Startable = op.target /\ disk.definition = op.target /\ op.target \in disk.staged
    BY <1>2, <2>1, <2>2, <2>4 DEF PlanInv, Placed, TargetStaged
  <2>6. op.target # None
    BY <2>5, ActivationAssumption DEF PlanInv, TypeOK, Disk
  <2> QED BY <2>1, <2>2, <2>3, <2>4, <2>5, <2>6
<1>3. /\ disk' = disk /\ spent' = spent /\ manager \in Manager /\ disk \in Disk
      /\ manager' = [manager EXCEPT !.registered = op.target, !.running = Process0(op.target)]
  BY <1>4 DEF Start, PlanInv, TypeOK, Startable
<1>5. /\ manager' \in Manager /\ manager'.platform = manager.platform
      /\ manager'.registered = op.target /\ manager'.running = Process0(op.target)
      /\ Process0(op.target)' = Process0(op.target)
      /\ Process0(op.target).version = op.target
  <2>1. Process0(op.target) \in Process
    BY <1>3, <1>4 DEF Process0, Process, Disk
  <2>2. Process0(op.target)' = Process0(op.target)
    BY <1>1, <1>3 DEF Process0, GoesOn
  <2> QED BY <1>3, <1>4, <2>1, <2>2 DEF Manager, Disk, Process0
<1>7. TypeOK'
  BY <1>1, <1>3, <1>5 DEF PlanInv, TypeOK
<1>8. HeldIfRun'
  BY <1>4, <1>5 DEF HeldIfRun
<1>9. Placed'
  BY <1>1, <1>2, <1>3, <1>4, <1>5 DEF PlanInv, Placed, Placing, GoesOn, Further, Startable,
     OverStop, Process0
<1>10. StaysStopped'
  BY <1>1, <1>2, <1>3, <1>4, <1>5 DEF PlanInv, StaysStopped, GoesOn
<1>11. PutBack'
  BY <1>1, <1>2, <1>3, <1>4, <1>5 DEF PlanInv, PutBack, GoesOn, Further
<1>12. Removed'
  BY <1>1, <1>2, <1>3, <1>4, <1>5 DEF PlanInv, Removed, GoesOn, Further, Placing
<1>13. Rotated'
  BY <1>1, <1>2, <1>3, <1>4, <1>5 DEF PlanInv, Rotated, GoesOn, Further, Placing
<1>14. TargetStaged'
  BY <1>1, <1>2, <1>3, <1>4, <1>5 DEF PlanInv, TargetStaged, GoesOn, Further, Placing
<1>15. NamedIsStaged'
  BY <1>1, <1>2, <1>3, <1>4, <1>5 DEF PlanInv, NamedIsStaged
<1>16. WindowIsStaged'
  BY <1>1, <1>2, <1>3, <1>4, <1>5 DEF PlanInv, WindowIsStaged
<1> QED
  BY <1>2, <1>7, <1>8, <1>9, <1>10, <1>11, <1>12, <1>13, <1>14, <1>15, <1>16 DEF PlanInv


LEMMA ReadySettles == ASSUME PlanInv, Ready PROVE PlanInv'
<1>0. manager.running # None /\ manager.running.version \in Version
  BY DEF Ready, Did, Throws, Answers, PlanInv, TypeOK, Manager, Process
<1>1. /\ op' \in Op /\ GoesOn /\ op'.touched = op.touched
  <2> DEFINE o == [op EXCEPT !.todo = Tail(@), !.proven = @ \cup {manager.running.version}]
  <2>1. op \in Op /\ Tail(op.todo) \in Seq(Step)
    BY DEF Op, Idle, Ready, Did, PlanInv, TypeOK
  <2>2. op.proven \cup {manager.running.version} \subseteq Version
    BY <1>0, <2>1 DEF Op
  <2>3. /\ o \in Op /\ o.todo = Tail(op.todo) /\ o.cmd = op.cmd /\ o.way = op.way
        /\ o.target = op.target /\ o.start = op.start /\ o.installed = op.installed
        /\ o.active = op.active /\ o.prior = op.prior /\ o.config = op.config
        /\ o.errors = op.errors /\ o.settings = op.settings /\ o.outcome = op.outcome
        /\ o.touched = op.touched
    BY <2>1, <2>2 DEF Op
  <2>4. op' = Ended(o)
    BY DEF Ready
  <2> HIDE DEF o
  <2>5. /\ Ended(o) \in Op
        /\ Ended(o).todo = o.todo /\ Ended(o).cmd = o.cmd /\ Ended(o).way = o.way
        /\ Ended(o).target = o.target /\ Ended(o).start = o.start
        /\ Ended(o).installed = o.installed /\ Ended(o).active = o.active
        /\ Ended(o).prior = o.prior /\ Ended(o).config = o.config
        /\ Ended(o).errors = o.errors /\ Ended(o).settings = o.settings
        /\ Ended(o).touched = o.touched
        /\ Ended(o).outcome = IF o.todo # <<>> THEN o.outcome
                              ELSE IF o.errors THEN "incomplete"
                              ELSE IF o.way = "revert" THEN "failed" ELSE "ok"
    BY <2>3, EndedIsTyped, Zenon
  <2> QED BY <2>3, <2>4, <2>5 DEF GoesOn
<1>2. ~Idle /\ Next1("ready") /\ Further("ready") /\ OnPlan'
  BY <1>1, StepTaken DEF Ready
<1>3. disk' = disk /\ spent' = spent /\ manager' = manager /\ manager \in Manager /\ disk \in Disk
  BY DEF Ready, PlanInv, TypeOK
<1>4. /\ Placing /\ Sound /\ op.start
  <2>1. "ready" \in Plan /\ Sound
    BY <1>2 DEF Next1
  <2>2. Placing
    BY <2>1 DEF Placing, Plan, CommitPlan, ServicePlan
  <2>3. op.start
    BY <2>1 DEF Plan, CommitPlan, ServicePlan
  <2> QED BY <2>1, <2>2, <2>3
<1>5. Process0(op.target)' = Process0(op.target)
  BY <1>1, <1>3 DEF Process0, GoesOn
<1>7. TypeOK'
  BY <1>1, <1>3 DEF PlanInv, TypeOK
<1>8. HeldIfRun'
  BY <1>1, <1>2, <1>3, <1>4, <1>5 DEF PlanInv, HeldIfRun
<1>9. Placed'
  BY <1>1, <1>2, <1>3, <1>4, <1>5 DEF PlanInv, Placed, Placing, GoesOn, Further, Startable,
     OverStop, Process0
<1>10. StaysStopped'
  BY <1>1, <1>2, <1>3, <1>4, <1>5 DEF PlanInv, StaysStopped, GoesOn
<1>11. PutBack'
  BY <1>1, <1>2, <1>3, <1>4, <1>5 DEF PlanInv, PutBack, GoesOn, Further
<1>12. Removed'
  BY <1>1, <1>2, <1>3, <1>4, <1>5 DEF PlanInv, Removed, GoesOn, Further, Placing
<1>13. Rotated'
  BY <1>1, <1>2, <1>3, <1>4, <1>5 DEF PlanInv, Rotated, GoesOn, Further, Placing
<1>14. TargetStaged'
  BY <1>1, <1>2, <1>3, <1>4, <1>5 DEF PlanInv, TargetStaged, GoesOn, Further, Placing
<1>15. NamedIsStaged'
  BY <1>1, <1>2, <1>3, <1>4, <1>5 DEF PlanInv, NamedIsStaged
<1>16. WindowIsStaged'
  BY <1>1, <1>2, <1>3, <1>4, <1>5 DEF PlanInv, WindowIsStaged
<1> QED
  BY <1>2, <1>7, <1>8, <1>9, <1>10, <1>11, <1>12, <1>13, <1>14, <1>15, <1>16 DEF PlanInv

LEMMA PointSettles == ASSUME PlanInv, Point PROVE PlanInv'
<1>1. op' \in Op /\ GoesOn /\ op'.touched = op.touched /\ op'.proven = op.proven
  BY DoneGoesOn DEF Point, Did, PlanInv, TypeOK
<1>2. ~Idle /\ Next1("point") /\ Further("point") /\ OnPlan'
  BY <1>1, StepTaken DEF Point
<1>3. /\ disk' = [disk EXCEPT !.pointer = op.target]
      /\ manager' = manager /\ spent' = spent /\ disk \in Disk
  BY DEF Point, PlanInv, TypeOK
<1>4. /\ disk'.config = disk.config /\ disk'.token = disk.token /\ disk'.staged = disk.staged
      /\ disk'.history = disk.history /\ disk'.damaged = disk.damaged
      /\ disk'.definition = disk.definition
      /\ disk'.pointer = op.target
  BY <1>3 DEF Disk
<1>5. /\ Placing /\ Sound /\ "stage" \notin Left /\ op.target \in disk.staged
      /\ op.target # None /\ op.target \in Version /\ op.cmd \in {"install", "rollback"}
      /\ op.cmd = "install" => op.touched
      /\ op.start => "start" \notin Left
      /\ "record" \in Left
  <2>1. "point" \in Plan /\ Sound
    BY <1>2 DEF Next1
  <2>2. Placing
    BY <2>1 DEF Placing, Plan, CommitPlan, ServicePlan
  <2>3. op.cmd \in {"install", "rollback"} /\ "record" \in Plan
    BY <2>1 DEF Plan, CommitPlan, ServicePlan
  <2>4. "stage" \notin Left /\ "start" \notin Left
    BY <1>2, RankValues DEF Next1, Step
  <2>5. op.target \in disk.staged
    BY <1>2, <2>1, <2>2, <2>4 DEF PlanInv, TargetStaged
  <2>6. op.target # None /\ op.target \in Version
    BY <2>5, ActivationAssumption DEF PlanInv, TypeOK, Disk
  <2>7. op.cmd = "install" => op.touched
    BY <2>1, <2>2, <2>4 DEF PlanInv, PutBack, Placing, TypeOK, Op
  <2> QED BY <1>2, <2>1, <2>2, <2>3, <2>4, <2>5, <2>6, <2>7, RankValues DEF Next1
<1>7. TypeOK'
  BY <1>1, <1>2, <1>3, <1>4, <1>5 DEF TypeOK, Disk, Op, PlanInv
<1>8. HeldIfRun'
  BY <1>1, <1>2, <1>3, <1>4, <1>5 DEF PlanInv, HeldIfRun
<1>9. Placed'
  BY <1>1, <1>2, <1>3, <1>4, <1>5 DEF PlanInv, Placed, Placing, GoesOn, Further, Startable,
     OverStop, Process0
<1>10. StaysStopped'
  BY <1>1, <1>2, <1>3, <1>4, <1>5 DEF PlanInv, StaysStopped, GoesOn
<1>11. PutBack'
  BY <1>1, <1>2, <1>3, <1>4, <1>5 DEF PlanInv, PutBack, GoesOn, Further
<1>12. Removed'
  BY <1>1, <1>2, <1>3, <1>4, <1>5 DEF PlanInv, Removed, GoesOn, Further, Placing
<1>13. Rotated'
  BY <1>1, <1>2, <1>3, <1>4, <1>5 DEF PlanInv, Rotated, GoesOn, Further, Placing
<1>14. TargetStaged'
  BY <1>1, <1>2, <1>3, <1>4, <1>5 DEF PlanInv, TargetStaged, GoesOn, Further, Placing
<1>15. NamedIsStaged'
  BY <1>1, <1>2, <1>3, <1>4, <1>5 DEF PlanInv, NamedIsStaged
<1>16. WindowIsStaged'
  BY <1>1, <1>2, <1>3, <1>4, <1>5 DEF PlanInv, WindowIsStaged
<1> QED
  BY <1>2, <1>7, <1>8, <1>9, <1>10, <1>11, <1>12, <1>13, <1>14, <1>15, <1>16 DEF PlanInv

LEMMA RestoreSettles == ASSUME PlanInv, Restore PROVE PlanInv'
<1>1. op' \in Op /\ GoesOn /\ op'.touched = op.touched /\ op'.proven = op.proven
  BY DoneGoesOn DEF Restore, Did, PlanInv, TypeOK
<1>2. ~Idle /\ Next1("restore") /\ Further("restore") /\ OnPlan'
  BY <1>1, StepTaken DEF Restore
<1>3. /\ disk' = [disk EXCEPT !.config = op.config]
      /\ manager' = manager /\ spent' = spent /\ disk \in Disk
  BY DEF Restore, PlanInv, TypeOK
<1>4. /\ disk'.token = disk.token /\ disk'.staged = disk.staged /\ disk'.pointer = disk.pointer
      /\ disk'.history = disk.history /\ disk'.damaged = disk.damaged
      /\ disk'.definition = disk.definition
      /\ disk'.config = op.config
  BY <1>3 DEF Disk
<1>5. /\ op.cmd = "install" /\ op.way = "revert" /\ Sound /\ Next1("restore")
      /\ op.touched /\ op.installed => /\ "define" \in Left /\ "load" \in Left
                                       /\ op.start => "start" \in Left
                                       /\ op.start = op.active
  <2>1. "restore" \in Plan /\ Sound
    BY <1>2 DEF Next1
  <2>2. op.cmd = "install" /\ op.way = "revert"
    BY <2>1 DEF Plan, CommitPlan, ServicePlan
  <2>3. op.touched /\ op.installed
           => {"define", "load"} \cup (IF op.start THEN {"start"} ELSE {}) \subseteq Plan
    BY <2>2 DEF Plan, CommitPlan, ServicePlan
  <2>4. op.touched /\ op.installed => op.start = op.active
    BY <2>2 DEF PlanInv, PutBack
  <2> QED BY <1>2, <2>1, <2>2, <2>3, <2>4, RankValues DEF Next1
<1>7. TypeOK'
  BY <1>1, <1>2, <1>3, <1>4, <1>5 DEF TypeOK, Disk, Op, PlanInv
<1>8. HeldIfRun'
  BY <1>1, <1>2, <1>3, <1>4, <1>5 DEF PlanInv, HeldIfRun
<1>9. Placed'
  BY <1>1, <1>2, <1>3, <1>4, <1>5 DEF PlanInv, Placed, Placing, GoesOn, Further, Startable,
     OverStop, Process0
<1>10. StaysStopped'
  BY <1>1, <1>2, <1>3, <1>4, <1>5 DEF PlanInv, StaysStopped, GoesOn
<1>11. PutBack'
  BY <1>1, <1>2, <1>3, <1>4, <1>5 DEF PlanInv, PutBack, GoesOn, Further
<1>12. Removed'
  BY <1>1, <1>2, <1>3, <1>4, <1>5 DEF PlanInv, Removed, GoesOn, Further, Placing
<1>13. Rotated'
  BY <1>1, <1>2, <1>3, <1>4, <1>5 DEF PlanInv, Rotated, GoesOn, Further, Placing
<1>14. TargetStaged'
  BY <1>1, <1>2, <1>3, <1>4, <1>5 DEF PlanInv, TargetStaged, GoesOn, Further, Placing
<1>15. NamedIsStaged'
  BY <1>1, <1>2, <1>3, <1>4, <1>5 DEF PlanInv, NamedIsStaged
<1>16. WindowIsStaged'
  BY <1>1, <1>2, <1>3, <1>4, <1>5 DEF PlanInv, WindowIsStaged
<1> QED
  BY <1>2, <1>7, <1>8, <1>9, <1>10, <1>11, <1>12, <1>13, <1>14, <1>15, <1>16 DEF PlanInv

LEMMA HaltSettles == ASSUME PlanInv, Halt PROVE PlanInv'
<1>1. op' \in Op /\ GoesOn /\ op'.touched = op.touched /\ op'.proven = op.proven
  BY DoneGoesOn DEF Halt, Did, PlanInv, TypeOK
<1>2. ~Idle /\ Next1("halt") /\ Further("halt") /\ OnPlan'
  BY <1>1, StepTaken DEF Halt
<1>3. /\ disk' = disk /\ spent' = spent /\ manager \in Manager /\ disk \in Disk
      /\ manager' \in Manager /\ manager'.platform = manager.platform
      /\ manager'.running = None
      /\ manager'.registered = IF manager.platform = "darwin" THEN None ELSE manager.registered
  BY DEF Halt, PlanInv, TypeOK, Manager
<1>4. MayHalt
  BY <1>2 DEF Next1, Plan, CommitPlan, ServicePlan
<1>5. ~Placing /\ Process0(op.target)' = Process0(op.target)
  BY <1>1, <1>3, <1>4 DEF Process0, GoesOn, MayHalt, Placing
<1>7. TypeOK'
  BY <1>1, <1>3 DEF PlanInv, TypeOK
<1>8. HeldIfRun'
  BY <1>1, <1>2, <1>3, <1>4, <1>5 DEF PlanInv, HeldIfRun
<1>9. Placed'
  BY <1>1, <1>2, <1>3, <1>4, <1>5 DEF PlanInv, Placed, Placing, GoesOn, Further, Startable,
     OverStop, Process0
<1>10. StaysStopped'
  BY <1>1, <1>2, <1>3, <1>4, <1>5 DEF PlanInv, StaysStopped, GoesOn
<1>11. PutBack'
  BY <1>1, <1>2, <1>3, <1>4, <1>5 DEF PlanInv, PutBack, GoesOn, Further
<1>12. Removed'
  BY <1>1, <1>2, <1>3, <1>4, <1>5 DEF PlanInv, Removed, GoesOn, Further, Placing
<1>13. Rotated'
  BY <1>1, <1>2, <1>3, <1>4, <1>5 DEF PlanInv, Rotated, GoesOn, Further, Placing
<1>14. TargetStaged'
  BY <1>1, <1>2, <1>3, <1>4, <1>5 DEF PlanInv, TargetStaged, GoesOn, Further, Placing
<1>15. NamedIsStaged'
  BY <1>1, <1>2, <1>3, <1>4, <1>5 DEF PlanInv, NamedIsStaged
<1>16. WindowIsStaged'
  BY <1>1, <1>2, <1>3, <1>4, <1>5 DEF PlanInv, WindowIsStaged
<1> QED
  BY <1>2, <1>7, <1>8, <1>9, <1>10, <1>11, <1>12, <1>13, <1>14, <1>15, <1>16 DEF PlanInv

LEMMA DisableSettles == ASSUME PlanInv, Disable PROVE PlanInv'
<1>1. op' \in Op /\ GoesOn /\ op'.touched = op.touched /\ op'.proven = op.proven
  BY DoneGoesOn DEF Disable, Did, PlanInv, TypeOK
<1>2. ~Idle /\ Next1("disable") /\ Further("disable") /\ OnPlan'
  BY <1>1, StepTaken DEF Disable
<1>3. /\ disk' = disk /\ spent' = spent /\ manager \in Manager /\ disk \in Disk
      /\ manager' \in Manager /\ manager'.platform = manager.platform
      /\ manager'.registered \in {None, manager.registered}
      /\ manager'.running \in {None, manager.running}
      /\ manager.platform # "darwin" => manager'.registered = None
      /\ manager.platform = "linux" => manager'.running = None
      /\ manager.platform = "darwin" => manager' = manager
  BY ActivationAssumption DEF Disable, PlanInv, TypeOK, Manager
<1>4. /\ Sound => op.cmd = "uninstall" \/ (op.cmd = "install" /\ op.way = "revert" /\ ~Placing)
      /\ "halt" \notin Left
  <2>1. op.errors \/ "disable" \in Plan
    BY <1>2 DEF Next1
  <2>2. "halt" \notin Left
    BY <1>2, RankValues DEF Next1, Step
  <2> QED BY <1>2, <2>1, <2>2 DEF Next1, Plan, CommitPlan, ServicePlan, Placing
<1>5. Process0(op.target)' = Process0(op.target)
  BY <1>1, <1>3 DEF Process0, GoesOn
<1>7. TypeOK'
  BY <1>1, <1>3 DEF PlanInv, TypeOK
<1>8. HeldIfRun'
  BY <1>1, <1>2, <1>3, <1>4, <1>5 DEF PlanInv, HeldIfRun
<1>9. Placed'
  BY <1>1, <1>2, <1>3, <1>4, <1>5 DEF PlanInv, Placed, Placing, GoesOn, Further, Startable,
     OverStop, Process0
<1>10. StaysStopped'
  BY <1>1, <1>2, <1>3, <1>4, <1>5 DEF PlanInv, StaysStopped, GoesOn
<1>11. PutBack'
  BY <1>1, <1>2, <1>3, <1>4, <1>5 DEF PlanInv, PutBack, GoesOn, Further
<1>12. Removed'
  BY <1>1, <1>2, <1>3, <1>4, <1>5 DEF PlanInv, Removed, GoesOn, Further, Placing
<1>13. Rotated'
  BY <1>1, <1>2, <1>3, <1>4, <1>5 DEF PlanInv, Rotated, GoesOn, Further, Placing
<1>14. TargetStaged'
  BY <1>1, <1>2, <1>3, <1>4, <1>5 DEF PlanInv, TargetStaged, GoesOn, Further, Placing
<1>15. NamedIsStaged'
  BY <1>1, <1>2, <1>3, <1>4, <1>5 DEF PlanInv, NamedIsStaged
<1>16. WindowIsStaged'
  BY <1>1, <1>2, <1>3, <1>4, <1>5 DEF PlanInv, WindowIsStaged
<1> QED
  BY <1>2, <1>7, <1>8, <1>9, <1>10, <1>11, <1>12, <1>13, <1>14, <1>15, <1>16 DEF PlanInv

LEMMA RemoveDefinitionSettles == ASSUME PlanInv, RemoveDefinition PROVE PlanInv'
<1>1. op' \in Op /\ GoesOn /\ op'.touched = op.touched /\ op'.proven = op.proven
  BY DoneGoesOn DEF RemoveDefinition, Did, PlanInv, TypeOK
<1>2. ~Idle /\ Next1("remove") /\ Further("remove") /\ OnPlan'
  BY <1>1, StepTaken DEF RemoveDefinition
<1>3. /\ disk' = [disk EXCEPT !.definition = None]
      /\ manager' = manager /\ spent' = spent /\ disk \in Disk
  BY DEF RemoveDefinition, PlanInv, TypeOK
<1>4. /\ disk'.config = disk.config /\ disk'.token = disk.token /\ disk'.staged = disk.staged
      /\ disk'.pointer = disk.pointer /\ disk'.history = disk.history
      /\ disk'.damaged = disk.damaged
      /\ disk'.definition = None
  BY <1>3 DEF Disk
<1>5. Sound => op.cmd = "uninstall" \/ (op.cmd = "install" /\ op.way = "revert" /\ ~Placing)
  <2>1. op.errors \/ "remove" \in Plan
    BY <1>2 DEF Next1
  <2> QED BY <1>2, <2>1 DEF Next1, Plan, CommitPlan, ServicePlan, Placing
<1>7. TypeOK'
  BY <1>1, <1>2, <1>3, <1>4, <1>5 DEF TypeOK, Disk, Op, PlanInv
<1>8. HeldIfRun'
  BY <1>1, <1>2, <1>3, <1>4, <1>5 DEF PlanInv, HeldIfRun
<1>9. Placed'
  BY <1>1, <1>2, <1>3, <1>4, <1>5 DEF PlanInv, Placed, Placing, GoesOn, Further, Startable,
     OverStop, Process0
<1>10. StaysStopped'
  BY <1>1, <1>2, <1>3, <1>4, <1>5 DEF PlanInv, StaysStopped, GoesOn
<1>11. PutBack'
  BY <1>1, <1>2, <1>3, <1>4, <1>5 DEF PlanInv, PutBack, GoesOn, Further
<1>12. Removed'
  BY <1>1, <1>2, <1>3, <1>4, <1>5 DEF PlanInv, Removed, GoesOn, Further, Placing
<1>13. Rotated'
  BY <1>1, <1>2, <1>3, <1>4, <1>5 DEF PlanInv, Rotated, GoesOn, Further, Placing
<1>14. TargetStaged'
  BY <1>1, <1>2, <1>3, <1>4, <1>5 DEF PlanInv, TargetStaged, GoesOn, Further, Placing
<1>15. NamedIsStaged'
  BY <1>1, <1>2, <1>3, <1>4, <1>5 DEF PlanInv, NamedIsStaged
<1>16. WindowIsStaged'
  BY <1>1, <1>2, <1>3, <1>4, <1>5 DEF PlanInv, WindowIsStaged
<1> QED
  BY <1>2, <1>7, <1>8, <1>9, <1>10, <1>11, <1>12, <1>13, <1>14, <1>15, <1>16 DEF PlanInv


-----------------------------------------------------------------------------
(* The history: what an activation brings into the retention window.                     *)

(* A finite number of places has a last one.                                           *)
LEMMA LastExists ==
  ASSUME NEW n \in Nat, NEW at \in SUBSET (1 .. n), at # {}
  PROVE  \E i \in at : \A j \in at : j <= i
<1> DEFINE T == {k \in Nat : k <= n /\ n - k \in at}
<1>1. PICK a \in at : TRUE
  OBVIOUS
<1>2. n - a \in T
  BY <1>1
<1>3. PICK k \in T : \A l \in T : ~ (<<l, k>> \in OpToRel(<, Nat))
  <2>1. T \subseteq Nat /\ T # {}
    BY <1>2
  <2> QED BY <2>1, WFMin, NatLessThanWellFounded, Zenon
<1>4. \A l \in T : ~ (l < k)
  <2> SUFFICES ASSUME NEW l \in T, l < k PROVE FALSE
    OBVIOUS
  <2>1. <<l, k>> \in Nat \X Nat /\ <<l, k>>[1] < <<l, k>>[2]
    OBVIOUS
  <2>2. <<l, k>> \in OpToRel(<, Nat)
    BY <2>1 DEF OpToRel
  <2> QED BY <1>3, <2>2
<1>5. n - k \in at /\ k \in Nat
  OBVIOUS
<1>6. ASSUME NEW j \in at PROVE j <= n - k
  <2>1. n - j \in T
    OBVIOUS
  <2> QED BY <1>4, <1>5, <2>1
<1> QED BY <1>5, <1>6

LEMMA LastPlaceIs ==
  ASSUME NEW h \in Seq(Version), NEW v \in StepsOf(h)
  PROVE  /\ LastPlace(h, v) \in 1 .. Len(h) /\ h[LastPlace(h, v)] = v
         /\ \A j \in 1 .. Len(h) : h[j] = v => j <= LastPlace(h, v)
<1> DEFINE at == {i \in 1 .. Len(h) : h[i] = v}
<1>1. at \in SUBSET (1 .. Len(h)) /\ at # {} /\ Len(h) \in Nat
  BY DEF StepsOf
<1>2. \E i \in at : \A j \in at : j <= i
  BY <1>1, LastExists
<1>3. LastPlace(h, v) = CHOOSE i \in at : \A j \in at : j <= i
  BY DEF LastPlace
<1> HIDE DEF at
<1>4. LastPlace(h, v) \in at /\ \A j \in at : j <= LastPlace(h, v)
  BY <1>2, <1>3
<1> QED BY <1>4 DEF at

(* The last place is the only one after which v does not come again.                    *)
LEMMA LastPlaceUnique ==
  ASSUME NEW h \in Seq(Version), NEW v, NEW i \in 1 .. Len(h), h[i] = v,
         \A j \in 1 .. Len(h) : h[j] = v => j <= i
  PROVE  v \in StepsOf(h) /\ LastPlace(h, v) = i
<1>1. v \in StepsOf(h)
  BY DEF StepsOf
<1>2. LastPlace(h, v) \in 1 .. Len(h) /\ i <= LastPlace(h, v) /\ LastPlace(h, v) <= i
  BY <1>1, LastPlaceIs
<1> QED BY <1>1, <1>2

LEMMA SinceIsFinite ==
  ASSUME NEW h \in Seq(Version), NEW v \in StepsOf(h)
  PROVE  IsFiniteSet(Since(h, v)) /\ Cardinality(Since(h, v)) \in Nat
<1> DEFINE R == (LastPlace(h, v) + 1) .. Len(h)
           f == [i \in R |-> h[i]]
<1>1. IsFiniteSet(R)
  BY LastPlaceIs, FS_Interval
<1>2. f \in Surjection(R, Since(h, v))
  BY DEF Since, Surjection
<1>3. IsFiniteSet(Since(h, v))
  BY <1>1, <1>2, FS_Surjection
<1> QED BY <1>3, FS_CardinalityType

(* An activation brings only itself into the window.                                    *)
LEMMA AppendedWindow ==
  ASSUME NEW h \in Seq(Version), NEW x \in Version
  PROVE  Window(Append(h, x)) \subseteq Window(h) \cup {x}
<1> DEFINE g == Append(h, x)
<1>1. /\ g \in Seq(Version) /\ Len(g) = Len(h) + 1 /\ g[Len(h) + 1] = x
      /\ \A i \in 1 .. Len(h) : g[i] = h[i]
      /\ Len(h) \in Nat /\ DOMAIN h = 1 .. Len(h) /\ DOMAIN g = 1 .. Len(h) + 1
  OBVIOUS
<1> HIDE DEF g
<1> SUFFICES ASSUME NEW v \in Window(g), v # x
             PROVE  v \in Window(h)
  BY DEF g
<1>2. v \in StepsOf(g) /\ Cardinality(Since(g, v)) < RetentionLimit
  BY DEF Window
<1>3. v \in StepsOf(h)
  BY <1>1, <1>2 DEF StepsOf
<1>4. LastPlace(g, v) = LastPlace(h, v)
  <2>1. /\ LastPlace(h, v) \in 1 .. Len(h) /\ h[LastPlace(h, v)] = v
        /\ \A j \in 1 .. Len(h) : h[j] = v => j <= LastPlace(h, v)
    BY <1>3, LastPlaceIs
  <2>2. /\ LastPlace(h, v) \in 1 .. Len(g) /\ g[LastPlace(h, v)] = v
        /\ \A j \in 1 .. Len(g) : g[j] = v => j <= LastPlace(h, v)
    BY <1>1, <2>1
  <2> QED BY <1>1, <2>2, LastPlaceUnique
<1>5. Since(h, v) \subseteq Since(g, v)
  <2>1. LastPlace(h, v) \in 1 .. Len(h)
    BY <1>3, LastPlaceIs
  <2> QED BY <1>1, <1>4, <2>1 DEF Since
<1>6. Cardinality(Since(h, v)) <= Cardinality(Since(g, v))
  BY <1>1, <1>2, <1>5, SinceIsFinite, FS_Subset
<1>7. /\ Cardinality(Since(h, v)) \in Nat /\ Cardinality(Since(g, v)) \in Nat
      /\ RetentionLimit \in Nat
  BY <1>1, <1>2, <1>3, SinceIsFinite, ActivationAssumption
<1> QED BY <1>2, <1>3, <1>6, <1>7 DEF Window

(* An entry dropped at the head brings nothing in.                                      *)
LEMMA ShortenedWindow ==
  ASSUME NEW h \in Seq(Version), h # <<>>
  PROVE  Window(Tail(h)) \subseteq Window(h)
<1> DEFINE g == Tail(h)
<1>1. /\ g \in Seq(Version) /\ Len(g) = Len(h) - 1 /\ Len(h) \in Nat \ {0}
      /\ \A i \in 1 .. Len(h) - 1 : g[i] = h[i + 1]
      /\ DOMAIN h = 1 .. Len(h) /\ DOMAIN g = 1 .. Len(h) - 1
  OBVIOUS
<1> HIDE DEF g
<1> SUFFICES ASSUME NEW v \in Window(g) PROVE v \in Window(h)
  BY DEF g
<1>2. v \in StepsOf(g) /\ Cardinality(Since(g, v)) < RetentionLimit
  BY DEF Window
<1>3. /\ LastPlace(g, v) \in 1 .. Len(g) /\ g[LastPlace(g, v)] = v
      /\ \A j \in 1 .. Len(g) : g[j] = v => j <= LastPlace(g, v)
  BY <1>1, <1>2, LastPlaceIs
<1>4. /\ LastPlace(g, v) + 1 \in 1 .. Len(h) /\ h[LastPlace(g, v) + 1] = v
      /\ \A j \in 1 .. Len(h) : h[j] = v => j <= LastPlace(g, v) + 1
  <2>1. LastPlace(g, v) + 1 \in 1 .. Len(h) /\ h[LastPlace(g, v) + 1] = v
    BY <1>1, <1>3
  <2>2. ASSUME NEW j \in 1 .. Len(h), h[j] = v PROVE j <= LastPlace(g, v) + 1
    <3>1. CASE j = 1
      BY <1>3, <3>1
    <3>2. CASE j # 1
      <4>1. j - 1 \in 1 .. Len(g) /\ g[j - 1] = v
        BY <1>1, <2>2, <3>2
      <4> QED BY <1>3, <4>1
    <3> QED BY <3>1, <3>2
  <2> QED BY <2>1, <2>2
<1>5. v \in StepsOf(h) /\ LastPlace(h, v) = LastPlace(g, v) + 1
  BY <1>4, LastPlaceUnique
<1>6. Since(h, v) = Since(g, v)
  <2>1. ASSUME NEW x \in Since(h, v) PROVE x \in Since(g, v)
    <3>1. PICK i \in (LastPlace(g, v) + 2) .. Len(h) : x = h[i]
      BY <1>1, <1>3, <1>5 DEF Since
    <3>2. i - 1 \in (LastPlace(g, v) + 1) .. Len(g) /\ g[i - 1] = x
      BY <1>1, <1>3, <3>1
    <3> QED BY <3>2 DEF Since
  <2>2. ASSUME NEW x \in Since(g, v) PROVE x \in Since(h, v)
    <3>1. PICK i \in (LastPlace(g, v) + 1) .. Len(g) : x = g[i]
      BY DEF Since
    <3>2. i + 1 \in (LastPlace(h, v) + 1) .. Len(h) /\ h[i + 1] = x
      BY <1>1, <1>3, <1>5, <3>1
    <3> QED BY <3>2 DEF Since
  <2> QED BY <2>1, <2>2
<1> QED BY <1>2, <1>5, <1>6 DEF Window

LEMMA EmptyWindow == Window(<<>>) = {}
BY DEF Window, StepsOf

(* What is activated last is in the window.                                             *)
LEMMA NewestInWindow ==
  ASSUME NEW h \in Seq(Version), h # <<>>
  PROVE  Last(h) \in Window(h)
<1>1. Len(h) \in 1 .. Len(h) /\ Last(h) = h[Len(h)]
  BY DEF Last
<1>2. Last(h) \in StepsOf(h) /\ LastPlace(h, Last(h)) = Len(h)
  BY <1>1, LastPlaceUnique
<1>3. Since(h, Last(h)) = {}
  BY <1>1, <1>2 DEF Since
<1>4. Cardinality(Since(h, Last(h))) = 0
  BY <1>3, FS_EmptySet
<1> QED BY <1>2, <1>4, ActivationAssumption DEF Window

LEMMA RecordSettles == ASSUME PlanInv, Record PROVE PlanInv'
<1>1. op' \in Op /\ GoesOn /\ op'.touched = op.touched /\ op'.proven = op.proven
  BY DoneGoesOn DEF Record, Did, PlanInv, TypeOK
<1>2. ~Idle /\ Next1("record") /\ Further("record") /\ OnPlan'
  BY <1>1, StepTaken DEF Record
<1>3. manager' = manager /\ spent' = spent /\ disk \in Disk /\ Len(disk.history) <= HistoryLimit
  BY DEF Record, PlanInv, TypeOK
<1>4. /\ Placing /\ Sound /\ op.target \in disk.staged /\ op.target \in Version
  <2>1. "record" \in Plan /\ Sound
    BY <1>2 DEF Next1
  <2>2. Placing
    BY <2>1 DEF Placing, Plan, CommitPlan, ServicePlan
  <2>3. "stage" \notin Left
    BY <1>2, RankValues DEF Next1, Step
  <2>4. op.target \in disk.staged
    BY <1>2, <2>1, <2>2, <2>3 DEF PlanInv, TargetStaged
  <2> QED BY <1>3, <2>1, <2>2, <2>4 DEF Disk
<1>6. PICK h \in Seq(Version) :
        /\ Len(h) <= HistoryLimit /\ Window(h) \subseteq disk.staged
        /\ disk' = disk \/ disk' = [disk EXCEPT !.history = h, !.damaged = FALSE]
  <2> DEFINE old == IF disk.damaged THEN <<>> ELSE disk.history
             new == Append(old, op.target)
  <2>1. old \in Seq(Version) /\ Len(old) <= HistoryLimit /\ Window(old) \subseteq disk.staged
    <3>1. CASE disk.damaged
      BY <3>1, EmptyWindow, ActivationAssumption DEF Disk
    <3>2. CASE ~disk.damaged
      BY <1>3, <3>2 DEF PlanInv, WindowIsStaged, Disk
    <3> QED BY <3>1, <3>2
  <2>2. /\ disk' = disk \/ disk' = [disk EXCEPT !.history = Recent(new), !.damaged = FALSE]
    BY DEF Record
  <2> HIDE DEF old
  <2>3. new \in Seq(Version) /\ Len(new) = Len(old) + 1 /\ Window(new) \subseteq disk.staged
    BY <1>4, <2>1, AppendedWindow
  <2> HIDE DEF new
  <2>4. /\ Recent(new) \in Seq(Version) /\ Len(Recent(new)) <= HistoryLimit
        /\ Window(Recent(new)) \subseteq disk.staged
    <3>1. CASE Len(new) > HistoryLimit
      <4>1. new # <<>> /\ Recent(new) = Tail(new)
        BY <2>3, <3>1, ActivationAssumption DEF Recent
      <4>2. Len(Tail(new)) = Len(new) - 1 /\ Tail(new) \in Seq(Version)
        BY <2>3, <4>1
      <4>3. Len(old) \in Nat /\ HistoryLimit \in Nat
        BY <2>1, ActivationAssumption
      <4> QED BY <2>1, <2>3, <4>1, <4>2, <4>3, ShortenedWindow
    <3>2. CASE ~(Len(new) > HistoryLimit)
      <4>1. Recent(new) = new /\ Len(new) \in Nat /\ HistoryLimit \in Nat
        BY <2>3, <3>2, ActivationAssumption DEF Recent
      <4> QED BY <2>3, <3>2, <4>1
    <3> QED BY <3>1, <3>2
  <2> QED BY <2>2, <2>4
<1>5. /\ disk' \in Disk /\ disk'.config = disk.config /\ disk'.token = disk.token
      /\ disk'.staged = disk.staged /\ disk'.pointer = disk.pointer
      /\ disk'.definition = disk.definition
      /\ disk'.history = disk.history \/ disk'.history = h
      /\ Process0(op.target)' = Process0(op.target)
  BY <1>1, <1>3, <1>6 DEF Disk, Process0, GoesOn
<1>20. Len(disk'.history) <= HistoryLimit /\ Window(disk'.history) \subseteq disk.staged
  <2>1. Len(disk.history) <= HistoryLimit /\ Window(disk.history) \subseteq disk.staged
    BY DEF PlanInv, TypeOK, WindowIsStaged
  <2>2. Len(h) <= HistoryLimit /\ Window(h) \subseteq disk.staged
    BY <1>6
  <2>3. disk'.history = disk.history \/ disk'.history = h
    BY <1>5
  <2> QED BY <2>1, <2>2, <2>3
<1>7. TypeOK'
  BY <1>1, <1>3, <1>5, <1>20 DEF PlanInv, TypeOK
<1>8. HeldIfRun'
  BY <1>1, <1>2, <1>3, <1>4, <1>5 DEF PlanInv, HeldIfRun
<1>9. Placed'
  <2>1. Placing' /\ ~op.start /\ ~OverStop => manager.running = None
    BY <1>1, <1>2, <1>4 DEF PlanInv, Placing, OverStop, StaysStopped, PutBack, GoesOn, TypeOK, Op
  <2>2. (OverStop' <=> OverStop) /\ Startable' = Startable
    BY <1>1, <1>3, <1>5 DEF OverStop, GoesOn, Startable
  <2>3. "define" \notin Left /\ "load" \notin Left /\ "start" \notin Left /\ "point" \notin Left
    BY <1>2, RankValues DEF Next1, Step
  <2> QED BY <1>1, <1>2, <1>3, <1>4, <1>5, <2>1, <2>2, <2>3 DEF PlanInv, Placed, GoesOn, Further
<1>10. StaysStopped'
  BY <1>1, <1>2, <1>3, <1>4, <1>5 DEF PlanInv, StaysStopped, GoesOn
<1>11. PutBack'
  BY <1>1, <1>2, <1>3, <1>4, <1>5 DEF PlanInv, PutBack, GoesOn, Further
<1>12. Removed'
  BY <1>1, <1>2, <1>3, <1>4, <1>5 DEF PlanInv, Removed, GoesOn, Further, Placing
<1>13. Rotated'
  BY <1>1, <1>2, <1>3, <1>4, <1>5 DEF PlanInv, Rotated, GoesOn, Further, Placing
<1>14. TargetStaged'
  BY <1>1, <1>2, <1>3, <1>4, <1>5 DEF PlanInv, TargetStaged, GoesOn, Further, Placing
<1>15. NamedIsStaged'
  BY <1>1, <1>2, <1>3, <1>4, <1>5 DEF PlanInv, NamedIsStaged
<1>16. WindowIsStaged'
  BY <1>5, <1>20 DEF WindowIsStaged
<1> QED
  BY <1>2, <1>7, <1>8, <1>9, <1>10, <1>11, <1>12, <1>13, <1>14, <1>15, <1>16 DEF PlanInv

LEMMA PruneSettles == ASSUME PlanInv, Prune PROVE PlanInv'
<1>1. op' \in Op /\ GoesOn /\ op'.touched = op.touched /\ op'.proven = op.proven
  BY DoneGoesOn DEF Prune, Did, PlanInv, TypeOK
<1>2. ~Idle /\ Next1("prune") /\ Further("prune") /\ OnPlan'
  BY <1>1, StepTaken DEF Prune
<1>3. /\ manager' = manager /\ spent' = spent /\ disk \in Disk
      /\ \E gone \in SUBSET (disk.staged \ Retained) :
           /\ disk' = [disk EXCEPT !.staged = @ \ gone]
           /\ gone # {} => disk.history # <<>> /\ Last(disk.history) = disk.pointer
  BY DEF Prune, PlanInv, TypeOK
<1>4. PICK gone \in SUBSET (disk.staged \ Retained) :
           /\ disk' = [disk EXCEPT !.staged = @ \ gone]
           /\ gone # {} => disk.history # <<>> /\ Last(disk.history) = disk.pointer
  BY <1>3
<1>5. /\ disk' \in Disk /\ disk'.config = disk.config /\ disk'.token = disk.token
      /\ disk'.staged = disk.staged \ gone /\ disk'.pointer = disk.pointer
      /\ disk'.definition = disk.definition /\ disk'.history = disk.history
      /\ Process0(op.target)' = Process0(op.target)
  BY <1>1, <1>3, <1>4 DEF Disk, Process0, GoesOn
<1>6. Retained = Window(disk.history) \cup {disk.definition}
  BY DEF Retained, Window, Since, LastIndex, LastPlace, StepsOf, ToSet
<1>20. /\ op.cmd = "install" /\ op.way = "forward" /\ Placing /\ Sound /\ op.start
       /\ Left \ {"prune"} = {}
  <2>1. "prune" \in Plan /\ Sound
    BY <1>2 DEF Next1
  <2>2. op.cmd = "install" /\ op.way = "forward" /\ op.start
    BY <2>1 DEF Plan, CommitPlan, ServicePlan
  <2>3. Left \subseteq Plan
    BY <2>2 DEF PlanInv, OnPlan, MayHalt
  <2>4. \A x \in Plan : x # "prune" => Rank(x) < Rank("prune") /\ x \in Step
    BY <2>2, RankValues DEF Plan, CommitPlan, ServicePlan, Step
  <2> QED BY <1>2, <2>1, <2>2, <2>3, <2>4 DEF Next1, Placing
<1>21. /\ disk.definition = op.target /\ disk.pointer = op.target
       /\ manager.registered = op.target
       /\ manager.running # None => manager.running.version = op.target
  <2>1. "define" \notin Left /\ "point" \notin Left /\ "start" \notin Left
    BY <1>20
  <2>2. ~OverStop /\ op.cmd # "rotate"
    BY <1>20 DEF OverStop
  <2>3. Process0(op.target).version = op.target
    BY DEF Process0
  <2> QED BY <1>20, <2>1, <2>2, <2>3 DEF PlanInv, Placed
<1>22. op.target \notin gone /\ Window(disk.history) \cap gone = {}
  BY <1>4, <1>6, <1>21
<1>7. TypeOK'
  BY <1>1, <1>3, <1>5 DEF PlanInv, TypeOK
<1>8. HeldIfRun'
  BY <1>1, <1>2, <1>3, <1>4, <1>5 DEF PlanInv, HeldIfRun
<1>9. Placed'
  <2>1. (OverStop' <=> OverStop) /\ Startable' = Startable
    BY <1>1, <1>3, <1>5 DEF OverStop, GoesOn, Startable
  <2> QED BY <1>1, <1>2, <1>3, <1>5, <1>20, <2>1 DEF PlanInv, Placed, GoesOn, Further
<1>10. StaysStopped'
  BY <1>1, <1>2, <1>3, <1>4, <1>5 DEF PlanInv, StaysStopped, GoesOn
<1>11. PutBack'
  BY <1>1, <1>2, <1>3, <1>4, <1>5 DEF PlanInv, PutBack, GoesOn, Further
<1>12. Removed'
  BY <1>1, <1>2, <1>3, <1>4, <1>5 DEF PlanInv, Removed, GoesOn, Further, Placing
<1>13. Rotated'
  BY <1>1, <1>2, <1>3, <1>4, <1>5 DEF PlanInv, Rotated, GoesOn, Further, Placing
<1>14. TargetStaged'
  BY <1>1, <1>2, <1>5, <1>20, <1>22 DEF PlanInv, TargetStaged, GoesOn, Further, Idle
<1>15. NamedIsStaged'
  BY <1>3, <1>5, <1>21, <1>22 DEF PlanInv, NamedIsStaged
<1>16. WindowIsStaged'
  BY <1>5, <1>22 DEF PlanInv, WindowIsStaged
<1> QED
  BY <1>2, <1>7, <1>8, <1>9, <1>10, <1>11, <1>12, <1>13, <1>14, <1>15, <1>16 DEF PlanInv


-----------------------------------------------------------------------------
(* A command begins.                                                                  *)

LEMMA StatusIsBoolean == Installed \in BOOLEAN /\ Active \in BOOLEAN
BY DEF Installed, Active

(* What is not active does not run.                                                    *)
LEMMA InactiveIsStopped ==
  ASSUME PlanInv, ~Active
  PROVE  manager.running = None /\ (manager.platform = "darwin" => manager.registered = None)
BY DEF PlanInv, HeldIfRun, Active

(* What a command notes of what it reads first.                                        *)
Noted(n, cmd, i, a, q, c) ==
  [n EXCEPT !.cmd = cmd, !.installed = i, !.active = a, !.prior = q, !.config = c]

LEMMA NotedIsOp ==
  ASSUME NEW n \in Op, NEW cmd \in {"install", "rollback", "rotate", "uninstall"},
         NEW i \in BOOLEAN, NEW a \in BOOLEAN, NEW q \in Version \cup {None},
         NEW c \in Setting \cup {None}
  PROVE  Noted(n, cmd, i, a, q, c) \in Op
<1>1. cmd \in {"none", "install", "rollback", "rotate", "uninstall"}
  OBVIOUS
<1> DEFINE m == [n EXCEPT !.cmd = cmd, !.installed = i]
<1>2. m \in Op
  BY <1>1 DEF Op
<1>3. \A l \in Op : [l EXCEPT !.active = a, !.prior = q, !.config = c] \in Op
  BY ZenonT(60) DEF Op
<1>4. Noted(n, cmd, i, a, q, c) = [m EXCEPT !.active = a, !.prior = q, !.config = c]
  BY DEF Op, Noted
<1> HIDE DEF m
<1> QED BY <1>2, <1>3, <1>4

LEMMA NotedIsTyped ==
  ASSUME NEW n \in Op, NEW cmd \in {"install", "rollback", "rotate", "uninstall"},
         NEW i \in BOOLEAN, NEW a \in BOOLEAN, NEW q \in Version \cup {None},
         NEW c \in Setting \cup {None}, NEW o, o = Noted(n, cmd, i, a, q, c)
  PROVE  /\ o \in Op /\ o.cmd = cmd /\ o.way = n.way /\ o.errors = n.errors
         /\ o.outcome = n.outcome /\ o.touched = n.touched /\ o.installed = i
         /\ o.active = a /\ o.prior = q /\ o.config = c /\ o.start = n.start
         /\ o.proven = n.proven /\ o.target = n.target /\ o.settings = n.settings
<1>1. o \in Op
  BY NotedIsOp
<1>2. /\ o.cmd = cmd /\ o.way = n.way /\ o.errors = n.errors
      /\ o.outcome = n.outcome /\ o.touched = n.touched
      /\ o.prior = q /\ o.config = c /\ o.start = n.start
      /\ o.proven = n.proven /\ o.target = n.target /\ o.settings = n.settings
  BY DEF Op, Noted
<1>3. o.installed = i /\ o.active = a
  BY DEF Op, Noted
<1> QED BY <1>1, <1>2, <1>3

LEMMA ReadIsTyped ==
  ASSUME NEW cmd \in {"install", "rollback", "rotate", "uninstall"}, disk \in Disk
  PROVE  /\ Read(cmd) \in Op
         /\ Read(cmd).cmd = cmd /\ Read(cmd).way = "forward" /\ Read(cmd).errors = FALSE
         /\ Read(cmd).outcome = "none" /\ Read(cmd).touched = FALSE
         /\ Read(cmd).installed = Installed /\ Read(cmd).active = Active
         /\ Read(cmd).prior = disk.pointer /\ Read(cmd).config = disk.config
         /\ Read(cmd).start = FALSE /\ Read(cmd).proven = {} /\ Read(cmd).target = None
         /\ Read(cmd).settings = None
<1>1. /\ NoOp \in Op /\ NoOp.way = "forward" /\ NoOp.errors = FALSE /\ NoOp.outcome = "none"
      /\ NoOp.touched = FALSE /\ NoOp.start = FALSE /\ NoOp.proven = {}
      /\ NoOp.target = None /\ NoOp.settings = None
  BY DEF NoOp, Op
<1>2. Read(cmd) = Noted(NoOp, cmd, Installed, Active, disk.pointer, disk.config)
  BY DEF Read, Noted
<1>3. /\ disk.pointer \in Version \cup {None} /\ disk.config \in Setting \cup {None}
      /\ Installed \in BOOLEAN /\ Active \in BOOLEAN
  BY StatusIsBoolean DEF Disk
<1>4. /\ Read(cmd) \in Op /\ Read(cmd).cmd = cmd /\ Read(cmd).way = NoOp.way
      /\ Read(cmd).errors = NoOp.errors /\ Read(cmd).outcome = NoOp.outcome
      /\ Read(cmd).touched = NoOp.touched /\ Read(cmd).installed = Installed
      /\ Read(cmd).active = Active /\ Read(cmd).prior = disk.pointer
      /\ Read(cmd).config = disk.config /\ Read(cmd).start = NoOp.start
      /\ Read(cmd).proven = NoOp.proven /\ Read(cmd).target = NoOp.target
      /\ Read(cmd).settings = NoOp.settings
  <2> DEFINE n == NoOp
             i == Installed
             a == Active
             q == disk.pointer
             c == disk.config
             o == Read(cmd)
  <2>1. /\ n \in Op /\ i \in BOOLEAN /\ a \in BOOLEAN /\ q \in Version \cup {None}
        /\ c \in Setting \cup {None} /\ o = Noted(n, cmd, i, a, q, c)
    BY <1>1, <1>2, <1>3
  <2>2. /\ o \in Op /\ o.cmd = cmd /\ o.way = n.way /\ o.errors = n.errors
        /\ o.outcome = n.outcome /\ o.touched = n.touched /\ o.installed = i
        /\ o.active = a /\ o.prior = q /\ o.config = c /\ o.start = n.start
        /\ o.proven = n.proven /\ o.target = n.target /\ o.settings = n.settings
    <3> HIDE DEF n, i, a, q, c, o
    <3> QED BY <2>1, NotedIsTyped, SMTT(30)
  <2> QED BY <2>2, Zenon
<1> QED BY <1>1, <1>4, Zenon

(* What holds of a command that has all of its plan to do.                               *)
LEMMA BeginsOnPlan ==
  ASSUME NEW P, op' \in Op, IsPlan(op'.todo, P), op'.outcome = "none", op'.errors = FALSE,
         P \subseteq Plan' \cup (IF MayHalt' THEN {"halt"} ELSE {}), Plan' \subseteq P
  PROVE  OnPlan' /\ Left' = P /\ (Idle' <=> P = {})
<1>1. op'.todo \in Seq(Step) /\ Rising(op'.todo) /\ Left' = P
  BY DEF IsPlan, Left
<1>2. Idle' <=> P = {}
  BY <1>1, NothingLeft DEF Idle, Left
<1> QED BY <1>1, <1>2 DEF OnPlan

LEMMA InstallSettles ==
  ASSUME PlanInv, NEW v \in Version, NEW start \in BOOLEAN, NEW s \in Setting,
         Install(v, start, s)
  PROVE  PlanInv'
<1> DEFINE p == <<"configure", "stage">> \o Committed(start)
                  \o (IF start THEN <<"prune">> ELSE <<>>)
           P == {"configure", "stage"} \cup CommitPlan(start)
                  \cup (IF start THEN {"prune"} ELSE {})
<1>1. IsPlan(p, P)
  BY InstallIsPlan
<1>2. /\ disk' = disk /\ manager' = manager /\ disk \in Disk /\ manager \in Manager
      /\ spent \in [commands : Nat, rotations : Nat, faults : Nat]
      /\ spent' = [spent EXCEPT !.commands = @ + 1]
      /\ op' = [Read("install") EXCEPT !.target = v, !.start = start, !.settings = s,
                                       !.todo = p]
      /\ start \/ ~Active
      /\ disk.config # None /\ Installed => disk.pointer \in disk.staged
  BY DEF Install, Begin, PlanInv, TypeOK
<1> HIDE DEF p
<1>3. p \in Seq(Step)
  BY <1>1 DEF IsPlan
<1>4. /\ op' \in Op /\ op'.todo = p /\ op'.cmd = "install" /\ op'.way = "forward"
      /\ op'.errors = FALSE /\ op'.outcome = "none" /\ op'.touched = FALSE
      /\ op'.installed = Installed /\ op'.prior = disk.pointer /\ op'.config = disk.config
      /\ op'.start = start /\ op'.target = v
  <2> DEFINE r == Read("install")
  <2>1. /\ r \in Op /\ r.cmd = "install" /\ r.way = "forward" /\ r.errors = FALSE
        /\ r.outcome = "none" /\ r.touched = FALSE /\ r.installed = Installed
        /\ r.prior = disk.pointer /\ r.config = disk.config
    BY <1>2, ReadIsTyped, Zenon
  <2>2. op' = [r EXCEPT !.target = v, !.start = start, !.settings = s, !.todo = p]
    BY <1>2
  <2> HIDE DEF r
  <2>3. /\ op' \in Op /\ op'.todo = p /\ op'.cmd = r.cmd /\ op'.way = r.way
        /\ op'.errors = r.errors /\ op'.outcome = r.outcome /\ op'.touched = r.touched
        /\ op'.installed = r.installed /\ op'.prior = r.prior /\ op'.config = r.config
        /\ op'.start = start /\ op'.target = v
    BY <1>3, <2>1, <2>2 DEF Op
  <2> QED BY <2>1, <2>3, Zenon
<1>5. Plan' = P
  BY <1>4 DEF Plan
<1>6. OnPlan' /\ Left' = P /\ ~Idle'
  <2>1. P # {}
    OBVIOUS
  <2> HIDE DEF P
  <2> QED BY <1>1, <1>4, <1>5, <2>1, BeginsOnPlan
<1>7. /\ "define" \in Left' /\ "load" \in Left' /\ "stage" \in Left' /\ "point" \in Left'
      /\ start => "start" \in Left'
  BY <1>6 DEF CommitPlan, ServicePlan
<1> HIDE DEF P
<1>8. TypeOK'
  <2>1. spent' \in [commands : Nat, rotations : Nat, faults : Nat]
    BY <1>2
  <2> QED BY <1>2, <1>4, <2>1 DEF PlanInv, TypeOK
<1>9. HeldIfRun' /\ NamedIsStaged' /\ WindowIsStaged'
  BY <1>2 DEF PlanInv, HeldIfRun, NamedIsStaged, WindowIsStaged
<1>10. Placed'
  BY <1>4, <1>6, <1>7 DEF Placed
<1>11. StaysStopped'
  BY <1>2, <1>4, InactiveIsStopped DEF StaysStopped
<1>12. PutBack' /\ Removed' /\ Rotated'
  BY <1>2, <1>4, <1>7 DEF PutBack, Removed, Rotated
<1>13. TargetStaged'
  BY <1>2, <1>4, <1>7 DEF TargetStaged
<1> QED BY <1>6, <1>8, <1>9, <1>10, <1>11, <1>12, <1>13 DEF PlanInv

LEMMA RollbackSettles ==
  ASSUME PlanInv, NEW v \in Version, Rollback(v)
  PROVE  PlanInv'
<1> DEFINE p == Committed(Active)
           P == CommitPlan(Active)
<1>1. IsPlan(p, P) /\ Active \in BOOLEAN
  BY CommitIsPlan, StatusIsBoolean
<1>2. /\ disk' = disk /\ manager' = manager /\ disk \in Disk /\ manager \in Manager
      /\ spent \in [commands : Nat, rotations : Nat, faults : Nat]
      /\ spent' = [spent EXCEPT !.commands = @ + 1]
      /\ op' = [Read("rollback") EXCEPT !.target = v, !.start = Active, !.touched = TRUE,
                                        !.todo = p]
      /\ disk.pointer # None /\ v \in disk.staged
  BY DEF Rollback, RollbackTargets, Begin, PlanInv, TypeOK
<1> HIDE DEF p
<1>3. p \in Seq(Step)
  BY <1>1 DEF IsPlan
<1>4. /\ op' \in Op /\ op'.todo = p /\ op'.cmd = "rollback" /\ op'.way = "forward"
      /\ op'.errors = FALSE /\ op'.outcome = "none"
      /\ op'.start = Active /\ op'.target = v
  BY <1>1, <1>2, <1>3, ReadIsTyped, ZenonT(60) DEF Op
<1>4a. op'.active = Active
  <2> DEFINE r == Read("rollback")
  <2>1. r.active = Active /\ r \in Op
    BY <1>2, ReadIsTyped, Zenon
  <2>2. op' = [r EXCEPT !.target = v, !.start = Active, !.touched = TRUE, !.todo = p]
    BY <1>2
  <2> HIDE DEF r
  <2>3. op'.active = r.active
    BY <2>1, <2>2 DEF Op
  <2> QED BY <2>1, <2>3, Zenon
<1>5. Plan' = P
  BY <1>4 DEF Plan
<1>6. OnPlan' /\ Left' = P /\ ~Idle'
  <2>1. P # {}
    BY DEF CommitPlan
  <2> HIDE DEF P
  <2> QED BY <1>1, <1>4, <1>5, <2>1, BeginsOnPlan
<1>7. /\ "define" \in Left' /\ "load" \in Left' /\ "point" \in Left'
      /\ Active => "start" \in Left'
  BY <1>6 DEF CommitPlan, ServicePlan
<1> HIDE DEF P
<1>8. TypeOK'
  <2>1. spent' \in [commands : Nat, rotations : Nat, faults : Nat]
    BY <1>2
  <2> QED BY <1>2, <1>4, <2>1 DEF PlanInv, TypeOK
<1>9. HeldIfRun' /\ NamedIsStaged' /\ WindowIsStaged'
  BY <1>2 DEF PlanInv, HeldIfRun, NamedIsStaged, WindowIsStaged
<1>10. Placed'
  BY <1>4, <1>6, <1>7 DEF Placed
<1>11. StaysStopped'
  BY <1>2, <1>4, <1>4a, InactiveIsStopped DEF StaysStopped
<1>12. PutBack' /\ Removed' /\ Rotated'
  BY <1>4 DEF PutBack, Removed, Rotated
<1>13. TargetStaged'
  BY <1>2, <1>4 DEF TargetStaged
<1> QED BY <1>6, <1>8, <1>9, <1>10, <1>11, <1>12, <1>13 DEF PlanInv

LEMMA RotateSettles == ASSUME PlanInv, Rotate PROVE PlanInv'
<1> DEFINE A == <<"rotate">>
           B == IF Active THEN ServiceSteps(TRUE) ELSE <<>>
           Q == IF Active THEN ServicePlan(TRUE) ELSE {}
           p == A \o B
           P == {"rotate"} \cup Q
<1>1. IsPlan(p, P) /\ Active \in BOOLEAN
  <2>1. IsPlan(A, {"rotate"})
    BY OneIsPlan DEF Step
  <2>2. IsPlan(B, Q)
    BY NothingIsPlan, ServiceIsPlan
  <2>3. \A x \in {"rotate"}, y \in Q : Rank(x) < Rank(y)
    BY RankValues DEF ServicePlan
  <2> HIDE DEF A, B, Q
  <2> QED BY <2>1, <2>2, <2>3, JoinedIsPlan, StatusIsBoolean
<1>2. /\ disk' = disk /\ manager' = manager /\ disk \in Disk /\ manager \in Manager
      /\ spent \in [commands : Nat, rotations : Nat, faults : Nat]
      /\ spent' = [spent EXCEPT !.commands = @ + 1, !.rotations = @ + 1]
      /\ op' = [Read("rotate") EXCEPT !.target = disk.pointer, !.start = Active, !.todo = p]
      /\ Active => disk.pointer \in disk.staged
  BY DEF Rotate, PlanInv, TypeOK
<1>3. Plan' = P /\ ("start" \in Q <=> Active) /\ (Active => "define" \in Q /\ "load" \in Q)
      /\ op' \in Op /\ op'.todo = p /\ op'.cmd = "rotate" /\ op'.way = "forward"
      /\ op'.errors = FALSE /\ op'.outcome = "none" /\ op'.touched = FALSE
      /\ op'.start = Active /\ op'.target = disk.pointer
  <2>1. p \in Seq(Step) /\ disk.pointer \in Version \cup {None}
    BY <1>1, <1>2 DEF IsPlan, Disk
  <2> HIDE DEF p
  <2>2. /\ op' \in Op /\ op'.todo = p /\ op'.cmd = "rotate" /\ op'.way = "forward"
        /\ op'.errors = FALSE /\ op'.outcome = "none" /\ op'.touched = FALSE
        /\ op'.start = Active /\ op'.target = disk.pointer
    BY <1>1, <1>2, <2>1, ReadIsTyped, ZenonT(60) DEF Op
  <2>3. Plan' = P
    BY <2>2 DEF Plan
  <2> QED BY <2>2, <2>3 DEF ServicePlan
<1>4. OnPlan' /\ Left' = P /\ ~Idle'
  <2>1. P # {}
    OBVIOUS
  <2> HIDE DEF P, p
  <2> QED BY <1>1, <1>3, <2>1, BeginsOnPlan
<1>5. Active => "define" \in Left' /\ "load" \in Left' /\ "start" \in Left'
  BY <1>3, <1>4
<1> HIDE DEF P, p, Q
<1>8. TypeOK'
  <2>1. spent.commands + 1 \in Nat /\ spent.rotations + 1 \in Nat
    BY <1>2
  <2>2. spent' \in [commands : Nat, rotations : Nat, faults : Nat]
    BY <1>2, <2>1
  <2> QED BY <1>2, <1>3, <2>2 DEF PlanInv, TypeOK
<1>9. HeldIfRun' /\ NamedIsStaged' /\ WindowIsStaged'
  BY <1>2 DEF PlanInv, HeldIfRun, NamedIsStaged, WindowIsStaged
<1>10. Placed'
  BY <1>3, <1>4, <1>5 DEF Placed, Placing
<1>11. StaysStopped'
  BY <1>2, <1>3, InactiveIsStopped DEF StaysStopped
<1>12. PutBack' /\ Removed' /\ Rotated'
  BY <1>3 DEF PutBack, Removed, Rotated
<1>13. TargetStaged'
  BY <1>2, <1>3 DEF TargetStaged, Placing
<1> QED BY <1>4, <1>8, <1>9, <1>10, <1>11, <1>12, <1>13 DEF PlanInv

LEMMA UninstallSettles == ASSUME PlanInv, Uninstall PROVE PlanInv'
<1> DEFINE p == UninstallSteps(Active)
           P == {"disable", "remove"} \cup (IF manager.platform # "linux" /\ Active
                                            THEN {"halt"} ELSE {})
<1>1. IsPlan(p, P) /\ Active \in BOOLEAN
  BY UninstallIsPlan, StatusIsBoolean
<1>2. /\ disk' = disk /\ manager' = manager /\ disk \in Disk /\ manager \in Manager
      /\ spent \in [commands : Nat, rotations : Nat, faults : Nat]
      /\ spent' = [spent EXCEPT !.commands = @ + 1]
      /\ op' = [Read("uninstall") EXCEPT !.touched = TRUE, !.todo = p]
  BY DEF Uninstall, Begin, PlanInv, TypeOK
<1> HIDE DEF p
<1>3. p \in Seq(Step)
  BY <1>1 DEF IsPlan
<1>4. /\ op' \in Op /\ op'.todo = p /\ op'.cmd = "uninstall" /\ op'.way = "forward"
      /\ op'.errors = FALSE /\ op'.outcome = "none"
  BY <1>2, <1>3, ReadIsTyped, ZenonT(60) DEF Op
<1>5. Plan' = {"disable", "remove"} /\ MayHalt'
  BY <1>4 DEF Plan, MayHalt
<1>6. OnPlan' /\ Left' = P /\ ~Idle'
  <2>1. P # {} /\ P \subseteq Plan' \cup {"halt"} /\ Plan' \subseteq P
    BY <1>5
  <2> HIDE DEF P
  <2> QED BY <1>1, <1>4, <1>5, <2>1, BeginsOnPlan
<1>8. TypeOK'
  <2>1. spent' \in [commands : Nat, rotations : Nat, faults : Nat]
    BY <1>2
  <2> QED BY <1>2, <1>4, <2>1 DEF PlanInv, TypeOK
<1>9. HeldIfRun' /\ NamedIsStaged' /\ WindowIsStaged'
  BY <1>2 DEF PlanInv, HeldIfRun, NamedIsStaged, WindowIsStaged
<1>10. Placed' /\ StaysStopped' /\ PutBack' /\ Removed' /\ Rotated' /\ TargetStaged'
  BY <1>4 DEF Placed, Placing, StaysStopped, PutBack, Removed, Rotated, TargetStaged
<1> QED BY <1>6, <1>8, <1>9, <1>10 DEF PlanInv

-----------------------------------------------------------------------------
(* A step fails, and the command reverts, or gives its revert up.                        *)

LEMMA GivesUp ==
  ASSUME PlanInv, ~Idle, op.way = "revert", op' = Ended(Failed),
         UNCHANGED <<disk, manager>>, spent' \in [commands : Nat, rotations : Nat, faults : Nat]
  PROVE  PlanInv'
<1> DEFINE h == Head(op.todo)
           t == IF h = "restore" /\ op.touched /\ ~op.installed THEN Tail(op.todo) ELSE <<>>
           o == [op EXCEPT !.errors = TRUE, !.todo = t]
<1>1. op \in Op /\ op.todo \in Seq(Step) /\ op.todo # <<>> /\ Rising(op.todo) /\ Next1(h)
  BY NextInRank DEF PlanInv, TypeOK, OnPlan, Op, Idle
<1>2. Failed = o
  <2>1. Failed = IF h = "restore" THEN Unrestored ELSE [op EXCEPT !.errors = TRUE, !.todo = <<>>]
    BY DEF Failed
  <2> QED BY <2>1 DEF Unrestored
<1>3. t \in Seq(Step) /\ Rising(t)
  <2>1. Tail(op.todo) \in Seq(Step) /\ Rising(Tail(op.todo))
    BY <1>1, HeadOfPlan
  <2>2. <<>> \in Seq(Step) /\ Rising(<<>>)
    BY DEF Rising
  <2> QED BY <2>1, <2>2
<1>4. StepsOf(t) \subseteq {"halt", "disable", "remove"}
      /\ (StepsOf(t) # {} => op.cmd = "install" /\ op.touched /\ ~op.installed)
  <2>1. CASE h = "restore" /\ op.touched /\ ~op.installed
    <3>1. StepsOf(t) = Left \ {"restore"}
      BY <1>1, <2>1, HeadOfPlan DEF Left
    <3>2. CASE op.cmd = "install"
      <4>1. Plan \subseteq {"restore", "disable", "remove"}
        BY <2>1, <3>2 DEF Plan
      <4> QED BY <2>1, <3>1, <3>2, <4>1 DEF PlanInv, OnPlan
    <3>3. CASE op.cmd # "install"
      <4>1. "restore" \notin Plan
        BY <3>3 DEF Plan, ServicePlan, CommitPlan
      <4> QED BY <1>1, <2>1, <4>1 DEF Next1
    <3> QED BY <3>2, <3>3
  <2>2. CASE ~(h = "restore" /\ op.touched /\ ~op.installed)
    BY <2>2 DEF StepsOf
  <2> QED BY <2>1, <2>2
<1> HIDE DEF t
<1>5. /\ o \in Op /\ o.todo = t /\ o.errors = TRUE /\ o.cmd = op.cmd /\ o.way = "revert"
      /\ o.target = op.target /\ o.start = op.start /\ o.installed = op.installed
      /\ o.active = op.active /\ o.prior = op.prior /\ o.config = op.config
      /\ o.touched = op.touched /\ o.outcome = op.outcome
  BY <1>1, <1>3 DEF Op
<1> HIDE DEF o
<1>6. /\ Ended(o) \in Op
      /\ Ended(o).todo = o.todo /\ Ended(o).cmd = o.cmd /\ Ended(o).way = o.way
      /\ Ended(o).target = o.target /\ Ended(o).start = o.start
      /\ Ended(o).installed = o.installed /\ Ended(o).active = o.active
      /\ Ended(o).prior = o.prior /\ Ended(o).config = o.config
      /\ Ended(o).errors = o.errors /\ Ended(o).touched = o.touched
      /\ Ended(o).outcome = IF o.todo # <<>> THEN o.outcome
                            ELSE IF o.errors THEN "incomplete"
                            ELSE IF o.way = "revert" THEN "failed" ELSE "ok"
  BY <1>5, EndedIsTyped, Zenon
<1>7. /\ op' \in Op /\ op'.todo = t /\ op'.errors = TRUE /\ op'.cmd = op.cmd
      /\ op'.way = "revert" /\ op'.target = op.target /\ op'.start = op.start
      /\ op'.installed = op.installed /\ op'.active = op.active /\ op'.prior = op.prior
      /\ op'.config = op.config /\ op'.touched = op.touched
      /\ op'.outcome = IF t # <<>> THEN op.outcome ELSE "incomplete"
  BY <1>2, <1>5, <1>6
<1>8. Left' = StepsOf(t) /\ (Idle' <=> StepsOf(t) = {}) /\ ~Sound'
  BY <1>3, <1>7, NothingLeft DEF Left, Idle, Sound
<1>9. OnPlan'
  <2>1. op.outcome = "none"
    BY <1>1 DEF Next1
  <2>2. StepsOf(t) \subseteq Plan' \cup (IF MayHalt' THEN {"halt"} ELSE {})
    <3>1. CASE StepsOf(t) = {}
      BY <3>1
    <3>2. CASE StepsOf(t) # {}
      <4>1. {"disable", "remove"} \subseteq Plan' /\ MayHalt'
        BY <1>4, <1>7, <3>2 DEF Plan, MayHalt
      <4> QED BY <1>4, <4>1
    <3> QED BY <3>1, <3>2
  <2> QED BY <1>3, <1>4, <1>7, <1>8, <2>1, <2>2 DEF OnPlan, Idle
<1>10. TypeOK' /\ HeldIfRun' /\ NamedIsStaged' /\ WindowIsStaged'
  BY <1>7 DEF PlanInv, TypeOK, HeldIfRun, NamedIsStaged, WindowIsStaged
<1>11. Placed' /\ Removed' /\ Rotated'
  BY <1>7, <1>8 DEF Placed, Removed, Rotated
<1>12. StaysStopped' /\ PutBack' /\ TargetStaged'
  BY <1>4, <1>7, <1>8 DEF PlanInv, StaysStopped, PutBack, TargetStaged
<1> QED BY <1>9, <1>10, <1>11, <1>12 DEF PlanInv

(* A command that begins to revert: what is left of the operation is its new plan.       *)
LEMMA GoesForward ==
  ASSUME PlanInv, ~Idle, op.way = "forward"
  PROVE  op \in Op /\ Next1(Head(op.todo)) /\ op.outcome = "none" /\ op.errors = FALSE /\ Sound
<1>1. op \in Op /\ Next1(Head(op.todo))
  BY NextInRank DEF PlanInv, TypeOK
<1>2. op.errors = FALSE
  BY <1>1 DEF Next1, Op
<1> QED BY <1>1, <1>2 DEF Next1

LEMMA RevertedInstallSettles ==
  ASSUME PlanInv, ~Idle, Head(op.todo) # "prune", op.way = "forward", op.cmd = "install",
         op' = Ended(RevertedInstall),
         UNCHANGED <<disk, manager>>, spent' \in [commands : Nat, rotations : Nat, faults : Nat]
  PROVE  PlanInv'
<1> DEFINE h == Head(op.todo)
           t == IF ~op.touched THEN <<>>
                ELSE IF ~op.installed THEN UninstallSteps(Active) ELSE Committed(op.active)
           T == IF ~op.touched THEN {}
                ELSE IF ~op.installed
                THEN {"disable", "remove"} \cup (IF manager.platform # "linux" /\ Active
                                                 THEN {"halt"} ELSE {})
                ELSE CommitPlan(op.active)
           p == <<"restore">> \o t
           P == {"restore"} \cup T
           over == op.touched /\ op.installed
           target == IF over THEN op.prior ELSE op.target
           start == IF over THEN op.active ELSE op.start
           o == [op EXCEPT !.way = "revert", !.todo = p, !.target = target, !.start = start]
<1>1. /\ op \in Op /\ Next1(h) /\ op.outcome = "none" /\ op.errors = FALSE /\ Sound
      /\ op.active \in BOOLEAN /\ Active \in BOOLEAN
  BY GoesForward, StatusIsBoolean DEF Op
<1>2. IsPlan(p, P)
  <2>1. IsPlan(<<"restore">>, {"restore"})
    BY OneIsPlan DEF Step
  <2>2. IsPlan(t, T)
    BY <1>1, NothingIsPlan, UninstallIsPlan, CommitIsPlan
  <2>3. \A x \in {"restore"}, y \in T : Rank(x) < Rank(y)
    BY RankValues DEF CommitPlan, ServicePlan
  <2> HIDE DEF t, T
  <2> QED BY <2>1, <2>2, <2>3, JoinedIsPlan
<1>3. RevertedInstall = o
  <2> DEFINE r == [op EXCEPT !.way = "revert"]
  <2>1. r \in Op /\ r.touched = op.touched /\ r.installed = op.installed
        /\ r.active = op.active /\ r.prior = op.prior
    BY <1>1 DEF Op
  <2>2. CASE ~op.touched
    BY <1>1, <2>1, <2>2 DEF RevertedInstall, RevertedService, Op
  <2>3. CASE op.touched /\ ~op.installed
    BY <1>1, <2>1, <2>3 DEF RevertedInstall, RevertedService, Op
  <2>4. CASE op.touched /\ op.installed
    BY <1>1, <2>1, <2>4 DEF RevertedInstall, RevertedService, Op
  <2> QED BY <2>2, <2>3, <2>4
<1>4. p \in Seq(Step) /\ p # <<>>
  <2>1. StepsOf(<<>>) = {}
    BY DEF StepsOf
  <2> HIDE DEF p, T
  <2> QED BY <1>2, <2>1 DEF IsPlan
<1> HIDE DEF p, t
<1>5. /\ o \in Op /\ o.todo = p /\ o.errors = FALSE /\ o.cmd = "install" /\ o.way = "revert"
      /\ o.target = target /\ o.start = start /\ o.installed = op.installed
      /\ o.active = op.active /\ o.prior = op.prior /\ o.config = op.config
      /\ o.touched = op.touched /\ o.outcome = "none"
  <2>1. target \in Version \cup {None} /\ start \in BOOLEAN
    BY <1>1 DEF Op
  <2> HIDE DEF target, start
  <2> QED BY <1>1, <1>4, <2>1 DEF Op
<1>6. op' = o
  BY <1>3, <1>4, <1>5 DEF Ended
<1> HIDE DEF o
<1>7. /\ Plan' \subseteq P /\ P \subseteq Plan' \cup (IF MayHalt' THEN {"halt"} ELSE {})
  <2>1. Plan' = {"restore"} \cup (IF ~op.touched THEN {}
                                  ELSE IF ~op.installed THEN {"disable", "remove"}
                                  ELSE CommitPlan(start))
    BY <1>5, <1>6 DEF Plan
  <2>2. op.touched /\ ~op.installed => MayHalt'
    BY <1>5, <1>6 DEF MayHalt
  <2>3. CASE op.touched /\ op.installed
    BY <2>1, <2>3
  <2>4. CASE ~(op.touched /\ op.installed)
    BY <2>1, <2>2, <2>4
  <2> QED BY <2>3, <2>4
<1>8. OnPlan' /\ Left' = P /\ ~Idle'
  <2>1. P # {}
    OBVIOUS
  <2> HIDE DEF P, T
  <2> QED BY <1>2, <1>5, <1>6, <1>7, <2>1, BeginsOnPlan
<1>9. /\ "restore" \in Left' /\ "stage" \notin Left'
      /\ over => "define" \in Left' /\ "load" \in Left' /\ "point" \in Left'
                 /\ (op.active => "start" \in Left')
      /\ ~over /\ op.touched => "disable" \in Left' /\ "remove" \in Left'
                 /\ (manager.platform # "linux" /\ Active => "halt" \in Left')
  BY <1>8 DEF CommitPlan, ServicePlan
<1>10. TypeOK' /\ HeldIfRun' /\ NamedIsStaged' /\ WindowIsStaged'
  BY <1>5, <1>6 DEF PlanInv, TypeOK, HeldIfRun, NamedIsStaged, WindowIsStaged
<1>11. Placed'
  BY <1>5, <1>6, <1>8, <1>9 DEF Placed, Placing
<1>12. StaysStopped' /\ Rotated'
  BY <1>5, <1>6 DEF StaysStopped, Rotated
<1>13. PutBack'
  BY <1>5, <1>6, <1>9 DEF PlanInv, PutBack
<1>14. Removed'
  <2>1. ~Active => manager.running = None
    BY InactiveIsStopped
  <2> QED BY <1>5, <1>6, <1>9, <2>1 DEF Removed
<1>15. TargetStaged'
  <2>1. op.start => "prune" \in Left /\ Left # {"prune"}
    <3> SUFFICES ASSUME op.start PROVE "prune" \in Left /\ Left # {"prune"}
      OBVIOUS
    <3>1. "prune" \in Plan /\ \A x \in Plan : x # "prune" => Rank(x) < Rank("prune")
      BY RankValues DEF Plan, CommitPlan, ServicePlan
    <3>2. ~MayHalt
      BY DEF MayHalt
    <3> QED BY <1>1, <3>1, <3>2 DEF Next1
  <2>2. op.installed /\ op.config # None => op.prior \in disk.staged
    BY <2>1 DEF PlanInv, TargetStaged
  <2>3. over => op.config # None
    BY DEF PlanInv, PutBack
  <2> QED BY <1>5, <1>6, <2>2, <2>3 DEF TargetStaged, Placing
<1> QED BY <1>8, <1>10, <1>11, <1>12, <1>13, <1>14, <1>15 DEF PlanInv

LEMMA RevertedRollbackSettles ==
  ASSUME PlanInv, ~Idle, op.way = "forward", op.cmd = "rollback",
         op' = Ended(RevertedRollback),
         UNCHANGED <<disk, manager>>, spent' \in [commands : Nat, rotations : Nat, faults : Nat]
  PROVE  PlanInv'
<1> DEFINE p == ServiceSteps(op.active)
           P == ServicePlan(op.active)
           o == [op EXCEPT !.way = "revert", !.todo = p, !.target = disk.pointer]
<1>1. /\ op \in Op /\ op.outcome = "none" /\ op.errors = FALSE /\ op.active \in BOOLEAN
      /\ disk.pointer \in Version \cup {None} /\ (op.start <=> op.active)
      /\ disk.pointer # None
  BY GoesForward DEF Op, PlanInv, TypeOK, Disk, StaysStopped, TargetStaged
<1>2. IsPlan(p, P) /\ P # {}
  BY <1>1, ServiceIsPlan DEF ServicePlan
<1>3. RevertedRollback = o
  BY DEF RevertedRollback
<1>4. p \in Seq(Step) /\ p # <<>>
  <2>1. StepsOf(<<>>) = {}
    BY DEF StepsOf
  <2> HIDE DEF p, P
  <2> QED BY <1>2, <2>1 DEF IsPlan
<1> HIDE DEF p
<1>5. /\ o \in Op /\ o.todo = p /\ o.errors = FALSE /\ o.cmd = "rollback" /\ o.way = "revert"
      /\ o.target = disk.pointer /\ o.start = op.start /\ o.active = op.active
      /\ o.outcome = "none"
  BY <1>1, <1>4 DEF Op
<1>6. op' = o
  BY <1>3, <1>4, <1>5 DEF Ended
<1> HIDE DEF o
<1>7. Plan' = P
  BY <1>1, <1>5, <1>6 DEF Plan, ServicePlan
<1>8. OnPlan' /\ Left' = P /\ ~Idle'
  <2> HIDE DEF P
  <2> QED BY <1>2, <1>5, <1>6, <1>7, BeginsOnPlan
<1>9. "define" \in Left' /\ "load" \in Left' /\ (op.active => "start" \in Left')
  BY <1>8 DEF ServicePlan
<1>10. TypeOK' /\ HeldIfRun' /\ NamedIsStaged' /\ WindowIsStaged'
  BY <1>5, <1>6 DEF PlanInv, TypeOK, HeldIfRun, NamedIsStaged, WindowIsStaged
<1>11. Placed'
  BY <1>1, <1>5, <1>6, <1>8, <1>9 DEF Placed
<1>12. StaysStopped'
  BY <1>1, <1>5, <1>6 DEF PlanInv, StaysStopped
<1>13. PutBack' /\ Removed' /\ Rotated'
  BY <1>5, <1>6 DEF PutBack, Removed, Rotated
<1>14. TargetStaged'
  BY <1>1, <1>5, <1>6 DEF PlanInv, TargetStaged, NamedIsStaged
<1> QED BY <1>8, <1>10, <1>11, <1>12, <1>13, <1>14 DEF PlanInv

(* A rotation or a removal that fails has at most a gateway to halt.                       *)
LEMMA StoppedShortSettles ==
  ASSUME PlanInv, ~Idle, op.way = "forward", op.cmd \notin {"install", "rollback"},
         NEW p \in {<<>>, <<"halt">>},
         p # <<>> => op.cmd = "rotate",
         op.cmd = "rotate" /\ op.touched /\ p = <<>> => manager.running = None,
         op' = Ended([op EXCEPT !.way = "revert", !.todo = p]),
         UNCHANGED <<disk, manager>>, spent' \in [commands : Nat, rotations : Nat, faults : Nat]
  PROVE  PlanInv'
<1> DEFINE o == [op EXCEPT !.way = "revert", !.todo = p]
           P == IF p = <<>> THEN {} ELSE {"halt"}
<1>1. op \in Op /\ op.outcome = "none" /\ op.errors = FALSE
  BY GoesForward
<1>2. IsPlan(p, P)
  <2>1. IsPlan(<<"halt">>, {"halt"})
    BY OneIsPlan DEF Step
  <2> QED BY <2>1, NothingIsPlan
<1>3. p \in Seq(Step)
  BY <1>2 DEF IsPlan
<1>4. /\ o \in Op /\ o.todo = p /\ o.errors = FALSE /\ o.cmd = op.cmd /\ o.way = "revert"
      /\ o.touched = op.touched /\ o.outcome = "none"
  BY <1>1, <1>3 DEF Op
<1>5. op' = Ended(o)
  OBVIOUS
<1> HIDE DEF o
<1>6. /\ Ended(o) \in Op
      /\ Ended(o).todo = o.todo /\ Ended(o).cmd = o.cmd /\ Ended(o).way = o.way
      /\ Ended(o).errors = o.errors /\ Ended(o).touched = o.touched
      /\ Ended(o).outcome = IF o.todo # <<>> THEN o.outcome
                            ELSE IF o.errors THEN "incomplete"
                            ELSE IF o.way = "revert" THEN "failed" ELSE "ok"
  BY <1>4, EndedIsTyped, Zenon
<1>7. /\ op' \in Op /\ op'.todo = p /\ op'.errors = FALSE /\ op'.cmd = op.cmd
      /\ op'.way = "revert" /\ op'.touched = op.touched
      /\ op'.outcome = IF p # <<>> THEN "none" ELSE "failed"
  BY <1>4, <1>5, <1>6
<1>8. Left' = P /\ (Idle' <=> p = <<>>) /\ op'.todo \in Seq(Step) /\ Rising(op'.todo)
  BY <1>2, <1>7 DEF Left, Idle, IsPlan
<1>9. OnPlan'
  <2>1. Plan' = {} /\ (op.cmd = "rotate" => MayHalt')
    BY <1>7 DEF Plan, MayHalt
  <2>2. P \subseteq IF MayHalt' THEN {"halt"} ELSE {}
    BY <2>1
  <2> QED BY <1>7, <1>8, <2>1, <2>2 DEF OnPlan, Idle
<1>10. TypeOK' /\ HeldIfRun' /\ NamedIsStaged' /\ WindowIsStaged'
  BY <1>7 DEF PlanInv, TypeOK, HeldIfRun, NamedIsStaged, WindowIsStaged
<1>11. Placed' /\ StaysStopped' /\ PutBack' /\ Removed' /\ TargetStaged'
  BY <1>7 DEF Placed, Placing, StaysStopped, PutBack, Removed, TargetStaged
<1>12. Rotated'
  BY <1>7, <1>8 DEF Rotated
<1> QED BY <1>9, <1>10, <1>11, <1>12 DEF PlanInv

LEMMA FailsSettles == ASSUME PlanInv, Fails PROVE PlanInv'
<1>1. /\ ~Idle /\ Head(op.todo) # "prune" /\ op' = Ended(Failed)
      /\ UNCHANGED <<disk, manager>>
  BY DEF Fails
<1>2. spent' \in [commands : Nat, rotations : Nat, faults : Nat]
  <2>1. spent \in [commands : Nat, rotations : Nat, faults : Nat] /\ spent.faults + 1 \in Nat
    BY DEF PlanInv, TypeOK
  <2>2. \/ spent' = [spent EXCEPT !.faults = spent.faults]
        \/ spent' = [spent EXCEPT !.faults = spent.faults + 1]
    BY DEF Fails
  <2> QED BY <2>1, <2>2
<1>3. op.way \in {"forward", "revert"}
  BY DEF PlanInv, TypeOK, Op
<1>4. CASE op.way = "revert"
  BY <1>1, <1>2, <1>4, GivesUp
<1>5. CASE op.way = "forward" /\ op.cmd = "install"
  <2>1. Failed = RevertedInstall
    BY <1>5 DEF Failed
  <2> QED BY <1>1, <1>2, <1>5, <2>1, RevertedInstallSettles
<1>6. CASE op.way = "forward" /\ op.cmd = "rollback"
  <2>1. Failed = RevertedRollback
    BY <1>6 DEF Failed
  <2> QED BY <1>1, <1>2, <1>6, <2>1, RevertedRollbackSettles
<1>7. CASE op.way = "forward" /\ op.cmd = "rotate" /\ Head(op.todo) # "rotate"
  <2> DEFINE p == IF Active THEN <<"halt">> ELSE <<>>
  <2>1. Failed = [op EXCEPT !.way = "revert", !.todo = p]
    BY <1>7 DEF Failed, HaltedRotation
  <2>2. p \in {<<>>, <<"halt">>}
    OBVIOUS
  <2>3. p = <<>> => ~Active
    OBVIOUS
  <2>4. ~Active => manager.running = None
    BY InactiveIsStopped
  <2> HIDE DEF p
  <2> QED BY <1>1, <1>2, <1>7, <2>1, <2>2, <2>3, <2>4, StoppedShortSettles
<1>8. CASE op.way = "forward" /\ op.cmd \notin {"install", "rollback"}
           /\ ~(op.cmd = "rotate" /\ Head(op.todo) # "rotate")
  <2>1. Failed = [op EXCEPT !.way = "revert", !.todo = <<>>]
    BY <1>8 DEF Failed
  <2>2. op.cmd = "rotate" => ~op.touched
    BY <1>1, <1>8, GoesForward DEF PlanInv, Rotated, Next1
  <2>3. <<>> \in {<<>>, <<"halt">>}
    OBVIOUS
  <2> QED BY <1>1, <1>2, <1>8, <2>1, <2>2, <2>3, StoppedShortSettles
<1> QED BY <1>3, <1>4, <1>5, <1>6, <1>7, <1>8

-----------------------------------------------------------------------------
(* The world around a command.                                                        *)

LEMMA FaultIsTyped ==
  ASSUME PlanInv, Fault
  PROVE  spent' \in [commands : Nat, rotations : Nat, faults : Nat]
<1>1. spent \in [commands : Nat, rotations : Nat, faults : Nat] /\ spent.faults + 1 \in Nat
  BY DEF PlanInv, TypeOK
<1>2. spent' = [spent EXCEPT !.faults = spent.faults + 1]
  BY DEF Fault
<1> QED BY <1>1, <1>2

(* A command cut short promises nothing more of what it was to put in place.            *)
LEMMA CutShortSettles ==
  ASSUME PlanInv, op' = [op EXCEPT !.todo = <<>>, !.outcome = "killed"], disk' = disk
  PROVE  /\ op' \in Op /\ OnPlan' /\ Placed' /\ StaysStopped' /\ PutBack' /\ Removed'
         /\ Rotated' /\ TargetStaged'
<1>1. /\ op' \in Op /\ op'.todo = <<>> /\ op'.outcome = "killed" /\ op'.cmd = op.cmd
      /\ op'.way = op.way /\ op'.errors = op.errors /\ op'.target = op.target
      /\ op'.start = op.start /\ op'.installed = op.installed /\ op'.active = op.active
      /\ op'.prior = op.prior /\ op'.config = op.config /\ op'.touched = op.touched
  <2>1. op \in Op /\ <<>> \in Seq(Step)
    BY DEF PlanInv, TypeOK
  <2> QED BY <2>1 DEF Op
<1>2. Left' = {} /\ Idle' /\ ~Sound' /\ op'.todo \in Seq(Step) /\ Rising(op'.todo)
  BY <1>1 DEF Left, StepsOf, Idle, Sound, Rising
<1>3. OnPlan'
  BY <1>1, <1>2 DEF PlanInv, OnPlan
<1>4. Placed' /\ Removed' /\ Rotated'
  BY <1>2 DEF Placed, Removed, Rotated
<1>5. StaysStopped' /\ TargetStaged'
  BY <1>1, <1>2 DEF PlanInv, StaysStopped, TargetStaged
<1>6. PutBack'
  BY <1>1, <1>2 DEF PlanInv, PutBack
<1> QED BY <1>1, <1>3, <1>4, <1>5, <1>6

LEMMA KilledSettles == ASSUME PlanInv, Killed PROVE PlanInv'
<1>1. /\ op' = [op EXCEPT !.todo = <<>>, !.outcome = "killed"]
      /\ disk' = disk /\ manager' = manager
      /\ spent' \in [commands : Nat, rotations : Nat, faults : Nat]
  BY FaultIsTyped DEF Killed
<1>2. /\ op' \in Op /\ OnPlan' /\ Placed' /\ StaysStopped' /\ PutBack' /\ Removed'
      /\ Rotated' /\ TargetStaged'
  BY <1>1, CutShortSettles
<1>3. TypeOK' /\ HeldIfRun' /\ NamedIsStaged' /\ WindowIsStaged'
  BY <1>1, <1>2 DEF PlanInv, TypeOK, HeldIfRun, NamedIsStaged, WindowIsStaged
<1> QED BY <1>2, <1>3 DEF PlanInv

LEMMA DiesSettles == ASSUME PlanInv, Dies PROVE PlanInv'
<1>1. /\ op' = op /\ disk' = disk /\ manager' \in Manager
      /\ manager'.running = None /\ manager'.platform = manager.platform
      /\ manager'.registered = manager.registered
      /\ spent' \in [commands : Nat, rotations : Nat, faults : Nat]
  BY FaultIsTyped DEF Dies, PlanInv, TypeOK, Manager
<1>2. Left' = Left /\ Idle' = Idle /\ Startable' = Startable
  BY <1>1 DEF Left, Idle, Startable
<1>3. OnPlan'
  BY <1>1, <1>2, ZenonT(60) DEF PlanInv, OnPlan, Plan, MayHalt, Sound
<1>4. TypeOK' /\ HeldIfRun' /\ NamedIsStaged' /\ WindowIsStaged'
  BY <1>1 DEF PlanInv, TypeOK, HeldIfRun, NamedIsStaged, WindowIsStaged
<1>5. Placed'
  BY <1>1, <1>2 DEF PlanInv, Placed, Placing, Sound
<1>6. StaysStopped' /\ PutBack' /\ TargetStaged'
  BY <1>1, <1>2 DEF PlanInv, StaysStopped, PutBack, TargetStaged, Placing, Sound
<1>7. Removed' /\ Rotated'
  BY <1>1, <1>2 DEF PlanInv, Removed, Rotated, Sound
<1> QED BY <1>3, <1>4, <1>5, <1>6, <1>7 DEF PlanInv

LEMMA RebootSettles == ASSUME PlanInv, Reboot PROVE PlanInv'
<1> DEFINE v == IF ~Installed THEN None
                ELSE IF manager.platform = "win32" THEN manager.registered
                ELSE disk.definition
           p == Process0(v)
<1>1. /\ disk' = disk /\ disk \in Disk /\ manager \in Manager
      /\ manager' = [manager EXCEPT !.registered = v,
                                    !.running = IF v = None THEN None ELSE p]
      /\ spent' \in [commands : Nat, rotations : Nat, faults : Nat]
  BY FaultIsTyped DEF Reboot, PlanInv, TypeOK
<1>2. /\ v \in Version \cup {None} /\ v \in disk.staged \cup {None}
      /\ disk.definition = None /\ (manager.platform # "darwin" => manager.registered = None)
           => v = None
  BY <1>1 DEF Disk, Manager, PlanInv, NamedIsStaged, Installed
<1>3. v # None => p \in Process /\ p.version = v /\ p.token = disk.token
  BY <1>1, <1>2 DEF Process, Process0, Disk
<1>4. \A x : disk.definition = x /\ Startable = x => v = x
  BY <1>1 DEF Startable, Installed, Manager, ActivationAssumption
<1>5. /\ manager' \in Manager /\ manager'.platform = manager.platform
      /\ manager'.registered = v
      /\ manager'.running = IF v = None THEN None ELSE p
  <2> HIDE DEF v, p
  <2> QED BY <1>1, <1>2, <1>3 DEF Manager
<1>6. HeldIfRun' /\ NamedIsStaged' /\ WindowIsStaged'
  <2>1. p # None => TRUE
    OBVIOUS
  <2> HIDE DEF v, p
  <2> QED BY <1>1, <1>2, <1>3, <1>5 DEF PlanInv, HeldIfRun, NamedIsStaged, WindowIsStaged
<1>7. CASE ~Idle
  <2>1. op' = [op EXCEPT !.todo = <<>>, !.outcome = "killed"]
    BY <1>7 DEF Reboot
  <2>2. /\ op' \in Op /\ OnPlan' /\ Placed' /\ StaysStopped' /\ PutBack' /\ Removed'
        /\ Rotated' /\ TargetStaged'
    BY <1>1, <2>1, CutShortSettles
  <2>3. TypeOK'
    BY <1>1, <1>5, <2>2 DEF PlanInv, TypeOK
  <2> QED BY <1>6, <2>2, <2>3 DEF PlanInv
<1>8. CASE Idle
  <2>1. op' = op /\ Idle' /\ Left = {} /\ Left' = {}
    BY <1>8 DEF Reboot, Idle, Left, StepsOf
  <2>2. OnPlan'
    BY <2>1 DEF PlanInv, OnPlan, Plan, MayHalt, Sound
  <2>3. TypeOK'
    BY <1>1, <1>5, <2>1 DEF PlanInv, TypeOK
  <2>4. Placed'
    <3> SUFFICES ASSUME Sound', Placing' PROVE Placed'
      BY DEF Placed
    <3>1. Sound /\ Placing
      BY <2>1 DEF Sound, Placing
    <3>2. disk.definition = op.target /\ Startable = op.target
          /\ (op.cmd # "rotate" => disk.pointer = op.target)
      BY <2>1, <3>1 DEF PlanInv, Placed
    <3>3. v = op.target
      BY <1>4, <3>2
    <3>4. Startable' = op.target
      BY <1>1, <1>5, <3>2, <3>3 DEF Startable
    <3>5. manager'.running # None => manager'.running = Process0(op.target)'
      BY <1>1, <1>5, <2>1, <3>3 DEF Process0
    <3> HIDE DEF v, p
    <3> QED BY <1>1, <1>5, <2>1, <3>2, <3>3, <3>4, <3>5 DEF Placed
  <2>5. StaysStopped' /\ PutBack' /\ TargetStaged'
    BY <1>1, <2>1 DEF PlanInv, StaysStopped, PutBack, TargetStaged, Placing, Sound, Idle
  <2>6. Removed'
    <3> SUFFICES ASSUME Sound, op.cmd = "install", op.way = "revert", op.touched,
                        ~op.installed
                 PROVE  Removed'
      BY <2>1 DEF Removed, Sound
    <3>1. v = None
      BY <1>2, <2>1 DEF PlanInv, Removed
    <3>2. disk.definition = None
      BY <2>1 DEF PlanInv, Removed
    <3> QED BY <1>1, <1>5, <3>1, <3>2 DEF Removed
  <2>7. Rotated'
    <3> HIDE DEF v, p
    <3> QED BY <1>1, <1>3, <1>5, <2>1 DEF Rotated
  <2> QED BY <1>6, <2>2, <2>3, <2>4, <2>5, <2>6, <2>7 DEF PlanInv
<1> QED BY <1>7, <1>8

LEMMA DamageSettles == ASSUME PlanInv, Damage PROVE PlanInv'
<1>1. /\ op' = op /\ manager' = manager /\ disk' \in Disk
      /\ disk'.config = disk.config /\ disk'.token = disk.token /\ disk'.staged = disk.staged
      /\ disk'.pointer = disk.pointer /\ disk'.history = disk.history
      /\ disk'.definition = disk.definition
      /\ spent' \in [commands : Nat, rotations : Nat, faults : Nat]
  BY FaultIsTyped DEF Damage, PlanInv, TypeOK, Disk
<1>2. Left' = Left /\ Idle' = Idle /\ Startable' = Startable
  BY <1>1 DEF Left, Idle, Startable
<1>3. OnPlan'
  BY <1>1, <1>2, ZenonT(60) DEF PlanInv, OnPlan, Plan, MayHalt, Sound
<1>4. TypeOK' /\ HeldIfRun' /\ NamedIsStaged' /\ WindowIsStaged'
  BY <1>1 DEF PlanInv, TypeOK, HeldIfRun, NamedIsStaged, WindowIsStaged
<1>5. Placed'
  BY <1>1, <1>2 DEF PlanInv, Placed, Placing, Sound, Process0, OverStop
<1>6. StaysStopped' /\ PutBack' /\ TargetStaged'
  BY <1>1, <1>2 DEF PlanInv, StaysStopped, PutBack, TargetStaged, Placing, Sound
<1>7. Removed' /\ Rotated'
  BY <1>1, <1>2 DEF PlanInv, Removed, Rotated, Sound
<1> QED BY <1>3, <1>4, <1>5, <1>6, <1>7 DEF PlanInv

-----------------------------------------------------------------------------
(* The invariant, and what follows from it.                                            *)

LEMMA InitSettles == Init => PlanInv
<1> SUFFICES ASSUME Init PROVE PlanInv
  OBVIOUS
<1>1. /\ disk = [config |-> None, token |-> 0, staged |-> {}, pointer |-> None,
                 history |-> <<>>, damaged |-> FALSE, definition |-> None]
      /\ manager.registered = None /\ manager.running = None /\ op = NoOp
      /\ manager \in Manager
      /\ spent = [commands |-> 0, rotations |-> 0, faults |-> 0]
  BY DEF Init, Manager
<1>2. TypeOK
  <2>1. op \in Op
    BY <1>1 DEF NoOp, Op
  <2>2. disk \in Disk /\ Len(disk.history) <= HistoryLimit
    BY <1>1, ActivationAssumption DEF Disk
  <2> QED BY <1>1, <2>1, <2>2 DEF TypeOK
<1>3. /\ op.cmd = "none" /\ op.todo = <<>> /\ op.way = "forward" /\ op.start = FALSE
      /\ op.errors = FALSE /\ op.outcome = "none" /\ op.touched = FALSE
  BY <1>1 DEF NoOp
<1>4. Left = {} /\ Idle /\ Plan = {} /\ op.todo \in Seq(Step) /\ Rising(op.todo)
  BY <1>3 DEF Left, StepsOf, Idle, Plan, Rising
<1>5. OnPlan
  BY <1>3, <1>4 DEF OnPlan
<1>6. HeldIfRun /\ NamedIsStaged
  BY <1>1 DEF HeldIfRun, NamedIsStaged
<1>7. WindowIsStaged
  BY <1>1, EmptyWindow DEF WindowIsStaged
<1>8. /\ Placed /\ StaysStopped /\ PutBack /\ Removed /\ Rotated /\ TargetStaged
  BY <1>3, <1>4 DEF Placed, Placing, StaysStopped, PutBack, Removed, Rotated, TargetStaged
<1> QED BY <1>2, <1>5, <1>6, <1>7, <1>8 DEF PlanInv

LEMMA NextSettles == PlanInv /\ [Next]_vars => PlanInv'
<1> SUFFICES ASSUME PlanInv, [Next]_vars PROVE PlanInv'
  OBVIOUS
<1>1. CASE UNCHANGED vars
  <2>1. disk' = disk /\ manager' = manager /\ op' = op /\ spent' = spent
    BY <1>1 DEF vars
  <2>2. Left' = Left /\ Idle' = Idle /\ Startable' = Startable /\ Plan' = Plan
    BY <2>1 DEF Left, Idle, Startable, Plan
  <2>3. TypeOK' /\ HeldIfRun' /\ NamedIsStaged' /\ WindowIsStaged'
    BY <2>1 DEF PlanInv, TypeOK, HeldIfRun, NamedIsStaged, WindowIsStaged
  <2>4. OnPlan'
    BY <2>1, <2>2 DEF PlanInv, OnPlan, MayHalt, Sound
  <2>5. Placed'
    BY <2>1, <2>2 DEF PlanInv, Placed, Placing, Sound, Process0, OverStop
  <2>6. StaysStopped' /\ PutBack' /\ TargetStaged' /\ Removed' /\ Rotated'
    BY <2>1, <2>2 DEF PlanInv, StaysStopped, PutBack, TargetStaged, Removed, Rotated, Placing,
       Sound
  <2> QED BY <2>3, <2>4, <2>5, <2>6 DEF PlanInv
<1>2. CASE Commands
  <2>1. ASSUME NEW v \in Version, NEW start \in BOOLEAN, NEW s \in Setting,
               Install(v, start, s)
        PROVE  PlanInv'
    BY <2>1, InstallSettles
  <2>2. ASSUME NEW v \in Version, Rollback(v) PROVE PlanInv'
    BY <2>2, RollbackSettles
  <2> QED BY <1>2, <2>1, <2>2, RotateSettles, UninstallSettles DEF Commands
<1>3. CASE Steps
  BY <1>3, ConfigureSettles, StageSettles, RotateTokenSettles, DefineSettles, StopSettles,
     LoadSettles, StartSettles, ReadySettles, PointSettles, RecordSettles, PruneSettles,
     RestoreSettles, HaltSettles, DisableSettles, RemoveDefinitionSettles DEF Steps
<1>4. CASE Fails \/ Killed \/ Dies \/ Reboot \/ Damage
  BY <1>4, FailsSettles, KilledSettles, DiesSettles, RebootSettles, DamageSettles
<1> QED BY <1>1, <1>2, <1>3, <1>4 DEF Next

(* What rollback would choose is in the window, when the pointer names the last          *)
(* activation: between the two there is only the active version.                         *)
LEMMA PredecessorInWindow ==
  ASSUME disk.history \in Seq(Version), disk.history # <<>>,
         Last(disk.history) = disk.pointer
  PROVE  Predecessors \subseteq Window(disk.history)
<1> DEFINE h == disk.history
           p == disk.pointer
           n == LastPlace(h, p)
           before == SubSeq(h, 1, n - 1)
           others == {i \in DOMAIN before : before[i] # p}
<1> SUFFICES ASSUME NEW v \in Predecessors PROVE v \in Window(h)
  OBVIOUS
<1>1. /\ Len(h) \in 1 .. Len(h) /\ h[Len(h)] = p /\ n = Len(h) /\ Len(h) \in Nat
  <2>1. Len(h) \in 1 .. Len(h) /\ h[Len(h)] = p
    BY DEF Last
  <2> QED BY <2>1, LastPlaceUnique
<1>2. LastIndex(p) = n
  BY DEF LastIndex, LastPlace
<1>3. PICK i \in others : (\A j \in others : j <= i) /\ v = before[i]
  BY <1>2 DEF Predecessors
<1>4. /\ DOMAIN before = 1 .. Len(h) - 1
      /\ \A j \in 1 .. Len(h) - 1 : before[j] = h[j]
  BY <1>1
<1>5. /\ i \in 1 .. Len(h) - 1 /\ h[i] = v /\ v # p
      /\ \A j \in 1 .. Len(h) - 1 : h[j] # p => j <= i
  BY <1>3, <1>4
<1> HIDE DEF before, others, n
<1>6. v \in StepsOf(h) /\ LastPlace(h, v) = i
  <2>1. \A j \in 1 .. Len(h) : h[j] = v => j <= i
    BY <1>1, <1>5
  <2>2. i \in 1 .. Len(h)
    BY <1>1, <1>5
  <2> HIDE DEF h, p
  <2> QED BY <1>5, <2>1, <2>2, LastPlaceUnique DEF h
<1>7. Since(h, v) \subseteq {p}
  BY <1>1, <1>5, <1>6 DEF Since
<1>8. Cardinality(Since(h, v)) <= 1 /\ Cardinality(Since(h, v)) \in Nat
  <2>1. IsFiniteSet({p}) /\ Cardinality({p}) = 1
    BY FS_Singleton
  <2>2. Cardinality(Since(h, v)) \in Nat
    BY <1>6, SinceIsFinite
  <2> QED BY <1>7, <2>1, <2>2, FS_Subset
<1> QED BY <1>6, <1>8, ActivationAssumption DEF Window

LEMMA NeededHolds == PlanInv => NeededIsStaged
<1> SUFFICES ASSUME PlanInv PROVE NeededIsStaged
  OBVIOUS
<1>1. disk.history \in Seq(Version)
  BY DEF PlanInv, TypeOK, Disk
<1>2. disk.history # <<>> /\ Last(disk.history) = disk.pointer
        => Predecessors \subseteq disk.staged
  BY <1>1, PredecessorInWindow DEF PlanInv, WindowIsStaged
<1> QED BY <1>2 DEF PlanInv, NamedIsStaged, NeededIsStaged

(* A command that is over, and not given up, has nothing left of its plan.                *)
LEMMA OverAndSound ==
  ASSUME PlanInv, Concluded
  PROVE  /\ Sound /\ Left = {} /\ Idle
         /\ op.outcome = "ok" => op.way = "forward"
         /\ op.outcome = "failed" => op.way = "revert"
<1>1. Left = {} /\ Idle
  BY DEF Concluded, Idle, Left, StepsOf
<1> QED BY <1>1 DEF Concluded, PlanInv, OnPlan, Sound

LEMMA SettledHolds == PlanInv => SettledAgrees
<1> SUFFICES ASSUME PlanInv, Concluded, op.touched
             PROVE  /\ op.cmd \in {"install", "rollback"} =>
                         /\ disk.definition \in {None, disk.pointer}
                         /\ manager.running # None /\ ~OverStopped
                              => manager.running = Process0(disk.pointer)
                    /\ op.cmd = "rotate" /\ manager.running # None
                         => manager.running.token = disk.token
  BY DEF SettledAgrees
<1>1. /\ Sound /\ Left = {} /\ Idle
      /\ op.outcome = "ok" => op.way = "forward"
      /\ op.outcome = "failed" => op.way = "revert"
  BY OverAndSound
<1>2. Placing =>
        /\ disk.definition = op.target
        /\ ~OverStop /\ manager.running # None => manager.running = Process0(op.target)
        /\ op.cmd # "rotate" => disk.pointer = op.target
  BY <1>1 DEF PlanInv, Placed
<1>3. op.cmd = "install" /\ op.way = "revert" /\ ~op.installed
        => manager.running = None /\ disk.definition = None
  BY <1>1 DEF PlanInv, Removed
<1>4. CASE op.cmd = "rollback"
  BY <1>2, <1>4 DEF Placing, OverStop
<1>5. CASE op.cmd = "install"
  <2>1. CASE op.way = "revert" /\ ~op.installed
    BY <1>3, <1>5, <2>1
  <2>2. CASE ~(op.way = "revert" /\ ~op.installed)
    <3>1. Placing
      BY <1>5, <2>2 DEF Placing
    <3>2. OverStop => OverStopped
      BY <1>1, <2>2 DEF OverStop, OverStopped, Concluded
    <3> QED BY <1>2, <1>5, <3>1, <3>2
  <2> QED BY <2>1, <2>2
<1>6. CASE op.cmd = "rotate"
  <2>1. CASE op.way = "revert" \/ ~op.start
    BY <1>1, <1>6, <2>1 DEF PlanInv, Rotated
  <2>2. CASE op.way # "revert" /\ op.start
    <3>1. Placing /\ ~OverStop
      BY <1>6, <2>2, <1>1 DEF Placing, OverStop, PlanInv, TypeOK, Op
    <3> QED BY <1>2, <1>6, <3>1 DEF Process0
  <2> QED BY <2>1, <2>2
<1> QED BY <1>4, <1>5, <1>6

LEMMA UndoneHolds == PlanInv => FailedInstallUndone
<1> SUFFICES ASSUME PlanInv, Idle, op.cmd = "install", op.outcome = "failed"
             PROVE  /\ disk.config = op.config
                    /\ op.installed => disk.pointer = op.prior
                    /\ op.installed /\ op.touched => disk.definition = op.prior
                    /\ ~op.installed /\ op.touched
                         => disk.definition = None /\ manager.running = None
  BY DEF FailedInstallUndone
<1>1. Sound /\ Left = {} /\ op.way = "revert"
  BY OverAndSound DEF Concluded
<1>2. disk.config = op.config /\ (~op.touched => disk.pointer = op.prior)
      /\ (op.touched /\ op.installed => op.target = op.prior)
  BY <1>1 DEF PlanInv, PutBack
<1>3. op.touched /\ op.installed => disk.definition = op.target /\ disk.pointer = op.target
  BY <1>1 DEF PlanInv, Placed, Placing
<1>4. ~op.installed /\ op.touched => disk.definition = None /\ manager.running = None
  BY <1>1 DEF PlanInv, Removed
<1> QED BY <1>2, <1>3, <1>4

(* No state, of commands, files or service manager, is outside its type; the history    *)
(* never outgrows its limit (installation.ts, appendActivation).                         *)
THEOREM StateIsTyped == Spec => []TypeOK
<1>1. PlanInv => TypeOK
  BY DEF PlanInv
<1> QED BY <1>1, InitSettles, NextSettles, PTL DEF Spec

(* Whatever commands fail, are killed or follow a restart, no runtime that the pointer,   *)
(* the definition, the manager, the running gateway or a rollback needs is ever pruned    *)
(* (installation.ts, pruneSupersededRuntimes): for every retention of two or more.        *)
THEOREM NothingNeededIsPruned == Spec => []NeededIsStaged
BY InitSettles, NextSettles, NeededHolds, PTL DEF Spec

(* When an install or a rollback is over, done or reverted, what the service executes is   *)
(* what current.json names, and no gateway runs with a replaced token (cli.ts).           *)
THEOREM PointerIsAuthority == Spec => []SettledAgrees
BY InitSettles, NextSettles, SettledHolds, PTL DEF Spec

(* An install that reports its failure, and no failure to revert, has put everything back   *)
(* (cli.ts, the catch block of runInstall).                                              *)
THEOREM FailedInstallIsUndone == Spec => []FailedInstallUndone
BY InitSettles, NextSettles, UndoneHolds, PTL DEF Spec
====
