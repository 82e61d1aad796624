---------------------------- MODULE AskAlertsProofs ----------------------------
(***************************************************************************)
(* What is proved of the way of an ask from the registry to the phone.     *)
(* First the worker of NotificationWorker for any push events; then that   *)
(* AskAlerts runs that worker and PushService; last, by one invariant over *)
(* all that is queued, on its way or waiting, that the phone shows the     *)
(* asks.                                                                   *)
(***************************************************************************)
EXTENDS AskAlerts, PushServiceProofs
LOCAL INSTANCE SequencesExt

-----------------------------------------------------------------------------
(* The worker alone, whatever push events come and in whatever order.       *)

(* What the handler that is under way relies on: between its enumeration    *)
(* and its showing or closing nothing but itself shows, so the tag holds    *)
(* what it saw or nothing; a notification that is not posted yet was shown  *)
(* recently; and a clear that has waited finds its tag posted.              *)
SawIt == step \in {"read", "settled"} => note[Worker!tag] \in {seen, None}
PostingIsRecent == posting \subseteq recent
SettledIsPosted == step = "settled" => Worker!tag \notin recent

WorkerInv == Worker!WorkerTypeOK /\ SawIt /\ PostingIsRecent /\ SettledIsPosted

(* A step of the handler under way leaves the queue alone, and an arrival   *)
(* leaves its head alone.                                                   *)
LEMMA ReceiveKeepsEvent ==
  ASSUME Worker!WorkerTypeOK, NEW m \in Worker!Push, Worker!Receive(m)
  PROVE  tail' \in Seq(Worker!Push) /\ tail' # << >> /\ (tail # << >> => Head(tail') = Head(tail))
BY AppendProperties, HeadTailAppend DEF Worker!WorkerTypeOK, Worker!Receive

LEMMA TailType ==
  ASSUME Worker!WorkerTypeOK, step # "idle"
  PROVE  Tail(tail) \in Seq(Worker!Push) /\ Head(tail) \in Worker!Push
BY HeadTailProperties DEF Worker!WorkerTypeOK

LEMMA InitWorker == Worker!WorkerInit => WorkerInv
BY DEF Worker!WorkerInit, WorkerInv, Worker!WorkerTypeOK, SawIt, PostingIsRecent, SettledIsPosted

LEMMA TypeStep ==
  ASSUME Worker!WorkerTypeOK, [Worker!WorkerNext]_(Worker!workerVars)
  PROVE  Worker!WorkerTypeOK'
<1>1. ASSUME NEW m \in Worker!Push, Worker!Receive(m) PROVE Worker!WorkerTypeOK'
  BY <1>1, ReceiveKeepsEvent DEF Worker!Receive, Worker!WorkerTypeOK
<1>2. CASE Worker!Enumerate
  <2>1. Head(tail) \in Worker!Push
    BY <1>2, HeadTailProperties DEF Worker!Enumerate, Worker!WorkerTypeOK
  <2>2. note[Worker!tag] \in Worker!Note \cup {None}
    BY <2>1 DEF Worker!tag, Worker!event, Worker!Push, Worker!WorkerTypeOK
  <2> QED
    BY <1>2, <2>2 DEF Worker!Enumerate, Worker!WorkerTypeOK
<1>3. CASE Worker!Settle
  BY <1>3 DEF Worker!Settle, Worker!WorkerTypeOK
<1>4. CASE Worker!Settled
  <2>1. note[Worker!tag] \in Worker!Note \cup {None}
    BY <1>4, TailType
    DEF Worker!Settled, Worker!tag, Worker!event, Worker!Push, Worker!WorkerTypeOK
  <2> QED
    BY <1>4, <2>1 DEF Worker!Settled, Worker!WorkerTypeOK
<1>5. CASE Worker!Close
  <2>1. step # "idle" /\ note' \in [Instance -> Worker!Note \cup {None}]
        /\ recent' \subseteq Instance
    BY <1>5 DEF Worker!Close, Worker!WorkerTypeOK
  <2> QED
    BY <1>5, <2>1 DEF Worker!Close, Worker!WorkerTypeOK
<1>6. CASE Worker!Leave
  BY <1>6 DEF Worker!Leave, Worker!WorkerTypeOK
<1>7. CASE Worker!Show
  <2>1. Worker!event \in Worker!Push /\ Worker!event.type \in {"attention", "stop"}
    BY <1>7, TailType DEF Worker!Show, Worker!event, Worker!Push
  <2>2. [type |-> Worker!event.type,
         request |-> Worker!event.request] \in Worker!Note /\ Worker!tag \in Instance
    BY <2>1 DEF Worker!Note, Worker!Push, Worker!tag
  <2> QED
    BY <1>7, <2>2 DEF Worker!Show, Worker!WorkerTypeOK
<1>8. CASE Worker!UpdateAppBadge
  <2>1. Worker!event.count \in 0 .. Cardinality(Instance)
    BY <1>8, TailType DEF Worker!UpdateAppBadge, Worker!event, Worker!Push
  <2> QED
    BY <1>8, <2>1, TailType DEF Worker!UpdateAppBadge, Worker!WorkerTypeOK
<1>9. CASE Worker!CallFails
  BY <1>9, TailType DEF Worker!CallFails, Worker!WorkerTypeOK
<1>10. ASSUME NEW i \in Instance, Worker!Posted(i) \/ Worker!Ages(i) \/ Worker!Dismiss(i)
       PROVE  Worker!WorkerTypeOK'
  BY <1>10 DEF Worker!Posted, Worker!Ages, Worker!Dismiss, Worker!WorkerTypeOK
<1>11. CASE UNCHANGED Worker!workerVars
  BY <1>11 DEF Worker!workerVars, Worker!WorkerTypeOK
<1> QED
  BY <1>1, <1>2, <1>3, <1>4, <1>5, <1>6, <1>7, <1>8, <1>9, <1>10, <1>11
  DEF Worker!WorkerNext, Worker!Handle, Worker!Platform

LEMMA SawItStep ==
  ASSUME Worker!WorkerTypeOK, SawIt, [Worker!WorkerNext]_(Worker!workerVars)
  PROVE  SawIt'
<1>1. ASSUME NEW m \in Worker!Push, Worker!Receive(m) PROVE SawIt'
  <2>1. CASE tail = << >>
    BY <1>1, <2>1 DEF Worker!Receive, SawIt, Worker!WorkerTypeOK
  <2>2. CASE tail # << >>
    <3>1. Worker!tag' = Worker!tag
      BY <1>1, <2>2, ReceiveKeepsEvent DEF Worker!tag, Worker!event
    <3> QED
      BY <1>1, <3>1 DEF Worker!Receive, SawIt
  <2> QED
    BY <2>1, <2>2
<1>2. CASE Worker!Enumerate \/ Worker!Settled
  <2>1. Worker!tag' = Worker!tag
    BY <1>2 DEF Worker!Enumerate, Worker!Settled, Worker!tag, Worker!event
  <2> QED
    BY <1>2, <2>1 DEF Worker!Enumerate, Worker!Settled, SawIt
<1>3. CASE Worker!Settle \/ Worker!Close \/ Worker!Leave \/ Worker!Show
           \/ Worker!UpdateAppBadge \/ Worker!CallFails
  BY <1>3 DEF Worker!Settle, Worker!Close, Worker!Leave, Worker!Show, Worker!UpdateAppBadge,
              Worker!CallFails, SawIt
<1>4. ASSUME NEW i \in Instance, Worker!Posted(i) \/ Worker!Ages(i) PROVE SawIt'
  <2>1. Worker!tag' = Worker!tag
    BY <1>4 DEF Worker!Posted, Worker!Ages, Worker!tag, Worker!event
  <2> QED
    BY <1>4, <2>1 DEF Worker!Posted, Worker!Ages, SawIt
<1>5. ASSUME NEW i \in Instance, Worker!Dismiss(i) PROVE SawIt'
  <2>1. Worker!tag' = Worker!tag
    BY <1>5 DEF Worker!Dismiss, Worker!tag, Worker!event
  <2>2. step \in {"read", "settled"} => Worker!tag \in Instance
    BY TailType DEF Worker!tag, Worker!event, Worker!Push
  <2>3. Worker!tag \in Instance => note'[Worker!tag] \in {note[Worker!tag], None}
    BY <1>5 DEF Worker!Dismiss, Worker!WorkerTypeOK
  <2> QED
    BY <1>5, <2>1, <2>2, <2>3 DEF Worker!Dismiss, SawIt
<1>6. CASE UNCHANGED Worker!workerVars
  <2>1. Worker!tag' = Worker!tag
    BY <1>6 DEF Worker!workerVars, Worker!tag, Worker!event
  <2> QED
    BY <1>6, <2>1 DEF Worker!workerVars, SawIt
<1> QED
  BY <1>1, <1>2, <1>3, <1>4, <1>5, <1>6 DEF Worker!WorkerNext, Worker!Handle, Worker!Platform

(* A clear that may close has found its notification posted: it was not     *)
(* shown recently, or the handler has waited.                               *)
LEMMA ClosesWhatIsPosted ==
  ASSUME PostingIsRecent, SettledIsPosted, Worker!Close, Worker!MatchesRequest(seen, Worker!event)
  PROVE  Worker!tag \notin recent /\ Worker!tag \notin posting
BY DEF PostingIsRecent, SettledIsPosted, Worker!Close, Worker!MustSettle, Worker!tag

LEMMA PostingStep ==
  ASSUME Worker!WorkerTypeOK, PostingIsRecent, SettledIsPosted,
         [Worker!WorkerNext]_(Worker!workerVars)
  PROVE  PostingIsRecent'
<1>1. CASE Worker!Close
  BY <1>1, ClosesWhatIsPosted DEF Worker!Close, PostingIsRecent
<1>2. CASE Worker!Show
  BY <1>2 DEF Worker!Show, PostingIsRecent
<1>3. CASE Worker!Enumerate \/ Worker!Settle \/ Worker!Settled \/ Worker!Leave
           \/ Worker!UpdateAppBadge \/ Worker!CallFails
  BY <1>3 DEF Worker!Enumerate, Worker!Settle, Worker!Settled, Worker!Leave,
              Worker!UpdateAppBadge, Worker!CallFails, PostingIsRecent
<1>4. ASSUME NEW m \in Worker!Push, Worker!Receive(m) PROVE PostingIsRecent'
  BY <1>4 DEF Worker!Receive, PostingIsRecent
<1>5. ASSUME NEW i \in Instance, Worker!Posted(i) \/ Worker!Ages(i) \/ Worker!Dismiss(i)
      PROVE  PostingIsRecent'
  BY <1>5 DEF Worker!Posted, Worker!Ages, Worker!Dismiss, PostingIsRecent
<1>6. CASE UNCHANGED Worker!workerVars
  BY <1>6 DEF Worker!workerVars, PostingIsRecent
<1> QED
  BY <1>1, <1>2, <1>3, <1>4, <1>5, <1>6 DEF Worker!WorkerNext, Worker!Handle, Worker!Platform

LEMMA SettledStep ==
  ASSUME Worker!WorkerTypeOK, SettledIsPosted, [Worker!WorkerNext]_(Worker!workerVars)
  PROVE  SettledIsPosted'
<1>1. ASSUME NEW m \in Worker!Push, Worker!Receive(m) PROVE SettledIsPosted'
  <2>1. CASE step = "settled"
    <3>1. tail # << >>
      BY <2>1 DEF Worker!WorkerTypeOK
    <3>2. Worker!tag' = Worker!tag
      BY <1>1, <3>1, ReceiveKeepsEvent DEF Worker!tag, Worker!event
    <3> QED
      BY <1>1, <3>2 DEF Worker!Receive, SettledIsPosted
  <2>2. CASE step # "settled"
    BY <1>1, <2>2 DEF Worker!Receive, SettledIsPosted
  <2> QED
    BY <2>1, <2>2
<1>2. CASE Worker!Settled
  <2>1. Worker!tag' = Worker!tag
    BY <1>2 DEF Worker!Settled, Worker!tag, Worker!event
  <2> QED
    BY <1>2, <2>1 DEF Worker!Settled, SettledIsPosted
<1>3. CASE Worker!Enumerate \/ Worker!Settle \/ Worker!Close \/ Worker!Leave \/ Worker!Show
           \/ Worker!UpdateAppBadge \/ Worker!CallFails
  BY <1>3 DEF Worker!Enumerate, Worker!Settle, Worker!Close, Worker!Leave, Worker!Show,
              Worker!UpdateAppBadge, Worker!CallFails, SettledIsPosted
<1>4. ASSUME NEW i \in Instance, Worker!Posted(i) \/ Worker!Ages(i) \/ Worker!Dismiss(i)
      PROVE  SettledIsPosted'
  <2>1. Worker!tag' = Worker!tag /\ step' = step /\ recent' \subseteq recent
    BY <1>4 DEF Worker!Posted, Worker!Ages, Worker!Dismiss, Worker!tag, Worker!event
  <2> QED
    BY <2>1 DEF SettledIsPosted
<1>5. CASE UNCHANGED Worker!workerVars
  <2>1. Worker!tag' = Worker!tag
    BY <1>5 DEF Worker!workerVars, Worker!tag, Worker!event
  <2> QED
    BY <1>5, <2>1 DEF Worker!workerVars, SettledIsPosted
<1> QED
  BY <1>1, <1>2, <1>3, <1>4, <1>5 DEF Worker!WorkerNext, Worker!Handle, Worker!Platform

LEMMA WorkerInvariance == Worker!WorkerSpec => []WorkerInv
<1>1. WorkerInv /\ [Worker!WorkerNext]_(Worker!workerVars) => WorkerInv'
  BY TypeStep, SawItStep, PostingStep, SettledStep DEF WorkerInv
<1> QED
  BY InitWorker, <1>1, PTL DEF Worker!WorkerSpec

-----------------------------------------------------------------------------
(* Wherever a handler fails, the worker's state has its type; above all no   *)
(* handler is left half done without its event (service-worker.ts 61-129).   *)
THEOREM WorkerTypeInvariant == Worker!WorkerSpec => []Worker!WorkerTypeOK
<1>1. WorkerInv => Worker!WorkerTypeOK
  BY DEF WorkerInv
<1> QED
  BY WorkerInvariance, <1>1, PTL

(* A displayed attention is never replaced by an activity stop: what the     *)
(* stop's handler saw is what it replaces, or nothing                        *)
(* (service-worker.ts 50, 96-104).                                           *)
THEOREM StopsNeverReplaceAsks == Worker!WorkerSpec => Worker!StopNeverReplacesAsk
<1> DEFINE Kept == \A i \in Instance :
             note[i] # None /\ note[i].type = "attention" =>
               note'[i] = None \/ note'[i].type = "attention"
<1>1. ASSUME WorkerInv, [Worker!WorkerNext]_(Worker!workerVars) PROVE [Kept]_note
  <2> USE <1>1 DEF WorkerInv
  <2>1. CASE Worker!Show
    <3>1. Worker!event \in Worker!Push /\ Worker!tag \in Instance
      BY <2>1, TailType DEF Worker!Show, Worker!event, Worker!tag, Worker!Push
    <3>2. Worker!event.type \in {"attention", "stop"}
      BY <2>1, <3>1 DEF Worker!Show, Worker!Push
    <3>3. note'[Worker!tag] = [type |-> Worker!event.type, request |-> Worker!event.request]
      BY <2>1, <3>1 DEF Worker!Show, Worker!WorkerTypeOK
    <3>4. CASE Worker!event.type = "attention"
      BY <2>1, <3>1, <3>3, <3>4 DEF Worker!Show, Worker!WorkerTypeOK
    <3>5. CASE Worker!event.type = "stop"
      <4>1. note[Worker!tag] \in {seen, None} /\ ~Worker!Outranked(Worker!event)
        BY <2>1 DEF Worker!Show, SawIt
      <4>2. note[Worker!tag] = None \/ note[Worker!tag].type # "attention"
        BY <3>5, <4>1 DEF Worker!Outranked
      <4> QED
        BY <2>1, <3>1, <4>2 DEF Worker!Show, Worker!WorkerTypeOK
    <3> QED
      BY <3>2, <3>4, <3>5
  <2>2. CASE Worker!Close
    <3>1. Worker!tag \in Instance
      BY <2>2, TailType DEF Worker!Close, Worker!event, Worker!tag, Worker!Push
    <3>2. \A i \in Instance : note'[i] \in {note[i], None}
      BY <2>2, <3>1 DEF Worker!Close, Worker!WorkerTypeOK
    <3> QED
      BY <3>2
  <2>3. ASSUME NEW i \in Instance, Worker!Dismiss(i) PROVE [Kept]_note
    BY <2>3 DEF Worker!Dismiss, Worker!WorkerTypeOK
  <2>4. CASE Worker!Enumerate \/ Worker!Settle \/ Worker!Settled \/ Worker!Leave
             \/ Worker!UpdateAppBadge \/ Worker!CallFails
    BY <2>4 DEF Worker!Enumerate, Worker!Settle, Worker!Settled, Worker!Leave,
                Worker!UpdateAppBadge, Worker!CallFails
  <2>5. ASSUME NEW m \in Worker!Push, Worker!Receive(m) PROVE [Kept]_note
    BY <2>5 DEF Worker!Receive
  <2>6. ASSUME NEW i \in Instance, Worker!Posted(i) \/ Worker!Ages(i) PROVE [Kept]_note
    BY <2>6 DEF Worker!Posted, Worker!Ages
  <2>7. CASE UNCHANGED Worker!workerVars
    BY <2>7 DEF Worker!workerVars
  <2> QED
    BY <2>1, <2>2, <2>3, <2>4, <2>5, <2>6, <2>7
    DEF Worker!WorkerNext, Worker!Handle, Worker!Platform
<1>2. WorkerInv /\ [Worker!WorkerNext]_(Worker!workerVars) => [Kept]_note
  BY <1>1
<1> QED
  BY WorkerInvariance, <1>2, PTL DEF Worker!WorkerSpec, Worker!StopNeverReplacesAsk

(* When a clear has been handled its request is not displayed: it found the  *)
(* notification posted, or waited until it was (service-worker.ts 52-53,     *)
(* 71-86).                                                                   *)
THEOREM ClearsLeaveNothing == Worker!WorkerSpec => Worker!ClearedIsGone
<1> DEFINE Gone == (step \in {"read",
       "settled"} /\ Worker!event.type = "clear" /\ step' = "badge")
                     => ~Worker!MatchesRequest(note'[Worker!tag], Worker!event)
<1>1. ASSUME WorkerInv, [Worker!WorkerNext]_(Worker!workerVars) PROVE [Gone]_step
  <2> USE <1>1 DEF WorkerInv
  <2>1. CASE Worker!Close
    <3>1. Worker!tag \in Instance /\ note[Worker!tag] \in {seen, None}
      BY <2>1, TailType DEF Worker!Close, Worker!event, Worker!tag, Worker!Push, SawIt
    <3>2. CASE Worker!MatchesRequest(seen, Worker!event)
      <4>1. Worker!tag \notin posting
        BY <2>1, <3>2, ClosesWhatIsPosted
      <4>2. note'[Worker!tag] = None
        BY <2>1, <3>1, <3>2, <4>1 DEF Worker!Close, Worker!WorkerTypeOK
      <4> QED
        BY <4>2 DEF Worker!MatchesRequest
    <3>3. CASE ~Worker!MatchesRequest(seen, Worker!event)
      <4>1. note' = note
        BY <2>1, <3>3 DEF Worker!Close
      <4> QED
        BY <3>1, <3>3, <4>1 DEF Worker!MatchesRequest
    <3> QED
      BY <3>2, <3>3
  <2>2. CASE Worker!Leave \/ Worker!Show
    BY <2>2 DEF Worker!Leave, Worker!Show, Worker!Outranked
  <2>3. CASE Worker!Enumerate \/ Worker!Settle \/ Worker!Settled \/ Worker!UpdateAppBadge
             \/ Worker!CallFails
    BY <2>3 DEF Worker!Enumerate, Worker!Settle, Worker!Settled, Worker!UpdateAppBadge,
                Worker!CallFails
  <2>4. ASSUME NEW m \in Worker!Push, Worker!Receive(m) PROVE [Gone]_step
    BY <2>4 DEF Worker!Receive
  <2>5. ASSUME NEW i \in Instance, Worker!Posted(i) \/ Worker!Ages(i) \/ Worker!Dismiss(i)
        PROVE  [Gone]_step
    BY <2>5 DEF Worker!Posted, Worker!Ages, Worker!Dismiss
  <2>6. CASE UNCHANGED Worker!workerVars
    BY <2>6 DEF Worker!workerVars
  <2> QED
    BY <2>1, <2>2, <2>3, <2>4, <2>5, <2>6 DEF Worker!WorkerNext, Worker!Handle, Worker!Platform
<1>2. WorkerInv /\ [Worker!WorkerNext]_(Worker!workerVars) => [Gone]_step
  BY <1>1
<1> QED
  BY WorkerInvariance, <1>2, PTL DEF Worker!WorkerSpec, Worker!ClearedIsGone

-----------------------------------------------------------------------------
(* The gateway and the phone together: what AskAlerts leaves out of           *)
(* PushService (failures, subscription changes, crashes) keeps its queues     *)
(* simple, and what is on its way are messages the worker knows.              *)

NetworkType == network \in Seq(Worker!Push)

ChainsPlain ==
  /\ subs # {}
  /\ \A i \in Instance :
       /\ sending[i].stage # "dropping" /\ sending[i].stale = {}
       /\ ask[i] <= made[i].asks
       /\ \A k \in 1 .. Len(chain[i]) : chain[i][k].to = All /\ chain[i][k].instance = i

Composed == Core /\ ChainsPlain /\ NetworkType /\ WorkerInv

LEMMA PushType ==
  ASSUME NEW d \in Delivery
  PROVE  /\ PushOf(d) \in Worker!Push
         /\ PushOf(d).type = d.type /\ PushOf(d).instance = d.instance
         /\ PushOf(d).request = d.request
BY DEF Delivery, PushOf, Worker!Push

LEMMA RemoveType ==
  ASSUME NEW S, NEW q \in Seq(S), NEW k \in 1 .. Len(q)
  PROVE  RemoveAt(q, k) \in Seq(S)
<1>1. SubSeq(q, 1, k - 1) \in Seq(S) /\ SubSeq(q, k + 1, Len(q)) \in Seq(S)
  OBVIOUS
<1> QED
  BY <1>1, ConcatProperties DEF RemoveAt

LEMMA FirstRemoved ==
  ASSUME NEW S, NEW q \in Seq(S), 1 \in DOMAIN q
  PROVE  RemoveAt(q, 1) = Tail(q)
BY DEF RemoveAt

(* Every step is one of the service or none, and one of the worker or none.    *)
LEMMA StepsOfBoth ==
  ASSUME Composed, [AlertNext]_alertVars
  PROVE  [Next]_vars /\ [Worker!WorkerNext]_(Worker!workerVars)
<1>1. CASE Gateway
  BY <1>1 DEF Gateway, Next, Deliver, phoneVars, Worker!workerVars
<1>2. ASSUME NEW i \in Instance, NEW s \in Sub, Send(i, s)
      PROVE  [Next]_vars /\ [Worker!WorkerNext]_(Worker!workerVars)
  BY <1>2 DEF Send, Next, Deliver, phoneVars, Worker!workerVars
<1>3. ASSUME NEW k \in DOMAIN network, Arrive(k)
      PROVE  [Next]_vars /\ [Worker!WorkerNext]_(Worker!workerVars)
  <2>1. network[k] \in Worker!Push
    BY DEF Composed, NetworkType
  <2> QED
    BY <1>3, <2>1 DEF Arrive, Worker!WorkerNext
<1>4. CASE Lost
  BY <1>4 DEF Lost, phoneVars, Worker!workerVars
<1>5. CASE Phone \/ CallFails
  BY <1>5 DEF Phone, CallFails, Worker!WorkerNext
<1>6. ASSUME NEW i \in Instance, CloseByUser(i)
      PROVE  [Next]_vars /\ [Worker!WorkerNext]_(Worker!workerVars)
  BY <1>6 DEF CloseByUser, Worker!WorkerNext
<1>7. CASE UNCHANGED alertVars
  BY <1>7 DEF alertVars, phoneVars, vars, Worker!workerVars
<1> QED
  BY <1>1, <1>2, <1>3, <1>4, <1>5, <1>6, <1>7 DEF AlertNext

LEMMA NetworkStep ==
  ASSUME Composed, [AlertNext]_alertVars
  PROVE  NetworkType'
<1> USE DEF NetworkType
<1>1. network \in Seq(Worker!Push)
  BY DEF Composed
<1>2. ASSUME NEW i \in Instance, NEW s \in Sub, Send(i, s) PROVE NetworkType'
  <2>1. sending[i].stage = "sending"
    BY <1>2 DEF Send, SendOk, Sent
  <2>2. Head(chain[i]) \in Delivery
    BY <2>1, SendingType DEF Composed
  <2>3. PushOf(Head(chain[i])) \in Worker!Push
    BY <2>2, PushType
  <2> QED
    BY <1>1, <1>2, <2>3, AppendProperties DEF Send
<1>3. ASSUME NEW k \in DOMAIN network, Arrive(k) PROVE NetworkType'
  <2>1. k \in 1 .. Len(network)
    BY <1>1, LenProperties
  <2> QED
    BY <1>1, <1>3, <2>1, RemoveType DEF Arrive
<1>4. CASE Lost
  BY <1>1, <1>4, HeadTailProperties DEF Lost
<1>5. CASE Gateway \/ Phone \/ CallFails \/ (\E i \in Instance : CloseByUser(i))
           \/ UNCHANGED alertVars
  BY <1>1, <1>5 DEF Gateway, Phone, CallFails, CloseByUser, alertVars
<1> QED
  BY <1>2, <1>3, <1>4, <1>5 DEF AlertNext

(* What Announced says: the end of the old request, then the new one.          *)
Says(p, i, old, new) ==
  /\ \A k \in 1 .. Len(p) :
       /\ p[k].instance = i /\ p[k].to = All
       /\ \/ p[k].type = "attention" /\ p[k].request = new /\ new # 0
          \/ p[k].type = "clear" /\ p[k].request = old /\ old # 0 /\ new # old
  /\ new # 0 => Len(p) \in 1 .. Len(p) /\ p[Len(p)].type = "attention"
  /\ old # 0 /\ new # old => \E k \in 1 .. Len(p) : p[k].type = "clear"

LEMMA AnnouncedSays ==
  ASSUME NEW i \in Instance, NEW old \in 0 .. MaxAsks, NEW new \in 0 .. MaxAsks, NEW asks,
         NEW p, p = Announced(i, old, new, asks)
  PROVE  p \in Seq(Delivery) /\ Says(p, i, old, new)
<1> DEFINE c == Message("clear", i, old, asks, All)
           a == Message("attention", i, new, asks, All)
<1>0. All \in (SUBSET Sub) \cup {{None}}
  BY DEF All
<1>1. /\ c \in Delivery /\ c.type = "clear" /\ c.request = old /\ c.to = All
      /\ a \in Delivery /\ a.type = "attention" /\ a.request = new /\ a.to = All
  BY <1>0, MessageType
<1>i. c.instance = i /\ a.instance = i
  BY DEF Message
<1>2. p = (IF old # 0 /\ new # old THEN <<c>> ELSE << >>)
            \o (IF new # 0 THEN <<a>> ELSE << >>)
  BY DEF Announced
<1> HIDE DEF c, a
<1>3. CASE old # 0 /\ new # old /\ new # 0
  <2>1. p = <<c>> \o <<a>>
    BY <1>2, <1>3
  <2>2. <<c>> \in Seq(Delivery) /\ <<a>> \in Seq(Delivery) /\ Len(<<c>>) = 1 /\ Len(<<a>>) = 1
    BY <1>1
  <2>3. p \in Seq(Delivery) /\ Len(p) = 2 /\ p[1] = c /\ p[2] = a
    BY <2>1, <2>2, ConcatProperties
  <2>4. 1 .. Len(p) = {1, 2} /\ Len(p) \in 1 .. Len(p)
    BY <2>3
  <2> QED
    BY <1>1, <1>i, <1>3, <2>3, <2>4 DEF Says
<1>4. CASE old # 0 /\ new # old /\ new = 0
  <2>1. p = <<c>>
    BY <1>2, <1>4
  <2>2. p \in Seq(Delivery) /\ 1 .. Len(p) = {1} /\ p[1] = c
    BY <1>1, <2>1
  <2> QED
    BY <1>1, <1>i, <1>4, <2>2 DEF Says
<1>5. CASE ~(old # 0 /\ new # old) /\ new # 0
  <2>0. p = << >> \o <<a>>
    BY <1>2, <1>5
  <2>1. p = <<a>>
    BY <2>0
  <2>2. p \in Seq(Delivery) /\ Len(p) = 1 /\ 1 .. Len(p) = {1} /\ p[1] = a
    BY <1>1, <2>1
  <2> QED
    BY <1>1, <1>i, <1>5, <2>2 DEF Says
<1>6. CASE ~(old # 0 /\ new # old) /\ new = 0
  <2>1. p = << >>
    BY <1>2, <1>6
  <2>2. p \in Seq(Delivery) /\ 1 .. Len(p) = {}
    BY <2>1
  <2> QED
    BY <1>6, <2>2 DEF Says
<1> QED
  BY <1>3, <1>4, <1>5, <1>6

LEMMA ChainsStep ==
  ASSUME Composed, [AlertNext]_alertVars
  PROVE  ChainsPlain'
<1>0. /\ subs # {}
      /\ \A i \in Instance :
           /\ sending[i].stage # "dropping" /\ sending[i].stale = {}
           /\ ask[i] <= made[i].asks
           /\ \A k \in 1 .. Len(chain[i]) : chain[i][k].to = All /\ chain[i][k].instance = i
  BY DEF Composed, ChainsPlain
<1>a. /\ chain \in [Instance -> Seq(Delivery)] /\ ask \in [Instance -> 0 .. MaxAsks]
      /\ made \in [Instance -> [asks : 0 .. MaxAsks, renewals : Nat, stops : Nat]]
      /\ sending \in [Instance -> [stage : {"idle", "sending", "dropping"},
                                   left : SUBSET Sub, stale : SUBSET Sub]]
  BY DEF Composed, Core, TypeOK, Counted
<1>b. Core
  BY DEF Composed
<1>1. ASSUME NEW i \in Instance, Ask(i) \/ Resolve(i) \/ Renew(i) PROVE ChainsPlain'
  <2>1. PICK r \in 0 .. MaxAsks : RegistryEvent(i, r) /\ r <= made'[i].asks
          /\ \A j \in Instance : j # i => made'[j] = made[j]
    <3>1. CASE Ask(i)
      <4>1. made'[i].asks = made[i].asks + 1 /\ \A j \in Instance : j # i => made'[j] = made[j]
        BY <1>a, <3>1 DEF Ask
      <4>2. made[i].asks + 1 \in 0 .. MaxAsks
        BY <1>a, <3>1, BoundsType DEF Ask
      <4> QED
        BY <3>1, <4>1, <4>2 DEF Ask
    <3>2. CASE Resolve(i)
      BY <1>a, <3>2, BoundsType DEF Resolve
    <3>3. CASE Renew(i)
      <4>1. made'[i].asks = made[i].asks /\ \A j \in Instance : j # i => made'[j] = made[j]
        BY <1>a, <3>3 DEF Renew
      <4> QED
        BY <1>0, <1>a, <3>3, <4>1 DEF Renew
    <3> QED
      BY <1>1, <3>1, <3>2, <3>3
  <2>2. PICK p \in Seq(Delivery) :
          /\ p = Announced(i, ask[i], r, ask') /\ chain' = [chain EXCEPT ![i] = @ \o p]
    BY <1>b, <2>1, EventChain
  <2>3. \A k \in 1 .. Len(p) : p[k].instance = i /\ p[k].to = All
    BY <1>a, <2>2, AnnouncedSays DEF Says
  <2>4. \A k \in 1 .. Len(chain'[i]) : chain'[i][k].to = All /\ chain'[i][k].instance = i
    <3> DEFINE c == chain[i]
    <3>1. /\ Len(c \o p) = Len(c) + Len(p) /\ Len(c) \in Nat /\ Len(p) \in Nat
          /\ \A k \in 1 .. Len(c) + Len(p) :
               (c \o p)[k] = IF k <= Len(c) THEN c[k] ELSE p[k - Len(c)]
      BY <1>a, ConcatProperties
    <3>2. chain'[i] = c \o p
      BY <1>a, <2>2
    <3>3. \A k \in 1 .. Len(c) : c[k].to = All /\ c[k].instance = i
      BY <1>0
    <3> HIDE DEF c
    <3>4. ASSUME NEW k \in 1 .. Len(c) + Len(p), ~(k <= Len(c))
          PROVE  k - Len(c) \in 1 .. Len(p)
      BY <3>1, <3>4
    <3>5. ASSUME NEW k \in 1 .. Len(c) + Len(p), k <= Len(c)
          PROVE  k \in 1 .. Len(c)
      BY <3>1, <3>5
    <3> QED
      BY <2>3, <3>1, <3>2, <3>3, <3>4, <3>5
  <2>5. ask' = [ask EXCEPT ![i] = r] /\ UNCHANGED <<storeVars, sending>>
    BY <2>1 DEF RegistryEvent
  <2>6. \A j \in Instance : j # i => chain'[j] = chain[j] /\ ask'[j] = ask[j]
    BY <1>a, <2>2, <2>5
  <2>7. ask'[i] = r
    BY <1>a, <2>5
  <2> QED
    BY <1>0, <2>1, <2>4, <2>5, <2>6, <2>7 DEF ChainsPlain, storeVars
<1>2. ASSUME NEW i \in Instance, ActivityStop(i) PROVE ChainsPlain'
  <2> DEFINE m == Message("stop", i, 0, ask, All)
  <2>1. m \in Delivery /\ m.to = All
    BY BoundsType, MessageType DEF All
  <2>2. m.instance = i
    BY DEF Message
  <2>3. /\ made' = [made EXCEPT ![i].stops = @ + 1]
        /\ chain' = [chain EXCEPT ![i] = Append(@, m)]
        /\ UNCHANGED <<ask, storeVars, sending>>
    BY <1>2 DEF ActivityStop
  <2> HIDE DEF m
  <2>4. \A k \in 1 .. Len(chain'[i]) : chain'[i][k].to = All /\ chain'[i][k].instance = i
    <3>1. chain'[i] = Append(chain[i], m) /\ chain[i] \in Seq(Delivery)
      BY <1>a, <2>3
    <3>2. ASSUME NEW k \in 1 .. Len(chain'[i])
          PROVE  (k \in 1 .. Len(chain[i]) /\ chain'[i][k] = chain[i][k]) \/ chain'[i][k] = m
      BY <2>1, <3>1, <3>2
    <3> QED
      BY <1>0, <2>1, <2>2, <3>2
  <2>5. \A j \in Instance : j # i => chain'[j] = chain[j]
    BY <1>a, <2>3
  <2>6. \A j \in Instance : made'[j].asks = made[j].asks
    BY <1>a, <2>3
  <2> QED
    BY <1>0, <2>3, <2>4, <2>5, <2>6 DEF ChainsPlain, storeVars
<1>3. ASSUME NEW i \in Instance, StartSend(i) PROVE ChainsPlain'
  <2> DEFINE d == Head(chain[i])
             fresh == IF d.type = "stop" THEN [d EXCEPT !.count = PendingAskCount(ask)] ELSE d
  <2>1. chain[i] # << >> /\ chain[i] \in Seq(Delivery) /\ d \in Delivery
    BY <1>a, <1>3 DEF StartSend
  <2>2. d.to = All /\ d.instance = i
    BY <1>0, <2>1
  <2>3. fresh.to = All /\ fresh.instance = i /\ fresh \in Delivery
    BY <2>1, <2>2, CountType DEF Delivery
  <2>4. UNCHANGED <<registryVars, storeVars>>
    BY <1>3 DEF StartSend
  <2>5. CASE Finish(i)
    <3>1. chain'[i] = Tail(chain[i]) /\ \A j \in Instance : j # i => chain'[j] = chain[j]
      BY <1>a, <2>5 DEF Finish
    <3>2. \A j \in Instance : sending'[j].stage # "dropping" /\ sending'[j].stale = {}
      BY <1>0, <1>a, <2>5 DEF Finish, NotSending
    <3>3. \A k \in 1 .. Len(chain'[i]) : chain'[i][k].to = All /\ chain'[i][k].instance = i
      BY <1>0, <2>1, <3>1
    <3>4. \A j \in Instance : \A k \in 1 .. Len(chain'[j]) :
            chain'[j][k].to = All /\ chain'[j][k].instance = j
      <4> SUFFICES ASSUME NEW j \in Instance
                   PROVE  \A k \in 1 .. Len(chain'[j]) :
                            chain'[j][k].to = All /\ chain'[j][k].instance = j
        OBVIOUS
      <4>1. CASE j = i
        BY <3>3, <4>1
      <4>2. CASE j # i
        <5>1. chain'[j] = chain[j]
          BY <3>1, <4>2
        <5> QED
          BY <1>0, <5>1
      <4> QED
        BY <4>1, <4>2
    <3>5. subs' # {} /\ \A j \in Instance : ask'[j] <= made'[j].asks
      BY <1>0, <2>4 DEF registryVars, storeVars
    <3> QED
      BY <3>2, <3>4, <3>5 DEF ChainsPlain
  <2>6. CASE /\ chain' = [chain EXCEPT ![i] = <<fresh>> \o Tail(@)]
             /\ sending' = [sending EXCEPT ![i] =
                  [stage |-> "sending", left |-> Targets(d), stale |-> {}]]
    <3>1. /\ chain'[i] = <<fresh>> \o Tail(chain[i])
          /\ \A j \in Instance : j # i => chain'[j] = chain[j]
      BY <1>a, <2>6
    <3>2. \A j \in Instance : sending'[j].stage # "dropping" /\ sending'[j].stale = {}
      BY <1>0, <1>a, <2>6
    <3>3. \A k \in 1 .. Len(chain'[i]) : chain'[i][k].to = All /\ chain'[i][k].instance = i
      <4> HIDE DEF d, fresh
      <4>1. /\ Tail(chain[i]) \in Seq(Delivery) /\ Len(Tail(chain[i])) \in Nat
            /\ \A k \in 1 .. Len(Tail(chain[i])) :
                 k + 1 \in 1 .. Len(chain[i]) /\ Tail(chain[i])[k] = chain[i][k + 1]
        BY <2>1
      <4>2. ASSUME NEW k \in 1 .. Len(chain'[i])
            PROVE  \/ chain'[i][k] = fresh
                   \/ \E l \in 1 .. Len(Tail(chain[i])) : chain'[i][k] = Tail(chain[i])[l]
        <5> DEFINE t == Tail(chain[i])
        <5>1. t \in Seq(Delivery) /\ chain'[i] = <<fresh>> \o t
          BY <3>1, <4>1
        <5> HIDE DEF t
        <5>2. Len(chain'[i]) = 1 + Len(t) /\ Len(t) \in Nat
          BY <2>3, <5>1
        <5>3. CASE k = 1
          BY <2>3, <5>1, <5>3
        <5>4. CASE k # 1
          <6>1. k - 1 \in 1 .. Len(t)
            BY <5>2, <5>4
          <6>2. chain'[i][k] = t[k - 1]
            BY <2>3, <5>1, <5>2, <5>4
          <6> QED
            BY <6>1, <6>2 DEF t
        <5> QED
          BY <5>3, <5>4
      <4> QED
        BY <1>0, <2>3, <4>1, <4>2
    <3>4. \A j \in Instance : \A k \in 1 .. Len(chain'[j]) :
            chain'[j][k].to = All /\ chain'[j][k].instance = j
      <4> SUFFICES ASSUME NEW j \in Instance
                   PROVE  \A k \in 1 .. Len(chain'[j]) :
                            chain'[j][k].to = All /\ chain'[j][k].instance = j
        OBVIOUS
      <4>1. CASE j = i
        BY <3>3, <4>1
      <4>2. CASE j # i
        <5>1. chain'[j] = chain[j]
          BY <3>1, <4>2
        <5> QED
          BY <1>0, <5>1
      <4> QED
        BY <4>1, <4>2
    <3>5. subs' # {} /\ \A j \in Instance : ask'[j] <= made'[j].asks
      BY <1>0, <2>4 DEF registryVars, storeVars
    <3> QED
      BY <3>2, <3>4, <3>5 DEF ChainsPlain
  <2>7. Finish(i) \/ (/\ chain' = [chain EXCEPT ![i] = <<fresh>> \o Tail(@)]
                      /\ sending' = [sending EXCEPT ![i] =
                           [stage |-> "sending", left |-> Targets(d), stale |-> {}]])
    BY <1>3 DEF StartSend
  <2> QED
    BY <2>5, <2>6, <2>7
<1>4. ASSUME NEW i \in Instance, SendsDone(i) PROVE ChainsPlain'
  <2>1. sending[i].stage = "sending" /\ Finish(i) /\ UNCHANGED <<registryVars, subs>>
    BY <1>0, <1>4 DEF SendsDone
  <2>2. chain[i] # << >> /\ chain[i] \in Seq(Delivery)
    BY <1>b, <2>1, SendingType
  <2>3. chain'[i] = Tail(chain[i]) /\ \A j \in Instance : j # i => chain'[j] = chain[j]
    BY <1>a, <2>1 DEF Finish
  <2>4. \A j \in Instance : sending'[j].stage # "dropping" /\ sending'[j].stale = {}
    BY <1>0, <1>a, <2>1 DEF Finish, NotSending
  <2>5. \A k \in 1 .. Len(chain'[i]) : chain'[i][k].to = All /\ chain'[i][k].instance = i
    BY <1>0, <2>2, <2>3
  <2>6. \A j \in Instance : \A k \in 1 .. Len(chain'[j]) :
          chain'[j][k].to = All /\ chain'[j][k].instance = j
    <3> SUFFICES ASSUME NEW j \in Instance
                 PROVE  \A k \in 1 .. Len(chain'[j]) :
                          chain'[j][k].to = All /\ chain'[j][k].instance = j
      OBVIOUS
    <3>1. CASE j = i
      BY <2>5, <3>1
    <3>2. CASE j # i
      <4>1. chain'[j] = chain[j]
        BY <2>3, <3>2
      <4> QED
        BY <1>0, <4>1
    <3> QED
      BY <3>1, <3>2
  <2>7. subs' # {} /\ \A j \in Instance : ask'[j] <= made'[j].asks
    BY <1>0, <2>1 DEF registryVars
  <2> QED
    BY <2>4, <2>6, <2>7 DEF ChainsPlain
<1>5. ASSUME NEW i \in Instance, NEW s \in Sub, Send(i, s) PROVE ChainsPlain'
  <2>1. /\ sending' = [sending EXCEPT ![i].left = @ \ {s}]
        /\ UNCHANGED <<registryVars, storeVars, chain>>
    BY <1>5 DEF Send, SendOk
  <2>2. \A j \in Instance :
          sending'[j].stage = sending[j].stage /\ sending'[j].stale = sending[j].stale
    BY <1>a, <2>1
  <2> QED
    BY <1>0, <2>1, <2>2 DEF ChainsPlain, registryVars, storeVars
<1>6. CASE UNCHANGED vars
  BY <1>0, <1>6 DEF ChainsPlain, vars
<1>7. \/ \E i \in Instance : Ask(i) \/ Resolve(i) \/ Renew(i) \/ ActivityStop(i)
      \/ \E i \in Instance : StartSend(i) \/ SendsDone(i)
      \/ \E i \in Instance, s \in Sub : Send(i, s)
      \/ UNCHANGED vars
  BY DEF AlertNext, Gateway, Registry, Arrive, Lost, Phone, CallFails, CloseByUser, alertVars
<1> QED
  BY <1>1, <1>2, <1>3, <1>4, <1>5, <1>6, <1>7

LEMMA WorkerStep ==
  ASSUME WorkerInv, [Worker!WorkerNext]_(Worker!workerVars)
  PROVE  WorkerInv'
BY TypeStep, SawItStep, PostingStep, SettledStep DEF WorkerInv

LEMMA InitComposed == AlertInit => Composed
<1> SUFFICES ASSUME AlertInit PROVE Composed
  OBVIOUS
<1>1. Core
  BY InitCore DEF AlertInit
<1>2. WorkerInv
  BY InitWorker DEF AlertInit
<1>3. NetworkType
  BY DEF AlertInit, NetworkType
<1>4. ChainsPlain
  BY AlertAssumption DEF AlertInit, Init, ChainsPlain, NotSending
<1> QED
  BY <1>1, <1>2, <1>3, <1>4 DEF Composed

LEMMA ComposedStep ==
  ASSUME Composed, [AlertNext]_alertVars
  PROVE  Composed'
<1>1. Core'
  BY StepsOfBoth, CoreStep DEF Composed
<1>2. WorkerInv'
  BY StepsOfBoth, WorkerStep DEF Composed
<1> QED
  BY <1>1, <1>2, NetworkStep, ChainsStep DEF Composed

LEMMA ComposedHolds == AlertSpec => []Composed
<1>1. Composed /\ [AlertNext]_alertVars => Composed'
  BY ComposedStep
<1> QED
  BY InitComposed, <1>1, PTL DEF AlertSpec

(* The worker as the gateway drives it is the worker of any push events: every *)
(* run of AskAlerts is one of NotificationWorker (push.ts 458-504,              *)
(* service-worker.ts 61-129).                                                   *)
THEOREM AlertsRunTheWorker == AlertSpec => Worker!WorkerSpec
<1>1. AlertInit => Worker!WorkerInit
  BY DEF AlertInit
<1>2. Composed /\ [AlertNext]_alertVars => [Worker!WorkerNext]_(Worker!workerVars)
  BY StepsOfBoth
<1> QED
  BY <1>1, <1>2, ComposedHolds, PTL DEF AlertSpec, Worker!WorkerSpec

(* With the phone behind it the service is still PushService: every run of      *)
(* AskAlerts is one of PushService too, so what PushServiceProofs says of Spec  *)
(* holds of it (push.ts 225-504).                                               *)
THEOREM AlertsRunTheService == AlertSpec => Spec
<1>1. AlertInit => Init
  BY DEF AlertInit
<1>2. Composed /\ [AlertNext]_alertVars => [Next]_vars
  BY StepsOfBoth
<1> QED
  BY <1>1, <1>2, ComposedHolds, PTL DEF AlertSpec, Spec

(* Driven by the gateway's messages, the worker's state has its type            *)
(* (service-worker.ts 61-129).                                                  *)
THEOREM WorkerTypesKept == AlertSpec => []WorkerTypeOK
<1>1. Worker!WorkerTypeOK => WorkerTypeOK
  BY DEF WorkerTypeOK
<1> QED
  BY AlertsRunTheWorker, WorkerTypeInvariant, <1>1, PTL

(* No activity stop the gateway sends, however late it comes, replaces a        *)
(* displayed attention (service-worker.ts 50, 96-104).                          *)
THEOREM AlertsKeepAsks == AlertSpec => StopNeverReplacesAsk
  BY AlertsRunTheWorker, StopsNeverReplaceAsks DEF StopNeverReplacesAsk

(* When a clear the gateway sends has been handled, its request is not          *)
(* displayed (service-worker.ts 52-53, 71-86).                                  *)
THEOREM AlertsClear == AlertSpec => ClearedIsGone
  BY AlertsRunTheWorker, ClearsLeaveNothing DEF ClearedIsGone

-----------------------------------------------------------------------------
(* The pipeline of a session: what is waiting in the worker, then on its way,  *)
(* then still to be sent.                                                      *)

Msg == Worker!Push \cup Delivery

Is(m, type, i, r) == m.type = type /\ m.instance = i /\ m.request = r
About(m, i) == m.instance = i /\ m.type # "stop"
Like(m, n) == m.type = n.type /\ m.instance = n.instance /\ m.request = n.request
Carries(q, type, i, r) == \E k \in 1 .. Len(q) : Is(q[k], type, i, r)

(* What is said of session i in q when it has asked n times and waits for r:    *)
(* nothing ends r, r comes last, and the end of another request is behind it.   *)
Flow(q, i, r, n) ==
  /\ \A k \in 1 .. Len(q) : About(q[k], i) => q[k].request \in 1 .. n
  /\ r # 0 => ~Carries(q, "clear", i, r)
  /\ r # 0 => \A k \in 1 .. Len(q) : q[k].type = "attention" /\ q[k].instance = i =>
                \E l \in 1 .. Len(q) : l >= k /\ Is(q[l], "attention", i, r)
  /\ \A k \in 1 .. Len(q) :
       q[k].type = "attention" /\ q[k].instance = i /\ q[k].request # r =>
         \E l \in 1 .. Len(q) : l > k /\ Is(q[l], "clear", i, q[k].request)

(* Of session i, p says what q says in the same order.                          *)
View(p, q, i) ==
  /\ \A k \in 1 .. Len(p) : About(p[k], i) =>
       \E m \in 1 .. Len(q) :
         /\ Like(p[k], q[m])
         /\ \A l \in 1 .. Len(q) : About(q[l], i) /\ l >= m =>
              \E j \in 1 .. Len(p) : Like(p[j], q[l]) /\ j >= k /\ (l > m => j > k)
  /\ \A l \in 1 .. Len(q) : About(q[l], i) => \E j \in 1 .. Len(p) : Like(p[j], q[l])

LEMMA ConcatIs ==
  ASSUME NEW S, NEW a \in Seq(S), NEW b \in Seq(S)
  PROVE  /\ a \o b \in Seq(S) /\ Len(a \o b) = Len(a) + Len(b)
         /\ Len(a) \in Nat /\ Len(b) \in Nat /\ Len(a \o b) \in Nat
         /\ \A k \in 1 .. Len(a) : k \in 1 .. Len(a \o b) /\ (a \o b)[k] = a[k]
         /\ \A k \in 1 .. Len(b) : Len(a) + k \in 1 .. Len(a \o b) /\ (a \o b)[Len(a) + k] = b[k]
         /\ \A k \in 1 .. Len(a \o b) :
              k \in 1 .. Len(a) \/ (k - Len(a) \in 1 .. Len(b) /\ (a \o b)[k] = b[k - Len(a)])
<1>1. /\ a \o b \in Seq(S) /\ Len(a \o b) = Len(a) + Len(b)
      /\ \A k \in 1 .. Len(a) + Len(b) :
           (a \o b)[k] = IF k <= Len(a) THEN a[k] ELSE b[k - Len(a)]
  BY ConcatProperties
<1>2. Len(a) \in Nat /\ Len(b) \in Nat
  OBVIOUS
<1> DEFINE c == a \o b
           n == Len(a)
           m == Len(b)
<1>3. /\ c \in Seq(S) /\ Len(c) = n + m /\ n \in Nat /\ m \in Nat
      /\ \A k \in 1 .. n + m : c[k] = IF k <= n THEN a[k] ELSE b[k - n]
  BY <1>1, <1>2
<1> HIDE DEF c, n, m
<1>4. \A k \in 1 .. n : k \in 1 .. n + m /\ c[k] = a[k]
  BY <1>3
<1>5. \A k \in 1 .. m : n + k \in 1 .. n + m /\ c[n + k] = b[k]
  <2> TAKE k \in 1 .. m
  <2>1. n + k \in 1 .. n + m /\ ~(n + k <= n) /\ (n + k) - n = k
    BY <1>3
  <2> QED
    BY <1>3, <2>1
<1>6. \A k \in 1 .. n + m : k \in 1 .. n \/ (k - n \in 1 .. m /\ c[k] = b[k - n])
  BY <1>3
<1>7. Len(c) \in Nat
  BY <1>3
<1> QED
  BY <1>3, <1>4, <1>5, <1>6, <1>7 DEF c, n, m

LEMMA TailIs ==
  ASSUME NEW S, NEW q \in Seq(S), q # << >>
  PROVE  /\ Tail(q) \in Seq(S) /\ Len(Tail(q)) = Len(q) - 1 /\ Len(q) \in Nat /\ Len(q) >= 1
         /\ Head(q) = q[1] /\ Head(q) \in S
         /\ \A k \in 1 .. Len(Tail(q)) : k + 1 \in 1 .. Len(q) /\ Tail(q)[k] = q[k + 1]
         /\ \A k \in 1 .. Len(q) : k # 1 =>
              k - 1 \in 1 .. Len(Tail(q)) /\ Tail(q)[k - 1] = q[k]
OBVIOUS

LEMMA FlowPops ==
  ASSUME NEW S, NEW q \in Seq(S), q # << >>, NEW i, NEW r, NEW n, Flow(q, i, r, n)
  PROVE  Flow(Tail(q), i, r, n)
<1> DEFINE t == Tail(q)
<1>1. /\ t \in Seq(S) /\ Len(t) = Len(q) - 1 /\ Len(q) \in Nat
      /\ \A k \in 1 .. Len(t) : k + 1 \in 1 .. Len(q) /\ t[k] = q[k + 1]
      /\ \A k \in 1 .. Len(q) : k # 1 => k - 1 \in 1 .. Len(t) /\ t[k - 1] = q[k]
  BY TailIs
<1> HIDE DEF t
<1>2. \A k \in 1 .. Len(t) : About(t[k], i) => t[k].request \in 1 .. n
  BY <1>1 DEF Flow
<1>3. r # 0 => ~Carries(t, "clear", i, r)
  BY <1>1 DEF Flow, Carries
<1>4. ASSUME r # 0, NEW k \in 1 .. Len(t), t[k].type = "attention" /\ t[k].instance = i
      PROVE  \E l \in 1 .. Len(t) : l >= k /\ Is(t[l], "attention", i, r)
  <2>1. k + 1 \in 1 .. Len(q) /\ t[k] = q[k + 1]
    BY <1>1
  <2>2. PICK l \in 1 .. Len(q) : l >= k + 1 /\ Is(q[l], "attention", i, r)
    BY <1>4, <2>1 DEF Flow
  <2>3. l # 1 /\ l - 1 >= k
    BY <2>2
  <2>4. l - 1 \in 1 .. Len(t) /\ t[l - 1] = q[l]
    BY <1>1, <2>3
  <2> QED
    BY <2>2, <2>3, <2>4
<1>5. ASSUME NEW k \in 1 .. Len(t),
             t[k].type = "attention" /\ t[k].instance = i /\ t[k].request # r
      PROVE  \E l \in 1 .. Len(t) : l > k /\ Is(t[l], "clear", i, t[k].request)
  <2>1. k + 1 \in 1 .. Len(q) /\ t[k] = q[k + 1]
    BY <1>1
  <2>2. PICK l \in 1 .. Len(q) : l > k + 1 /\ Is(q[l], "clear", i, q[k + 1].request)
    BY <1>5, <2>1 DEF Flow
  <2>3. l # 1 /\ l - 1 > k
    BY <2>2
  <2>4. l - 1 \in 1 .. Len(t) /\ t[l - 1] = q[l]
    BY <1>1, <2>3
  <2> QED
    BY <2>1, <2>2, <2>3, <2>4
<1>6. Flow(t, i, r, n)
  BY <1>2, <1>3, <1>4, <1>5 DEF Flow
<1> QED
  BY <1>6 DEF t

LEMMA CarriesPops ==
  ASSUME NEW S, NEW q \in Seq(S), q # << >>, NEW type, NEW i, NEW r,
         Carries(q, type, i, r), ~Is(Head(q), type, i, r)
  PROVE  Carries(Tail(q), type, i, r)
<1>1. PICK k \in 1 .. Len(q) : Is(q[k], type, i, r)
  BY DEF Carries
<1>2. k # 1
  BY <1>1, TailIs
<1>3. k - 1 \in 1 .. Len(Tail(q)) /\ Tail(q)[k - 1] = q[k]
  BY <1>2, TailIs
<1> QED
  BY <1>1, <1>3 DEF Carries

LEMMA ViewCarries ==
  ASSUME NEW p, NEW q, NEW i, View(p, q, i), NEW type, type # "stop", NEW r
  PROVE  Carries(p, type, i, r) <=> Carries(q, type, i, r)
BY DEF View, Carries, Is, About, Like

LEMMA ViewFlow ==
  ASSUME NEW p, NEW q, NEW i, NEW r, NEW n, View(p, q, i), Flow(q, i, r, n)
  PROVE  Flow(p, i, r, n)
<1>1. ASSUME NEW k \in 1 .. Len(p), About(p[k], i)
      PROVE  \E m \in 1 .. Len(q) :
               /\ Like(p[k], q[m])
               /\ \A l \in 1 .. Len(q) : About(q[l], i) /\ l >= m =>
                    \E j \in 1 .. Len(p) : Like(p[j], q[l]) /\ j >= k /\ (l > m => j > k)
  BY <1>1 DEF View
<1>2. \A k \in 1 .. Len(p) : About(p[k], i) => p[k].request \in 1 .. n
  BY <1>1 DEF Flow, Like, About
<1>3. r # 0 => ~Carries(p, "clear", i, r)
  BY ViewCarries DEF Flow
<1>4. ASSUME r # 0, NEW k \in 1 .. Len(p), p[k].type = "attention" /\ p[k].instance = i
      PROVE  \E l \in 1 .. Len(p) : l >= k /\ Is(p[l], "attention", i, r)
  <2>1. PICK m \in 1 .. Len(q) :
               /\ Like(p[k], q[m])
               /\ \A l \in 1 .. Len(q) : About(q[l], i) /\ l >= m =>
                    \E j \in 1 .. Len(p) : Like(p[j], q[l]) /\ j >= k /\ (l > m => j > k)
    BY <1>1, <1>4 DEF About
  <2>2. PICK l \in 1 .. Len(q) : l >= m /\ Is(q[l], "attention", i, r)
    BY <1>4, <2>1 DEF Flow, Like
  <2> QED
    BY <2>1, <2>2 DEF About, Is, Like
<1>5. ASSUME NEW k \in 1 .. Len(p),
             p[k].type = "attention" /\ p[k].instance = i /\ p[k].request # r
      PROVE  \E l \in 1 .. Len(p) : l > k /\ Is(p[l], "clear", i, p[k].request)
  <2>1. PICK m \in 1 .. Len(q) :
               /\ Like(p[k], q[m])
               /\ \A l \in 1 .. Len(q) : About(q[l], i) /\ l >= m =>
                    \E j \in 1 .. Len(p) : Like(p[j], q[l]) /\ j >= k /\ (l > m => j > k)
    BY <1>1, <1>5 DEF About
  <2>2. PICK l \in 1 .. Len(q) : l > m /\ Is(q[l], "clear", i, q[m].request)
    BY <1>5, <2>1 DEF Flow, Like
  <2>3. l >= m
    BY <2>2
  <2>4. \E j \in 1 .. Len(p) : Like(p[j], q[l]) /\ j > k
    BY <2>1, <2>2, <2>3 DEF About, Is
  <2> QED
    BY <2>1, <2>2, <2>4 DEF Is, Like
<1> QED
  BY <1>2, <1>3, <1>4, <1>5 DEF Flow

(* p is q with h put in behind place n.                                         *)
Gap(p, q, n, h) ==
  /\ Len(q) \in Nat /\ n \in 0 .. Len(q) /\ Len(p) = Len(q) + 1
  /\ \A k \in 1 .. n : p[k] = q[k]
  /\ p[n + 1] = h
  /\ \A k \in n + 1 .. Len(q) : p[k + 1] = q[k]

(* A message put in changes nothing when it is not about i, or says once more   *)
(* what comes next.                                                             *)
LEMMA GapInserts ==
  ASSUME NEW p, NEW q, NEW n, NEW h, Gap(p, q, n, h), NEW i,
         About(h, i) => n + 1 \in 1 .. Len(q) /\ Like(h, q[n + 1])
  PROVE  View(p, q, i)
<1>1. /\ Len(q) \in Nat /\ n \in 0 .. Len(q) /\ Len(p) = Len(q) + 1
      /\ \A k \in 1 .. n : p[k] = q[k]
      /\ p[n + 1] = h
      /\ \A k \in n + 1 .. Len(q) : p[k + 1] = q[k]
  BY DEF Gap
<1> DEFINE f(l) == IF l <= n THEN l ELSE l + 1
<1>2. \A l \in 1 .. Len(q) : f(l) \in 1 .. Len(p) /\ p[f(l)] = q[l] /\ f(l) \in Int /\ f(l) >= l
  <2> TAKE l \in 1 .. Len(q)
  <2>1. CASE l <= n
    BY <1>1, <2>1
  <2>2. CASE ~(l <= n)
    <3>1. l \in n + 1 .. Len(q) /\ f(l) = l + 1 /\ l + 1 \in 1 .. Len(p)
      BY <1>1, <2>2
    <3> QED
      BY <1>1, <3>1
  <2> QED
    BY <2>1, <2>2
<1>3. \A l, m \in 1 .. Len(q) : l >= m => f(l) >= f(m) /\ (l > m => f(l) > f(m))
  BY <1>1
<1>4. ASSUME NEW k \in 1 .. Len(p), About(p[k], i)
      PROVE  \E m \in 1 .. Len(q) : Like(p[k], q[m]) /\ f(m) >= k
  <2>1. CASE k <= n
    <3>1. k \in 1 .. Len(q) /\ p[k] = q[k] /\ f(k) >= k
      BY <1>1, <2>1
    <3> QED
      BY <3>1 DEF Like
  <2>2. CASE k = n + 1
    <3>1. n + 1 \in 1 .. Len(q) /\ Like(p[k], q[n + 1])
      BY <1>1, <1>4, <2>2
    <3>2. f(n + 1) >= k
      BY <1>1, <2>2
    <3> QED
      BY <3>1, <3>2
  <2>3. CASE k > n + 1
    <3>1. k - 1 \in n + 1 .. Len(q) /\ k - 1 \in 1 .. Len(q) /\ (k - 1) + 1 = k
      BY <1>1, <2>3
    <3>2. p[k] = q[k - 1]
      BY <1>1, <3>1
    <3>3. f(k - 1) >= k
      BY <1>1, <2>3
    <3> QED
      BY <3>1, <3>2, <3>3 DEF Like
  <2> QED
    BY <1>1, <2>1, <2>2, <2>3
<1>5. ASSUME NEW k \in 1 .. Len(p), About(p[k], i)
      PROVE  \E m \in 1 .. Len(q) :
               /\ Like(p[k], q[m])
               /\ \A l \in 1 .. Len(q) : About(q[l], i) /\ l >= m =>
                    \E j \in 1 .. Len(p) : Like(p[j], q[l]) /\ j >= k /\ (l > m => j > k)
  <2>1. PICK m \in 1 .. Len(q) : Like(p[k], q[m]) /\ f(m) >= k
    BY <1>4, <1>5
  <2>2. ASSUME NEW l \in 1 .. Len(q), l >= m
        PROVE  \E j \in 1 .. Len(p) : Like(p[j], q[l]) /\ j >= k /\ (l > m => j > k)
    <3> DEFINE j == f(l)
    <3>1. j \in 1 .. Len(p) /\ p[j] = q[l] /\ j \in Int /\ f(m) \in Int
      BY <1>2
    <3>2. j >= f(m) /\ (l > m => j > f(m))
      BY <1>3, <2>2
    <3> HIDE DEF f, j
    <3>3. j >= k /\ (l > m => j > k)
      BY <2>1, <3>1, <3>2
    <3> QED
      BY <3>1, <3>3 DEF Like
  <2> QED
    BY <2>1, <2>2
<1>6. ASSUME NEW l \in 1 .. Len(q) PROVE \E j \in 1 .. Len(p) : Like(p[j], q[l])
  BY <1>2 DEF Like
<1> QED
  BY <1>5, <1>6 DEF View

(* A message that is not about i can be left out.                               *)
LEMMA GapDrops ==
  ASSUME NEW p, NEW q, NEW n, NEW h, Gap(p, q, n, h), NEW i, ~About(h, i)
  PROVE  View(q, p, i)
<1>1. /\ Len(q) \in Nat /\ n \in 0 .. Len(q) /\ Len(p) = Len(q) + 1
      /\ \A k \in 1 .. n : p[k] = q[k]
      /\ p[n + 1] = h
      /\ \A k \in n + 1 .. Len(q) : p[k + 1] = q[k]
  BY DEF Gap
<1> DEFINE f(l) == IF l <= n THEN l ELSE l + 1
           g(k) == IF k <= n THEN k ELSE k - 1
<1>2. ASSUME NEW l \in 1 .. Len(q) PROVE f(l) \in 1 .. Len(p) /\ p[f(l)] = q[l] /\ g(f(l)) = l
  <2>1. CASE l <= n
    BY <1>1, <2>1
  <2>2. CASE ~(l <= n)
    <3>1. l \in n + 1 .. Len(q) /\ f(l) = l + 1 /\ l + 1 \in 1 .. Len(p) /\ g(l + 1) = l
      BY <1>1, <2>2
    <3> QED
      BY <1>1, <3>1
  <2> QED
    BY <2>1, <2>2
<1>3. ASSUME NEW k \in 1 .. Len(p), About(p[k], i)
      PROVE  g(k) \in 1 .. Len(q) /\ q[g(k)] = p[k] /\ k # n + 1
  <2>1. k # n + 1
    BY <1>1, <1>3
  <2>2. CASE k <= n
    BY <1>1, <2>2
  <2>3. CASE ~(k <= n)
    <3>1. k - 1 \in n + 1 .. Len(q) /\ (k - 1) + 1 = k /\ g(k) = k - 1 /\ k - 1 \in 1 .. Len(q)
      BY <1>1, <2>1, <2>3
    <3> QED
      BY <1>1, <2>1, <3>1
  <2> QED
    BY <2>1, <2>2, <2>3
<1>4. \A k, l \in 1 .. Len(p) : k # n + 1 /\ l # n + 1 /\ l >= k =>
        g(l) >= g(k) /\ (l > k => g(l) > g(k))
  BY <1>1
<1>5. \A l \in 1 .. Len(q) : f(l) # n + 1
  BY <1>1
<1>6. ASSUME NEW k \in 1 .. Len(q), About(q[k], i)
      PROVE  \E m \in 1 .. Len(p) :
               /\ Like(q[k], p[m])
               /\ \A l \in 1 .. Len(p) : About(p[l], i) /\ l >= m =>
                    \E j \in 1 .. Len(q) : Like(q[j], p[l]) /\ j >= k /\ (l > m => j > k)
  <2> DEFINE m == f(k)
  <2>1. m \in 1 .. Len(p) /\ p[m] = q[k] /\ g(m) = k /\ m # n + 1
    BY <1>2, <1>5
  <2> HIDE DEF m
  <2>2. ASSUME NEW l \in 1 .. Len(p), About(p[l], i), l >= m
        PROVE  \E j \in 1 .. Len(q) : Like(q[j], p[l]) /\ j >= k /\ (l > m => j > k)
    <3>1. g(l) \in 1 .. Len(q) /\ q[g(l)] = p[l] /\ l # n + 1
      BY <1>3, <2>2
    <3>2. g(l) >= k /\ (l > m => g(l) > k)
      BY <1>4, <2>1, <2>2, <3>1
    <3> HIDE DEF g
    <3> QED
      BY <3>1, <3>2 DEF Like
  <2> QED
    BY <2>1, <2>2 DEF Like
<1>7. ASSUME NEW l \in 1 .. Len(p), About(p[l], i) PROVE \E j \in 1 .. Len(q) : Like(q[j], p[l])
  <2>1. g(l) \in 1 .. Len(q) /\ q[g(l)] = p[l]
    BY <1>3, <1>7
  <2> HIDE DEF g
  <2> QED
    BY <2>1 DEF Like
<1> QED
  BY <1>6, <1>7 DEF View

LEMMA ViewSame ==
  ASSUME NEW p, NEW q, NEW i, Len(p) = Len(q), Len(q) \in Nat,
         \A k \in 1 .. Len(q) : Like(p[k], q[k])
  PROVE  View(p, q, i)
BY DEF View

LEMMA GapOfAppend ==
  ASSUME NEW S, NEW a \in Seq(S), NEW b \in Seq(S), NEW h \in S
  PROVE  Gap(Append(a, h) \o b, a \o b, Len(a), h)
<1> DEFINE c == Append(a, h)
           n == Len(a)
           p == c \o b
           q == a \o b
<1>1. c \in Seq(S) /\ Len(c) = n + 1 /\ n \in Nat /\ c[n + 1] = h /\ \A k \in 1 .. n : c[k] = a[k]
  OBVIOUS
<1> HIDE DEF c
<1>a. /\ Len(p) = Len(c) + Len(b) /\ Len(b) \in Nat
      /\ \A k \in 1 .. Len(c) : p[k] = c[k]
      /\ \A k \in 1 .. Len(b) : p[Len(c) + k] = b[k]
  <2>1. c \in Seq(S)
    BY <1>1
  <2> QED
    BY <2>1, ConcatIs
<1>2. /\ Len(p) = (n + 1) + Len(b) /\ Len(b) \in Nat
      /\ \A k \in 1 .. n + 1 : p[k] = c[k]
      /\ \A k \in 1 .. Len(b) : p[(n + 1) + k] = b[k]
  <2> HIDE DEF p, n
  <2> QED
    BY <1>1, <1>a
<1>3. /\ Len(q) = n + Len(b)
      /\ \A k \in 1 .. n : q[k] = a[k]
      /\ \A k \in 1 .. Len(b) : q[n + k] = b[k]
  BY ConcatIs
<1> HIDE DEF p, q, n
<1>4. \A k \in 1 .. n : p[k] = q[k]
  BY <1>1, <1>2, <1>3
<1>5. p[n + 1] = h
  BY <1>1, <1>2
<1>6. ASSUME NEW k \in n + 1 .. Len(q) PROVE p[k + 1] = q[k]
  <2>1. k - n \in 1 .. Len(b) /\ n + (k - n) = k /\ (n + 1) + (k - n) = k + 1
    BY <1>1, <1>2, <1>3
  <2> QED
    BY <1>2, <1>3, <2>1
<1>7. Gap(p, q, n, h)
  BY <1>1, <1>2, <1>3, <1>4, <1>5, <1>6 DEF Gap
<1> QED
  BY <1>7 DEF p, q, n, c

LEMMA GapOfTail ==
  ASSUME NEW S, NEW a \in Seq(S), NEW b \in Seq(S), b # << >>
  PROVE  Gap(a \o b, a \o Tail(b), Len(a), Head(b))
<1> DEFINE c == Tail(b)
           n == Len(a)
           p == a \o b
           q == a \o c
           h == Head(b)
<1>1. /\ c \in Seq(S) /\ Len(c) = Len(b) - 1 /\ Len(b) \in Nat /\ Len(b) >= 1 /\ h = b[1]
      /\ \A k \in 1 .. Len(c) : k + 1 \in 1 .. Len(b) /\ c[k] = b[k + 1]
  BY TailIs
<1> HIDE DEF c, h
<1>2. /\ Len(p) = n + Len(b) /\ n \in Nat
      /\ \A k \in 1 .. n : p[k] = a[k]
      /\ \A k \in 1 .. Len(b) : p[n + k] = b[k]
  BY ConcatIs
<1>3. /\ Len(q) = n + Len(c)
      /\ \A k \in 1 .. n : q[k] = a[k]
      /\ \A k \in 1 .. Len(c) : q[n + k] = c[k]
  <2>1. c \in Seq(S)
    BY <1>1
  <2> QED
    BY <2>1, ConcatIs
<1> HIDE DEF p, q, n
<1>4. \A k \in 1 .. n : p[k] = q[k]
  BY <1>2, <1>3
<1>5. p[n + 1] = h
  BY <1>1, <1>2
<1>6. ASSUME NEW k \in n + 1 .. Len(q) PROVE p[k + 1] = q[k]
  <2> DEFINE l == k - n
  <2>1. l \in 1 .. Len(c) /\ n + l = k /\ n + (l + 1) = k + 1
    BY <1>1, <1>2, <1>3
  <2> HIDE DEF l
  <2>2. q[k] = c[l]
    BY <1>3, <2>1
  <2>3. c[l] = b[l + 1] /\ l + 1 \in 1 .. Len(b)
    BY <1>1, <2>1
  <2>4. p[n + (l + 1)] = b[l + 1]
    BY <1>2, <2>3
  <2> QED
    BY <2>1, <2>2, <2>3, <2>4
<1>7. Gap(p, q, n, h)
  BY <1>1, <1>2, <1>3, <1>4, <1>5, <1>6 DEF Gap
<1> QED
  BY <1>7 DEF p, q, n, c, h

(* An event of the registry at the end of what is said of its session.          *)
LEMMA FlowGrows ==
  ASSUME NEW S, NEW q \in Seq(S), NEW p \in Seq(S), NEW i, NEW old \in Nat, NEW r \in Nat,
         NEW n \in Nat, NEW m \in Nat, Flow(q, i, old, n), Says(p, i, old, r),
         old <= n, n <= m, r <= m, r = old \/ r = 0 \/ r > n
  PROVE  /\ Flow(q \o p, i, r, m)
         /\ r # 0 => Carries(q \o p, "attention", i, r)
         /\ old # 0 /\ r # old => Carries(q \o p, "clear", i, old)
         /\ \A x : Carries(q, "clear", i, x) => Carries(q \o p, "clear", i, x)
<1> DEFINE z == q \o p
           w == Len(q)
<1>1. /\ z \in Seq(S) /\ Len(z) = w + Len(p) /\ w \in Nat /\ Len(p) \in Nat
      /\ \A k \in 1 .. w : k \in 1 .. Len(z) /\ z[k] = q[k]
      /\ \A k \in 1 .. Len(p) : w + k \in 1 .. Len(z) /\ z[w + k] = p[k]
      /\ \A k \in 1 .. Len(z) : k \in 1 .. w \/ (k - w \in 1 .. Len(p) /\ z[k] = p[k - w])
  BY ConcatIs
<1> HIDE DEF z
<1>2. \A k \in 1 .. Len(p) :
         /\ p[k].instance = i
         /\ \/ p[k].type = "attention" /\ p[k].request = r /\ r # 0
            \/ p[k].type = "clear" /\ p[k].request = old /\ old # 0 /\ r # old
  BY DEF Says
<1>3. ASSUME r # 0
      PROVE  Len(z) \in 1 .. Len(z) /\ Is(z[Len(z)], "attention", i, r)
  <2>1. Len(p) \in 1 .. Len(p) /\ p[Len(p)].type = "attention"
    BY <1>3 DEF Says
  <2>2. Is(p[Len(p)], "attention", i, r)
    BY <1>2, <2>1 DEF Is
  <2> QED
    BY <1>1, <2>1, <2>2
<1>4. ASSUME old # 0, r # old
      PROVE  \E l \in 1 .. Len(z) : l > w /\ Is(z[l], "clear", i, old)
  <2>1. PICK k \in 1 .. Len(p) : p[k].type = "clear"
    BY <1>4 DEF Says
  <2>2. Is(p[k], "clear", i, old)
    BY <1>2, <2>1 DEF Is
  <2>3. w + k \in 1 .. Len(z) /\ z[w + k] = p[k] /\ w + k > w
    BY <1>1
  <2> QED
    BY <2>2, <2>3
<1>5. ASSUME NEW k \in 1 .. Len(z), About(z[k], i) PROVE z[k].request \in 1 .. m
  <2>1. CASE k \in 1 .. w
    <3>1. z[k].request \in 1 .. n
      BY <1>1, <1>5, <2>1 DEF Flow
    <3> QED
      BY <3>1
  <2>2. CASE k - w \in 1 .. Len(p) /\ z[k] = p[k - w]
    <3>1. (z[k].request = r /\ r # 0) \/ (z[k].request = old /\ old # 0)
      BY <1>2, <2>2
    <3> QED
      BY <3>1
  <2> QED
    BY <1>1, <2>1, <2>2
<1>6. ASSUME r # 0, Carries(z, "clear", i, r) PROVE FALSE
  <2>1. PICK k \in 1 .. Len(z) : Is(z[k], "clear", i, r)
    BY <1>6 DEF Carries
  <2>2. CASE k \in 1 .. w
    <3>1. Carries(q, "clear", i, r)
      BY <1>1, <2>1, <2>2 DEF Carries
    <3>2. r # old
      BY <1>6, <3>1 DEF Flow
    <3>3. r \in 1 .. n
      BY <1>1, <2>1, <2>2 DEF Flow, About, Is
    <3> QED
      BY <1>6, <3>2, <3>3
  <2>3. CASE k - w \in 1 .. Len(p) /\ z[k] = p[k - w]
    BY <1>2, <2>1, <2>3 DEF Is
  <2> QED
    BY <1>1, <2>2, <2>3
<1>7. ASSUME r # 0, NEW k \in 1 .. Len(z)
      PROVE  \E l \in 1 .. Len(z) : l >= k /\ Is(z[l], "attention", i, r)
  <2>1. Len(z) >= k
    BY <1>1
  <2> QED
    BY <1>3, <1>7, <2>1
<1>8. ASSUME NEW k \in 1 .. Len(z),
             z[k].type = "attention" /\ z[k].instance = i /\ z[k].request # r
      PROVE  \E l \in 1 .. Len(z) : l > k /\ Is(z[l], "clear", i, z[k].request)
  <2>1. CASE k \in 1 .. w
    <3>1. z[k] = q[k]
      BY <1>1, <2>1
    <3>2. CASE q[k].request = old
      <4>1. old \in 1 .. n
        BY <1>8, <2>1, <3>1, <3>2 DEF Flow, About
      <4>2. PICK l \in 1 .. Len(z) : l > w /\ Is(z[l], "clear", i, old)
        BY <1>4, <1>8, <3>1, <3>2, <4>1
      <4>3. l > k
        BY <1>1, <2>1, <4>2
      <4> QED
        BY <3>1, <3>2, <4>2, <4>3
    <3>3. CASE q[k].request # old
      <4>1. PICK l \in 1 .. w : l > k /\ Is(q[l], "clear", i, q[k].request)
        BY <1>8, <2>1, <3>1, <3>3 DEF Flow
      <4>2. l \in 1 .. Len(z) /\ z[l] = q[l]
        BY <1>1
      <4> QED
        BY <3>1, <4>1, <4>2
    <3> QED
      BY <3>2, <3>3
  <2>2. CASE k - w \in 1 .. Len(p) /\ z[k] = p[k - w]
    BY <1>2, <1>8, <2>2
  <2> QED
    BY <1>1, <2>1, <2>2
<1>9. Flow(z, i, r, m)
  BY <1>5, <1>6, <1>7, <1>8 DEF Flow
<1>10. /\ r # 0 => Carries(z, "attention", i, r)
       /\ old # 0 /\ r # old => Carries(z, "clear", i, old)
  BY <1>3, <1>4 DEF Carries
<1>11. \A x : Carries(q, "clear", i, x) => Carries(z, "clear", i, x)
  BY <1>1 DEF Carries
<1> QED
  BY <1>9, <1>10, <1>11 DEF z

LEMMA TailConcat ==
  ASSUME NEW S, NEW a \in Seq(S), NEW b \in Seq(S), a # << >>
  PROVE  a \o b # << >> /\ Head(a \o b) = Head(a) /\ Tail(a \o b) = Tail(a) \o b
<1> DEFINE c == a \o b
           t == Tail(a)
           u == t \o b
<1>1. /\ t \in Seq(S) /\ Len(t) = Len(a) - 1 /\ Len(a) \in Nat /\ Len(a) >= 1 /\ Head(a) = a[1]
      /\ \A k \in 1 .. Len(t) : k + 1 \in 1 .. Len(a) /\ t[k] = a[k + 1]
  BY TailIs
<1> HIDE DEF t
<1>2. /\ c \in Seq(S) /\ Len(c) = Len(a) + Len(b) /\ Len(b) \in Nat
      /\ \A k \in 1 .. Len(a) : k \in 1 .. Len(c) /\ c[k] = a[k]
      /\ \A k \in 1 .. Len(b) : Len(a) + k \in 1 .. Len(c) /\ c[Len(a) + k] = b[k]
  BY ConcatIs
<1>3. /\ u \in Seq(S) /\ Len(u) = Len(t) + Len(b)
      /\ \A k \in 1 .. Len(t) : u[k] = t[k]
      /\ \A k \in 1 .. Len(u) :
           k \in 1 .. Len(t) \/ (k - Len(t) \in 1 .. Len(b) /\ u[k] = b[k - Len(t)])
  <2>1. t \in Seq(S)
    BY <1>1
  <2> QED
    BY <2>1, ConcatIs
<1> HIDE DEF c, u
<1>4. c # << >> /\ Head(c) = c[1] /\ c[1] = a[1]
  BY <1>1, <1>2
<1>5. /\ Tail(c) \in Seq(S) /\ Len(Tail(c)) = Len(c) - 1
      /\ \A k \in 1 .. Len(Tail(c)) : Tail(c)[k] = c[k + 1]
  BY <1>2, <1>4, TailIs
<1>6. Len(Tail(c)) = Len(u) /\ Len(u) \in Nat
  BY <1>1, <1>2, <1>3, <1>5
<1>7. ASSUME NEW k \in 1 .. Len(u) PROVE Tail(c)[k] = u[k]
  <2>1. Tail(c)[k] = c[k + 1]
    BY <1>5, <1>6
  <2>2. CASE k \in 1 .. Len(t)
    BY <1>1, <1>2, <1>3, <2>1, <2>2
  <2>3. CASE k - Len(t) \in 1 .. Len(b) /\ u[k] = b[k - Len(t)]
    <3>1. Len(a) + (k - Len(t)) = k + 1
      BY <1>1, <2>3
    <3> QED
      BY <1>2, <2>1, <2>3, <3>1
  <2> QED
    BY <1>3, <2>2, <2>3
<1>8. Tail(c) = u
  BY <1>3, <1>5, <1>6, <1>7, SeqEqual
<1> QED
  BY <1>1, <1>4, <1>8 DEF c, u, t

(* What has been handled is no longer waiting, and what has been sent to the    *)
(* device is no longer to be sent.                                              *)
Waiting == IF step = "badge" THEN Tail(tail) ELSE tail
Rest(i) == IF sending[i].stage = "sending" /\ sending[i].left = {}
           THEN Tail(chain[i]) ELSE chain[i]
Pipe(i) == (Waiting \o network) \o Rest(i)

LEMMA MsgAssociative ==
  ASSUME NEW a \in Seq(Msg), NEW b \in Seq(Msg), NEW c \in Seq(Msg)
  PROVE  (a \o b) \o c = a \o (b \o c)
BY ConcatAssociative

LEMMA PipeType ==
  ASSUME Composed, NEW i \in Instance
  PROVE  /\ Waiting \in Seq(Msg) /\ network \in Seq(Msg) /\ Waiting \o network \in Seq(Msg)
         /\ chain[i] \in Seq(Msg) /\ Rest(i) \in Seq(Msg) /\ Pipe(i) \in Seq(Msg)
         /\ tail \in Seq(Msg)
<1>1. /\ tail \in Seq(Worker!Push) /\ (step = "badge" => tail # << >>)
      /\ network \in Seq(Worker!Push)
  BY DEF Composed, WorkerInv, Worker!WorkerTypeOK, NetworkType
<1>2. Waiting \in Seq(Worker!Push)
  BY <1>1, HeadTailProperties DEF Waiting
<1>3. chain[i] \in Seq(Delivery) /\ (sending[i].stage # "idle" => chain[i] # << >>)
  BY SendingType DEF Composed
<1>4. Rest(i) \in Seq(Delivery)
  BY <1>3, HeadTailProperties DEF Rest
<1>5. Worker!Push \subseteq Msg /\ Delivery \subseteq Msg
  BY DEF Msg
<1>6. Waiting \in Seq(Msg) /\ network \in Seq(Msg) /\ tail \in Seq(Msg)
  BY <1>1, <1>2, <1>5, SeqMonotonic
<1>7. Rest(i) \in Seq(Msg) /\ chain[i] \in Seq(Msg)
  BY <1>3, <1>4, <1>5, SeqMonotonic
<1>8. Waiting \o network \in Seq(Msg)
  BY <1>6, ConcatProperties
<1> QED
  BY <1>6, <1>7, <1>8, ConcatProperties DEF Pipe

LEMMA ViewOfSelf ==
  ASSUME Composed, NEW i \in Instance, NEW j, Pipe(i)' = Pipe(i)
  PROVE  View(Pipe(i)', Pipe(i), j)
<1>1. Pipe(i) \in Seq(Msg)
  BY PipeType
<1>2. Len(Pipe(i)) \in Nat
  BY <1>1
<1> QED
  BY <1>2, ViewSame DEF Like

(* What is queued at the end of a chain is at the end of its pipeline.          *)
LEMMA PipeGrows ==
  ASSUME Composed, NEW i \in Instance, NEW p \in Seq(Delivery),
         chain' = [chain EXCEPT ![i] = @ \o p], UNCHANGED <<sending, network, tail, step>>
  PROVE  /\ p \in Seq(Msg) /\ Pipe(i)' = Pipe(i) \o p
         /\ \A j \in Instance : j # i => Pipe(j)' = Pipe(j)
<1>1. p \in Seq(Msg)
  BY SeqMonotonic DEF Msg
<1>2. Waiting' = Waiting
  BY DEF Waiting
<1>3. chain \in [Instance -> Seq(Delivery)]
  BY DEF Composed, Core, TypeOK
<1>4. chain'[i] = chain[i] \o p /\ \A j \in Instance : j # i => chain'[j] = chain[j]
  BY <1>3
<1>5. Rest(i)' = Rest(i) \o p
  <2>1. sending[i].stage # "idle" => chain[i] # << >>
    BY SendingType DEF Composed
  <2>2. chain[i] # << >> => Tail(chain[i] \o p) = Tail(chain[i]) \o p
    BY <1>1, PipeType, TailConcat
  <2> QED
    BY <1>4, <2>1, <2>2 DEF Rest
<1>6. Pipe(i)' = (Waiting \o network) \o (Rest(i) \o p)
  BY <1>2, <1>5 DEF Pipe
<1>7. Pipe(i)' = Pipe(i) \o p
  <2> DEFINE a == Waiting \o network
             b == Rest(i)
  <2>1. a \in Seq(Msg) /\ b \in Seq(Msg) /\ p \in Seq(Msg)
    BY <1>1, PipeType
  <2>2. a \o (b \o p) = (a \o b) \o p
    <3> HIDE DEF a, b
    <3> QED
      BY <2>1, MsgAssociative, Zenon
  <2> QED
    BY <1>6, <2>2 DEF Pipe
<1>8. ASSUME NEW j \in Instance, j # i PROVE Pipe(j)' = Pipe(j)
  <2>1. chain'[j] = chain[j]
    BY <1>4, <1>8
  <2>2. Rest(j)' = Rest(j)
    BY <2>1 DEF Rest
  <2> QED
    BY <1>2, <2>2 DEF Pipe
<1> QED
  BY <1>1, <1>7, <1>8

(* The steps that leave what is said of a session as it is.                     *)
LEMMA StopView ==
  ASSUME Composed, NEW j \in Instance, ActivityStop(j), UNCHANGED <<network, tail, step>>,
         NEW i \in Instance
  PROVE  View(Pipe(i)', Pipe(i), i)
<1>1. PICK p \in Seq(Delivery) :
        /\ Len(p) = 1 /\ p[1].type = "stop" /\ chain' = [chain EXCEPT ![j] = @ \o p]
  BY StopChain DEF Composed
<1>2. UNCHANGED <<sending, network, tail, step>>
  BY DEF ActivityStop
<1>3. CASE i = j
  <2> DEFINE m == p[1]
             q == Pipe(i)
  <2>1. p \in Seq(Msg) /\ Pipe(i)' = q \o p /\ q \in Seq(Msg)
    BY <1>1, <1>2, <1>3, PipeGrows, PipeType
  <2>2. p = <<m>> /\ m \in Msg
    BY <1>1, <2>1
  <2> HIDE DEF q, m
  <2>3. Append(q, m) = q \o p
    BY <2>1, <2>2, AppendIsConcat
  <2>4. Append(q, m) \in Seq(Msg)
    BY <2>1, <2>2
  <2>5. Append(q, m) \o << >> = Append(q, m) /\ q \o << >> = q
    BY <2>1, <2>4, ConcatEmptySeq
  <2>6. Gap(Append(q, m), q, Len(q), m)
    <3>1. << >> \in Seq(Msg)
      OBVIOUS
    <3>2. Gap(Append(q, m) \o << >>, q \o << >>, Len(q), m)
      BY <2>1, <2>2, <3>1, GapOfAppend
    <3> QED
      BY <2>5, <3>2
  <2>7. ~About(m, i)
    BY <1>1 DEF About, m
  <2>8. View(q \o p, q, i)
    BY <2>3, <2>6, <2>7, GapInserts
  <2> QED
    BY <2>1, <2>8 DEF q
<1>4. CASE i # j
  BY <1>1, <1>2, <1>4, PipeGrows, ViewOfSelf
<1> QED
  BY <1>3, <1>4

LEMMA StartView ==
  ASSUME Composed, NEW j \in Instance, StartSend(j), UNCHANGED <<network, tail, step>>,
         NEW i \in Instance
  PROVE  View(Pipe(i)', Pipe(i), i)
<1> DEFINE d == Head(chain[j])
           fresh == IF d.type = "stop" THEN [d EXCEPT !.count = PendingAskCount(ask)] ELSE d
           a == Waiting \o network
<1>1. /\ sending[j].stage = "idle" /\ chain[j] # << >> /\ chain[j] \in Seq(Delivery)
      /\ d \in Delivery
  BY SendingType DEF StartSend, Composed
<1>2. d.to = All /\ d.instance = j /\ Targets(d) # {}
  <2>1. d = chain[j][1] /\ 1 \in 1 .. Len(chain[j])
    BY <1>1
  <2> QED
    BY <2>1 DEF Composed, ChainsPlain, Targets
<1>3. fresh \in Delivery /\ Like(fresh, d)
  BY <1>1, CountType DEF Delivery, Like
<1>4. /\ chain \in [Instance -> Seq(Delivery)]
      /\ sending \in [Instance -> [stage : {"idle", "sending", "dropping"},
                                   left : SUBSET Sub, stale : SUBSET Sub]]
  BY DEF Composed, Core, TypeOK
<1>5. Waiting' = Waiting /\ a' = a /\ a \in Seq(Msg) /\ chain[j] \in Seq(Msg)
  BY PipeType DEF Waiting
<1>6. \/ d.type = "stop" /\ Finish(j)
      \/ /\ chain' = [chain EXCEPT ![j] = <<fresh>> \o Tail(@)]
         /\ sending' = [sending EXCEPT ![j] =
              [stage |-> "sending", left |-> Targets(d), stale |-> {}]]
  BY <1>2 DEF StartSend
<1>7. CASE i # j
  <2>1. chain'[i] = chain[i] /\ sending'[i] = sending[i]
    BY <1>4, <1>6, <1>7 DEF Finish
  <2>2. Pipe(i)' = Pipe(i)
    BY <1>5, <2>1 DEF Pipe, Rest
  <2> QED
    BY <2>2, ViewOfSelf
<1>8. CASE i = j /\ d.type = "stop" /\ Finish(j)
  <2>1. chain'[i] = Tail(chain[i]) /\ sending'[i].stage = "idle"
    BY <1>4, <1>8 DEF Finish, NotSending
  <2>2. Pipe(i)' = a \o Tail(chain[i]) /\ Pipe(i) = a \o chain[i]
    BY <1>1, <1>5, <1>8, <2>1 DEF Pipe, Rest
  <2> HIDE DEF a
  <2>3. Gap(a \o chain[i], a \o Tail(chain[i]), Len(a), d)
    BY <1>1, <1>5, <1>8, GapOfTail
  <2>4. ~About(d, i)
    BY <1>8 DEF About
  <2>5. View(a \o Tail(chain[i]), a \o chain[i], i)
    BY <2>3, <2>4, GapDrops
  <2> QED
    BY <2>2, <2>5
<1>9. CASE /\ i = j
           /\ chain' = [chain EXCEPT ![j] = <<fresh>> \o Tail(@)]
           /\ sending' = [sending EXCEPT ![j] =
                [stage |-> "sending", left |-> Targets(d), stale |-> {}]]
  <2> DEFINE c == chain[i]
             z == <<fresh>> \o Tail(c)
  <2>1. /\ chain'[i] = z /\ sending'[i].stage = "sending" /\ sending'[i].left = Targets(d)
    BY <1>4, <1>9
  <2>2. Pipe(i)' = a \o z /\ Pipe(i) = a \o c
    BY <1>1, <1>2, <1>5, <1>9, <2>1 DEF Pipe, Rest
  <2>3. /\ Tail(c) \in Seq(Msg) /\ Len(Tail(c)) = Len(c) - 1 /\ Len(c) \in Nat /\ Len(c) >= 1
        /\ d = c[1] /\ \A k \in 1 .. Len(c) : k # 1 =>
                          k - 1 \in 1 .. Len(Tail(c)) /\ Tail(c)[k - 1] = c[k]
    BY <1>1, <1>5, <1>9, TailIs
  <2>4. <<fresh>> \in Seq(Msg) /\ Len(<<fresh>>) = 1 /\ <<fresh>>[1] = fresh
    BY <1>3 DEF Msg
  <2>5. z \in Seq(Msg) /\ Len(z) = Len(c) /\ \A k \in 1 .. Len(c) : Like(z[k], c[k])
    <3> DEFINE t == Tail(c)
               f == <<fresh>>
    <3>1. /\ f \o t \in Seq(Msg) /\ Len(f \o t) = Len(f) + Len(t)
          /\ \A k \in 1 .. Len(f) : (f \o t)[k] = f[k]
          /\ \A k \in 1 .. Len(t) : (f \o t)[Len(f) + k] = t[k]
      <4> HIDE DEF t, f
      <4>1. f \in Seq(Msg) /\ t \in Seq(Msg)
        BY <2>3, <2>4 DEF f, t
      <4> QED
        BY <4>1, ConcatIs
    <3>2. z \in Seq(Msg) /\ Len(z) = Len(c)
      BY <2>3, <2>4, <3>1
    <3>3. z[1] = fresh
      BY <2>4, <3>1
    <3>4. ASSUME NEW k \in 1 .. Len(c), k # 1 PROVE z[k] = c[k]
      <4>1. k - 1 \in 1 .. Len(t) /\ t[k - 1] = c[k]
        BY <2>3, <3>4
      <4>2. 1 + (k - 1) = k
        OBVIOUS
      <4> QED
        BY <2>4, <3>1, <4>1, <4>2
    <3> HIDE DEF z, c, d, fresh
    <3> QED
      BY <1>3, <2>3, <3>2, <3>3, <3>4 DEF Like
  <2> HIDE DEF z, c, a, d, fresh
  <2>6. c \in Seq(Msg) /\ a \in Seq(Msg)
    BY <1>5, <1>9 DEF c, a
  <2>7. /\ Len(a \o z) = Len(a) + Len(z) /\ Len(a) \in Nat
        /\ \A k \in 1 .. Len(a) : (a \o z)[k] = a[k]
        /\ \A k \in 1 .. Len(z) : (a \o z)[Len(a) + k] = z[k]
    <3>1. a \in Seq(Msg) /\ z \in Seq(Msg)
      BY <2>5, <2>6
    <3> QED
      BY <3>1, ConcatIs
  <2>8. /\ Len(a \o c) = Len(a) + Len(c)
        /\ \A k \in 1 .. Len(a) : (a \o c)[k] = a[k]
        /\ \A k \in 1 .. Len(c) : (a \o c)[Len(a) + k] = c[k]
    BY <2>6, ConcatIs
  <2>9. ASSUME NEW k \in 1 .. Len(a \o c) PROVE Like((a \o z)[k], (a \o c)[k])
    <3>1. CASE k \in 1 .. Len(a)
      BY <2>7, <2>8, <3>1 DEF Like
    <3>2. CASE k \notin 1 .. Len(a)
      <4>1. k - Len(a) \in 1 .. Len(c) /\ Len(a) + (k - Len(a)) = k
        BY <2>3, <2>7, <2>8, <3>2
      <4>2. (a \o z)[k] = z[k - Len(a)] /\ (a \o c)[k] = c[k - Len(a)]
        BY <2>5, <2>7, <2>8, <4>1
      <4> QED
        BY <2>5, <4>1, <4>2
    <3> QED
      BY <3>1, <3>2
  <2>10. Len(a \o z) = Len(a \o c) /\ Len(a \o c) \in Nat
    BY <2>3, <2>5, <2>7, <2>8
  <2>11. View(a \o z, a \o c, i)
    BY <2>9, <2>10, ViewSame
  <2> QED
    BY <2>2, <2>11
<1> QED
  BY <1>6, <1>7, <1>8, <1>9

LEMMA DoneView ==
  ASSUME Composed, NEW j \in Instance, SendsDone(j), UNCHANGED <<network, tail, step>>,
         NEW i \in Instance
  PROVE  View(Pipe(i)', Pipe(i), i)
<1>1. sending[j].stage = "sending" /\ sending[j].left = {} /\ Finish(j)
  BY DEF SendsDone, Composed, ChainsPlain
<1>2. /\ chain \in [Instance -> Seq(Delivery)]
      /\ sending \in [Instance -> [stage : {"idle", "sending", "dropping"},
                                   left : SUBSET Sub, stale : SUBSET Sub]]
  BY DEF Composed, Core, TypeOK
<1>3. Waiting' = Waiting
  BY DEF Waiting
<1>4. Rest(i)' = Rest(i)
  BY <1>1, <1>2 DEF Rest, Finish, NotSending
<1> QED
  BY <1>3, <1>4, ViewOfSelf DEF Pipe

LEMMA SendView ==
  ASSUME Composed, NEW j \in Instance, NEW s \in Sub, Send(j, s), NEW i \in Instance
  PROVE  View(Pipe(i)', Pipe(i), i)
<1> DEFINE d == Head(chain[j])
           h == PushOf(d)
           a == Waiting \o network
           b == Rest(i)
<1>1. /\ sending[j].stage = "sending" /\ s \in sending[j].left
      /\ sending' = [sending EXCEPT ![j].left = @ \ {s}]
      /\ network' = Append(network, h)
      /\ UNCHANGED <<chain, tail, step>>
  BY DEF Send, SendOk, Sent, phoneVars
<1>2. chain[j] # << >> /\ d \in Delivery /\ chain[j] \in Seq(Delivery)
  BY <1>1, SendingType DEF Composed
<1>3. d.instance = j
  <2>1. d = chain[j][1] /\ 1 \in 1 .. Len(chain[j])
    BY <1>2
  <2> QED
    BY <2>1 DEF Composed, ChainsPlain
<1>4. h \in Msg /\ Like(h, d)
  BY <1>2, PushType DEF Msg, Like
<1>5. /\ a \in Seq(Msg) /\ Waiting \in Seq(Msg) /\ network \in Seq(Msg) /\ b \in Seq(Msg)
      /\ chain[j] \in Seq(Msg)
  BY PipeType
<1>6. /\ sending'[j].stage = "sending" /\ sending'[j].left = sending[j].left \ {s}
      /\ i # j => sending'[i] = sending[i]
  BY <1>1, SendingType DEF Composed
<1>7. Waiting' \o network' = Append(a, h)
  <2>1. Waiting' = Waiting
    BY <1>1 DEF Waiting
  <2>2. <<h>> \in Seq(Msg) /\ Append(network, h) = network \o <<h>>
    BY <1>4, <1>5, AppendIsConcat
  <2>3. Append(a, h) = a \o <<h>>
    BY <1>4, <1>5, AppendIsConcat
  <2>4. a \o <<h>> = Waiting \o (network \o <<h>>)
    <3> DEFINE c == <<h>>
    <3>1. Waiting \in Seq(Msg) /\ network \in Seq(Msg) /\ c \in Seq(Msg)
      BY <1>5, <2>2
    <3> HIDE DEF c
    <3>2. (Waiting \o network) \o c = Waiting \o (network \o c)
      BY <3>1, MsgAssociative, Zenon
    <3> QED
      BY <3>2 DEF c
  <2> QED
    BY <1>1, <2>1, <2>2, <2>3, <2>4
<1>8. Pipe(i)' = Append(a, h) \o Rest(i)' /\ Pipe(i) = a \o b
  BY <1>7 DEF Pipe
<1> HIDE DEF a, b, h, d
<1>9. CASE i # j
  <2>1. Rest(i)' = b
    BY <1>1, <1>6, <1>9 DEF Rest, b
  <2>2. Gap(Append(a, h) \o b, a \o b, Len(a), h)
    BY <1>4, <1>5, GapOfAppend
  <2>3. ~About(h, i)
    BY <1>3, <1>4, <1>9 DEF About, Like
  <2>4. View(Append(a, h) \o b, a \o b, i)
    BY <2>2, <2>3, GapInserts
  <2> QED
    BY <1>8, <2>1, <2>4
<1>10. CASE i = j /\ sending'[j].left # {}
  <2>1. b = chain[j] /\ Rest(i)' = chain[j]
    BY <1>1, <1>6, <1>10 DEF Rest, b
  <2>2. Gap(Append(a, h) \o b, a \o b, Len(a), h)
    BY <1>4, <1>5, GapOfAppend
  <2>3. Len(a) + 1 \in 1 .. Len(a \o b) /\ (a \o b)[Len(a) + 1] = d
    <3>1. 1 \in 1 .. Len(b) /\ b[1] = d
      BY <1>2, <2>1 DEF d
    <3> QED
      BY <1>5, <3>1, ConcatIs
  <2>4. View(Append(a, h) \o b, a \o b, i)
    BY <1>4, <2>2, <2>3, GapInserts
  <2> QED
    BY <1>8, <2>1, <2>4
<1>11. CASE i = j /\ sending'[j].left = {}
  <2> DEFINE z == Append(a, h)
             t == Tail(b)
  <2>1. b = chain[j] /\ Rest(i)' = t
    BY <1>1, <1>6, <1>11 DEF Rest, b
  <2>2. /\ t \in Seq(Msg) /\ Len(t) = Len(b) - 1 /\ Len(b) \in Nat /\ Len(b) >= 1 /\ b[1] = d
        /\ \A k \in 1 .. Len(t) : k + 1 \in 1 .. Len(b) /\ t[k] = b[k + 1]
    BY <1>2, <1>5, <2>1, TailIs DEF d
  <2>3. /\ z \in Seq(Msg) /\ Len(z) = Len(a) + 1 /\ Len(a) \in Nat /\ z[Len(a) + 1] = h
        /\ \A k \in 1 .. Len(a) : z[k] = a[k]
    BY <1>4, <1>5
  <2> HIDE DEF z, t
  <2>4. /\ Len(z \o t) = Len(z) + Len(t)
        /\ \A k \in 1 .. Len(z) : (z \o t)[k] = z[k]
        /\ \A k \in 1 .. Len(t) : (z \o t)[Len(z) + k] = t[k]
    <3>1. z \in Seq(Msg) /\ t \in Seq(Msg)
      BY <2>2, <2>3
    <3> QED
      BY <3>1, ConcatIs
  <2>5. /\ Len(a \o b) = Len(a) + Len(b)
        /\ \A k \in 1 .. Len(a) : (a \o b)[k] = a[k]
        /\ \A k \in 1 .. Len(b) : (a \o b)[Len(a) + k] = b[k]
    <3>1. a \in Seq(Msg) /\ b \in Seq(Msg)
      BY <1>5
    <3> QED
      BY <3>1, ConcatIs
  <2>6. ASSUME NEW k \in 1 .. Len(a \o b) PROVE Like((z \o t)[k], (a \o b)[k])
    <3>1. CASE k \in 1 .. Len(a)
      <4>1. k \in 1 .. Len(z)
        BY <2>3, <3>1
      <4> QED
        BY <2>3, <2>4, <2>5, <3>1, <4>1 DEF Like
    <3>2. CASE k = Len(a) + 1
      <4>1. k \in 1 .. Len(z) /\ 1 \in 1 .. Len(b)
        BY <2>2, <2>3, <3>2
      <4>2. (z \o t)[k] = h /\ (a \o b)[k] = d
        BY <2>2, <2>3, <2>4, <2>5, <3>2, <4>1
      <4> QED
        BY <1>4, <4>2
    <3>3. CASE k > Len(a) + 1
      <4> DEFINE l == k - (Len(a) + 1)
      <4>1. l \in 1 .. Len(t) /\ Len(z) + l = k /\ Len(a) + (l + 1) = k
        BY <2>2, <2>3, <2>5, <3>3
      <4> HIDE DEF l
      <4>2. (z \o t)[k] = t[l]
        BY <2>4, <4>1
      <4>3. t[l] = b[l + 1] /\ l + 1 \in 1 .. Len(b)
        BY <2>2, <4>1
      <4>4. (a \o b)[k] = b[l + 1]
        BY <2>5, <4>1, <4>3
      <4> QED
        BY <4>2, <4>3, <4>4 DEF Like
    <3> QED
      <4>1. k \in 1 .. Len(a) \/ k = Len(a) + 1 \/ k > Len(a) + 1
        BY <2>2, <2>3, <2>5
      <4> QED
        BY <3>1, <3>2, <3>3, <4>1
  <2>7. Len(z \o t) = Len(a \o b) /\ Len(a \o b) \in Nat
    BY <2>2, <2>3, <2>4, <2>5
  <2>8. View(z \o t, a \o b, i)
    BY <2>6, <2>7, ViewSame
  <2> QED
    BY <1>8, <2>1, <2>8 DEF z
<1> QED
  BY <1>9, <1>10, <1>11

(* The message that arrives first is the first on its way.                      *)
LEMMA ArriveView ==
  ASSUME Composed, 1 \in DOMAIN network, Arrive(1), NEW i \in Instance
  PROVE  View(Pipe(i)', Pipe(i), i)
<1> DEFINE w == Waiting
           q == network
           t == Tail(network)
           h == network[1]
<1>1. /\ tail' = Append(tail, h) /\ step' = step /\ UNCHANGED <<chain, sending>>
      /\ network' = RemoveAt(network, 1)
  BY DEF Arrive, Worker!Receive, vars
<1>2. /\ w \in Seq(Msg) /\ q \in Seq(Msg) /\ tail \in Seq(Msg)
      /\ (step = "badge" => tail # << >>)
  BY PipeType DEF Composed, WorkerInv, Worker!WorkerTypeOK
<1>3. network' = t /\ t \in Seq(Msg) /\ h \in Msg /\ q = <<h>> \o t
  <2>1. network' = t
    BY <1>1, <1>2, FirstRemoved
  <2>2. q # << >>
    BY <1>2
  <2>3. t \in Seq(Msg) /\ h \in Msg /\ <<h>> \in Seq(Msg)
    BY <1>2, <2>2
  <2>4. q = <<h>> \o t
    BY <1>2, <2>2, <2>3
  <2> QED
    BY <2>1, <2>3, <2>4
<1>4. Waiting' = Append(w, h)
  BY <1>1, <1>2, HeadTailAppend DEF Waiting
<1>5. Waiting' \o network' = w \o q
  <2> HIDE DEF w, q, t, h
  <2>1. Append(w, h) = w \o <<h>> /\ <<h>> \in Seq(Msg)
    BY <1>2, <1>3, AppendIsConcat
  <2>2. (w \o <<h>>) \o t = w \o (<<h>> \o t)
    <3> DEFINE c == <<h>>
    <3>1. w \in Seq(Msg) /\ c \in Seq(Msg) /\ t \in Seq(Msg)
      BY <1>2, <1>3, <2>1
    <3> HIDE DEF c
    <3>2. (w \o c) \o t = w \o (c \o t)
      BY <3>1, MsgAssociative, Zenon
    <3> QED
      BY <3>2 DEF c
  <2> QED
    BY <1>3, <1>4, <2>1, <2>2
<1>6. Rest(i)' = Rest(i)
  BY <1>1 DEF Rest
<1>7. Pipe(i)' = Pipe(i)
  BY <1>5, <1>6 DEF Pipe
<1> QED
  BY <1>7, ViewOfSelf

(* What handles an event takes it from the front of every pipeline.             *)
LEMMA HandledPops ==
  ASSUME Composed, step \in {"read", "settled"}, step' = "badge",
         UNCHANGED <<tail, network, chain, sending>>, NEW i \in Instance
  PROVE  /\ Pipe(i) \in Seq(Msg) /\ Pipe(i) # << >> /\ Head(Pipe(i)) = Worker!event
         /\ Pipe(i)' = Tail(Pipe(i))
         /\ Worker!event \in Worker!Push /\ Worker!tag \in Instance
<1>1. tail # << >> /\ tail \in Seq(Worker!Push)
  BY DEF Composed, WorkerInv, Worker!WorkerTypeOK
<1>2. /\ tail \in Seq(Msg) /\ network \in Seq(Msg) /\ Rest(i) \in Seq(Msg)
      /\ Pipe(i) \in Seq(Msg)
  BY PipeType
<1>3. Waiting = tail /\ Waiting' = Tail(tail) /\ Rest(i)' = Rest(i)
  BY DEF Waiting, Rest
<1>4. /\ tail \o network # << >> /\ Head(tail \o network) = Head(tail)
      /\ Tail(tail \o network) = Tail(tail) \o network
  BY <1>1, <1>2, TailConcat
<1>5. tail \o network \in Seq(Msg)
  BY <1>2, ConcatProperties
<1> DEFINE a == tail \o network
           b == Rest(i)
<1>6. a \o b # << >> /\ Head(a \o b) = Head(a) /\ Tail(a \o b) = Tail(a) \o b
  <2> HIDE DEF a, b
  <2>1. a \in Seq(Msg) /\ b \in Seq(Msg) /\ a # << >>
    BY <1>2, <1>4, <1>5 DEF a, b
  <2> QED
    BY <2>1, TailConcat
<1>7. Pipe(i) = a \o b /\ Pipe(i)' = Tail(a) \o b
  BY <1>3, <1>4 DEF Pipe
<1>8. Worker!event \in Worker!Push /\ Worker!tag \in Instance
  <2>1. Worker!event \in Worker!Push
    BY <1>1, HeadTailProperties DEF Worker!event
  <2> QED
    BY <2>1 DEF Worker!tag, Worker!Push
<1> QED
  BY <1>2, <1>4, <1>6, <1>7, <1>8 DEF Worker!event

-----------------------------------------------------------------------------
(* While nothing is lost or late: a session's messages are in order, its        *)
(* pending ask is shown, closed or coming, and what is shown of another one has *)
(* its end coming.                                                              *)

InOrder(i) == smooth => Flow(Pipe(i), i, ask[i], made[i].asks)

AskComes(i) ==
  smooth /\ ask[i] # 0 =>
    \/ ShowsAsk(i, ask[i]) \/ <<i, ask[i]>> \in closed
    \/ Carries(Pipe(i), "attention", i, ask[i])

EndComes(i) ==
  smooth => \A r \in 0 .. MaxAsks :
    ShowsAsk(i, r) => r # 0 /\ (r # ask[i] => Carries(Pipe(i), "clear", i, r))

(* What a handler saw displayed is displayed still, or the user has closed it;  *)
(* and only a clear waits for its notification to be posted.                    *)
SeenOrClosed ==
  step = "read" /\ seen # None /\ seen.type = "attention" =>
    note[Worker!tag] = seen \/ <<Worker!tag, seen.request>> \in closed
ClearWaits == step \in {"settling", "settled"} => Worker!event.type = "clear"

Shown(i) == InOrder(i) /\ AskComes(i) /\ EndComes(i)

AlertInv == SeenOrClosed /\ ClearWaits /\ \A i \in Instance : Shown(i)

(* Nothing new is said of i, and its notification stays or is closed.           *)
LEMMA ViewShown ==
  ASSUME Composed, NEW i \in Instance, Shown(i), smooth' => smooth,
         ask'[i] = ask[i], made'[i].asks = made[i].asks,
         View(Pipe(i)', Pipe(i), i), closed \subseteq closed',
         note'[i] = note[i] \/ (note'[i] = None /\ <<i, note[i].request>> \in closed')
  PROVE  Shown(i)'
<1>1. InOrder(i)'
  BY ViewFlow DEF Shown, InOrder
<1>2. AskComes(i)'
  <2> SUFFICES ASSUME smooth', ask[i] # 0,
                      ~Carries(Pipe(i)', "attention", i, ask[i]), <<i, ask[i]>> \notin closed'
               PROVE  ShowsAsk(i, ask[i])'
    BY DEF AskComes
  <2>1. ~Carries(Pipe(i), "attention", i, ask[i])
    BY ViewCarries
  <2>2. ShowsAsk(i, ask[i])
    BY <2>1 DEF Shown, AskComes
  <2> QED
    BY <2>2 DEF ShowsAsk
<1>3. EndComes(i)'
  <2> SUFFICES ASSUME smooth', NEW r \in 0 .. MaxAsks, ShowsAsk(i, r)'
               PROVE  r # 0 /\ (r # ask[i] => Carries(Pipe(i)', "clear", i, r))
    BY DEF EndComes
  <2>1. ShowsAsk(i, r)
    BY DEF ShowsAsk
  <2>2. r # 0 /\ (r # ask[i] => Carries(Pipe(i), "clear", i, r))
    BY <2>1 DEF Shown, EndComes
  <2> QED
    BY <2>2, ViewCarries
<1> QED
  BY <1>1, <1>2, <1>3 DEF Shown

(* The registry asks, replaces, renews or ends the ask of a session.            *)
LEMMA EventShown ==
  ASSUME Composed, NEW j \in Instance, Ask(j) \/ Resolve(j) \/ Renew(j),
         UNCHANGED <<network, phoneVars, closed, smooth>>, NEW i \in Instance, Shown(i)
  PROVE  Shown(i)'
<1>1. /\ ask \in [Instance -> 0 .. MaxAsks] /\ MaxAsks \in Nat
      /\ made \in [Instance -> [asks : 0 .. MaxAsks, renewals : Nat, stops : Nat]]
      /\ ask[j] <= made[j].asks
  BY BoundsType DEF Composed, Core, TypeOK, Counted, ChainsPlain
<1>2. PICK r \in 0 .. MaxAsks :
        /\ RegistryEvent(j, r)
        /\ r = ask[j] \/ r = 0 \/ r > made[j].asks
        /\ made[j].asks <= made'[j].asks /\ made'[j].asks \in Nat
        /\ r <= made'[j].asks
        /\ \A k \in Instance : k # j => made'[k] = made[k]
  <2>1. CASE Ask(j)
    <3>1. made'[j].asks = made[j].asks + 1 /\ \A k \in Instance : k # j => made'[k] = made[k]
      BY <1>1, <2>1 DEF Ask
    <3>2. made[j].asks + 1 \in 0 .. MaxAsks /\ made[j].asks \in Nat
      BY <1>1, <2>1 DEF Ask
    <3>3. RegistryEvent(j, made[j].asks + 1)
      BY <2>1 DEF Ask
    <3> QED
      BY <3>1, <3>2, <3>3
  <2>2. CASE Resolve(j)
    BY <1>1, <2>2 DEF Resolve
  <2>3. CASE Renew(j)
    <3>1. made'[j].asks = made[j].asks /\ \A k \in Instance : k # j => made'[k] = made[k]
      BY <1>1, <2>3 DEF Renew
    <3>2. RegistryEvent(j, ask[j]) /\ ask[j] \in 0 .. MaxAsks /\ made[j].asks \in Nat
      BY <1>1, <2>3 DEF Renew
    <3> QED
      BY <1>1, <3>1, <3>2
  <2> QED
    BY <2>1, <2>2, <2>3
<1>3. PICK p \in Seq(Delivery) :
        p = Announced(j, ask[j], r, ask') /\ chain' = [chain EXCEPT ![j] = @ \o p]
  BY EventChain, <1>2 DEF Composed
<1>4. Says(p, j, ask[j], r)
  BY <1>1, <1>3, AnnouncedSays
<1>5. ask' = [ask EXCEPT ![j] = r] /\ UNCHANGED <<sending, tail, step, network>>
  BY <1>2 DEF RegistryEvent, phoneVars
<1>6. UNCHANGED <<note, closed, smooth>>
  BY DEF phoneVars
<1>7. CASE i # j
  <2>1. Pipe(i)' = Pipe(i)
    BY <1>3, <1>5, <1>7, PipeGrows
  <2>2. View(Pipe(i)', Pipe(i), i)
    BY <2>1, ViewOfSelf
  <2>3. ask'[i] = ask[i] /\ made'[i].asks = made[i].asks
    BY <1>1, <1>2, <1>5, <1>7
  <2> QED
    BY <1>6, <2>2, <2>3, ViewShown
<1>8. CASE i = j
  <2> DEFINE q == Pipe(i)
             old == ask[i]
             n == made[i].asks
             m == made'[i].asks
  <2>1. p \in Seq(Msg) /\ Pipe(i)' = q \o p /\ q \in Seq(Msg)
    BY <1>3, <1>5, <1>8, PipeGrows, PipeType
  <2>2. /\ old \in Nat /\ r \in Nat /\ n \in Nat /\ m \in Nat
        /\ old <= n /\ n <= m /\ r <= m /\ (r = old \/ r = 0 \/ r > n)
        /\ ask'[i] = r
    BY <1>1, <1>2, <1>5, <1>8
  <2>3. Says(p, i, old, r)
    BY <1>4, <1>8
  <2>4. smooth' => Flow(q, i, old, n)
    BY <1>6 DEF Shown, InOrder
  <2>5. smooth' => (\A x \in 0 .. MaxAsks :
          ShowsAsk(i, x) => x # 0 /\ (x # old => Carries(q, "clear", i, x)))
    BY <1>6 DEF Shown, EndComes
  <2>6. \A x : ShowsAsk(i, x)' <=> ShowsAsk(i, x)
    BY <1>6 DEF ShowsAsk
  <2> HIDE DEF q, old, n, m
  <2>7. ASSUME smooth'
        PROVE  /\ Flow(q \o p, i, r, m)
               /\ r # 0 => Carries(q \o p, "attention", i, r)
               /\ old # 0 /\ r # old => Carries(q \o p, "clear", i, old)
               /\ \A x : Carries(q, "clear", i, x) => Carries(q \o p, "clear", i, x)
    BY <2>1, <2>2, <2>3, <2>4, <2>7, FlowGrows
  <2>8. InOrder(i)'
    BY <2>1, <2>2, <2>7 DEF InOrder, m
  <2>9. AskComes(i)'
    BY <2>1, <2>2, <2>7 DEF AskComes
  <2>10. EndComes(i)'
    <3> SUFFICES ASSUME smooth', NEW x \in 0 .. MaxAsks, ShowsAsk(i, x)'
                 PROVE  x # 0 /\ (x # r => Carries(q \o p, "clear", i, x))
      BY <2>1, <2>2 DEF EndComes
    <3>1. x # 0 /\ (x # old => Carries(q, "clear", i, x))
      BY <2>5, <2>6
    <3> QED
      BY <2>7, <3>1
  <2> QED
    BY <2>8, <2>9, <2>10 DEF Shown
<1> QED
  BY <1>7, <1>8

(* What the handler of an event does to the notification of the event's session: *)
(* a clear closes its own request alone and leaves none of it, a message that is  *)
(* left changes nothing, and a stop is not shown over an ask.                     *)
LEMMA CloseCases ==
  ASSUME Composed, ClearWaits, Worker!Close
  PROVE  /\ step \in {"read", "settled"} /\ step' = "badge" /\ UNCHANGED tail
         /\ Worker!event.type = "clear"
         /\ \A i \in Instance : i # Worker!tag => note'[i] = note[i]
         /\ \/ /\ note'[Worker!tag] = note[Worker!tag]
               /\ ~Worker!MatchesRequest(note[Worker!tag], Worker!event)
            \/ /\ note'[Worker!tag] = None
               /\ \/ note[Worker!tag] = None
                  \/ Worker!MatchesRequest(note[Worker!tag], Worker!event)
<1>1. /\ step \in {"read", "settled"} /\ step' = "badge" /\ UNCHANGED tail
      /\ Worker!event.type = "clear"
  BY DEF Worker!Close, ClearWaits
<1>2. /\ Worker!WorkerTypeOK /\ SawIt /\ PostingIsRecent /\ SettledIsPosted
      /\ note \in [Instance -> Worker!Note \cup {None}]
  BY DEF Composed, WorkerInv, Worker!WorkerTypeOK
<1>3. Worker!tag \in Instance /\ note[Worker!tag] \in {seen, None}
  BY <1>1, <1>2, TailType DEF Worker!event, Worker!tag, Worker!Push, SawIt
<1>4. CASE Worker!MatchesRequest(seen, Worker!event)
  <2>1. Worker!tag \notin posting
    BY <1>2, <1>4, ClosesWhatIsPosted
  <2>2. note' = IF note[Worker!tag] = seen THEN [note EXCEPT ![Worker!tag] = None] ELSE note
    BY <1>4, <2>1 DEF Worker!Close
  <2>3. CASE note[Worker!tag] = seen
    <3>1. note'[Worker!tag] = None /\ \A i \in Instance : i # Worker!tag => note'[i] = note[i]
      BY <1>2, <1>3, <2>2, <2>3
    <3> QED
      BY <1>1, <1>4, <2>3, <3>1
  <2>4. CASE note[Worker!tag] # seen
    BY <1>1, <1>3, <2>2, <2>4
  <2> QED
    BY <2>3, <2>4
<1>5. CASE ~Worker!MatchesRequest(seen, Worker!event)
  <2>1. note' = note
    BY <1>5 DEF Worker!Close
  <2>2. ~Worker!MatchesRequest(note[Worker!tag], Worker!event)
    BY <1>3, <1>5 DEF Worker!MatchesRequest
  <2> QED
    BY <1>1, <2>1, <2>2
<1> QED
  BY <1>4, <1>5

LEMMA LeaveCases ==
  ASSUME Composed, SeenOrClosed, Worker!Leave
  PROVE  /\ step \in {"read", "settled"} /\ step' = "badge" /\ UNCHANGED <<tail, note>>
         /\ \/ Worker!event.type = "stop"
            \/ /\ Worker!event.type = "attention"
               /\ \/ ShowsAsk(Worker!tag, Worker!event.request)
                  \/ <<Worker!tag, Worker!event.request>> \in closed
<1>1. step = "read" /\ step' = "badge" /\ UNCHANGED <<tail, note>>
  BY DEF Worker!Leave
<1>2. CASE Worker!Outranked(Worker!event)
  BY <1>1, <1>2 DEF Worker!Outranked
<1>3. CASE Worker!event.type = "attention" /\ Worker!MatchesRequest(seen, Worker!event)
  <2>1. seen # None /\ seen.type = "attention" /\ seen.request = Worker!event.request
    BY <1>3 DEF Worker!MatchesRequest
  <2>2. note[Worker!tag] = seen \/ <<Worker!tag, seen.request>> \in closed
    BY <1>1, <2>1 DEF SeenOrClosed
  <2> QED
    BY <1>1, <1>3, <2>1, <2>2 DEF ShowsAsk
<1> QED
  BY <1>2, <1>3 DEF Worker!Leave

LEMMA ShowCases ==
  ASSUME Composed, Worker!Show
  PROVE  /\ step \in {"read", "settled"} /\ step' = "badge" /\ UNCHANGED tail
         /\ Worker!event.type # "clear"
         /\ \A i \in Instance : i # Worker!tag => note'[i] = note[i]
         /\ note'[Worker!tag] # None /\ note'[Worker!tag].type = Worker!event.type
         /\ note'[Worker!tag].request = Worker!event.request
         /\ Worker!event.type = "stop" => \A r : ~ShowsAsk(Worker!tag, r)
<1>1. step = "read" /\ step' = "badge" /\ UNCHANGED tail /\ Worker!event.type # "clear"
  BY DEF Worker!Show
<1>2. /\ Worker!WorkerTypeOK /\ SawIt /\ note \in [Instance -> Worker!Note \cup {None}]
  BY DEF Composed, WorkerInv, Worker!WorkerTypeOK
<1>3. Worker!tag \in Instance /\ note[Worker!tag] \in {seen, None}
  BY <1>1, <1>2, TailType DEF Worker!event, Worker!tag, Worker!Push, SawIt
<1> DEFINE n == [type |-> Worker!event.type, request |-> Worker!event.request]
<1>4. note' = [note EXCEPT ![Worker!tag] = n]
  BY DEF Worker!Show
<1>5. n.type = Worker!event.type /\ n.request = Worker!event.request /\ n # None
  <2>1. Worker!event \in Worker!Push
    BY <1>1, <1>2, TailType DEF Worker!event
  <2>2. Worker!event.type \in {"attention", "stop"} /\ Worker!event.request \in 0 .. MaxAsks
    BY <1>1, <2>1 DEF Worker!Push
  <2>3. None \notin Worker!Note
    BY AlertAssumption
  <2> QED
    BY <2>2, <2>3 DEF Worker!Note
<1> HIDE DEF n
<1>6. note'[Worker!tag] = n /\ \A i \in Instance : i # Worker!tag => note'[i] = note[i]
  BY <1>2, <1>3, <1>4
<1>7. Worker!event.type = "stop" => \A r : ~ShowsAsk(Worker!tag, r)
  BY <1>3 DEF Worker!Show, Worker!Outranked, ShowsAsk
<1> QED
  BY <1>1, <1>5, <1>6, <1>7

LEMMA HandledShown ==
  ASSUME Composed, AlertInv, Worker!Close \/ Worker!Leave \/ Worker!Show,
         UNCHANGED <<vars, network, closed, smooth>>, NEW i \in Instance
  PROVE  Shown(i)'
<1> DEFINE q == Pipe(i)
           r == ask[i]
           n == made[i].asks
           e == Worker!event
           g == Worker!tag
<1>1. /\ Shown(i) /\ SeenOrClosed /\ ClearWaits
      /\ UNCHANGED <<ask, made, chain, sending, network, closed, smooth>>
  BY DEF AlertInv, vars
<1>2. step \in {"read", "settled"} /\ step' = "badge" /\ UNCHANGED tail
  BY <1>1, CloseCases, LeaveCases, ShowCases
<1>3. /\ q \in Seq(Msg) /\ q # << >> /\ Head(q) = e /\ Pipe(i)' = Tail(q)
      /\ e \in Worker!Push /\ g \in Instance /\ e.instance = g
  BY <1>1, <1>2, HandledPops DEF Worker!tag
<1>4. smooth => Flow(q, i, r, n)
  BY <1>1 DEF Shown, InOrder
<1>5. smooth /\ r # 0 => ShowsAsk(i, r) \/ <<i, r>> \in closed \/ Carries(q, "attention", i, r)
  BY <1>1 DEF Shown, AskComes
<1>6. smooth => \A x \in 0 .. MaxAsks :
        ShowsAsk(i, x) => x # 0 /\ (x # r => Carries(q, "clear", i, x))
  BY <1>1 DEF Shown, EndComes
<1>7. ask'[i] = r /\ made'[i].asks = n /\ smooth' = smooth /\ closed' = closed
  BY <1>1
<1>8. /\ q[1] = e /\ 1 \in 1 .. Len(q)
      /\ \A type, x : Carries(q, type, i, x) /\ ~Is(e, type, i, x) => Carries(Tail(q), type, i, x)
  BY <1>3, CarriesPops
<1>a. \A x : ShowsAsk(i, x)' <=> /\ note'[i] # None /\ note'[i].type = "attention"
                                 /\ note'[i].request = x
  BY DEF ShowsAsk
<1>b. r \in 0 .. MaxAsks /\ e.type \in {"attention", "clear", "stop"}
  <2>1. ask \in [Instance -> 0 .. MaxAsks]
    BY DEF Composed, Core, TypeOK
  <2> QED
    BY <1>3, <2>1 DEF Worker!Push
<1>9. InOrder(i)'
  BY <1>3, <1>4, <1>7, FlowPops DEF InOrder
<1>10. smooth /\ r # 0 =>
         \/ note'[i] # None /\ note'[i].type = "attention" /\ note'[i].request = r
         \/ <<i, r>> \in closed \/ Carries(Tail(q), "attention", i, r)
  <2> HIDE DEF q, r, n
  <2> SUFFICES ASSUME smooth, r # 0, ~Carries(Tail(q), "attention", i, r), <<i, r>> \notin closed
               PROVE  note'[i] # None /\ note'[i].type = "attention" /\ note'[i].request = r
    OBVIOUS
  <2>1. CASE i # g
    <3>1. note'[i] = note[i]
      BY <1>1, <2>1, CloseCases, LeaveCases, ShowCases
    <3>2. ~Is(e, "attention", i, r)
      BY <1>3, <2>1 DEF Is
    <3>3. ShowsAsk(i, r)
      BY <1>5, <1>8, <3>2
    <3> QED
      BY <3>1, <3>3 DEF ShowsAsk
  <2>2. CASE i = g /\ Worker!Close
    <3>1. e.type = "clear" /\ ~Is(e, "attention", i, r)
      BY <1>1, <2>2, CloseCases DEF Is
    <3>2. ShowsAsk(i, r)
      BY <1>5, <1>8, <3>1
    <3>3. ~Is(e, "clear", i, r)
      BY <1>4, <1>8 DEF Flow, Carries
    <3>4. e.request # r
      BY <1>3, <2>2, <3>1, <3>3 DEF Is
    <3>5. note[i] # None /\ ~Worker!MatchesRequest(note[i], e)
      BY <3>2, <3>4 DEF ShowsAsk, Worker!MatchesRequest
    <3>6. note'[i] = note[i]
      BY <1>1, <2>2, <3>5, CloseCases
    <3> QED
      BY <3>2, <3>6 DEF ShowsAsk
  <2>3. CASE i = g /\ Worker!Leave
    <3>1. note' = note
      BY <1>1, <2>3, LeaveCases
    <3>2. Is(e, "attention", i, r) => ShowsAsk(i, r) \/ <<i, r>> \in closed
      BY <1>1, <2>3, LeaveCases DEF Is
    <3>3. ShowsAsk(i, r)
      BY <1>5, <1>8, <3>2
    <3> QED
      BY <3>1, <3>3 DEF ShowsAsk
  <2>4. CASE i = g /\ Worker!Show
    <3>1. /\ note'[i] # None /\ note'[i].type = e.type /\ note'[i].request = e.request
          /\ e.type # "clear" /\ (e.type = "stop" => ~ShowsAsk(i, r))
      BY <2>4, ShowCases
    <3>2. CASE e.type = "stop"
      <4>1. ~Is(e, "attention", i, r)
        BY <3>2 DEF Is
      <4> QED
        BY <1>5, <1>8, <3>1, <3>2, <4>1
    <3>3. CASE e.type = "attention" /\ e.request = r
      BY <3>1, <3>3
    <3>4. CASE e.type = "attention" /\ e.request # r
      <4>1. PICK l \in 1 .. Len(q) : Is(q[l], "attention", i, r)
        BY <1>3, <1>4, <1>8, <2>4, <3>4 DEF Flow
      <4>2. Carries(q, "attention", i, r) /\ ~Is(e, "attention", i, r)
        BY <3>4, <4>1 DEF Carries, Is
      <4> QED
        BY <1>8, <4>2
    <3> QED
      BY <1>b, <3>1, <3>2, <3>3, <3>4
  <2> QED
    BY <2>1, <2>2, <2>3, <2>4
<1>11. ASSUME smooth, NEW x \in 0 .. MaxAsks, ShowsAsk(i, x)'
       PROVE  x # 0 /\ (x # r => Carries(Tail(q), "clear", i, x))
  <2> HIDE DEF q, r, n
  <2>1. CASE i # g
    <3>1. note'[i] = note[i]
      BY <1>1, <2>1, CloseCases, LeaveCases, ShowCases
    <3>2. ShowsAsk(i, x) /\ ~Is(e, "clear", i, x)
      BY <1>3, <1>11, <1>a, <2>1, <3>1 DEF ShowsAsk, Is
    <3> QED
      BY <1>6, <1>8, <1>11, <3>2
  <2>2. CASE i = g /\ Worker!Close
    <3>1. note'[i] = note[i] /\ ~Worker!MatchesRequest(note[i], e)
      BY <1>1, <1>11, <1>a, <2>2, CloseCases
    <3>2. ShowsAsk(i, x) /\ x # e.request
      BY <1>11, <1>a, <3>1 DEF ShowsAsk, Worker!MatchesRequest
    <3>3. ~Is(e, "clear", i, x)
      BY <3>2 DEF Is
    <3> QED
      BY <1>6, <1>8, <1>11, <3>2, <3>3
  <2>3. CASE i = g /\ Worker!Leave
    <3>1. note' = note /\ e.type # "clear"
      BY <1>1, <2>3, LeaveCases
    <3>2. ShowsAsk(i, x) /\ ~Is(e, "clear", i, x)
      BY <1>11, <1>a, <3>1 DEF ShowsAsk, Is
    <3> QED
      BY <1>6, <1>8, <1>11, <3>2
  <2>4. CASE i = g /\ Worker!Show
    <3>1. note'[i].type = e.type /\ note'[i].request = e.request
      BY <2>4, ShowCases
    <3>2. e.type = "attention" /\ e.request = x /\ e.instance = i
      BY <1>3, <1>11, <1>a, <2>4, <3>1
    <3>3. x \in 1 .. n
      BY <1>4, <1>8, <1>11, <3>2 DEF Flow, About
    <3>4. x # 0
      BY <3>3
    <3>5. ASSUME x # r PROVE Carries(Tail(q), "clear", i, x)
      <4>1. PICK l \in 1 .. Len(q) : Is(q[l], "clear", i, x)
        BY <1>4, <1>8, <1>11, <3>2, <3>5 DEF Flow
      <4>2. Carries(q, "clear", i, x) /\ ~Is(e, "clear", i, x)
        BY <3>2, <4>1 DEF Carries, Is
      <4> QED
        BY <1>8, <4>2
    <3> QED
      BY <3>4, <3>5
  <2> QED
    BY <2>1, <2>2, <2>3, <2>4
<1>12. AskComes(i)'
  BY <1>3, <1>7, <1>10 DEF AskComes, ShowsAsk
<1>13. EndComes(i)'
  BY <1>3, <1>7, <1>11 DEF EndComes
<1> QED
  BY <1>9, <1>12, <1>13 DEF Shown

LEMMA SeenStep ==
  ASSUME Composed, SeenOrClosed, [AlertNext]_alertVars
  PROVE  SeenOrClosed'
<1>1. /\ Worker!WorkerTypeOK /\ SawIt /\ note \in [Instance -> Worker!Note \cup {None}]
  BY DEF Composed, WorkerInv, Worker!WorkerTypeOK
<1>2. CASE Gateway \/ Lost \/ (\E i \in Instance, s \in Sub : Send(i, s)) \/ UNCHANGED alertVars
  <2>1. UNCHANGED <<note, tail, step, seen, closed>>
    BY <1>2 DEF Gateway, Lost, Send, alertVars, phoneVars
  <2> QED
    BY <2>1 DEF SeenOrClosed, Worker!tag, Worker!event
<1>3. ASSUME NEW k \in DOMAIN network, Arrive(k) PROVE SeenOrClosed'
  <2>1. network[k] \in Worker!Push
    BY DEF Composed, NetworkType
  <2>2. Worker!Receive(network[k]) /\ UNCHANGED <<note, step, seen, closed>>
    BY <1>3 DEF Arrive, Worker!Receive
  <2>3. tail # << >> => Worker!tag' = Worker!tag
    BY <1>1, <2>1, <2>2, ReceiveKeepsEvent DEF Worker!tag, Worker!event
  <2>4. step = "read" => tail # << >>
    BY <1>1 DEF Worker!WorkerTypeOK
  <2> QED
    BY <2>2, <2>3, <2>4 DEF SeenOrClosed
<1>4. CASE Phone
  <2>1. CASE Worker!Enumerate
    <3>1. step' = "read" /\ seen' = note[Worker!tag] /\ UNCHANGED <<note, tail, closed>>
      BY <1>4, <2>1 DEF Phone, Worker!Enumerate
    <3>2. Worker!tag' = Worker!tag
      BY <3>1 DEF Worker!tag, Worker!event
    <3> QED
      BY <3>1, <3>2 DEF SeenOrClosed
  <2>2. CASE \/ Worker!Settle \/ Worker!Settled \/ Worker!Close \/ Worker!Leave \/ Worker!Show
             \/ Worker!UpdateAppBadge
    <3>1. step' # "read"
      BY <2>2 DEF Worker!Settle, Worker!Settled, Worker!Close, Worker!Leave, Worker!Show,
                  Worker!UpdateAppBadge
    <3> QED
      BY <3>1 DEF SeenOrClosed
  <2>3. ASSUME NEW i \in Instance, Worker!Posted(i) \/ Worker!Ages(i) PROVE SeenOrClosed'
    <3>1. UNCHANGED <<note, tail, step, seen, closed>>
      BY <1>4, <2>3 DEF Phone, Worker!Posted, Worker!Ages
    <3> QED
      BY <3>1 DEF SeenOrClosed, Worker!tag, Worker!event
  <2> QED
    BY <1>4, <2>1, <2>2, <2>3 DEF Phone, Worker!Handle, Worker!Platform
<1>5. CASE CallFails
  BY <1>5 DEF CallFails, Worker!CallFails, SeenOrClosed
<1>6. ASSUME NEW i \in Instance, CloseByUser(i) PROVE SeenOrClosed'
  <2>1. /\ note' = [note EXCEPT ![i] = None] /\ UNCHANGED <<tail, step, seen>>
        /\ closed' = closed \cup {<<i, note[i].request>>}
    BY <1>6 DEF CloseByUser, Worker!Dismiss
  <2>2. Worker!tag' = Worker!tag
    BY <2>1 DEF Worker!tag, Worker!event
  <2> SUFFICES ASSUME step = "read", seen # None, seen.type = "attention"
               PROVE  note'[Worker!tag] = seen \/ <<Worker!tag, seen.request>> \in closed'
    BY <2>1, <2>2 DEF SeenOrClosed
  <2>3. note[Worker!tag] = seen \/ <<Worker!tag, seen.request>> \in closed
    BY DEF SeenOrClosed
  <2>4. Worker!tag \in Instance
    BY <1>1, TailType DEF Worker!event, Worker!tag, Worker!Push
  <2>5. CASE Worker!tag = i /\ note[Worker!tag] = seen
    BY <2>1, <2>5
  <2>6. CASE Worker!tag # i /\ note[Worker!tag] = seen
    <3>1. note'[Worker!tag] = note[Worker!tag]
      BY <1>1, <2>1, <2>4, <2>6
    <3> QED
      BY <2>6, <3>1
  <2>7. CASE <<Worker!tag, seen.request>> \in closed
    BY <2>1, <2>7
  <2> QED
    BY <2>3, <2>5, <2>6, <2>7
<1> QED
  BY <1>2, <1>3, <1>4, <1>5, <1>6 DEF AlertNext

LEMMA WaitsStep ==
  ASSUME Composed, ClearWaits, [AlertNext]_alertVars
  PROVE  ClearWaits'
<1>1. Worker!WorkerTypeOK /\ (step \in {"settling", "settled"} => tail # << >>)
  BY DEF Composed, WorkerInv, Worker!WorkerTypeOK
<1>2. ASSUME UNCHANGED <<tail, step>> PROVE ClearWaits'
  BY <1>2 DEF ClearWaits, Worker!event
<1>3. ASSUME NEW m \in Worker!Push, Worker!Receive(m) PROVE ClearWaits'
  <2>1. step' = step /\ (tail # << >> => Worker!event' = Worker!event)
    BY <1>1, <1>3, ReceiveKeepsEvent DEF Worker!Receive, Worker!event
  <2> QED
    BY <1>1, <2>1 DEF ClearWaits
<1>4. CASE Worker!Settle
  BY <1>4 DEF Worker!Settle, ClearWaits, Worker!event
<1>5. CASE Worker!Settled
  BY <1>5 DEF Worker!Settled, ClearWaits, Worker!event
<1>6. CASE \/ Worker!Enumerate \/ Worker!Close \/ Worker!Leave \/ Worker!Show
           \/ Worker!UpdateAppBadge \/ Worker!CallFails
  <2>1. step' \notin {"settling", "settled"}
    BY <1>6 DEF Worker!Enumerate, Worker!Close, Worker!Leave, Worker!Show,
                Worker!UpdateAppBadge, Worker!CallFails
  <2> QED
    BY <2>1 DEF ClearWaits
<1>7. ASSUME NEW i \in Instance, Worker!Posted(i) \/ Worker!Ages(i) \/ Worker!Dismiss(i)
      PROVE  ClearWaits'
  BY <1>2, <1>7 DEF Worker!Posted, Worker!Ages, Worker!Dismiss
<1>8. [Worker!WorkerNext]_(Worker!workerVars)
  BY StepsOfBoth
<1>9. CASE UNCHANGED Worker!workerVars
  BY <1>2, <1>9 DEF Worker!workerVars
<1> QED
  BY <1>3, <1>4, <1>5, <1>6, <1>7, <1>8, <1>9
  DEF Worker!WorkerNext, Worker!Handle, Worker!Platform

LEMMA ShownStep ==
  ASSUME Composed, AlertInv, [AlertNext]_alertVars, NEW i \in Instance
  PROVE  Shown(i)'
<1>1. Shown(i)
  BY DEF AlertInv
<1>2. ASSUME ~smooth' PROVE Shown(i)'
  BY <1>2 DEF Shown, InOrder, AskComes, EndComes
<1>3. ASSUME View(Pipe(i)', Pipe(i), i), smooth' => smooth, UNCHANGED <<ask, closed, note>>,
             made'[i].asks = made[i].asks
      PROVE  Shown(i)'
  BY <1>1, <1>3, ViewShown
<1>4. ASSUME NEW j \in Instance, Ask(j) \/ Resolve(j) \/ Renew(j), Gateway PROVE Shown(i)'
  <2>1. UNCHANGED <<network, phoneVars, closed, smooth>>
    BY <1>4 DEF Gateway, smooth
  <2> QED
    BY <1>1, <1>4, <2>1, EventShown
<1>5. ASSUME NEW j \in Instance, ActivityStop(j), Gateway PROVE Shown(i)'
  <2>1. UNCHANGED <<network, tail, step, note, closed, smooth>>
    BY <1>5 DEF Gateway, phoneVars, smooth
  <2>2. View(Pipe(i)', Pipe(i), i)
    BY <1>5, <2>1, StopView
  <2>3. ask' = ask /\ made'[i].asks = made[i].asks
    <3>1. made \in [Instance -> [asks : 0 .. MaxAsks, renewals : Nat, stops : Nat]]
      BY DEF Composed, Core, Counted
    <3>2. made' = [made EXCEPT ![j].stops = @ + 1] /\ ask' = ask
      BY <1>5 DEF ActivityStop
    <3> QED
      BY <3>1, <3>2
  <2> QED
    BY <1>3, <2>1, <2>2, <2>3
<1>6. ASSUME NEW j \in Instance, StartSend(j) \/ SendsDone(j), Gateway PROVE Shown(i)'
  <2>1. UNCHANGED <<network, tail, step, note, closed, smooth>>
    BY <1>6 DEF Gateway, phoneVars, smooth
  <2>2. View(Pipe(i)', Pipe(i), i)
    BY <1>6, <2>1, StartView, DoneView
  <2>3. UNCHANGED <<ask, made>>
    BY <1>6 DEF StartSend, SendsDone, registryVars
  <2> QED
    BY <1>3, <2>1, <2>2, <2>3
<1>7. ASSUME NEW j \in Instance, NEW s \in Sub, Send(j, s) PROVE Shown(i)'
  <2>1. UNCHANGED <<note, closed, smooth, ask, made>>
    BY <1>7 DEF Send, SendOk, phoneVars, registryVars, smooth
  <2>2. View(Pipe(i)', Pipe(i), i)
    BY <1>7, SendView
  <2> QED
    BY <1>3, <2>1, <2>2
<1>8. ASSUME NEW k \in DOMAIN network, Arrive(k) PROVE Shown(i)'
  <2>1. CASE k = 1
    <3>1. View(Pipe(i)', Pipe(i), i)
      BY <1>8, <2>1, ArriveView
    <3>2. UNCHANGED <<note, closed, ask, made>> /\ (smooth' => smooth)
      BY <1>8 DEF Arrive, Worker!Receive, vars, smooth
    <3> QED
      BY <1>3, <3>1, <3>2
  <2>2. CASE k # 1
    <3>1. ~smooth'
      BY <1>8, <2>2 DEF Arrive, smooth
    <3> QED
      BY <1>2, <3>1
  <2> QED
    BY <2>1, <2>2
<1>9. CASE Lost \/ CallFails
  BY <1>2, <1>9 DEF Lost, CallFails, smooth
<1>10. ASSUME UNCHANGED <<vars, network, smooth>>, Waiting' = Waiting
       PROVE  /\ View(Pipe(i)', Pipe(i), i) /\ UNCHANGED <<ask, made>>
              /\ smooth' => smooth
  <2>1. Pipe(i)' = Pipe(i)
    BY <1>10 DEF Pipe, Rest, vars
  <2> QED
    BY <1>10, <2>1, ViewOfSelf DEF vars
<1>11. CASE Phone
  <2>1. UNCHANGED <<vars, network, closed, smooth>>
    BY <1>11 DEF Phone, smooth
  <2>2. CASE Worker!Close \/ Worker!Leave \/ Worker!Show
    BY <2>1, <2>2, HandledShown
  <2>3. CASE \/ Worker!Enumerate \/ Worker!Settle \/ Worker!Settled \/ Worker!UpdateAppBadge
             \/ Worker!Platform
    <3>1. Waiting' = Waiting /\ UNCHANGED note
      BY <2>3 DEF Worker!Enumerate, Worker!Settle, Worker!Settled, Worker!UpdateAppBadge,
                  Worker!Platform, Worker!Posted, Worker!Ages, Waiting
    <3> QED
      BY <1>3, <1>10, <2>1, <3>1
  <2> QED
    BY <1>11, <2>2, <2>3 DEF Phone, Worker!Handle
<1>12. ASSUME NEW j \in Instance, CloseByUser(j) PROVE Shown(i)'
  <2>1. /\ note' = [note EXCEPT ![j] = None] /\ UNCHANGED <<tail, step, vars, network, smooth>>
        /\ closed' = closed \cup {<<j, note[j].request>>}
    BY <1>12 DEF CloseByUser, Worker!Dismiss, smooth
  <2>2. Waiting' = Waiting
    BY <2>1 DEF Waiting
  <2>3. /\ View(Pipe(i)', Pipe(i), i) /\ UNCHANGED <<ask, made>> /\ (smooth' => smooth)
    BY <1>10, <2>1, <2>2
  <2>4. note \in [Instance -> Worker!Note \cup {None}]
    BY DEF Composed, WorkerInv, Worker!WorkerTypeOK
  <2>5. note'[i] = note[i] \/ (note'[i] = None /\ <<i, note[i].request>> \in closed')
    BY <2>1, <2>4
  <2> QED
    BY <1>1, <2>1, <2>3, <2>5, ViewShown
<1>13. CASE UNCHANGED alertVars
  <2>1. UNCHANGED <<vars, network, smooth, closed, note, tail, step>>
    BY <1>13 DEF alertVars, phoneVars, smooth
  <2>2. Waiting' = Waiting
    BY <2>1 DEF Waiting
  <2> QED
    BY <1>3, <1>10, <2>1, <2>2
<1>14. CASE Gateway
  BY <1>4, <1>5, <1>6, <1>14 DEF Gateway, Registry
<1> QED
  BY <1>7, <1>8, <1>9, <1>11, <1>12, <1>13, <1>14 DEF AlertNext

LEMMA InitAlert == AlertInit => AlertInv
<1> SUFFICES ASSUME AlertInit PROVE AlertInv
  OBVIOUS
<1>1. step = "idle" /\ tail = << >> /\ network = << >> /\ note = [i \in Instance |-> None]
  BY DEF AlertInit, Worker!WorkerInit
<1>2. ASSUME NEW i \in Instance PROVE Shown(i)
  <2>1. ask[i] = 0 /\ chain[i] = << >> /\ sending[i].stage = "idle" /\ note[i] = None
    BY <1>1 DEF AlertInit, Init, NotSending
  <2>2. Waiting = << >> /\ Rest(i) = << >>
    BY <1>1, <2>1 DEF Waiting, Rest
  <2>3. Pipe(i) = (<< >> \o << >>) \o << >>
    BY <1>1, <2>2 DEF Pipe
  <2>4. 1 .. Len(Pipe(i)) = {}
    BY <2>3
  <2>5. InOrder(i)
    BY <2>1, <2>4 DEF InOrder, Flow, Carries
  <2>6. AskComes(i) /\ EndComes(i)
    BY <2>1 DEF AskComes, EndComes, ShowsAsk
  <2> QED
    BY <2>5, <2>6 DEF Shown
<1>3. SeenOrClosed /\ ClearWaits
  BY <1>1 DEF SeenOrClosed, ClearWaits
<1> QED
  BY <1>2, <1>3 DEF AlertInv

LEMMA AlertStep ==
  ASSUME Composed, AlertInv, [AlertNext]_alertVars
  PROVE  AlertInv'
<1>1. SeenOrClosed' /\ ClearWaits'
  BY SeenStep, WaitsStep DEF AlertInv
<1>2. \A i \in Instance : Shown(i)'
  BY ShownStep
<1> QED
  BY <1>1, <1>2 DEF AlertInv

(* Once everything sent has arrived in order and been handled, the phone shows  *)
(* the ask of every session that waits, unless the user closed it, and none     *)
(* that is over, for any sessions, subscriptions and numbers of asks and        *)
(* messages: the gateway queues the end of an ask and the ask that replaces it  *)
(* in their order, and no handler undoes what a later one did (push.ts 344-504, *)
(* service-worker.ts 61-129).                                                   *)
THEOREM PhoneIsRight == AlertSpec => []PhoneShowsTheAsks
<1>1. Composed /\ AlertInv /\ [AlertNext]_alertVars => AlertInv'
  BY AlertStep
<1>2. ASSUME Composed, AlertInv PROVE PhoneShowsTheAsks
  <2> SUFFICES ASSUME smooth, Quiet, NEW i \in Instance
               PROVE  /\ \A r \in 1 .. MaxAsks : ShowsAsk(i, r) => ask[i] = r
                      /\ ask[i] # 0 => ShowsAsk(i, ask[i]) \/ <<i, ask[i]>> \in closed
    BY DEF PhoneShowsTheAsks
  <2>1. chain[i] = << >> /\ network = << >> /\ tail = << >>
    BY DEF Quiet
  <2>2. step = "idle" /\ sending[i].stage = "idle"
    <3>1. step # "idle" => tail # << >>
      BY <1>2 DEF Composed, WorkerInv, Worker!WorkerTypeOK
    <3>2. sending[i].stage # "idle" => chain[i] # << >>
      BY <1>2, SendingType DEF Composed
    <3> QED
      BY <2>1, <3>1, <3>2
  <2>3. Pipe(i) = (<< >> \o << >>) \o << >>
    BY <2>1, <2>2 DEF Pipe, Waiting, Rest
  <2>4. 1 .. Len(Pipe(i)) = {}
    BY <2>3
  <2>5. \A type, r : ~Carries(Pipe(i), type, i, r)
    BY <2>4 DEF Carries
  <2>6. Shown(i)
    BY <1>2 DEF AlertInv
  <2>7. ask[i] # 0 => ShowsAsk(i, ask[i]) \/ <<i, ask[i]>> \in closed
    BY <2>5, <2>6 DEF Shown, AskComes
  <2>8. ASSUME NEW r \in 1 .. MaxAsks, ShowsAsk(i, r) PROVE ask[i] = r
    <3>1. r \in 0 .. MaxAsks
      BY BoundsType
    <3> QED
      BY <2>5, <2>6, <2>8, <3>1 DEF Shown, EndComes
  <2> QED
    BY <2>7, <2>8
<1>3. Composed /\ AlertInv => PhoneShowsTheAsks
  BY <1>2
<1> QED
  BY InitAlert, ComposedHolds, <1>1, <1>3, PTL DEF AlertSpec
=============================================================================
