------------------------------- MODULE AskAlerts -------------------------------
(***************************************************************************)
(* From an ask to the phone and back: PushService sends to one subscribed  *)
(* device, a push service carries the messages, and NotificationWorker      *)
(* handles them there.  Push is best effort: messages are lost, overtake    *)
(* one another, and calls fail; PhoneShowsTheAsks says what holds without    *)
(* any of that (smooth), OneLossCostsOneAsk how far a loss or a failure      *)
(* reaches.                                                                *)
(***************************************************************************)
EXTENDS PushService
LOCAL INSTANCE SequencesExt

CONSTANT MaxWaiting  (* bound: push events waiting in the worker               *)

VARIABLES
  network, (* messages on their way to the device                            *)
  note, posting, recent, tail, step, seen, badge,
  closed,  (* history: requests whose notification the user closed           *)
  orderly, (* history: no message overtook another                           *)
  hurt     (* history: requests a message of which was lost, or its call failed *)

phoneVars == <<note, posting, recent, tail, step, seen, badge>>

Worker == INSTANCE NotificationWorker WITH
  Request <- 0 .. MaxAsks, Count <- 0 .. Cardinality(Instance)

(* The device is subscribed (each further subscription would send it one more   *)
(* copy of every message), and None is no notification.                         *)
ASSUME AlertAssumption == InitialSubs # {} /\ None \notin Worker!Note

alertVars == <<vars, network, phoneVars, closed, orderly, hurt>>

AlertInit == Init /\ Worker!WorkerInit /\ network = << >> /\ closed = {}
             /\ orderly = TRUE /\ hurt = {}

(* The asks change, and the chains take up what they have to send.            *)
Gateway ==
  /\ Registry \/ (\E i \in Instance : StartSend(i) \/ SendsDone(i))
  /\ UNCHANGED <<network, phoneVars, closed, orderly, hurt>>

PushOf(d) == [type |-> d.type, instance |-> d.instance, request |-> d.request, count |-> d.count]

Send(i, s) ==
  /\ SendOk(i, s)
  /\ network' = Append(network, PushOf(Head(chain[i])))
  /\ UNCHANGED <<phoneVars, closed, orderly, hurt>>

(* The request a message speaks of.                                            *)
RequestOf(m) == <<m.instance, m.request>>

(* The k-th message on its way arrives; it may have overtaken others.          *)
Arrive(k) ==
  /\ k \in DOMAIN network
  /\ Worker!Receive(network[k])
  /\ network' = RemoveAt(network, k)
  /\ orderly' = (orderly /\ k = 1)
  /\ UNCHANGED <<vars, closed, hurt>>

(* The oldest message outlives PUSH_TTL_SECONDS, or the service drops it.       *)
Lost ==
  /\ network # << >> /\ network' = Tail(network)
  /\ hurt' = hurt \cup {RequestOf(Head(network))}
  /\ UNCHANGED <<vars, phoneVars, closed, orderly>>

Phone == (Worker!Handle \/ Worker!Platform) /\ UNCHANGED <<vars, network, closed, orderly, hurt>>

CallFails ==
  /\ Worker!CallFails
  /\ hurt' = hurt \cup {RequestOf(Head(tail))}
  /\ UNCHANGED <<vars, network, closed, orderly>>

CloseByUser(i) ==
  /\ Worker!Dismiss(i)
  /\ closed' = closed \cup {<<i, note[i].request>>}
  /\ UNCHANGED <<vars, network, orderly, hurt>>

AlertNext ==
  \/ Gateway
  \/ \E i \in Instance, s \in Sub : Send(i, s)
  \/ \E k \in DOMAIN network : Arrive(k)
  \/ Lost \/ Phone \/ CallFails
  \/ \E i \in Instance : CloseByUser(i)

AlertSpec == AlertInit /\ [][AlertNext]_alertVars

-----------------------------------------------------------------------------
(* No message was lost or late, and no call failed.                           *)
smooth == orderly /\ hurt = {}

(* Nothing is queued, on its way or being handled.                            *)
Quiet ==
  /\ \A i \in Instance : chain[i] = << >>
  /\ network = << >> /\ tail = << >>

ShowsAsk(i, r) == note[i] # None /\ note[i].type = "attention" /\ note[i].request = r

(* When all messages have arrived, the phone shows the ask of every session     *)
(* that waits, unless the user closed it, and no ask that is over: through      *)
(* replacements, stops, replays, settling clears and slow chains               *)
(* (ATTENTION_SPEC.md, notification lifecycle).                                 *)
PhoneShowsTheAsks ==
  smooth /\ Quiet => \A i \in Instance :
    /\ \A r \in 1 .. MaxAsks : ShowsAsk(i, r) => ask[i] = r
    /\ ask[i] # 0 => ShowsAsk(i, ask[i]) \/ <<i, ask[i]>> \in closed

(* A message that is lost, and a call that fails, cost the request they are for   *)
(* and no other one: the events queued behind a failed one are still handled, so *)
(* that the phone ends up with the pending ask unless a message of that very     *)
(* request was hurt, and keeps an ask that is over only when the message that    *)
(* ends it, or one of a later request that replaces it, was                      *)
(* (service-worker.ts 126-129).                                                  *)
OneLossCostsOneAsk ==
  orderly /\ Quiet => \A i \in Instance :
    /\ \A r \in 1 .. MaxAsks : ShowsAsk(i, r) /\ ask[i] # r =>
         \E q \in r .. MaxAsks : <<i, q>> \in hurt
    /\ ask[i] # 0 /\ <<i, ask[i]>> \notin hurt =>
         ShowsAsk(i, ask[i]) \/ <<i, ask[i]>> \in closed

(* What NotificationWorker promises of every message, lost, late or replayed:   *)
(* see there (service-worker.ts 50-129).                                        *)
WorkerTypeOK == Worker!WorkerTypeOK
StopNeverReplacesAsk == Worker!StopNeverReplacesAsk
ClearedIsGone == Worker!ClearedIsGone
=============================================================================
