--------------------------- MODULE NotificationWorker ---------------------------
(***************************************************************************)
(* The service worker's notifications: apps/web/src/service-worker.ts.     *)
(*                                                                         *)
(* Push events are handled one after the other (pushTail).  Each handler   *)
(* enumerates the notifications under its tag, waits, and then shows,      *)
(* closes or leaves them before it sets the badge; between those steps the *)
(* user, a tap or the page closes notifications, and the platform posts    *)
(* what was shown a little later.  Closing a notification that is not      *)
(* posted yet is lost, which is why a clear that comes within              *)
(* CLOSE_SETTLE_MS of the showing waits and enumerates again.              *)
(*                                                                         *)
(* A tag is its instance; a title and body are whatever the request shows, *)
(* and a message of the request displayed may carry the same or others.    *)
(***************************************************************************)
EXTENDS Naturals, Sequences

CONSTANTS
  Instance,    (* sessions                                                   *)
  None,
  Request,     (* requests that messages speak of                            *)
  Count,       (* pending asks that a message can count                      *)
  MaxWaiting   (* bound: push events waiting                                 *)

VARIABLES
  note,    (* the notification displayed under each tag                      *)
  posting, (* tags whose notification the platform has not posted yet        *)
  recent,  (* shownAtByTag: tags shown less than CLOSE_SETTLE_MS ago         *)
  tail,    (* pushTail: the events not handled yet                           *)
  step,    (* where the handler of the first one stands                      *)
  seen,    (* the notification it enumerated                                 *)
  badge    (* the app badge: none at 0                                       *)

workerVars == <<note, posting, recent, tail, step, seen, badge>>

Push == [type : {"attention", "clear", "stop"}, instance : Instance,
         request : Request, count : Count]
Note == [type : {"attention", "stop"}, request : Request]

WorkerTypeOK ==
  /\ note \in [Instance -> Note \cup {None}]
  /\ posting \subseteq Instance /\ recent \subseteq Instance
  /\ tail \in Seq(Push)
  /\ step \in {"idle", "read", "settling", "settled", "badge"}
  /\ step # "idle" => tail # << >>
  /\ seen \in Note \cup {None}
  /\ badge \in Count \cup {0}

WorkerInit ==
  /\ note = [i \in Instance |-> None]
  /\ posting = {} /\ recent = {}
  /\ tail = << >> /\ step = "idle" /\ seen = None
  /\ badge = 0

(* The push event.                                                            *)
Receive(m) ==
  /\ Len(tail) < MaxWaiting
  /\ tail' = Append(tail, m)
  /\ UNCHANGED <<note, posting, recent, step, seen, badge>>

event == Head(tail)
tag == event.instance

(* getNotifications, of the first waiting event.                              *)
Enumerate ==
  /\ step = "idle" /\ tail # << >>
  /\ step' = "read"
  /\ seen' = note[tag]
  /\ UNCHANGED <<note, posting, recent, tail, badge>>

(* matchesRequest.                                                            *)
MatchesRequest(n, m) == n # None /\ n.type = "attention" /\ n.request = m.request

(* Mutant of MustSettle: a clear closes at once.                              *)
NeverSettles(m) == FALSE

(* The notification may not be posted yet.                                    *)
MustSettle(m) == m.instance \in recent /\ MatchesRequest(seen, m)

Settle ==
  /\ step = "read" /\ event.type = "clear" /\ MustSettle(event)
  /\ step' = "settling"
  /\ UNCHANGED <<note, posting, recent, tail, seen, badge>>

(* CLOSE_SETTLE_MS are over, and the notifications are enumerated again.       *)
Settled ==
  /\ step = "settling" /\ tag \notin recent
  /\ step' = "settled"
  /\ seen' = note[tag]
  /\ UNCHANGED <<note, posting, recent, tail, badge>>

(* The notifications enumerated are closed when they are the request's; one     *)
(* that has been replaced or closed since is no longer there to close.          *)
Close ==
  /\ step = "settled" \/ (step = "read" /\ event.type = "clear" /\ ~MustSettle(event))
  /\ IF MatchesRequest(seen, event)
     THEN /\ note' = IF note[tag] = seen /\ tag \notin posting
                     THEN [note EXCEPT ![tag] = None] ELSE note
          /\ recent' = recent \ {tag}
     ELSE UNCHANGED <<note, recent>>
  /\ step' = "badge"
  /\ UNCHANGED <<posting, tail, seen, badge>>

(* Mutant of Outranked: a stop is shown over an attention.                     *)
OutrankedNever(m) == FALSE

(* A displayed attention wins over an incoming stop.                           *)
Outranked(m) == m.type = "stop" /\ seen # None /\ seen.type = "attention"

(* The event changes nothing that is displayed: a stop is outranked, or an      *)
(* attention replays what is displayed.                                         *)
Leave ==
  /\ step = "read"
  /\ Outranked(event) \/ (event.type = "attention" /\ MatchesRequest(seen, event))
  /\ step' = "badge"
  /\ UNCHANGED <<note, posting, recent, tail, seen, badge>>

(* showNotification replaces what stands under the tag.                         *)
Show ==
  /\ step = "read" /\ event.type # "clear" /\ ~Outranked(event)
  /\ note' = [note EXCEPT ![tag] = [type |-> event.type, request |-> event.request]]
  /\ posting' = posting \cup {tag} /\ recent' = recent \cup {tag}
  /\ step' = "badge"
  /\ UNCHANGED <<tail, seen, badge>>

(* updateAppBadge, and the event is done.                                       *)
UpdateAppBadge ==
  /\ step = "badge"
  /\ badge' = event.count
  /\ tail' = Tail(tail) /\ step' = "idle" /\ seen' = None
  /\ UNCHANGED <<note, posting, recent>>

(* Mutant of CallFails: pushTail stays rejected, and no event chained to it is    *)
(* handled.                                                                      *)
CallFailsRejects ==
  /\ step # "idle"
  /\ tail' = << >> /\ step' = "idle" /\ seen' = None
  /\ UNCHANGED <<note, posting, recent, badge>>

(* A notification or badge call rejects: the event is over, the next is handled. *)
CallFails ==
  /\ step # "idle"
  /\ tail' = Tail(tail) /\ step' = "idle" /\ seen' = None
  /\ UNCHANGED <<note, posting, recent, badge>>

(* The platform posts, within CLOSE_SETTLE_MS of the showing.                   *)
Posted(i) ==
  /\ i \in posting
  /\ posting' = posting \ {i}
  /\ UNCHANGED <<note, recent, tail, step, seen, badge>>

(* CLOSE_SETTLE_MS after the showing; or a worker that has been idle for longer  *)
(* than that is stopped and forgets.                                            *)
Ages(i) ==
  /\ i \in recent \ posting
  /\ recent' = recent \ {i}
  /\ UNCHANGED <<note, posting, tail, step, seen, badge>>

(* The user dismisses or taps it, or the page closes it because its ask is held. *)
Dismiss(i) ==
  /\ note[i] # None /\ i \notin posting
  /\ note' = [note EXCEPT ![i] = None]
  /\ UNCHANGED <<posting, recent, tail, step, seen, badge>>

Handle == Enumerate \/ Settle \/ Settled \/ Close \/ Leave \/ Show \/ UpdateAppBadge

Platform == \E i \in Instance : Posted(i) \/ Ages(i)

WorkerNext ==
  \/ \E m \in Push : Receive(m)
  \/ Handle \/ CallFails \/ Platform
  \/ \E i \in Instance : Dismiss(i)

WorkerSpec == WorkerInit /\ [][WorkerNext]_workerVars

-----------------------------------------------------------------------------
(* A displayed attention is never replaced by an activity stop, although the    *)
(* stop's handler looked at the notifications a step before it shows            *)
(* (service-worker.ts 50, 96-104; ATTENTION_SPEC.md, activity-stop              *)
(* notifications).                                                              *)
StopNeverReplacesAsk ==
  [][\A i \in Instance :
       note[i] # None /\ note[i].type = "attention" =>
         note'[i] = None \/ note'[i].type = "attention"]_note

(* When a clear has been handled its request is not displayed, although the      *)
(* platform may still be posting it when the clear comes (service-worker.ts      *)
(* 52-53, 71-86).                                                                *)
ClearedIsGone ==
  [][(step \in {"read", "settled"} /\ event.type = "clear" /\ step' = "badge")
       => ~MatchesRequest(note'[tag], event)]_step
=============================================================================
