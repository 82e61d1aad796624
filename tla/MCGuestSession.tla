---------------------------- MODULE MCGuestSession ----------------------------
(* Small instances of GuestSession: what the world may do, one budget a behaviour. *)
EXTENDS GuestSession

WithBudget(log, appends, asks, prompts, faults) ==
  [log |-> log, appends |-> appends, asks |-> asks, prompts |-> prompts, faults |-> faults]

(* A question, a prompt and an entry at once; two questions; snapshots of several  *)
(* chunks with live entries among them and a room that closes again and again;      *)
(* more prompts than are held.                                                   *)
SmallBudgets ==
  {WithBudget(1, 1, 1, 1, 2), WithBudget(0, 0, 2, 0, 2),
   WithBudget(2, 1, 0, 0, 3), WithBudget(0, 0, 0, 3, 2), WithBudget(0, 0, 0, 0, 5)}
=============================================================================
