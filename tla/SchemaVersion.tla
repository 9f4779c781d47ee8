---------------------------- MODULE SchemaVersion ----------------------------
(***************************************************************************)
(* What the plan commands promise, without steps, stops or history rows:   *)
(* the plans in effect are a prefix of the chain, one plan is applied or   *)
(* rolled back at a time, the last one first, and a plan that has dropped  *)
(* data is never rolled back.                                              *)
(***************************************************************************)
EXTENDS Integers

CONSTANT Length   \* of the chain

VARIABLES
  live,     \* the plans in effect
  dropped   \* the plans whose finalize steps have dropped something

Init == live = {} /\ dropped = {}

Up(p) == live = 1 .. p - 1 /\ live' = 1 .. p /\ UNCHANGED dropped

Down(p) == live = 1 .. p /\ p \notin dropped /\ live' = 1 .. p - 1 /\ UNCHANGED dropped

Drop(p) == p \in live /\ dropped' = dropped \cup {p} /\ UNCHANGED live

Next == \E p \in 1 .. Length : Up(p) \/ Down(p) \/ Drop(p)

Spec == Init /\ [][Next]_<<live, dropped>>
=============================================================================
