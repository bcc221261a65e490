------------------------------ MODULE Proposal ------------------------------
(***************************************************************************)
(* What a setting that takes two keys promises: a value is proposed while  *)
(* none is, and leaves the proposed state either confirmed, which puts it  *)
(* in force in the same step, or withdrawn.  Nothing comes into force that *)
(* is not the proposal of that moment.                                     *)
(***************************************************************************)
CONSTANT Proposals

VARIABLES proposed,   \* the proposal that waits for the second key, if any
          inForce     \* the value in force, if any

Init == proposed = {} /\ inForce = {}

Propose ==
  /\ proposed = {}
  /\ \E p \in Proposals : proposed' = {p}
  /\ UNCHANGED inForce

Confirm ==
  /\ proposed # {}
  /\ inForce' = proposed
  /\ proposed' = {}

Withdraw ==
  /\ proposed # {}
  /\ proposed' = {}
  /\ UNCHANGED inForce

Next == Propose \/ Confirm \/ Withdraw

Spec == Init /\ [][Next]_<<proposed, inForce>>
=============================================================================
