----------------------------- MODULE ParentOrder -----------------------------
(***************************************************************************)
(* What an execution algorithm promises of a parent order of Target units: *)
(* it never exposes the caller to more than Target, executions included,   *)
(* and exposes nothing new once it has returned.                           *)
(***************************************************************************)
EXTENDS Integers

CONSTANT Target

VARIABLES executed, exposed, over

vars == <<executed, exposed, over>>

Init == executed = 0 /\ exposed = 0 /\ over = FALSE

Expose ==
  /\ ~over
  /\ exposed' > exposed /\ executed + exposed' <= Target
  /\ UNCHANGED <<executed, over>>

Execute ==
  /\ exposed > 0
  /\ executed' = executed + 1 /\ exposed' = exposed - 1
  /\ UNCHANGED over

Withdraw ==
  /\ exposed' < exposed /\ exposed' >= 0
  /\ UNCHANGED <<executed, over>>

Return ==
  /\ ~over /\ over'
  /\ UNCHANGED <<executed, exposed>>

Next == Expose \/ Execute \/ Withdraw \/ Return

Spec == Init /\ [][Next]_vars

=============================================================================
