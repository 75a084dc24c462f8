----------------------------- MODULE LinkPanel -----------------------------
(***************************************************************************)
(* What the host-link watchdog promises the host: a lost link covers the   *)
(* panel the host last asked for and changes nothing of it, and the link's *)
(* return uncovers it.  Only the host changes what lies beneath.           *)
(***************************************************************************)
CONSTANT Panels, BootPanel

VARIABLES asked,    \* the panel the host last asked for
          covered   \* the link is lost: an error is shown instead

vars == <<asked, covered>>

Init == asked = BootPanel /\ covered = FALSE

Cover == ~covered /\ covered' = TRUE /\ UNCHANGED asked

Uncover == covered /\ covered' = FALSE /\ UNCHANGED asked

(* Asking is host traffic: it also uncovers.                               *)
Ask(p) == asked' = p /\ covered' = FALSE

Next == Cover \/ Uncover \/ \E p \in Panels : Ask(p)

Spec == Init /\ [][Next]_vars
=============================================================================
