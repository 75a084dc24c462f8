---------------------------- MODULE CommandQueue ----------------------------
(***************************************************************************)
(* What the hub's command queue promises, with no clock, no request        *)
(* threads and no database: a command is submitted once, it is granted to  *)
(* one attempt at a time, a later attempt may replace an earlier one while *)
(* the command is unsettled, and the command is settled exactly once, by   *)
(* the attempt that holds it at that moment.  HubCommands is shown to      *)
(* implement this specification.                                           *)
(***************************************************************************)
CONSTANTS Command,      \* the commands that may ever be submitted
          Attempt       \* the identities of attempts (the lease tokens)

VARIABLES phase,        \* where each command is in its life
          holder,       \* the attempts entitled to settle the command (at most one)
          used          \* the attempts ever granted

vars == <<phase, holder, used>>

Phase == {"none", "waiting", "leased", "settled"}

TypeOK ==
    /\ phase \in [Command -> Phase]
    /\ holder \in [Command -> SUBSET Attempt]
    /\ used \in SUBSET Attempt

Init ==
    /\ phase = [c \in Command |-> "none"]
    /\ holder = [c \in Command |-> {}]
    /\ used = {}

Submit(c) ==
    /\ phase[c] = "none"
    /\ phase' = [phase EXCEPT ![c] = "waiting"]
    /\ UNCHANGED <<holder, used>>

\* A grant goes to an attempt never seen before and ends the earlier one.
Grant(c, a) ==
    /\ phase[c] \in {"waiting", "leased"}
    /\ a \notin used
    /\ phase' = [phase EXCEPT ![c] = "leased"]
    /\ holder' = [holder EXCEPT ![c] = {a}]
    /\ used' = used \cup {a}

\* The holder settles the command; it stays on record as the author of the result.
Settle(c) ==
    /\ phase[c] = "leased"
    /\ phase' = [phase EXCEPT ![c] = "settled"]
    /\ UNCHANGED <<holder, used>>

Next ==
    \E c \in Command :
        \/ Submit(c)
        \/ \E a \in Attempt : Grant(c, a)
        \/ Settle(c)

Spec == Init /\ [][Next]_vars
=============================================================================
