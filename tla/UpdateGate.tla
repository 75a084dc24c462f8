----------------------------- MODULE UpdateGate -----------------------------
(***************************************************************************)
(* The firmware's two-step gate to the USB bootloader: UPDATE ARM hands    *)
(* out a random token, UPDATE CONFIRM with that token within its time to   *)
(* live schedules the reset, the main loop then makes it (core/r4_update.c *)
(* and the UPDATE cases of r4-controller-fw.c).                            *)
(*                                                                         *)
(* The manager keeps 64-bit times, but its clock is to_ms_since_boot, which *)
(* is 32 bits wide: it counts modulo ClockPeriod while deadlines do not.   *)
(***************************************************************************)
EXTENDS Naturals

CONSTANTS Token,            \* the values of tokens
          TokenTtl,         \* R4_UPDATE_TOKEN_TTL_MS
          RebootDelay,      \* UPDATE_REBOOT_DELAY_MS
          ClockPeriod,      \* 2^32 in the code
          ClockWraps,       \* bound: whether the device stays up for that long
          MaxStep,          \* bound: the longest time between two commands
          MaxArms           \* bound: how often the host arms the gate per boot

ASSUME GateAssumption ==
    /\ TokenTtl \in Nat \ {0} /\ RebootDelay \in Nat \ {0} /\ MaxArms \in Nat
    /\ ClockPeriod \in Nat \ {0} /\ MaxStep \in Nat \ {0}
    /\ ClockWraps \in BOOLEAN
    /\ 0 \notin Token

VARIABLES mode,             \* "firmware", or "bootloader" after reset_usb_boot
          gate,             \* r4_update_manager_t
          rebootPending, rebootIn,        \* the reset that is due, and in how many ms
          now,              \* to_ms_since_boot
          answer,           \* the last response to an UPDATE command
          arms,             \* history: tokens handed out since boot
          resets,           \* history: tokens accepted since boot
          age               \* history: ms since the last ARM, up to Oldest

reboot == <<rebootPending, rebootIn>>
vars == <<mode, gate, reboot, now, answer, arms, resets, age>>

Response == [to : {"NONE", "ARM", "STATUS", "CONFIRM"}, token : Token \cup {0},
             result : {"OK", "IDLE", "ARMED", "NOT_ARMED", "EXPIRED", "MISMATCH", "USED"}]

Reply(to, t, result) == answer' = [to |-> to, token |-> t, result |-> result]

NoToken == [armed |-> FALSE, token |-> 0, expiresAt |-> 0,
            hasUsedToken |-> FALSE, lastUsedToken |-> 0]

NoAnswer == [to |-> "NONE", token |-> 0, result |-> "OK"]

Init ==
    /\ mode = "firmware"
    /\ gate = NoToken
    /\ rebootPending = FALSE /\ rebootIn = 0
    /\ now = 0
    /\ answer = NoAnswer
    /\ arms = 0 /\ resets = 0 /\ age = 0
-----------------------------------------------------------------------------
Arm(t) ==
    /\ mode = "firmware"
    /\ arms < MaxArms
    /\ gate' = [gate EXCEPT !.token = t, !.expiresAt = now + TokenTtl, !.armed = TRUE]
    /\ Reply("ARM", t, "OK")
    /\ arms' = arms + 1
    /\ age' = 0
    /\ UNCHANGED <<mode, reboot, now, resets>>

Expired == now >= gate.expiresAt

\* UPDATE STATUS disarms a gate it finds expired.
Status ==
    /\ mode = "firmware"
    /\ gate' = [gate EXCEPT !.armed = @ /\ ~Expired]
    /\ Reply("STATUS", 0, IF gate'.armed THEN "ARMED" ELSE "IDLE")
    /\ UNCHANGED <<mode, reboot, now, arms, resets, age>>

\* Plausible bug: the deadline of an armed token is not looked at.
ConfirmResult_AnyTime(t) ==
    CASE ~gate.armed -> "NOT_ARMED"
      [] gate.armed /\ t # gate.token -> "MISMATCH"
      [] OTHER -> "OK"

\* r4_update_confirm, in the order of its tests.
ConfirmResult(t) ==
    CASE ~gate.armed /\ gate.hasUsedToken /\ t = gate.lastUsedToken -> "USED"
      [] ~gate.armed /\ ~(gate.hasUsedToken /\ t = gate.lastUsedToken) -> "NOT_ARMED"
      [] gate.armed /\ Expired -> "EXPIRED"
      [] gate.armed /\ ~Expired /\ t # gate.token -> "MISMATCH"
      [] OTHER -> "OK"

\* Plausible bug: an accepted token stays armed.
Confirmed_StaysArmed(t) == [gate EXCEPT !.hasUsedToken = TRUE, !.lastUsedToken = t]

Confirmed(t) == [gate EXCEPT !.armed = FALSE, !.hasUsedToken = TRUE, !.lastUsedToken = t]

Confirm(t) ==
    /\ mode = "firmware"
    /\ Reply("CONFIRM", t, ConfirmResult(t))
    /\ \/ /\ ConfirmResult(t) = "OK"
          /\ gate' = Confirmed(t)
          /\ rebootPending' = TRUE /\ rebootIn' = RebootDelay
          /\ resets' = resets + 1
       \/ /\ ConfirmResult(t) = "EXPIRED"
          /\ gate' = [gate EXCEPT !.armed = FALSE]
          /\ UNCHANGED <<reboot, resets>>
       \/ /\ ConfirmResult(t) \notin {"OK", "EXPIRED"}
          /\ UNCHANGED <<gate, reboot, resets>>
    /\ UNCHANGED <<mode, now, arms, age>>

AtMost(n, bound) == IF n <= bound THEN n ELSE bound

\* Bound: a token older than this is one command past its time.
Oldest == TokenTtl + MaxStep

Pass(d) ==
    /\ mode = "firmware"
    /\ ClockWraps \/ now + d < ClockPeriod
    /\ now' = (now + d) % ClockPeriod
    /\ rebootIn' = IF d <= rebootIn THEN rebootIn - d ELSE 0
    /\ age' = AtMost(age + d, Oldest)
    /\ UNCHANGED <<mode, gate, rebootPending, answer, arms, resets>>

\* update_reboot_task
Reset ==
    /\ mode = "firmware"
    /\ rebootPending /\ rebootIn = 0
    /\ mode' = "bootloader"
    /\ UNCHANGED <<gate, reboot, now, answer, arms, resets, age>>

\* The new firmware, or the old one after a power cycle, starts from scratch.
PowerOn ==
    /\ mode = "bootloader"
    /\ mode' = "firmware"
    /\ gate' = NoToken
    /\ rebootPending' = FALSE /\ rebootIn' = 0
    /\ now' = 0
    /\ answer' = NoAnswer
    /\ arms' = 0 /\ resets' = 0 /\ age' = 0

Next ==
    \/ \E t \in Token : Arm(t) \/ Confirm(t)
    \/ Status
    \/ \E d \in 1..MaxStep : Pass(d)
    \/ Reset
    \/ PowerOn

Spec == Init /\ [][Next]_vars
-----------------------------------------------------------------------------
TypeOK ==
    /\ mode \in {"firmware", "bootloader"}
    /\ gate \in [armed : BOOLEAN, token : Token \cup {0}, expiresAt : Nat,
                 hasUsedToken : BOOLEAN, lastUsedToken : Token \cup {0}]
    /\ rebootPending \in BOOLEAN /\ rebootIn \in 0..RebootDelay
    /\ now \in 0..(ClockPeriod - 1)
    /\ answer \in Response
    /\ arms \in Nat /\ resets \in Nat
    /\ age \in 0..Oldest

\* A token is accepted only if it is the one the last ARM handed out and TokenTtl has
\* not passed since: "valid for ten seconds".
ResetNeedsFreshToken ==
    [][resets' = resets + 1 =>
          /\ answer'.token = gate.token
          /\ arms > 0 /\ age < TokenTtl]_vars

\* A token opens the gate once: no sequence of ARM, CONFIRM and STATUS accepts more
\* tokens than were handed out, and while an armed gate waits one of them is unused.
OneResetPerArm == resets + (IF gate.armed THEN 1 ELSE 0) <= arms
=============================================================================
