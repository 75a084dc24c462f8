----------------------------- MODULE HostScreen -----------------------------
(***************************************************************************)
(* The controller's screen and its host-link watchdog: HOST lines arrive   *)
(* over USB, the main loop ticks the display after it has served them, and *)
(* a host that has sent a heartbeat and then falls silent for Timeout      *)
(* milliseconds has its screen replaced by ERROR / HOST LINK LOST until it *)
(* is heard again.                                                         *)
(*                                                                         *)
(* The clock is the 32-bit millisecond counter, here modulo ClockMod.      *)
(* MaxPass bounds the time one pass of the main loop takes: every wait in  *)
(* it, the one for USB to take an answer included, has a timeout.          *)
(***************************************************************************)
EXTENDS Naturals

CONSTANTS ErrorTexts,   \* texts the host sends with a screen
          NoText,       \* the field is missing, or the buffer is empty
          LinkLost,     \* "HOST LINK LOST"
          Timeout, MaxPass, ClockMod

ASSUME TextAssumption == NoText # LinkLost /\ LinkLost \notin ErrorTexts
ASSUME TimeAssumption == /\ Timeout \in Nat \ {0} /\ MaxPass \in Nat \ {0}
                         /\ ClockMod \in Nat /\ Timeout + MaxPass < ClockMod

Modes == {"BOOT", "WAITING", "HOME", "DIAGNOSTIC", "ERROR"}
Screens == Modes \cup {"GAME"}
Texts == ErrorTexts \cup {NoText, LinkLost}

VARIABLES display,    \* the fields of the display model that the screen uses
          now,        \* the wrapping clock
          sinceTick,  \* milliseconds since the last display tick
          silent,     \* ghost: milliseconds since the watchdog last heard the host
          wanted      \* ghost: the screen of the host's last accepted line

vars == <<display, now, sinceTick, silent, wanted>>

Display == [screen : Screens, error : Texts, before : Screens, beforeError : Texts,
            armed : BOOLEAN, lost : BOOLEAN, seen : 0..(ClockMod - 1)]

SilenceCap == Timeout + MaxPass

TypeOK == /\ display \in Display
          /\ now \in 0..(ClockMod - 1)
          /\ sinceTick \in 0..MaxPass
          /\ silent \in 0..SilenceCap
          /\ wanted \in Screens
          /\ display.lost => display.armed

Init == /\ display = [screen |-> "BOOT", error |-> NoText, before |-> "BOOT",
                      beforeError |-> NoText, armed |-> FALSE, lost |-> FALSE, seen |-> 0]
        /\ now = 0 /\ sinceTick = 0 /\ silent = 0 /\ wanted = "BOOT"

-----------------------------------------------------------------------------
(* A lost link gives back the screen, and the text only of an error screen. *)
Restored(d) == [d EXCEPT !.lost = FALSE, !.screen = d.before,
                         !.error = IF d.before = "ERROR" THEN d.beforeError ELSE NoText]

HostActivity(d) ==
    IF d.armed
    THEN [(IF d.lost THEN Restored(d) ELSE d) EXCEPT !.seen = now]
    ELSE d

Heard(armed) == silent' = IF armed THEN 0 ELSE silent

(* Each HOST line refreshes the watchdog before its fields are looked at.  *)
HostLine(d, screen) == /\ display' = d
                       /\ wanted' = screen
                       /\ Heard(display.armed)
                       /\ UNCHANGED <<now, sinceTick>>

Heartbeat == /\ display' = HostActivity([display EXCEPT !.armed = TRUE])
             /\ Heard(TRUE)
             /\ UNCHANGED <<now, sinceTick, wanted>>

(* A text is kept whatever the mode, and replaced only when one is sent.   *)
Shows(d, mode, text) ==
    [d EXCEPT !.screen = mode, !.error = IF text = NoText THEN @ ELSE text]

HostState_RestoresLast(mode, text) ==
    HostLine(HostActivity(Shows(display, mode, text)), mode)

HostState(mode, text) ==
    HostLine(Shows(HostActivity(display), mode, text), mode)

StartGame == HostLine([HostActivity(display) EXCEPT !.screen = "GAME"], "GAME")

StopGame == HostLine([HostActivity(display) EXCEPT !.screen = "HOME"], "HOME")

(* A refused HOST STATE or HOST GAME, and every HOST line about something  *)
(* other than the screen.                                                  *)
OtherHostLine == HostLine(HostActivity(display), wanted)

-----------------------------------------------------------------------------
(* Time passes: in USB, in a blocking write, between commands.             *)
Elapse(ms) == /\ sinceTick + ms <= MaxPass
              /\ now' = (now + ms) % ClockMod
              /\ sinceTick' = sinceTick + ms
              /\ silent' = IF silent + ms < SilenceCap THEN silent + ms ELSE SilenceCap
              /\ UNCHANGED <<display, wanted>>

Silence == (now + ClockMod - display.seen) % ClockMod

LinkDown_Deadline == /\ display.armed /\ ~display.lost
                     /\ now >= (display.seen + Timeout) % ClockMod

LinkDown == display.armed /\ ~display.lost /\ Silence >= Timeout

Covered_ForgetsText(d) == [d EXCEPT !.lost = TRUE, !.before = d.screen,
                                    !.screen = "ERROR", !.error = LinkLost]

Covered(d) == [d EXCEPT !.lost = TRUE, !.before = d.screen, !.beforeError = d.error,
                        !.screen = "ERROR", !.error = LinkLost]

(* r4_display_tick, once a pass.                                           *)
Tick == /\ display' = IF LinkDown THEN Covered(display) ELSE display
        /\ sinceTick' = 0
        /\ UNCHANGED <<now, silent, wanted>>

Next == \/ Heartbeat \/ StartGame \/ StopGame \/ OtherHostLine \/ Tick
        \/ \E mode \in Modes, text \in ErrorTexts \cup {NoText} : HostState(mode, text)
        \/ \E ms \in 1..MaxPass : Elapse(ms)

Spec == Init /\ [][Next]_vars

-----------------------------------------------------------------------------
(* The link is declared lost only after Timeout milliseconds in which no   *)
(* HOST line came, however the clock wraps meanwhile.                      *)
NoFalseAlarm == display.lost => silent >= Timeout

(* ... and it is declared lost at most one pass of the loop late.          *)
AlarmOnTime == display.armed /\ silent = SilenceCap => display.lost

(* The alarm of the watchdog is right: neither false nor late.             *)
AlarmIsRight == NoFalseAlarm /\ AlarmOnTime

(* HOST LINK LOST is on the screen exactly while the link is lost: no line *)
(* of the host, of whatever order, leaves the text behind or hides it.     *)
AlarmIsShown == /\ display.lost => display.screen = "ERROR" /\ display.error = LinkLost
                /\ ~display.lost => display.error # LinkLost

(* What a screen shows: the error text belongs to the error screen only.   *)
Panel(screen, text) == [screen |-> screen,
                        text |-> IF screen = "ERROR" THEN text ELSE NoText]
Panels == {Panel(s, t) : s \in Screens, t \in ErrorTexts \cup {NoText}}

Beneath == IF display.lost THEN Panel(display.before, display.beforeError)
                           ELSE Panel(display.screen, display.error)

(* Losing and regaining the link changes nothing of the panel beneath: the *)
(* previous screen comes back when the host does.                          *)
Link == INSTANCE LinkPanel WITH asked <- Beneath, covered <- display.lost,
                                BootPanel <- Panel("BOOT", NoText)
PreviousScreenReturns == Link!Spec

(* Whatever was on the screen when a line came, the line decides: beneath  *)
(* the alarm, if there is one, is the screen the host asked for last.      *)
LastRequestWins == Beneath.screen = wanted

=============================================================================
