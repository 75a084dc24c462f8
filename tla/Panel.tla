------------------------------- MODULE Panel -------------------------------
(***************************************************************************)
(* Everything the host puts on the panel beside the choice of a screen:    *)
(* the popups, marker and card icon of Popups, the readings of Telemetry,  *)
(* and the session timer, which HOST GAME starts and stops and the         *)
(* display's tick advances on the same wrapping clock as the popups.       *)
(*                                                                         *)
(* SecondMs, MinuteLength and HourLength stand for 1000, 60 and 60, and    *)
(* HourLimit for the 99 hours up to which the timer is drawn in full.  The *)
(* start of a session is kept only while it runs: the code reads it only   *)
(* then.                                                                   *)
(***************************************************************************)
EXTENDS Popups, Telemetry

CONSTANTS SecondMs, MinuteLength, HourLength, HourLimit

HoursLater(n) == n * HourLength * MinuteLength * SecondMs

ASSUME SessionAssumption ==
    /\ SecondMs \in Nat \ {0} /\ MinuteLength \in Nat \ {0} /\ HourLength \in Nat \ {0}
    /\ HourLimit \in Nat /\ HoursLater(HourLimit + 1) < ClockMod

VARIABLES session,          \* game_timer_running, game_started_at_ms, game_elapsed_seconds
          played            \* history: ms since the latest START, up to ClockMod

panelVars == <<vars, telemetry, session, played>>

NoSession == [running |-> FALSE, startedAt |-> 0, seconds |-> 0]

PanelInit ==
    /\ Init /\ TelemetryInit
    /\ session = NoSession
    /\ played = 0

-----------------------------------------------------------------------------
Started == [running |-> TRUE, startedAt |-> now, seconds |-> 0]

StartGame ==
    /\ StartOrStopGame
    /\ session' = Started
    /\ played' = 0
    /\ UNCHANGED telemetry

StopGame ==
    /\ StartOrStopGame
    /\ session' = NoSession
    /\ played' = 0
    /\ UNCHANGED telemetry

ElapsePanel(ms) ==
    /\ Elapse(ms)
    /\ played' = CASE ~session.running -> 0
                 [] session.running /\ played + ms <= ClockMod -> played + ms
                 [] OTHER -> ClockMod
    /\ UNCHANGED <<telemetry, session>>

\* Plausible bug: the subtraction is made on a clock that does not wrap.
Seconds_Unwrapped == IF now < session.startedAt THEN 0 ELSE (now - session.startedAt) \div SecondMs

Seconds == ((now + ClockMod - session.startedAt) % ClockMod) \div SecondMs

TickPanel ==
    /\ Tick
    /\ session' = IF session.running THEN [session EXCEPT !.seconds = Seconds] ELSE session
    /\ UNCHANGED <<telemetry, played>>

\* The host's other lines and the device's own notices leave session and readings alone.
Other == /\ \/ ShowAchievement \/ Screenshot \/ SafeToRemove \/ CardRemoved \/ UpdateNotice
            \/ \E status \in ClipStatus : Clip(status)
            \/ \E state \in CardStates \ {"EJECTED"} : CardChange(state)
         /\ UNCHANGED <<telemetry, session, played>>

Report(line) == HostTelemetry(line) /\ UNCHANGED <<vars, session, played>>

PanelNext == \/ StartGame \/ StopGame \/ TickPanel \/ Other
             \/ \E ms \in 1..MaxPass : ElapsePanel(ms)
             \/ \E line \in Lines : Report(line)

PanelSpec == PanelInit /\ [][PanelNext]_panelVars

-----------------------------------------------------------------------------
\* render_game_status: MM:SS, from an hour on H:MM, and at most 99 hours.
Timer ==
    LET minutes == session.seconds \div MinuteLength
        hours == minutes \div HourLength
    IN  IF hours > 0
        THEN [hours |-> IF hours > HourLimit THEN HourLimit ELSE hours, minutes |-> minutes % HourLength]
        ELSE [minutes |-> minutes, seconds |-> session.seconds % MinuteLength]

\* How long the timer claims the session has run, to the unit it shows.
Claimed == IF "hours" \in DOMAIN Timer
           THEN HoursLater(Timer.hours) + Timer.minutes * MinuteLength * SecondMs
           ELSE (Timer.minutes * MinuteLength + Timer.seconds) * SecondMs
Unit == IF "hours" \in DOMAIN Timer THEN MinuteLength * SecondMs ELSE SecondMs

\* While a game runs the timer shows the time since the latest START, rounded down to
\* the unit it shows and at most a pass of the main loop behind, wherever on the clock
\* the game began, until the hours it has room for are over.
TimerTellsSession ==
    session.running /\ played < HoursLater(HourLimit + 1) =>
        Claimed <= played /\ played < Claimed + Unit + MaxPass

=============================================================================
