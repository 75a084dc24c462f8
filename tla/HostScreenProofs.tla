-------------------------- MODULE HostScreenProofs --------------------------
(***************************************************************************)
(* Proofs about HostScreen, for every timeout, pass length, clock width    *)
(* and set of texts that its assumptions allow.                            *)
(*                                                                         *)
(* IInv strengthens the properties in two ways.  Saved says that the text  *)
(* put away under a lost link is never the alarm's own.  OnClock ties the  *)
(* wrapping clock to the unwrapped silence: while the link is held to be   *)
(* up, their difference on the clock is the silence itself, and it has not *)
(* been Timeout milliseconds long at any tick.                             *)
(***************************************************************************)
EXTENDS HostScreen, TLAPS

Saved == display.beforeError # LinkLost

OnClock == display.armed /\ ~display.lost =>
               Silence = silent /\ silent < Timeout + sinceTick

IInv == /\ TypeOK /\ Saved /\ OnClock
        /\ NoFalseAlarm /\ AlarmIsShown /\ LastRequestWins

(* A number below twice the modulus wraps at most once.                    *)
LEMMA WrapsOnce ==
    ASSUME NEW a \in Nat, NEW m \in Nat \ {0}, a < 2 * m
    PROVE  a % m = IF a < m THEN a ELSE a - m
<1>1. CASE a < m
    BY <1>1
<1>2. CASE a >= m
    BY <1>2
<1> QED BY <1>1, <1>2

(* What reading the wrapping clock yields.                                 *)
LEMMA SilenceValue ==
    ASSUME TypeOK
    PROVE  Silence = IF now >= display.seen THEN now - display.seen
                                            ELSE now + ClockMod - display.seen
<1>1. now \in Nat /\ display.seen \in Nat /\ now < ClockMod /\ display.seen < ClockMod
    BY TimeAssumption DEF TypeOK, Display
<1>2. ClockMod \in Nat \ {0}
    BY TimeAssumption
<1>3. now + ClockMod - display.seen \in Nat /\ now + ClockMod - display.seen < 2 * ClockMod
    BY <1>1, <1>2
<1> QED BY <1>1, <1>2, <1>3, WrapsOnce DEF Silence

(* Once the host has been heard the link is up, the alarm's text is gone   *)
(* and the panel that was beneath it is on the screen.                     *)
LEMMA ActivityUncovers ==
    ASSUME TypeOK, Saved, AlarmIsShown,
           NEW armed \in BOOLEAN, display.armed => armed,
           NEW d, d = HostActivity([display EXCEPT !.armed = armed])
    PROVE  /\ d \in Display
           /\ d.armed = armed /\ ~d.lost
           /\ (d.armed => d.seen = now)
           /\ d.error # LinkLost /\ d.beforeError # LinkLost
           /\ d.screen = Beneath.screen
           /\ Panel(d.screen, d.error) = Beneath
<1>1. display \in Display /\ now \in 0..(ClockMod - 1)
    BY DEF TypeOK
<1>2. PICK e : e = [display EXCEPT !.armed = armed]
    OBVIOUS
<1>3. e \in Display /\ e.armed = armed
      /\ e.screen = display.screen /\ e.error = display.error /\ e.lost = display.lost
      /\ e.before = display.before /\ e.beforeError = display.beforeError
    BY <1>1, <1>2 DEF Display
<1>4. CASE ~armed
    <2>1. d = e /\ ~display.lost
        BY <1>2, <1>3, <1>4 DEF HostActivity, TypeOK
    <2> QED BY <2>1, <1>3, <1>4 DEF Beneath, Panel, Saved, AlarmIsShown
<1>5. CASE armed /\ display.lost
    <2>1. PICK r : r = Restored(e)
        OBVIOUS
    <2>2. /\ r \in Display /\ ~r.lost /\ r.screen = e.before /\ r.beforeError = e.beforeError
          /\ r.error = IF e.before = "ERROR" THEN e.beforeError ELSE NoText
          /\ r.armed = armed
        BY <2>1, <1>3 DEF Restored, Display, Texts
    <2>3. d = [r EXCEPT !.seen = now]
        BY <2>1, <1>2, <1>3, <1>5 DEF HostActivity
    <2>4. /\ d \in Display /\ d.seen = now /\ ~d.lost /\ d.screen = r.screen
          /\ d.error = r.error /\ d.armed = armed /\ d.beforeError = r.beforeError
        BY <2>2, <2>3, <1>1 DEF Display
    <2>5. d.error # LinkLost /\ d.beforeError # LinkLost
        BY <2>2, <2>4, <1>3, TextAssumption DEF Saved
    <2>6. d.screen = Beneath.screen /\ Panel(d.screen, d.error) = Beneath
        BY <2>2, <2>4, <1>3, <1>5 DEF Beneath, Panel
    <2> QED BY <2>4, <2>5, <2>6
<1>6. CASE armed /\ ~display.lost
    <2>1. d = [e EXCEPT !.seen = now]
        BY <1>2, <1>3, <1>6 DEF HostActivity
    <2>2. /\ d \in Display /\ d.seen = now /\ ~d.lost /\ d.screen = e.screen
          /\ d.error = e.error /\ d.armed = armed /\ d.beforeError = e.beforeError
        BY <2>1, <1>1, <1>3, <1>6 DEF Display
    <2> QED BY <2>2, <1>3, <1>6 DEF Beneath, Panel, Saved, AlarmIsShown
<1> QED BY <1>4, <1>5, <1>6

(* Every action of the host leaves a display of this shape.                *)
LEMMA HeardStep ==
    ASSUME IInv, NEW armed \in BOOLEAN, NEW d, NEW screen \in Screens,
           d \in Display, d.armed = armed, ~d.lost, d.armed => d.seen = now,
           d.error # LinkLost, d.beforeError # LinkLost, d.screen = screen,
           display' = d, wanted' = screen, Heard(armed), UNCHANGED <<now, sinceTick>>
    PROVE  IInv'
<1>1. silent \in 0..SilenceCap /\ sinceTick \in 0..MaxPass /\ now \in 0..(ClockMod - 1)
    BY DEF IInv, TypeOK
<1>2. silent' \in 0..SilenceCap /\ (armed => silent' = 0)
    BY <1>1, TimeAssumption DEF Heard, SilenceCap
<1>3. TypeOK'
    BY <1>1, <1>2 DEF TypeOK
<1>4. OnClock'
    <2> SUFFICES ASSUME armed PROVE Silence' = 0 /\ 0 < Timeout + sinceTick'
        BY <1>2 DEF OnClock
    <2>1. Silence' = ClockMod % ClockMod
        BY <1>1, TimeAssumption DEF Silence
    <2> QED BY <1>1, <2>1, TimeAssumption
<1> QED BY <1>3, <1>4 DEF IInv, Saved, NoFalseAlarm, AlarmIsShown, LastRequestWins, Beneath, Panel

(* The display a HOST line starts from, whatever the line is about.        *)
LEMMA HostLineStep ==
    ASSUME IInv, NEW d, d = HostActivity(display)
    PROVE  /\ d \in Display /\ d.armed = display.armed /\ ~d.lost
           /\ (d.armed => d.seen = now)
           /\ d.error # LinkLost /\ d.beforeError # LinkLost
           /\ d.screen = Beneath.screen /\ Panel(d.screen, d.error) = Beneath
<1>1. display \in Display /\ display.armed \in BOOLEAN
    BY DEF IInv, TypeOK, Display
<1>2. [display EXCEPT !.armed = display.armed] = display
    BY <1>1 DEF Display
<1> QED BY <1>1, <1>2, ActivityUncovers DEF IInv

LEMMA HeartbeatStep == ASSUME IInv, Heartbeat PROVE IInv' /\ Beneath' = Beneath
<1>1. PICK d : d = HostActivity([display EXCEPT !.armed = TRUE])
    OBVIOUS
<1>2. /\ d \in Display /\ d.armed = TRUE /\ ~d.lost /\ d.seen = now
      /\ d.error # LinkLost /\ d.beforeError # LinkLost
      /\ d.screen = Beneath.screen /\ Panel(d.screen, d.error) = Beneath
    BY <1>1, ActivityUncovers DEF IInv
<1>3. d.screen = wanted /\ wanted \in Screens
    BY <1>2 DEF IInv, LastRequestWins, TypeOK
<1>4. IInv'
    BY <1>1, <1>2, <1>3, HeardStep DEF Heartbeat
<1> QED BY <1>1, <1>2, <1>4 DEF Heartbeat, Beneath

(* A line about the screen puts its own panel there.                       *)
LEMMA HostStateStep ==
    ASSUME IInv, NEW mode \in Modes, NEW text \in ErrorTexts \cup {NoText},
           HostState(mode, text)
    PROVE  IInv' /\ Beneath' \in Panels /\ ~display'.lost
<1>1. PICK d : d = HostActivity(display)
    OBVIOUS
<1>2. PICK e : e = Shows(d, mode, text)
    OBVIOUS
<1>3. /\ e \in Display /\ e.armed = display.armed /\ ~e.lost /\ (e.armed => e.seen = now)
      /\ e.error # LinkLost /\ e.beforeError # LinkLost /\ e.screen = mode
    BY <1>1, <1>2, HostLineStep, TextAssumption DEF Shows, Display, Modes, Screens, Texts
<1>4. PICK armed : armed = display.armed
    OBVIOUS
<1>5. display' = e /\ wanted' = mode /\ Heard(armed) /\ UNCHANGED <<now, sinceTick>>
    BY <1>1, <1>2, <1>4 DEF HostState, HostLine
<1>6. armed \in BOOLEAN /\ mode \in Screens
    BY <1>3, <1>4 DEF Display, Screens
<1>7. IInv'
    BY <1>3, <1>4, <1>5, <1>6, HeardStep
<1>8. mode \in Screens /\ e.error \in ErrorTexts \cup {NoText}
    BY <1>3, <1>6 DEF Display, Texts
<1>9. Beneath' = Panel(mode, e.error)
    BY <1>3, <1>5 DEF Beneath
<1> QED BY <1>3, <1>5, <1>7, <1>8, <1>9 DEF Panels

LEMMA GameStep ==
    ASSUME IInv, StartGame \/ StopGame
    PROVE  IInv' /\ Beneath' \in Panels /\ ~display'.lost
<1>1. PICK d : d = HostActivity(display)
    OBVIOUS
<1>2. PICK screen \in {"GAME", "HOME"} : HostLine([d EXCEPT !.screen = screen], screen)
    BY <1>1 DEF StartGame, StopGame
<1>3. PICK e : e = [d EXCEPT !.screen = screen]
    OBVIOUS
<1>4. screen \in Screens
    BY <1>2 DEF Screens, Modes
<1>5. /\ e \in Display /\ e.armed = display.armed /\ ~e.lost /\ (e.armed => e.seen = now)
      /\ e.error # LinkLost /\ e.beforeError # LinkLost /\ e.screen = screen
    BY <1>1, <1>3, <1>4, HostLineStep DEF Display
<1>6. PICK armed : armed = display.armed
    OBVIOUS
<1>7. display' = e /\ wanted' = screen /\ Heard(armed) /\ UNCHANGED <<now, sinceTick>>
    BY <1>2, <1>3, <1>6 DEF HostLine
<1>8. armed \in BOOLEAN
    BY <1>5, <1>6 DEF Display
<1>9. IInv'
    BY <1>4, <1>5, <1>6, <1>7, <1>8, HeardStep
<1>10. e.error \in ErrorTexts \cup {NoText}
    BY <1>5 DEF Display, Texts
<1>11. Beneath' = Panel(screen, e.error)
    BY <1>5, <1>7 DEF Beneath
<1> QED BY <1>4, <1>5, <1>7, <1>9, <1>10, <1>11 DEF Panels

LEMMA OtherHostLineStep == ASSUME IInv, OtherHostLine PROVE IInv' /\ Beneath' = Beneath
<1>1. PICK d : d = HostActivity(display)
    OBVIOUS
<1>2. /\ d \in Display /\ d.armed = display.armed /\ ~d.lost /\ (d.armed => d.seen = now)
      /\ d.error # LinkLost /\ d.beforeError # LinkLost
      /\ d.screen = Beneath.screen /\ Panel(d.screen, d.error) = Beneath
    BY <1>1, HostLineStep
<1>3. d.screen = wanted /\ wanted \in Screens
    BY <1>2 DEF IInv, LastRequestWins, TypeOK
<1>4. PICK armed, screen : armed = display.armed /\ screen = wanted
    OBVIOUS
<1>5. display' = d /\ wanted' = screen /\ Heard(armed) /\ UNCHANGED <<now, sinceTick>>
    BY <1>1, <1>4 DEF OtherHostLine, HostLine
<1>6. armed \in BOOLEAN
    BY <1>2, <1>4 DEF Display
<1>7. IInv'
    BY <1>2, <1>3, <1>4, <1>5, <1>6, HeardStep
<1>8. Beneath' = Panel(d.screen, d.error)
    BY <1>2, <1>5 DEF Beneath
<1> QED BY <1>2, <1>7, <1>8

(* Time passing lengthens the silence and its image on the clock alike.    *)
LEMMA ElapseStep ==
    ASSUME IInv, NEW ms \in 1..MaxPass, Elapse(ms)
    PROVE  IInv' /\ UNCHANGED <<display, Beneath>>
<1>1. /\ display \in Display /\ now \in 0..(ClockMod - 1)
      /\ sinceTick \in 0..MaxPass /\ silent \in 0..SilenceCap
    BY DEF IInv, TypeOK
<1>2. /\ display' = display /\ wanted' = wanted /\ sinceTick' = sinceTick + ms
      /\ sinceTick + ms <= MaxPass
      /\ silent' = IF silent + ms < SilenceCap THEN silent + ms ELSE SilenceCap
    BY DEF Elapse
<1>3. now' = IF now + ms < ClockMod THEN now + ms ELSE now + ms - ClockMod
    <2>1. PICK a : a = now + ms
        OBVIOUS
    <2>2. a \in Nat /\ a < 2 * ClockMod /\ ClockMod \in Nat \ {0}
        BY <1>1, <2>1, TimeAssumption
    <2>3. a % ClockMod = IF a < ClockMod THEN a ELSE a - ClockMod
        BY <2>2, WrapsOnce
    <2>4. now' = a % ClockMod
        BY <2>1 DEF Elapse
    <2> QED BY <1>1, <2>1, <2>2, <2>3, <2>4
<1>4. TypeOK'
    BY <1>1, <1>2, <1>3, TimeAssumption DEF IInv, TypeOK, SilenceCap
<1>5. NoFalseAlarm'
    BY <1>1, <1>2, TimeAssumption DEF IInv, NoFalseAlarm, SilenceCap
<1>6. OnClock'
    <2> SUFFICES ASSUME display.armed, ~display.lost
                 PROVE  Silence' = silent' /\ silent' < Timeout + sinceTick'
        BY <1>2 DEF OnClock
    <2>1. Silence = silent /\ silent < Timeout + sinceTick
        BY DEF IInv, OnClock
    <2>2. silent' = silent + ms
        BY <1>1, <1>2, <2>1, TimeAssumption DEF SilenceCap
    <2>3. silent' < Timeout + sinceTick' /\ silent' < ClockMod
        BY <1>1, <1>2, <2>1, <2>2, TimeAssumption DEF SilenceCap
    <2>4. display.seen \in 0..(ClockMod - 1)
        BY <1>1 DEF Display
    <2>5. silent = IF now >= display.seen THEN now - display.seen
                                          ELSE now + ClockMod - display.seen
        BY <2>1, SilenceValue DEF IInv
    <2>6. now' + ClockMod - display.seen \in Nat /\ now' + ClockMod - display.seen < 2 * ClockMod
        BY <1>1, <1>3, <2>4, TimeAssumption
    <2>7. Silence' = IF now' >= display.seen THEN now' - display.seen
                                             ELSE now' + ClockMod - display.seen
        <3>1. PICK a : a = now' + ClockMod - display.seen
            OBVIOUS
        <3>2. a % ClockMod = IF a < ClockMod THEN a ELSE a - ClockMod
            <4>1. a \in Nat /\ a < 2 * ClockMod
                BY <2>6, <3>1
            <4>2. ClockMod \in Nat \ {0}
                BY TimeAssumption
            <4> QED BY <4>1, <4>2, WrapsOnce
        <3>3. Silence' = a % ClockMod
            BY <1>2, <3>1 DEF Silence
        <3>4. now' \in 0..(ClockMod - 1)
            BY <1>4 DEF TypeOK
        <3> QED BY <2>4, <3>1, <3>2, <3>3, <3>4, TimeAssumption
    <2>8. Silence' = silent + ms
        BY <1>1, <1>3, <2>2, <2>3, <2>4, <2>5, <2>7, TimeAssumption
    <2> QED BY <2>2, <2>3, <2>8
<1> QED BY <1>2, <1>4, <1>5, <1>6
        DEF IInv, Saved, AlarmIsShown, LastRequestWins, Beneath

LEMMA TickStep ==
    ASSUME IInv, Tick
    PROVE  IInv' /\ Beneath' = Beneath /\ (display.lost => display' = display)
<1>1. /\ display \in Display /\ now \in 0..(ClockMod - 1) /\ now' = now
      /\ silent \in 0..SilenceCap /\ silent' = silent /\ wanted' = wanted /\ sinceTick' = 0
    BY DEF IInv, TypeOK, Tick
<1>2. CASE LinkDown
    <2>1. display.armed /\ ~display.lost /\ Silence >= Timeout
        BY <1>2 DEF LinkDown
    <2>2. PICK d : d = Covered(display)
        OBVIOUS
    <2>3. /\ d \in Display /\ d.lost /\ d.armed /\ d.screen = "ERROR" /\ d.error = LinkLost
          /\ d.before = display.screen /\ d.beforeError = display.error
        BY <1>1, <2>1, <2>2 DEF Covered, Display, Screens, Modes, Texts
    <2>4. display' = d
        BY <1>2, <2>2 DEF Tick
    <2>5. silent >= Timeout
        BY <2>1 DEF IInv, OnClock
    <2>6. Beneath' = Beneath
        BY <2>1, <2>3, <2>4 DEF Beneath
    <2>7. TypeOK'
        BY <1>1, <2>3, <2>4, TimeAssumption DEF IInv, TypeOK
    <2>8. Saved' /\ NoFalseAlarm' /\ AlarmIsShown' /\ OnClock'
        BY <1>1, <2>1, <2>3, <2>4, <2>5
        DEF IInv, Saved, NoFalseAlarm, AlarmIsShown, OnClock
    <2>9. LastRequestWins'
        BY <1>1, <2>6 DEF IInv, LastRequestWins
    <2> QED BY <2>1, <2>6, <2>7, <2>8, <2>9 DEF IInv
<1>3. CASE ~LinkDown
    <2>1. display' = display
        BY <1>3 DEF Tick
    <2>2. TypeOK'
        BY <1>1, <2>1, TimeAssumption DEF IInv, TypeOK
    <2>3. OnClock'
        <3> SUFFICES ASSUME display.armed, ~display.lost
                     PROVE  Silence' = silent' /\ silent' < Timeout + sinceTick'
            BY <2>1 DEF OnClock
        <3>1. Silence = silent /\ ~(silent >= Timeout)
            BY <1>3 DEF IInv, OnClock, LinkDown
        <3>2. Silence' = Silence
            BY <1>1, <2>1 DEF Silence
        <3> QED BY <1>1, <3>1, <3>2, TimeAssumption DEF SilenceCap
    <2> QED BY <1>1, <2>1, <2>2, <2>3
            DEF IInv, Saved, NoFalseAlarm, AlarmIsShown, LastRequestWins, Beneath
<1> QED BY <1>2, <1>3

LEMMA InitHolds == Init => IInv
BY TextAssumption, TimeAssumption
   DEF Init, IInv, TypeOK, Display, Texts, Screens, Modes, SilenceCap, Saved, OnClock,
       NoFalseAlarm, AlarmIsShown, LastRequestWins, Beneath, Panel

LEMMA StepHolds == IInv /\ [Next]_vars => IInv'
<1> SUFFICES ASSUME IInv, [Next]_vars PROVE IInv'
    OBVIOUS
<1>1. CASE Heartbeat
    BY <1>1, HeartbeatStep
<1>2. CASE StartGame \/ StopGame
    BY <1>2, GameStep
<1>3. CASE OtherHostLine
    BY <1>3, OtherHostLineStep
<1>4. CASE Tick
    BY <1>4, TickStep
<1>5. ASSUME NEW mode \in Modes, NEW text \in ErrorTexts \cup {NoText}, HostState(mode, text)
      PROVE  IInv'
    BY <1>5, HostStateStep
<1>6. ASSUME NEW ms \in 1..MaxPass, Elapse(ms) PROVE IInv'
    BY <1>6, ElapseStep
<1>7. CASE UNCHANGED vars
    BY <1>7 DEF vars, IInv, TypeOK, Saved, OnClock, Silence, NoFalseAlarm, AlarmIsShown,
                LastRequestWins, Beneath
<1> QED BY <1>1, <1>2, <1>3, <1>4, <1>5, <1>6, <1>7 DEF Next

LEMMA IInvHolds == Spec => []IInv
<1>1. IInv /\ [Next]_vars => IInv'
    BY StepHolds
<1> QED BY InitHolds, <1>1, PTL DEF Spec

(* The display model keeps its shape, whatever lines come and whenever.    *)
THEOREM TypeCorrect == Spec => []TypeOK
<1>1. IInv => TypeOK
    BY DEF IInv
<1> QED BY <1>1, IInvHolds, PTL

(* r4_display_tick never declares a host lost that was heard less than     *)
(* Timeout milliseconds ago, across every wrap of the clock.               *)
THEOREM NoFalseAlarms == Spec => []NoFalseAlarm
<1>1. IInv => NoFalseAlarm
    BY DEF IInv
<1> QED BY <1>1, IInvHolds, PTL

(* An armed host that has been silent for Timeout and one pass of the loop *)
(* is declared lost: no wrap of the clock hides its silence.               *)
THEOREM AlarmsOnTime == Spec => []AlarmOnTime
<1>1. IInv => AlarmOnTime
    <2> SUFFICES ASSUME IInv, display.armed, ~display.lost PROVE silent # SilenceCap
        BY DEF AlarmOnTime
    <2>1. silent < Timeout + sinceTick /\ sinceTick \in 0..MaxPass /\ silent \in 0..SilenceCap
        BY DEF IInv, OnClock, TypeOK
    <2> QED BY <2>1, TimeAssumption DEF SilenceCap
<1> QED BY <1>1, IInvHolds, PTL

(* r4_display_tick's alarm is neither false nor late.                      *)
THEOREM RightAlarms == Spec => []AlarmIsRight
<1>1. NoFalseAlarm /\ AlarmOnTime => AlarmIsRight
    BY DEF AlarmIsRight
<1> QED BY <1>1, NoFalseAlarms, AlarmsOnTime, PTL

(* HOST LINK LOST is shown if and only if the link is lost.                *)
THEOREM AlarmShown == Spec => []AlarmIsShown
<1>1. IInv => AlarmIsShown
    BY DEF IInv
<1> QED BY <1>1, IInvHolds, PTL

(* Beneath the alarm is always the screen of the host's last request.      *)
THEOREM LastRequestHolds == Spec => []LastRequestWins
<1>1. IInv => LastRequestWins
    BY DEF IInv
<1> QED BY <1>1, IInvHolds, PTL

-----------------------------------------------------------------------------
(* The display with its watchdog implements LinkPanel: losing the link and *)
(* getting it back leaves the panel beneath as the host left it.           *)
THEOREM Refinement == Spec => PreviousScreenReturns
<1>1. Init => Link!Init
    BY DEF Init, Link!Init, Beneath
<1>2. IInv /\ [Next]_vars => [Link!Next]_Link!vars
    <2> SUFFICES ASSUME IInv, [Next]_vars PROVE [Link!Next]_Link!vars
        OBVIOUS
    <2>1. display.lost \in BOOLEAN /\ display'.lost \in BOOLEAN
        BY StepHolds DEF IInv, TypeOK, Display
    <2>2. CASE Beneath' = Beneath
        BY <2>1, <2>2 DEF Link!Next, Link!Cover, Link!Uncover, Link!vars
    <2>3. CASE Beneath' \in Panels /\ ~display'.lost
        BY <2>1, <2>3 DEF Link!Next, Link!Ask
    <2>4. CASE Heartbeat
        BY <2>2, <2>4, HeartbeatStep
    <2>5. CASE StartGame \/ StopGame
        BY <2>3, <2>5, GameStep
    <2>6. CASE OtherHostLine
        BY <2>2, <2>6, OtherHostLineStep
    <2>7. CASE Tick
        BY <2>2, <2>7, TickStep
    <2>8. ASSUME NEW mode \in Modes, NEW text \in ErrorTexts \cup {NoText},
                 HostState(mode, text)
          PROVE  Beneath' \in Panels /\ ~display'.lost
        BY <2>8, HostStateStep
    <2>9. ASSUME NEW ms \in 1..MaxPass, Elapse(ms) PROVE Beneath' = Beneath
        BY <2>9, ElapseStep
    <2>10. CASE UNCHANGED vars
        BY <2>2, <2>10 DEF vars, Beneath
    <2> QED BY <2>2, <2>3, <2>4, <2>5, <2>6, <2>7, <2>8, <2>9, <2>10 DEF Next
<1> QED BY <1>1, <1>2, IInvHolds, PTL DEF Spec, PreviousScreenReturns, Link!Spec
=============================================================================
