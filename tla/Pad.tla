-------------------------------- MODULE Pad --------------------------------
(***************************************************************************)
(* From the player's hands to the host's game pad: sampling of the stick,  *)
(* the D-pad, the buttons and an analog trigger (rp2040_input.c), their    *)
(* conversion (core/r4_controller.c) and the HID report that the main loop *)
(* sends every ReportPeriod milliseconds when the endpoint is free.        *)
(*                                                                         *)
(* One stick axis and one trigger stand for the four and the two, which    *)
(* are read alike.  AxisMax, TriggerMax, HidMax, AdcMax and ClockMod stand *)
(* for 127, 65535, 255, 4095 and 2^32, and Ratio for 257, the trigger      *)
(* steps in one step of the report.  The firmware has no trigger source    *)
(* yet: samples with one are those of the interface r4_input_source.h      *)
(* offers it, as the host tests' mock gives them.                          *)
(***************************************************************************)
EXTENDS Integers

CONSTANTS AdcMax, DeadZone, AxisMax,
          TriggerMax, HidMax, Ratio,
          Calibrations,     \* the trigger calibrations considered
          Buttons,          \* the buttons beside the D-pad
          ReportPeriod, MaxPass, ClockMod,
          NoTest              \* no test value for the trigger

ASSUME PadAssumption ==
    /\ AdcMax \in Nat \ {0} /\ DeadZone \in Nat \ {0} /\ AxisMax \in Nat \ {0}
    /\ HidMax \in Nat \ {0} /\ Ratio \in Nat \ {0} /\ TriggerMax = HidMax * Ratio
    /\ ReportPeriod \in Nat \ {0} /\ MaxPass \in Nat \ {0}
    /\ ClockMod \in Nat /\ ReportPeriod + MaxPass < ClockMod
    /\ Calibrations \subseteq [min : Nat, max : Nat, deadZone : Nat, inverted : BOOLEAN]
    /\ NoTest \notin 0..TriggerMax

Adc == 0..AdcMax
Directions == {"UP", "DOWN", "LEFT", "RIGHT"}
Samples == [raw : Adc, source : BOOLEAN, adc : BOOLEAN]
Hands == [stick : Adc, dpad : SUBSET Directions, buttons : SUBSET Buttons, trigger : Samples]

VARIABLES hands,            \* what the player holds, and the trigger's sample
          centre,           \* the stick's rest position, measured at startup
          calibration,      \* of the trigger
          test,             \* the value TEST TRIGGERS has set, or NoTest
          ready,            \* tud_hid_ready: the host has taken the last report
          report,           \* the last report the host has taken
          time, lastReport,  \* the clock and previous_report_time_ms
          sinceLoop,        \* ms since the main loop last came by
          sampled,          \* history: what that report was made from
          steady            \* history: ms for which hands, test and ready have not changed

clock == <<time, lastReport, sinceLoop>>
padVars == <<hands, centre, calibration, test, ready, report, clock, sampled, steady>>

-----------------------------------------------------------------------------
\* r4_map_centered_axis; both divisions round towards zero.
Axis(raw, middle) ==
    LET delta == raw - middle
        above == AdcMax - middle - DeadZone
        below == middle - DeadZone
    IN  CASE delta > -DeadZone /\ delta < DeadZone  -> 0
          [] delta >= DeadZone /\ above <= 0        -> AxisMax
          [] delta >= DeadZone /\ above > 0         -> ((delta - DeadZone) * AxisMax) \div above
          [] delta <= -DeadZone /\ below <= 0       -> -AxisMax
          [] delta <= -DeadZone /\ below > 0        -> -((-(delta + DeadZone) * AxisMax) \div below)

NotPulled(status) == [value |-> 0, status |-> status]

Clamped(n, low, high) == IF n < low THEN low ELSE IF n > high THEN high ELSE n

\* Plausible bug: a trigger whose signal falls is read as one whose signal rises.
Position_Rising(raw, c) == raw - c.min

Position(raw, c) == IF c.inverted THEN c.max - raw ELSE raw - c.min

\* r4_normalize_analog, its faults in the order of its tests.
Normalized(sample, c) ==
    LET span == c.max - c.min
        position == Position(Clamped(sample.raw, c.min, c.max), c)
        active == span - c.deadZone
    IN  CASE ~sample.source                    -> NotPulled("NO_SOURCE")
          [] sample.source /\ ~sample.adc      -> NotPulled("ADC_UNAVAILABLE")
          [] sample.source /\ sample.adc /\ c.deadZone >= span -> NotPulled("INVALID_CAL")
          [] OTHER -> [value |-> IF position <= c.deadZone THEN 0
                                 ELSE ((position - c.deadZone) * TriggerMax + active \div 2) \div active,
                       status |-> "OK"]

\* The hat's codes: 0 is centred, then clockwise from up.
Around == <<{"UP"}, {"UP", "RIGHT"}, {"RIGHT"}, {"DOWN", "RIGHT"},
            {"DOWN"}, {"DOWN", "LEFT"}, {"LEFT"}, {"UP", "LEFT"}>>

\* Plausible bug: a pressed pair wins over the other axis instead of cancelling.
Hat_NoCancel(pressed) ==
    IF \E i \in DOMAIN Around : Around[i] = pressed
    THEN CHOOSE i \in DOMAIN Around : Around[i] = pressed ELSE 0

\* Opposite directions cancel each other.
Cancelled(pressed) ==
    pressed \ ((IF {"UP", "DOWN"} \subseteq pressed THEN {"UP", "DOWN"} ELSE {})
               \cup (IF {"LEFT", "RIGHT"} \subseteq pressed THEN {"LEFT", "RIGHT"} ELSE {}))

Hat(pressed) ==
    IF Cancelled(pressed) = {} THEN 0
    ELSE CHOOSE i \in DOMAIN Around : Around[i] = Cancelled(pressed)

\* r4_rp2040_input_poll, then the test value in update_controller_state.
Trigger(h) == IF test = NoTest THEN Normalized(h.trigger, calibration)
              ELSE [value |-> test, status |-> "OK"]

\* r4_build_hid_report: the trigger's sixteen bits are rounded to the report's eight.
Report(h) == [axis |-> Axis(h.stick, centre), hat |-> Hat(h.dpad), buttons |-> h.buttons,
              trigger |-> (Trigger(h).value + Ratio \div 2) \div Ratio]

-----------------------------------------------------------------------------
AtRest == [stick |-> centre, dpad |-> {}, buttons |-> {},
           trigger |-> [raw |-> 0, source |-> FALSE, adc |-> FALSE]]

Neutral == [axis |-> 0, hat |-> 0, buttons |-> {}, trigger |-> 0]

\* "Keep both sticks centered during startup calibration": the firmware cannot tell.
PadInit ==
    /\ centre \in Adc
    /\ calibration \in Calibrations
    /\ hands = AtRest /\ sampled = AtRest /\ report = Neutral
    /\ test = NoTest /\ ready = FALSE
    /\ time = 0 /\ lastReport = 0 /\ sinceLoop = 0 /\ steady = 0

Move(h) == /\ hands' = h /\ h # hands
           /\ steady' = 0
           /\ UNCHANGED <<centre, calibration, test, ready, report, clock, sampled>>

TestTriggers(value) ==
    /\ test' = value
    /\ steady' = 0
    /\ UNCHANGED <<hands, centre, calibration, ready, report, clock, sampled>>

\* The host polls the endpoint, or stops doing so.
HostPolls == /\ ready' = ~ready
             /\ steady' = 0
             /\ UNCHANGED <<hands, centre, calibration, test, report, clock, sampled>>

Settled == ReportPeriod + MaxPass

Elapse(ms) == /\ sinceLoop + ms <= MaxPass
              /\ time' = (time + ms) % ClockMod
              /\ sinceLoop' = sinceLoop + ms
              /\ steady' = IF steady + ms < Settled THEN steady + ms ELSE Settled
              /\ UNCHANGED <<hands, centre, calibration, test, ready, report, lastReport, sampled>>

\* Plausible bug: the interval is compared on a clock that does not wrap.
ReportDue_Unwrapped == time - lastReport >= ReportPeriod

ReportDue == (time + ClockMod - lastReport) % ClockMod >= ReportPeriod

\* send_gamepad_report: a report that finds the endpoint busy is not sent later.
Sends == /\ report' = Report(hands)
         /\ sampled' = hands

Loop == /\ sinceLoop' = 0
        /\ lastReport' = IF ReportDue THEN time ELSE lastReport
        /\ IF ReportDue /\ ready THEN Sends ELSE UNCHANGED <<report, sampled>>
        /\ UNCHANGED <<hands, centre, calibration, test, ready, time, steady>>

PadNext ==
    \/ \E h \in Hands : Move(h)
    \/ \E value \in 0..TriggerMax : TestTriggers(value)
    \/ \E ms \in 1..MaxPass : Elapse(ms)
    \/ HostPolls \/ Loop

PadSpec == PadInit /\ [][PadNext]_padVars

-----------------------------------------------------------------------------
\* The report's fields fit the HID report descriptor's.
PadTypeOK ==
    /\ hands \in Hands /\ sampled \in Hands
    /\ centre \in Adc /\ calibration \in Calibrations
    /\ test \in 0..TriggerMax \cup {NoTest} /\ ready \in BOOLEAN
    /\ report \in [axis : -AxisMax..AxisMax, hat : 0..8,
                   buttons : SUBSET Buttons, trigger : 0..HidMax]
    /\ time \in 0..(ClockMod - 1) /\ lastReport \in 0..(ClockMod - 1)
    /\ sinceLoop \in 0..MaxPass /\ steady \in 0..Settled

\* Nothing is stuck: what the player has held for a report period and a pass of the
\* main loop, with the host polling, is what the host has, wherever on the clock.
ReportIsCurrent == steady >= Settled /\ ready => report = Report(hands)

Push(h, plus, minus) == (IF plus \in h.dpad THEN 1 ELSE 0) - (IF minus \in h.dpad THEN 1 ELSE 0)

HatVector == [i \in 0..8 |-> IF i = 0 THEN <<0, 0>>
                             ELSE LET d == [dpad |-> Around[i]]
                                  IN  <<Push(d, "RIGHT", "LEFT"), Push(d, "UP", "DOWN")>>]

\* What the host is told of its sample: the hat is the sum of the directions held; a
\* stick at rest or in its dead zone is centred, and a stick at its stop is at full
\* deflection unless it was calibrated against that stop; a trigger without a working
\* source or calibration is released, one below its dead zone too, and one at its
\* other end is fully pressed.
InputsAreTold ==
    LET c == calibration
        position == Position(sampled.trigger.raw, c)
    IN  /\ HatVector[report.hat] = <<Push(sampled, "RIGHT", "LEFT"), Push(sampled, "UP", "DOWN")>>
        /\ report.buttons = sampled.buttons
        /\ sampled.stick - centre \in (1 - DeadZone)..(DeadZone - 1) => report.axis = 0
        /\ sampled.stick = AdcMax /\ AdcMax - centre >= DeadZone => report.axis = AxisMax
        /\ sampled.stick = 0 /\ centre >= DeadZone => report.axis = -AxisMax
        /\ test = NoTest =>
              /\ Trigger(sampled).status # "OK" => report.trigger = 0
              /\ Trigger(sampled).status = "OK" /\ position <= c.deadZone => report.trigger = 0
              /\ Trigger(sampled).status = "OK" /\ position >= c.max - c.min => report.trigger = HidMax

\* From one report to the next the stick never moves against the hand, nor the trigger
\* against the finger.
MovesKeepDirection ==
    [][/\ sampled'.stick > sampled.stick => report'.axis >= report.axis
       /\ sampled'.stick < sampled.stick => report'.axis <= report.axis
       /\ test' = NoTest /\ Trigger(sampled).status = "OK" /\ Trigger(sampled)'.status = "OK"
             /\ sampled'.trigger.raw > sampled.trigger.raw =>
          IF calibration.inverted THEN report'.trigger <= report.trigger
                                  ELSE report'.trigger >= report.trigger]_padVars
=============================================================================
