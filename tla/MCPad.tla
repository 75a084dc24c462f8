------------------------------- MODULE MCPad -------------------------------
(***************************************************************************)
(* Pad for TLC.  The controls share nothing but the report: in one         *)
(* behaviour the player uses one of them and leaves the others at rest,    *)
(* and a trigger that cannot be read has no position.                      *)
(***************************************************************************)
EXTENDS Pad

Scale(min, max, deadZone, inverted) ==
    [min |-> min, max |-> max, deadZone |-> deadZone, inverted |-> inverted]

\* All dead zone: where other controls than the trigger are used.
Unused == Scale(2, 3, 1, FALSE)

\* Two that work, one reversed, one with its ends swapped.
MCCalibrations == {Unused, Scale(0, 6, 1, FALSE), Scale(1, 5, 0, FALSE), Scale(1, 5, 1, TRUE),
                   Scale(4, 2, 0, FALSE)}

StickHands == {[AtRest EXCEPT !.stick = raw] : raw \in Adc}
OtherHands == {[AtRest EXCEPT !.dpad = dpad] : dpad \in SUBSET Directions}
              \cup {[AtRest EXCEPT !.buttons = buttons] : buttons \in SUBSET Buttons}
TriggerHands == {[AtRest EXCEPT !.trigger = sample] :
                    sample \in {s \in Samples : (s.source /\ s.adc) \/ s.raw = 0}}

MCHands == IF calibration # Unused THEN TriggerHands
           ELSE IF centre # 0 THEN StickHands ELSE StickHands \cup OtherHands

TestValues == {0, Ratio \div 2, TriggerMax}

MCInit == PadInit /\ (centre = 0 \/ calibration = Unused)

MCNext == \/ \E h \in MCHands : Move(h)
          \/ calibration # Unused /\ \E value \in TestValues : TestTriggers(value)
          \/ \E ms \in 1..MaxPass : Elapse(ms)
          \/ HostPolls \/ Loop

MCSpec == MCInit /\ [][MCNext]_padVars
=============================================================================
