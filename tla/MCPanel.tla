------------------------------ MODULE MCPanel ------------------------------
(***************************************************************************)
(* Panel for TLC.  Readings, popups and the session timer share no state   *)
(* but the clock: to keep the three from multiplying, telemetry comes only *)
(* while nothing else has happened, and popups only while no game runs.    *)
(***************************************************************************)
EXTENDS Panel

CONSTANTS Ten, Noon

MCLegal == [BATTERY |-> {7}, RUNTIME_MIN |-> {5, 61}, VOLUME |-> {0, 3},
            POWER |-> {"BATTERY", "EXTERNAL"}, NETWORK |-> {"DOWN", "UP"},
            TEMP_MILLIC |-> {45500}, TIME_HEX |-> {Ten, Noon}]

TimersAtRest == now = 0 /\ sinceTick = 0 /\ popups = <<Hidden, Hidden>> /\ ~card.present /\ ~replay
                /\ ages = <<0, 0>> /\ session = NoSession
Untold == reading = NothingRead /\ reported = NothingReported /\ answer = "OK"

MCNext == \/ TimersAtRest /\ \E line \in Lines : Report(line)
          \/ Untold /\ \/ TickPanel
                       \/ \E ms \in 1..MaxPass : ElapsePanel(ms)
                       \/ popups = <<Hidden, Hidden>> /\ (StartGame \/ StopGame)
                       \/ ~session.running /\ Other

MCSpec == PanelInit /\ [][MCNext]_panelVars
=============================================================================
