----------------------------- MODULE MCExchange -----------------------------
(***************************************************************************)
(* Exchange for TLC: PING stands for the three checks of a round, which    *)
(* are made alike.  Events are emitted between two rounds: an event        *)
(* touches nothing but the ring, so that it could as well have come        *)
(* earlier or later within a round.                                        *)
(***************************************************************************)
EXTENDS Exchange

CONSTANTS service, helper

MCChecks == <<"PING">>

\* Bound: no new events once something went wrong, those in the ring go on.
BetweenRounds == ~spoilt /\ turn = 1 /\ pc[Service] = "idle"

MCNext == \/ BetweenRounds /\ Emit
          \/ Serve
          \/ \E c \in Client : Step(c) \/ (Owns(c) /\ Kill(c))

MCSpec == ExchangeInit /\ [][MCNext]_exchangeVars /\ ExchangeFairness
=============================================================================
