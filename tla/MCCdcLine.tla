----------------------------- MODULE MCCdcLine -----------------------------
(***************************************************************************)
(* A small port: lines of up to three characters, one command, which is    *)
(* LED with a value, and one prefix with a usage of its own, LE for LED.   *)
(***************************************************************************)
EXTENDS CdcLine

CONSTANTS L, E, x

MCLetters == {L, E, x}
MCCommands == {<<L, E, x>>}
MCUsages == {<<L, E>>}
=============================================================================
