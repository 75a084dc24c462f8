--------------------------- MODULE ServiceButtons ---------------------------
(***************************************************************************)
(* The firmware's gesture recognizer for the R4 button                     *)
(* (core/r4_service_buttons.c), driven by the main loop: every turn of the *)
(* loop ticks the recognizer and may then sample the button together with  *)
(* the rest of the pad.  CAPTURE and TROPHY have no pins: in a normal      *)
(* build their state never changes, so R4 is the only button modelled.     *)
(* The recognizer never looks at the event ring its events go to; the ring *)
(* is module ServiceEvents.                                                *)
(*                                                                         *)
(* Each step that reads the clock reads it MaxStep ms or less after the    *)
(* step before it; the clock wraps at ClockPeriod (2^32 in the code).      *)
(***************************************************************************)
EXTENDS Integers

CONSTANTS DebounceMs, LongPressMs, DoublePressMs,
          ClockPeriod,      \* the clock counts modulo this
          MaxStep,          \* bound: the longest time between two clock readings
          MaxEdges          \* bound: how often the contact opens or closes

ASSUME ButtonAssumption ==
    /\ {DebounceMs, LongPressMs, DoublePressMs} \subseteq Nat \ {0}
    /\ MaxStep \in Nat \ {0}
    /\ MaxEdges \in Nat
    /\ ClockPeriod \in Nat
    /\ \A d \in {DebounceMs, LongPressMs, DoublePressMs, 2 * MaxStep} : 2 * d <= ClockPeriod

VARIABLES state,            \* r4_service_button_state_t of R4
          now,              \* the last clock reading
          ticked,           \* the loop has ticked and may sample the button
          edges,            \* history: contact changes seen
          owed,             \* history: debounced presses no gesture has used yet
          chord,            \* history: another control joined the current press
          bounced,          \* history: the contact bounced after that
          sinceRelease      \* history: ms since the release that awaits a SHORT

history == <<edges, owed, chord, bounced, sinceRelease>>
buttonVars == <<state, now, ticked, history>>

Time == 0..(ClockPeriod - 1)

State == [raw : BOOLEAN, stable : BOOLEAN, longEmitted : BOOLEAN,
          shortPending : BOOLEAN, chordUsed : BOOLEAN,
          rawChangedAt : Time, pressedAt : Time, shortDeadline : Time]

ButtonInit ==
    /\ state = [raw |-> FALSE, stable |-> FALSE, longEmitted |-> FALSE,
                shortPending |-> FALSE, chordUsed |-> FALSE,
                rawChangedAt |-> 0, pressedAt |-> 0, shortDeadline |-> 0]
    /\ now = 0
    /\ ticked = FALSE
    /\ edges = 0 /\ owed = 0
    /\ chord = FALSE /\ bounced = FALSE /\ sinceRelease = 0
-----------------------------------------------------------------------------
\* Plausible bug: readings are compared as plain numbers.
TimeReached_NoWrap(t, deadline) == t >= deadline

\* time_reached: the signed difference, so that a wrapped clock does not matter.
TimeReached(t, deadline) == 2 * ((t - deadline) % ClockPeriod) < ClockPeriod

After(t, ms) == (t + ms) % ClockPeriod

-----------------------------------------------------------------------------
(* A button's state, with the actions emitted on the way there: each at    *)
(* most once per step, first PRESS or RELEASE, then the gesture.           *)
Result(s, actions) == [state |-> s, actions |-> actions]

IsDouble(s, t) == s.shortPending /\ ~TimeReached(t, s.shortDeadline)

\* Plausible bug: a DOUBLE leaves the first press pending.
Released_StillPending(s, t) ==
    IF s.longEmitted \/ s.chordUsed
    THEN Result([s EXCEPT !.stable = FALSE, !.shortPending = FALSE], {"RELEASE"})
    ELSE IF IsDouble(s, t)
    THEN Result([s EXCEPT !.stable = FALSE], {"RELEASE", "DOUBLE"})
    ELSE Result([s EXCEPT !.stable = FALSE, !.shortPending = TRUE,
                          !.shortDeadline = After(t, DoublePressMs)], {"RELEASE"})

\* Plausible bug: the release of a press that was part of a chord starts a SHORT.
Released_IgnoreChord(s, t) ==
    IF s.longEmitted
    THEN Result([s EXCEPT !.stable = FALSE, !.shortPending = FALSE], {"RELEASE"})
    ELSE IF IsDouble(s, t)
    THEN Result([s EXCEPT !.stable = FALSE, !.shortPending = FALSE], {"RELEASE", "DOUBLE"})
    ELSE Result([s EXCEPT !.stable = FALSE, !.shortPending = TRUE,
                          !.shortDeadline = After(t, DoublePressMs)], {"RELEASE"})

Released(s, t) ==
    IF s.longEmitted \/ s.chordUsed
    THEN Result([s EXCEPT !.stable = FALSE, !.shortPending = FALSE], {"RELEASE"})
    ELSE IF IsDouble(s, t)
    THEN Result([s EXCEPT !.stable = FALSE, !.shortPending = FALSE], {"RELEASE", "DOUBLE"})
    ELSE Result([s EXCEPT !.stable = FALSE, !.shortPending = TRUE,
                          !.shortDeadline = After(t, DoublePressMs)], {"RELEASE"})

Pressed(s, t) ==
    Result([s EXCEPT !.stable = TRUE, !.pressedAt = t, !.longEmitted = FALSE], {"PRESS"})

\* The debounced transition, made by update and by tick alike.
Debounced(s, t) ==
    IF s.raw # s.stable /\ TimeReached(t, After(s.rawChangedAt, DebounceMs))
    THEN IF s.raw THEN Pressed(s, t) ELSE Released(s, t)
    ELSE Result(s, {})

\* The contact as read by r4_service_buttons_update.
Sampled(s, pressed, t) ==
    IF pressed = s.raw THEN s
    ELSE [s EXCEPT !.raw = pressed, !.rawChangedAt = t,
                   !.chordUsed = IF pressed THEN FALSE ELSE @]

LongDue(s, t) ==
    /\ s.stable /\ ~s.longEmitted /\ ~s.chordUsed
    /\ TimeReached(t, After(s.pressedAt, LongPressMs))

ShortDue(s, t) == s.shortPending /\ TimeReached(t, s.shortDeadline)

\* The second and third check of tick.
Ticked(s, t) ==
    LET d == Debounced(s, t)
        l == IF LongDue(d.state, t)
             THEN Result([d.state EXCEPT !.longEmitted = TRUE, !.shortPending = FALSE],
                         d.actions \cup {"LONG"})
             ELSE d
    IN  IF ShortDue(l.state, t)
        THEN Result([l.state EXCEPT !.shortPending = FALSE], l.actions \cup {"SHORT"})
        ELSE l

\* r4_service_buttons_update_with_chord
Updated(s, pressed, joined, t) ==
    LET d == Debounced(Sampled(s, pressed, t), t)
    IN  IF pressed /\ joined
        THEN Result([d.state EXCEPT !.chordUsed = TRUE, !.shortPending = FALSE], d.actions)
        ELSE d
-----------------------------------------------------------------------------
\* History: what the actions of a step add to the presses no gesture has used.
One(action, actions) == IF action \in actions THEN 1 ELSE 0

Credit(actions) ==
    One("PRESS", actions) - One("SHORT", actions) - One("LONG", actions)
        - 2 * One("DOUBLE", actions)

\* Take over a result; d is the time that has passed.
Apply(r, d) ==
    /\ state' = r.state
    /\ now' = After(now, d)
    /\ owed' = owed + Credit(r.actions)
    /\ sinceRelease' = IF ~r.state.shortPending \/ (state.stable /\ ~r.state.stable)
                       THEN 0 ELSE sinceRelease + d

Tick(d) ==
    /\ ~ticked
    /\ Apply(Ticked(state, After(now, d)), d)
    /\ ticked' = TRUE
    /\ UNCHANGED <<edges, chord, bounced>>

\* update_controller_state: the pad is sampled every few turns of the loop.
Sample(pressed, joined, d) ==
    /\ ticked
    /\ joined => pressed
    /\ Apply(Updated(state, pressed, joined, After(now, d)), d)
    /\ ticked' = FALSE
    /\ edges' = IF pressed = state.raw THEN edges ELSE edges + 1
    /\ edges' <= MaxEdges
    /\ LET fresh == pressed /\ ~state.raw /\ ~state.stable
       IN  /\ chord' = (joined \/ (chord /\ ~fresh))
           /\ bounced' = (((pressed /\ ~state.raw) \/ bounced) /\ ~fresh /\ ~joined)

\* The turn of the loop ends without a sample.
SkipSample ==
    /\ ticked
    /\ ticked' = FALSE
    /\ UNCHANGED <<state, now, history>>

ButtonNext ==
    \/ \E d \in 0..MaxStep : Tick(d)
    \/ \E pressed, joined \in BOOLEAN, d \in 0..MaxStep : Sample(pressed, joined, d)
    \/ SkipSample

ButtonSpec == ButtonInit /\ [][ButtonNext]_buttonVars
-----------------------------------------------------------------------------
ButtonTypeOK ==
    /\ state \in State
    /\ now \in Time
    /\ ticked \in BOOLEAN
    /\ edges \in 0..MaxEdges
    /\ owed \in Int
    /\ chord \in BOOLEAN /\ bounced \in BOOLEAN
    /\ sinceRelease \in Nat

\* Every press is used for one gesture at most: a SHORT and a LONG need a press of
\* their own, a DOUBLE needs two, and a pending SHORT holds one back.  No timing of
\* presses, ticks and samples makes the recognizer report more than was done.
NoPhantomGesture ==
    owed >= IF state.shortPending THEN 1 ELSE 0

\* A SHORT comes after the double-press window and with the first tick that sees it
\* over, also across a wrap of the clock.
ShortOnTime ==
    [][/\ state.shortPending /\ ~state'.shortPending /\ owed' = owed - 1
             /\ state'.longEmitted = state.longEmitted
          => sinceRelease + ((now' - now) % ClockPeriod) >= DoublePressMs
       /\ ~ticked /\ ticked' /\ state'.shortPending => sinceRelease' < DoublePressMs]_buttonVars

\* A press that was part of a chord is no gesture of its own, if the contact did not
\* bounce after the other control was let go: neither a LONG while it lasts nor a
\* SHORT or DOUBLE at its end.
CleanChordCancels ==
    [][chord /\ ~bounced =>
          /\ ~state.longEmitted /\ state.stable => ~state'.longEmitted
          /\ state.stable /\ ~state'.stable => ~state'.shortPending /\ owed' = owed]_buttonVars

\* "Once another button or D-pad direction joins a held R4, the gesture recognizer
\* cancels the pending standalone R4 action": the same without the exception for
\* contact bounce, which is what the debouncing is there to hide.
ChordCancels ==
    [][chord =>
          /\ ~state.longEmitted /\ state.stable => ~state'.longEmitted
          /\ state.stable /\ ~state'.stable => ~state'.shortPending /\ owed' = owed]_buttonVars
=============================================================================
