--------------------------- MODULE FirmwareProofs ---------------------------
(***************************************************************************)
(* Proofs about four parts of the controller's firmware that share no      *)
(* state: the framebuffer transfer, the gestures of the R4 button, the     *)
(* line editor of the serial port and the game pad's reports.              *)
(*                                                                         *)
(* The framebuffer.  For every number of readers, every set of pictures,   *)
(* frame size and chunk size: IInv adds that the bytes a reader has        *)
(* fetched so far are those of its picture (Prefix), and that no reader in *)
(* progress holds an identifier still to be given out (Issued), so the     *)
(* next INFO cannot give a reader's identifier a second meaning.           *)
(*                                                                         *)
(* The button.  For all intervals and any width of the clock: ButtonInv    *)
(* accounts for every press (Owing), says when a chord is remembered       *)
(* (Remembered) and that the distance of the clock from a pending SHORT's  *)
(* deadline is the real time since the release (Waiting).                  *)
(*                                                                         *)
(* The line editor.  For any alphabet, commands and size of the buffer:    *)
(* LineInv says that the buffer holds what the host has typed, until it is *)
(* full, and that a line which outgrew it has had its answer (Meaning).    *)
(*                                                                         *)
(* The pad.  For all widths, dead zones, calibrations, rest positions and  *)
(* intervals: the conversions are monotone, keep to their ranges and reach *)
(* their ends (AxisFits, PullIs, HatIs).  PadInv says that the last report *)
(* is what they make of its sample (Told) and that its age on the wrapping *)
(* clock is less than a period and a pass of the main loop (Aged).         *)
(***************************************************************************)
EXTENDS FramebufferTransfer, ServiceButtons, CdcLine, Pad, SequenceTheorems, TLAPS

(* The framebuffer.                                                        *)
Prefix == \A r \in Readers : reader[r].phase = "reading" =>
              \A o \in Offsets : o < reader[r].offset => reader[r].bytes[o] = reader[r].taken

Issued == \A r \in Readers : reader[r].phase = "reading" => reader[r].id <= snapshot.id

IInv == TypeOK /\ Prefix /\ Issued /\ IdentifierIsImmutable /\ FramesAreWhole

USE DEF Phases, Reader

LEMMA InitHolds == Init => IInv
BY SizeAssumption, NoneAssumption
   DEF Init, NotStarted, NoSnapshot, NoBytes, IInv, TypeOK, Offsets,
       Prefix, Issued, IdentifierIsImmutable, FramesAreWhole

(* A new snapshot has a new identifier; the reader that took it has        *)
(* fetched nothing yet, and every other reader is overtaken.               *)
LEMMA InfoStep == ASSUME IInv, NEW r \in Readers, Info(r) PROVE IInv'
<1>1. PICK s : s = Captured
    OBVIOUS
<1>2. s.id = snapshot.id + 1 /\ s.valid /\ s.image = screen
      /\ s \in [id : 0..MaxId, valid : BOOLEAN, image : Images \cup {None}]
    BY <1>1, SizeAssumption DEF Captured, Info, IInv, TypeOK
<1>3. PICK n : n = Started(s.id)
    OBVIOUS
<1>4. /\ n \in Reader /\ n.phase = "reading" /\ n.id = s.id /\ n.offset = 0 /\ n.taken = screen
    BY <1>2, <1>3, SizeAssumption DEF Started, NoBytes, Offsets, IInv, TypeOK
<1>5. /\ snapshot' = s /\ screen' = screen /\ reader' = [reader EXCEPT ![r] = n]
    BY <1>1, <1>3 DEF Info
<1>6. /\ reader \in [Readers -> Reader] /\ snapshot.id \in Nat /\ screen \in Images
    BY DEF IInv, TypeOK
<1>7. TypeOK'
    BY <1>2, <1>4, <1>5, <1>6, NoneAssumption DEF TypeOK
<1>8. Prefix'
    BY <1>4, <1>5, <1>6 DEF IInv, Prefix, Offsets
<1>9. Issued' /\ IdentifierIsImmutable'
    <2> SUFFICES ASSUME NEW q \in Readers, reader'[q].phase = "reading"
                 PROVE  /\ reader'[q].id <= snapshot'.id
                        /\ reader'[q].id = snapshot'.id =>
                               snapshot'.valid /\ snapshot'.image = reader'[q].taken
        BY DEF Issued, IdentifierIsImmutable
    <2>1. CASE q = r
        BY <1>2, <1>4, <1>5, <1>6, <2>1
    <2>2. CASE q # r
        <3>1. reader'[q] = reader[q] /\ reader[q].id \in Nat /\ reader[q].id <= snapshot.id
            BY <1>5, <1>6, <2>2 DEF IInv, Issued
        <3> QED BY <1>2, <1>5, <1>6, <3>1
    <2> QED BY <2>1, <2>2
<1>10. FramesAreWhole'
    BY <1>4, <1>5, <1>6 DEF IInv, FramesAreWhole
<1> QED BY <1>7, <1>8, <1>9, <1>10 DEF IInv

(* What the reader's loop asks for is in range.                            *)
LEMMA LengthInRange ==
    ASSUME NEW offset \in 0..Size, offset < Size
    PROVE  Length(offset) \in 1..ChunkMax /\ offset + Length(offset) \in 0..Size
BY SizeAssumption DEF Length, Smaller

(* A reader that changes alone, within its identifier and picture.         *)
LEMMA ReaderStep ==
    ASSUME IInv, NEW r \in Readers, NEW n \in Reader,
           n.id = reader[r].id, n.taken = reader[r].taken,
           reader[r].phase = "reading", n.phase \in {"reading", "done", "failed"},
           n.phase \in {"reading", "done"} =>
               \A o \in Offsets : o < n.offset => n.bytes[o] = n.taken,
           n.phase = "done" => n.offset = Size,
           reader' = [reader EXCEPT ![r] = n], UNCHANGED <<screen, snapshot>>
    PROVE  IInv'
<1>1. reader \in [Readers -> Reader] /\ reader'[r] = n
      /\ \A q \in Readers : q # r => reader'[q] = reader[q]
    BY DEF IInv, TypeOK
<1>2. TypeOK'
    BY <1>1 DEF IInv, TypeOK
<1>3. Prefix' /\ Issued' /\ IdentifierIsImmutable'
    BY <1>1 DEF IInv, Prefix, Issued, IdentifierIsImmutable
<1>4. n.phase = "done" => \A o \in Offsets : n.bytes[o] = n.taken
    BY SizeAssumption DEF Offsets
<1>5. FramesAreWhole'
    BY <1>1, <1>4 DEF IInv, FramesAreWhole
<1> QED BY <1>2, <1>3, <1>5 DEF IInv

LEMMA ChunkStep == ASSUME IInv, NEW r \in Readers, Chunk(r) PROVE IInv'
<1>1. PICK old, size : old = reader[r] /\ size = Length(old.offset)
    OBVIOUS
<1>2. /\ old \in Reader /\ old.phase = "reading" /\ old.offset < Size
      /\ \A o \in Offsets : o < old.offset => old.bytes[o] = old.taken
      /\ snapshot.image \in Images \cup {None}
    BY <1>1 DEF IInv, TypeOK, Chunk, Prefix
<1>3. size \in 1..ChunkMax /\ old.offset + size \in 0..Size
    BY <1>1, <1>2, LengthInRange
<1>4. CASE Served(old.id, old.offset, size)
    <2>1. PICK b : b = Received(old, size)
        OBVIOUS
    <2>2. snapshot.image = old.taken
        BY <1>1, <1>2, <1>4 DEF Served, IInv, IdentifierIsImmutable
    <2>3. b \in [Offsets -> Images \cup {None}]
        BY <1>2, <2>1 DEF Received
    <2>4. \A o \in Offsets : o < old.offset + size => b[o] = old.taken
        <3> SUFFICES ASSUME NEW o \in Offsets, o < old.offset + size PROVE b[o] = old.taken
            OBVIOUS
        <3>1. o \in Nat /\ old.offset \in Nat /\ size \in Nat
            BY <1>2, <1>3, SizeAssumption DEF Offsets
        <3>2. CASE o < old.offset
            BY <1>2, <2>1, <3>1, <3>2 DEF Received
        <3>3. CASE o >= old.offset
            BY <2>1, <2>2, <3>1, <3>3 DEF Received
        <3> QED BY <3>1, <3>2, <3>3
    <2>5. PICK n : n = Advanced(old, size)
        OBVIOUS
    <2>6. PICK m : m = [old EXCEPT !.offset = old.offset + size]
        OBVIOUS
    <2>7. n = [m EXCEPT !.bytes = b]
        BY <2>1, <2>5, <2>6, <1>2 DEF Advanced
    <2>8. m \in Reader /\ m.id = old.id /\ m.phase = "reading" /\ m.taken = old.taken
          /\ m.offset = old.offset + size
        BY <1>2, <1>3, <2>6
    <2>9. n \in Reader /\ n.id = old.id /\ n.phase = "reading" /\ n.taken = old.taken
          /\ n.offset = old.offset + size /\ n.bytes = b
        BY <2>3, <2>7, <2>8
    <2>10. reader' = [reader EXCEPT ![r] = n] /\ UNCHANGED <<screen, snapshot>>
        BY <1>1, <1>4, <2>5 DEF Chunk
    <2> QED BY <1>1, <1>2, <2>4, <2>9, <2>10, ReaderStep
<1>5. CASE ~Served(old.id, old.offset, size)
    <2>1. PICK n : n = Failed(old)
        OBVIOUS
    <2>2. n \in Reader /\ n.id = old.id /\ n.phase = "failed" /\ n.taken = old.taken
        BY <1>2, <2>1 DEF Failed
    <2>3. reader' = [reader EXCEPT ![r] = n] /\ UNCHANGED <<screen, snapshot>>
        BY <1>1, <1>5, <2>1 DEF Chunk
    <2> QED BY <1>1, <1>2, <2>2, <2>3, ReaderStep
<1> QED BY <1>4, <1>5

LEMMA FinishStep == ASSUME IInv, NEW r \in Readers, Finish(r) PROVE IInv'
<1>1. PICK old, n : old = reader[r] /\ n = [old EXCEPT !.phase = "done"]
    OBVIOUS
<1>2. /\ old \in Reader /\ old.phase = "reading" /\ old.offset = Size
      /\ \A o \in Offsets : o < old.offset => old.bytes[o] = old.taken
    <2>1. old \in Reader /\ old.phase = "reading" /\ old.offset >= Size
        BY <1>1 DEF IInv, TypeOK, Finish
    <2>2. \A o \in Offsets : o < old.offset => old.bytes[o] = old.taken
        BY <1>1, <2>1 DEF IInv, Prefix
    <2> QED BY <2>1, <2>2, SizeAssumption
<1>3. /\ n \in Reader /\ n.id = old.id /\ n.taken = old.taken /\ n.phase = "done"
      /\ n.offset = old.offset /\ n.bytes = old.bytes
    BY <1>1, <1>2
<1>4. reader' = [reader EXCEPT ![r] = n] /\ UNCHANGED <<screen, snapshot>>
    BY <1>1 DEF Finish
<1> QED BY <1>1, <1>2, <1>3, <1>4, ReaderStep

LEMMA GiveUpStep == ASSUME IInv, NEW r \in Readers, GiveUp(r) PROVE IInv'
<1>1. PICK old, n : old = reader[r] /\ n = Failed(old)
    OBVIOUS
<1>2. old \in Reader /\ old.phase = "reading"
    BY <1>1 DEF IInv, TypeOK, GiveUp
<1>3. n \in Reader /\ n.id = old.id /\ n.taken = old.taken /\ n.phase = "failed"
    BY <1>1, <1>2 DEF Failed
<1>4. reader' = [reader EXCEPT ![r] = n] /\ UNCHANGED <<screen, snapshot>>
    BY <1>1 DEF GiveUp
<1> QED BY <1>1, <1>2, <1>3, <1>4, ReaderStep

(* After a restart nobody is reading, so no old identifier is left.        *)
LEMMA RestartStep == ASSUME IInv, Restart PROVE IInv'
<1>1. \A r \in Readers :
          /\ reader'[r] \in Reader /\ reader'[r].phase # "reading"
          /\ reader'[r].phase = "done" => reader'[r] = reader[r]
    <2> SUFFICES ASSUME NEW r \in Readers
                 PROVE  /\ reader'[r] \in Reader /\ reader'[r].phase # "reading"
                        /\ reader'[r].phase = "done" => reader'[r] = reader[r]
        OBVIOUS
    <2>1. PICK old : old = reader[r]
        OBVIOUS
    <2>2. old \in Reader /\ Failed(old) \in Reader /\ Failed(old).phase = "failed"
        BY <2>1 DEF IInv, TypeOK, Failed
    <2>3. reader'[r] = IF old.phase = "reading" THEN Failed(old) ELSE old
        BY <2>1 DEF Restart, AfterRestart
    <2> QED BY <2>1, <2>2, <2>3
<1>2. TypeOK'
    BY <1>1, SizeAssumption DEF Restart, NoSnapshot, TypeOK
<1>3. Prefix' /\ Issued' /\ IdentifierIsImmutable'
    BY <1>1 DEF Prefix, Issued, IdentifierIsImmutable
<1>4. FramesAreWhole'
    BY <1>1 DEF IInv, FramesAreWhole
<1> QED BY <1>2, <1>3, <1>4 DEF IInv

LEMMA StepHolds == IInv /\ [Next]_vars => IInv'
<1> SUFFICES ASSUME IInv, [Next]_vars PROVE IInv'
    OBVIOUS
<1>1. ASSUME NEW image \in Images, Redraw(image) PROVE IInv'
    BY <1>1 DEF Redraw, IInv, TypeOK, Prefix, Issued, IdentifierIsImmutable, FramesAreWhole
<1>2. ASSUME NEW r \in Readers, Info(r) \/ Chunk(r) \/ Finish(r) \/ GiveUp(r) PROVE IInv'
    BY <1>2, InfoStep, ChunkStep, FinishStep, GiveUpStep
<1>3. CASE Restart
    BY <1>3, RestartStep
<1>4. CASE UNCHANGED vars
    BY <1>4 DEF vars, IInv, TypeOK, Prefix, Issued, IdentifierIsImmutable, FramesAreWhole
<1> QED BY <1>1, <1>2, <1>3, <1>4 DEF Next

LEMMA IInvHolds == Spec => []IInv
BY InitHolds, StepHolds, PTL DEF Spec

(* The snapshot and every reader keep their shape.                         *)
THEOREM TypeCorrect == Spec => []TypeOK
<1>1. IInv => TypeOK
    BY DEF IInv
<1> QED BY <1>1, IInvHolds, PTL

(* However many readers interleave with redraws and restarts, a frame that *)
(* r4-ecctl finishes is the one picture its FRAMEBUFFER INFO described.    *)
THEOREM WholeFrames == Spec => []FramesAreWhole
<1>1. IInv => FramesAreWhole
    BY DEF IInv
<1> QED BY <1>1, IInvHolds, PTL

(* capture_framebuffer never gives an identifier in use a second content.  *)
THEOREM ImmutableIdentifiers == Spec => []IdentifierIsImmutable
<1>1. IInv => IdentifierIsImmutable
    BY DEF IInv
<1> QED BY <1>1, IInvHolds, PTL

(* A reader with the current identifier is never refused a chunk: what its *)
(* loop asks for passes every check of process_framebuffer_chunk.          *)
THEOREM CurrentReadersServed == Spec => OnlyOvertakenReadersFail
<1>1. ASSUME IInv, NEW r \in Readers, Chunk(r), reader[r].id = snapshot.id
      PROVE  reader'[r].phase # "failed"
    <2>1. PICK old, size : old = reader[r] /\ size = Length(old.offset)
        OBVIOUS
    <2>2. /\ old \in Reader /\ old.phase = "reading" /\ old.offset < Size
          /\ reader \in [Readers -> Reader]
        BY <1>1, <2>1 DEF IInv, TypeOK, Chunk
    <2>3. size \in 1..ChunkMax /\ old.offset + size \in 0..Size
        BY <2>1, <2>2, LengthInRange
    <2>4. snapshot.valid
        BY <1>1, <2>1, <2>2 DEF IInv, IdentifierIsImmutable
    <2>5. old.offset \in Nat /\ size \in Nat /\ size <= Size - old.offset
        BY <2>2, <2>3, SizeAssumption
    <2>6. Served(old.id, old.offset, size)
        BY <1>1, <2>1, <2>2, <2>3, <2>4, <2>5 DEF Served
    <2>7. reader'[r] = Advanced(old, size)
        BY <1>1, <2>1, <2>2, <2>6 DEF Chunk
    <2>8. Advanced(old, size).phase = old.phase
        BY <2>2 DEF Advanced
    <2> QED BY <2>2, <2>7, <2>8
<1>2. IInv /\ [Next]_vars =>
          [\A r \in Readers : Chunk(r) /\ reader[r].id = snapshot.id => reader'[r].phase # "failed"]_vars
    BY <1>1
<1> QED BY <1>2, IInvHolds, PTL DEF Spec, OnlyOvertakenReadersFail
-----------------------------------------------------------------------------
(* The button: its presses.  A press that no gesture has used is held, or  *)
(* waits for its SHORT.                                                    *)
Held(s) == s.stable /\ ~s.longEmitted

Unused(s) == (IF s.shortPending THEN 1 ELSE 0) + (IF Held(s) THEN 1 ELSE 0)

Owing == owed >= Unused(state)

\* While the contact does not bounce, a chord is remembered as long as it matters.
Remembered == chord /\ ~bounced => state.chordUsed

\* How far the clock is behind a deadline, or past it.
Past(t, deadline) == (t - deadline) % ClockPeriod

\* A pending SHORT's deadline stands for the real time since the release.
Waiting ==
    state.shortPending =>
        /\ Past(now, state.shortDeadline) = IF sinceRelease >= DoublePressMs
                                            THEN sinceRelease - DoublePressMs
                                            ELSE ClockPeriod + sinceRelease - DoublePressMs
        /\ sinceRelease < DoublePressMs + (IF ticked THEN 0 ELSE MaxStep)

ButtonInv == ButtonTypeOK /\ Owing /\ Remembered /\ Waiting

LEMMA ClockIs ==
    /\ ClockPeriod \in Nat /\ ClockPeriod > 1 /\ MaxStep \in Nat /\ MaxStep > 0
    /\ DebounceMs \in Nat /\ LongPressMs \in Nat /\ DoublePressMs \in Nat
    /\ DebounceMs > 0 /\ LongPressMs > 0 /\ DoublePressMs > 0
    /\ 4 * MaxStep <= ClockPeriod /\ 2 * DebounceMs <= ClockPeriod
    /\ 2 * LongPressMs <= ClockPeriod /\ 2 * DoublePressMs <= ClockPeriod
    /\ Time = 0..(ClockPeriod - 1)
BY ButtonAssumption DEF Time

LEMMA Wraps ==
    ASSUME NEW m \in Nat, m > 0, NEW a \in Nat, a < 2 * m
    PROVE  a % m = IF a < m THEN a ELSE a - m
<1>1. CASE a < m
    BY <1>1
<1>2. CASE a >= m
    BY <1>2
<1>3. QED BY <1>1, <1>2

LEMMA WrapsBelow ==
    ASSUME NEW m \in Nat, m > 0, NEW a \in Int, -m <= a, a < m
    PROVE  a % m = IF a >= 0 THEN a ELSE a + m
<1>1. CASE a >= 0
    BY <1>1
<1>2. CASE a < 0
    BY <1>2
<1>3. QED BY <1>1, <1>2

LEMMA AfterIs ==
    ASSUME NEW t \in Time, NEW ms \in Nat, ms <= ClockPeriod
    PROVE  /\ After(t, ms) \in Time
           /\ After(t, ms) = IF t + ms < ClockPeriod THEN t + ms ELSE t + ms - ClockPeriod
<1>1. PICK p \in Nat : p = ClockPeriod /\ p > 1 /\ Time = 0..(p - 1)
    BY ClockIs
<1>2. PICK a \in Nat : a = t + ms /\ a < 2 * p
    BY <1>1
<1>3. a % p = IF a < p THEN a ELSE a - p
    BY <1>1, <1>2, Wraps
<1>4. PICK m : m = a % p
    OBVIOUS
<1>5. After(t, ms) = m
    BY <1>1, <1>2, <1>4 DEF After
<1>6. QED BY <1>1, <1>2, <1>3, <1>4, <1>5

LEMMA PastIs ==
    ASSUME NEW t \in Time, NEW deadline \in Time
    PROVE  Past(t, deadline) = IF t >= deadline THEN t - deadline ELSE t - deadline + ClockPeriod
<1>1. PICK p \in Nat : p = ClockPeriod /\ p > 1 /\ Time = 0..(p - 1)
    BY ClockIs
<1>2. PICK a \in Int : a = t - deadline /\ -p <= a /\ a < p
    BY <1>1
<1>3. a % p = IF a >= 0 THEN a ELSE a + p
    BY <1>1, <1>2, WrapsBelow
<1>4. PICK m : m = a % p
    OBVIOUS
<1>5. Past(t, deadline) = m
    BY <1>1, <1>2, <1>4 DEF Past
<1>6. QED BY <1>1, <1>2, <1>3, <1>4, <1>5

\* A deadline that is still to come counts as half the clock away at least.
LEMMA NotYet ==
    ASSUME NEW t \in Time, NEW ms \in Nat, ms > 0, 2 * ms <= ClockPeriod
    PROVE  /\ ~TimeReached(t, After(t, ms)) /\ After(t, ms) \in Time
           /\ Past(t, After(t, ms)) = ClockPeriod - ms
<1>1. PICK p \in Nat : p = ClockPeriod /\ p > 1 /\ Time = 0..(p - 1)
    BY ClockIs
<1>2. PICK u : u = After(t, ms)
    OBVIOUS
<1>3. ms <= ClockPeriod
    BY <1>1
<1>4. /\ After(t, ms) \in Time
      /\ After(t, ms) = IF t + ms < ClockPeriod THEN t + ms ELSE t + ms - ClockPeriod
    BY <1>3, AfterIs
<1>5. u \in Time
    BY <1>2, <1>4
<1>6. u = IF t + ms < p THEN t + ms ELSE t + ms - p
    BY <1>1, <1>2, <1>4
<1>7. PICK x : x = Past(t, u)
    OBVIOUS
<1>8. x = IF t >= u THEN t - u ELSE t - u + p
    BY <1>1, <1>5, <1>7, PastIs
<1>9. x = p - ms
    BY <1>1, <1>5, <1>6, <1>8
<1>10. ~(2 * x < p)
    BY <1>1, <1>9
<1>11. ~TimeReached(t, u)
    BY <1>1, <1>7, <1>10 DEF TimeReached, Past
<1>12. QED BY <1>1, <1>2, <1>5, <1>6, <1>7, <1>9, <1>11

LEMMA PastLater ==
    ASSUME NEW t \in Time, NEW deadline \in Time, NEW d \in 0..MaxStep
    PROVE  /\ After(t, d) \in Time
           /\ Past(After(t, d), deadline) =
                  IF Past(t, deadline) + d < ClockPeriod THEN Past(t, deadline) + d
                                                         ELSE Past(t, deadline) + d - ClockPeriod
<1>1. PICK p \in Nat : p = ClockPeriod /\ p > 1 /\ Time = 0..(p - 1) /\ d \in Nat /\ d < p
    BY ClockIs
<1>2. PICK u : u = After(t, d)
    OBVIOUS
<1>3. d <= ClockPeriod
    BY <1>1
<1>4. /\ After(t, d) \in Time
      /\ After(t, d) = IF t + d < ClockPeriod THEN t + d ELSE t + d - ClockPeriod
    BY <1>1, <1>3, AfterIs
<1>5. u \in Time
    BY <1>2, <1>4
<1>6. u = IF t + d < p THEN t + d ELSE t + d - p
    BY <1>1, <1>2, <1>4
<1>7. PICK x : x = Past(t, deadline)
    OBVIOUS
<1>8. x = IF t >= deadline THEN t - deadline ELSE t - deadline + p
    BY <1>1, <1>7, PastIs
<1>9. PICK y : y = Past(u, deadline)
    OBVIOUS
<1>10. y = IF u >= deadline THEN u - deadline ELSE u - deadline + p
    BY <1>1, <1>5, <1>9, PastIs
<1>11. y = IF x + d < p THEN x + d ELSE x + d - p
    BY <1>1, <1>5, <1>6, <1>8, <1>10
<1>12. QED BY <1>1, <1>2, <1>5, <1>6, <1>7, <1>9, <1>11
-----------------------------------------------------------------------------
(* The button: what a debounced transition, a tick and a sample make of it.*)
(* c is the credit of the actions: presses made less presses used.         *)
Debounces(s, t, u, c) ==
    /\ u \in State /\ u.raw = s.raw /\ u.chordUsed = s.chordUsed
    /\ \/ u = s /\ c = 0
       \/ /\ s.raw /\ ~s.stable /\ u.stable /\ ~u.longEmitted /\ c = 1
          /\ u.shortPending = s.shortPending /\ u.shortDeadline = s.shortDeadline
       \/ /\ ~s.raw /\ s.stable /\ ~u.stable /\ u.longEmitted = s.longEmitted
          /\ \/ (s.longEmitted \/ s.chordUsed) /\ ~u.shortPending /\ c = 0
             \/ /\ ~s.longEmitted /\ ~s.chordUsed
                /\ s.shortPending /\ ~u.shortPending /\ c = -2
             \/ /\ ~s.longEmitted /\ ~s.chordUsed /\ c = 0
                /\ u.shortPending /\ u.shortDeadline = After(t, DoublePressMs)

\* The second and third check of a tick.
Matures(u, t, v, b) ==
    /\ v \in State /\ v.raw = u.raw /\ v.chordUsed = u.chordUsed /\ v.stable = u.stable
    /\ v.shortDeadline = u.shortDeadline
    /\ \/ /\ u.stable /\ ~u.longEmitted /\ ~u.chordUsed
          /\ v.longEmitted /\ ~v.shortPending /\ b = -1
       \/ /\ u.shortPending /\ TimeReached(t, u.shortDeadline)
          /\ v.longEmitted = u.longEmitted /\ ~v.shortPending /\ b = -1
       \/ /\ v = u /\ b = 0
          /\ u.shortPending => ~TimeReached(t, u.shortDeadline)

Plain == {"PRESS", "RELEASE", "DOUBLE"}

LEMMA WordsDiffer ==
    /\ "LONG" \notin Plain /\ "SHORT" \notin Plain
    /\ "LONG" # "SHORT" /\ "PRESS" # "RELEASE" /\ "PRESS" # "DOUBLE" /\ "RELEASE" # "DOUBLE"
    /\ "LONG" # "PRESS" /\ "LONG" # "DOUBLE" /\ "LONG" # "RELEASE"
    /\ "SHORT" # "PRESS" /\ "SHORT" # "DOUBLE" /\ "SHORT" # "RELEASE"
BY DEF Plain

LEMMA PlainCredit ==
    /\ Credit({}) = 0
    /\ Credit({"PRESS"}) = 1
    /\ Credit({"RELEASE"}) = 0
    /\ Credit({"RELEASE", "DOUBLE"}) = -2
<1>1. Credit({}) = 0
    BY DEF Credit, One
<1>2. Credit({"PRESS"}) = 1
    BY WordsDiffer DEF Credit, One
<1>3. Credit({"RELEASE"}) = 0
    BY WordsDiffer DEF Credit, One
<1>4. Credit({"RELEASE", "DOUBLE"}) = -2
    BY WordsDiffer DEF Credit, One
<1>5. QED BY <1>1, <1>2, <1>3, <1>4

LEMMA MoreCredit ==
    ASSUME NEW a \in SUBSET Plain
    PROVE  /\ Credit(a \cup {"LONG"}) = Credit(a) - 1
           /\ Credit(a \cup {"SHORT"}) = Credit(a) - 1
           /\ Credit(a) \in Int
<1>1. "LONG" \notin a /\ "SHORT" \notin a
    BY WordsDiffer
<1>2. /\ One("LONG", a) = 0 /\ One("SHORT", a) = 0
      /\ One("LONG", a \cup {"LONG"}) = 1 /\ One("SHORT", a \cup {"SHORT"}) = 1
      /\ One("LONG", a \cup {"SHORT"}) = 0 /\ One("SHORT", a \cup {"LONG"}) = 0
    BY <1>1, WordsDiffer DEF One
<1>3. /\ One("PRESS", a \cup {"LONG"}) = One("PRESS", a)
      /\ One("PRESS", a \cup {"SHORT"}) = One("PRESS", a)
      /\ One("DOUBLE", a \cup {"LONG"}) = One("DOUBLE", a)
      /\ One("DOUBLE", a \cup {"SHORT"}) = One("DOUBLE", a)
    BY WordsDiffer DEF One
<1>4. PICK p, q \in Int : p = One("PRESS", a) /\ q = One("DOUBLE", a)
    BY DEF One
<1>5. Credit(a \cup {"LONG"}) = p - 1 - 2 * q
    BY <1>2, <1>3, <1>4 DEF Credit
<1>6. Credit(a \cup {"SHORT"}) = p - 1 - 2 * q
    BY <1>2, <1>3, <1>4 DEF Credit
<1>7. Credit(a) = p - 2 * q
    BY <1>2, <1>4 DEF Credit
<1>8. QED BY <1>4, <1>5, <1>6, <1>7

LEMMA SampledIs ==
    ASSUME NEW s \in State, NEW pressed \in BOOLEAN, NEW t \in Time
    PROVE  LET r == Sampled(s, pressed, t)
           IN  /\ r \in State /\ r.raw = pressed /\ r.stable = s.stable
               /\ r.longEmitted = s.longEmitted
               /\ r.shortPending = s.shortPending /\ r.shortDeadline = s.shortDeadline
               /\ r.chordUsed = (s.chordUsed /\ ~(pressed /\ ~s.raw))
BY DEF Sampled, State

LEMMA DebouncedIs ==
    ASSUME NEW s \in State, NEW t \in Time
    PROVE  LET d == Debounced(s, t)
           IN  d.actions \in SUBSET Plain /\ Debounces(s, t, d.state, Credit(d.actions))
<1> DEFINE d == Debounced(s, t)
<1>1. After(t, DoublePressMs) \in Time
    BY NotYet, ClockIs
<1>2. CASE s.raw = s.stable \/ ~TimeReached(t, After(s.rawChangedAt, DebounceMs))
    <2>1. d.state = s /\ d.actions = {}
        BY <1>2 DEF Debounced, Result
    <2>2. QED BY <2>1, PlainCredit DEF Debounces
<1>3. CASE s.raw /\ ~s.stable /\ TimeReached(t, After(s.rawChangedAt, DebounceMs))
    <2>1. d.state = [s EXCEPT !.stable = TRUE, !.pressedAt = t, !.longEmitted = FALSE]
          /\ d.actions = {"PRESS"}
        BY <1>3 DEF Debounced, Result, Pressed, State
    <2>2. PICK u : u = d.state
        OBVIOUS
    <2>3. /\ u \in State /\ u.raw = s.raw /\ u.chordUsed = s.chordUsed /\ u.stable
          /\ ~u.longEmitted
          /\ u.shortPending = s.shortPending /\ u.shortDeadline = s.shortDeadline
        BY <2>1, <2>2 DEF State
    <2>4. Credit(d.actions) = 1 /\ d.actions \in SUBSET Plain
        BY <2>1, PlainCredit DEF Plain
    <2>5. QED BY <1>3, <2>2, <2>3, <2>4 DEF Debounces
<1>4. CASE ~s.raw /\ s.stable /\ TimeReached(t, After(s.rawChangedAt, DebounceMs))
    <2>1. d = Released(s, t)
        BY <1>4 DEF Debounced, State
    <2>2. CASE s.longEmitted \/ s.chordUsed
        <3>1. d.state = [s EXCEPT !.stable = FALSE, !.shortPending = FALSE]
              /\ d.actions = {"RELEASE"}
            BY <2>1, <2>2 DEF Released, Result
        <3>2. PICK u : u = d.state
            OBVIOUS
        <3>3. /\ u \in State /\ u.raw = s.raw /\ u.chordUsed = s.chordUsed /\ ~u.stable
              /\ ~u.shortPending /\ u.longEmitted = s.longEmitted
            BY <3>1, <3>2 DEF State
        <3>4. Credit(d.actions) = 0 /\ d.actions \in SUBSET Plain
            BY <3>1, PlainCredit DEF Plain
        <3>5. QED BY <1>4, <2>2, <3>2, <3>3, <3>4 DEF Debounces
    <2>3. CASE ~s.longEmitted /\ ~s.chordUsed /\ IsDouble(s, t)
        <3>1. d.state = [s EXCEPT !.stable = FALSE, !.shortPending = FALSE]
              /\ d.actions = {"RELEASE", "DOUBLE"}
            BY <2>1, <2>3 DEF Released, Result
        <3>2. PICK u : u = d.state
            OBVIOUS
        <3>3. /\ u \in State /\ u.raw = s.raw /\ u.chordUsed = s.chordUsed /\ ~u.stable
              /\ ~u.shortPending /\ u.longEmitted = s.longEmitted
            BY <3>1, <3>2 DEF State
        <3>4. Credit(d.actions) = -2 /\ d.actions \in SUBSET Plain
            BY <3>1, PlainCredit DEF Plain
        <3>5. s.shortPending
            BY <2>3 DEF IsDouble
        <3>6. QED BY <1>4, <2>3, <3>2, <3>3, <3>4, <3>5 DEF Debounces
    <2>4. CASE ~s.longEmitted /\ ~s.chordUsed /\ ~IsDouble(s, t)
        <3>1. d.state = [s EXCEPT !.stable = FALSE, !.shortPending = TRUE,
                                  !.shortDeadline = After(t, DoublePressMs)]
              /\ d.actions = {"RELEASE"}
            BY <2>1, <2>4 DEF Released, Result
        <3>2. PICK u : u = d.state
            OBVIOUS
        <3>a. PICK e \in Time : e = After(t, DoublePressMs)
            BY <1>1
        <3>3. /\ u \in State /\ u.raw = s.raw /\ u.chordUsed = s.chordUsed /\ ~u.stable
              /\ u.shortPending /\ u.longEmitted = s.longEmitted
              /\ u.shortDeadline = e
            BY <3>1, <3>2, <3>a DEF State
        <3>4. Credit(d.actions) = 0 /\ d.actions \in SUBSET Plain
            BY <3>1, PlainCredit DEF Plain
        <3>5. QED BY <1>4, <2>4, <3>2, <3>a, <3>3, <3>4 DEF Debounces
    <2>5. QED BY <2>2, <2>3, <2>4
<1>5. QED BY <1>2, <1>3, <1>4 DEF State

LEMMA TickedIs ==
    ASSUME NEW s \in State, NEW t \in Time
    PROVE  LET r == Ticked(s, t)
           IN  \E u \in State, c, b \in Int :
                   /\ Debounces(s, t, u, c) /\ Matures(u, t, r.state, b)
                   /\ Credit(r.actions) = c + b
<1>1. PICK d : d = Debounced(s, t)
    OBVIOUS
<1>2. PICK a, u : a \in SUBSET Plain /\ a = d.actions /\ u = d.state
    BY <1>1, DebouncedIs
<1>3. PICK c : c = Credit(a)
    OBVIOUS
<1>4. Debounces(s, t, u, c) /\ u \in State /\ c \in Int
    BY <1>1, <1>2, <1>3, DebouncedIs, MoreCredit DEF Debounces
<1>5. PICK r : r = Ticked(s, t)
    OBVIOUS
<1>6. CASE LongDue(u, t)
    <2>1. PICK v : v = [u EXCEPT !.longEmitted = TRUE, !.shortPending = FALSE]
        OBVIOUS
    <2>2. /\ v \in State /\ v.raw = u.raw /\ v.chordUsed = u.chordUsed /\ v.stable = u.stable
          /\ v.shortDeadline = u.shortDeadline /\ v.longEmitted /\ ~v.shortPending
        BY <1>4, <2>1 DEF State
    <2>3. ~ShortDue(v, t)
        BY <2>2 DEF ShortDue
    <2>4. r = Result(v, a \cup {"LONG"})
        BY <1>1, <1>2, <1>5, <1>6, <2>1, <2>3 DEF Ticked, Result
    <2>5. r.state = v /\ Credit(r.actions) = c - 1
        BY <1>2, <1>3, <2>4, MoreCredit DEF Result
    <2>6. Matures(u, t, v, -1)
        BY <1>6, <2>2 DEF Matures, LongDue
    <2>7. QED BY <1>4, <1>5, <2>5, <2>6
<1>7. CASE ~LongDue(u, t) /\ ShortDue(u, t)
    <2>1. PICK v : v = [u EXCEPT !.shortPending = FALSE]
        OBVIOUS
    <2>2. /\ v \in State /\ v.raw = u.raw /\ v.chordUsed = u.chordUsed /\ v.stable = u.stable
          /\ v.shortDeadline = u.shortDeadline /\ v.longEmitted = u.longEmitted
          /\ ~v.shortPending
        BY <1>4, <2>1 DEF State
    <2>3. r = Result(v, a \cup {"SHORT"})
        BY <1>1, <1>2, <1>5, <1>7, <2>1 DEF Ticked, Result
    <2>4. r.state = v /\ Credit(r.actions) = c - 1
        BY <1>2, <1>3, <2>3, MoreCredit DEF Result
    <2>5. Matures(u, t, v, -1)
        BY <1>7, <2>2 DEF Matures, ShortDue
    <2>6. QED BY <1>4, <1>5, <2>4, <2>5
<1>8. CASE ~LongDue(u, t) /\ ~ShortDue(u, t)
    <2>1. r = d
        BY <1>1, <1>2, <1>5, <1>8 DEF Ticked
    <2>2. Matures(u, t, u, 0)
        BY <1>4, <1>8 DEF Matures, ShortDue
    <2>3. r.state = u /\ Credit(r.actions) = c + 0
        BY <1>2, <1>3, <1>4, <2>1
    <2>4. QED BY <1>4, <1>5, <2>2, <2>3
<1>9. QED BY <1>6, <1>7, <1>8

\* What update_with_chord leaves of a chord; it never reports a LONG or a SHORT.
Joins(pressed, joined, u, v) ==
    /\ v \in State /\ v.raw = u.raw /\ v.stable = u.stable /\ v.longEmitted = u.longEmitted
    /\ v.shortDeadline = u.shortDeadline
    /\ \/ pressed /\ joined /\ v.chordUsed /\ ~v.shortPending
       \/ ~(pressed /\ joined) /\ v = u

LEMMA UpdatedIs ==
    ASSUME NEW s \in State, NEW pressed \in BOOLEAN, NEW joined \in BOOLEAN, NEW t \in Time
    PROVE  LET r == Updated(s, pressed, joined, t)
           IN  \E w, u \in State, c \in Int :
                   /\ w = Sampled(s, pressed, t)
                   /\ Debounces(w, t, u, c) /\ Joins(pressed, joined, u, r.state)
                   /\ Credit(r.actions) = c
<1>1. PICK w \in State : w = Sampled(s, pressed, t)
    BY SampledIs
<1>2. PICK d : d = Debounced(w, t)
    OBVIOUS
<1>3. PICK a, u : a \in SUBSET Plain /\ a = d.actions /\ u = d.state
    BY <1>2, DebouncedIs
<1>4. PICK c : c = Credit(a)
    OBVIOUS
<1>5. Debounces(w, t, u, c) /\ u \in State /\ c \in Int
    BY <1>2, <1>3, <1>4, DebouncedIs, MoreCredit DEF Debounces
<1>6. PICK r : r = Updated(s, pressed, joined, t)
    OBVIOUS
<1>7. CASE pressed /\ joined
    <2>1. PICK v : v = [u EXCEPT !.chordUsed = TRUE, !.shortPending = FALSE]
        OBVIOUS
    <2>2. /\ v \in State /\ v.raw = u.raw /\ v.chordUsed /\ v.stable = u.stable
          /\ v.shortDeadline = u.shortDeadline /\ v.longEmitted = u.longEmitted
          /\ ~v.shortPending
        BY <1>5, <2>1 DEF State
    <2>3. r = Result(v, a)
        BY <1>1, <1>2, <1>3, <1>6, <1>7, <2>1 DEF Updated
    <2>4. r.state = v /\ Credit(r.actions) = c
        BY <1>4, <2>3 DEF Result
    <2>5. Joins(pressed, joined, u, v)
        BY <1>7, <2>2 DEF Joins
    <2>6. QED BY <1>1, <1>5, <1>6, <2>4, <2>5
<1>8. CASE ~(pressed /\ joined)
    <2>1. r = d
        BY <1>1, <1>2, <1>6, <1>8 DEF Updated
    <2>2. Joins(pressed, joined, u, u)
        BY <1>5, <1>8 DEF Joins
    <2>3. QED BY <1>1, <1>3, <1>4, <1>5, <1>6, <2>1, <2>2
<1>9. QED BY <1>7, <1>8

LEMMA DebounceCredit ==
    ASSUME NEW s \in State, NEW t \in Time, NEW u \in State, NEW c \in Int,
           Debounces(s, t, u, c)
    PROVE  Unused(u) <= Unused(s) + c
BY DEF Debounces, Unused, Held, State

LEMMA MatureCredit ==
    ASSUME NEW u \in State, NEW t \in Time, NEW v \in State, NEW b \in Int,
           Matures(u, t, v, b)
    PROVE  Unused(v) <= Unused(u) + b
BY DEF Matures, Unused, Held, State

LEMMA UnusedIs ==
    ASSUME NEW s \in State
    PROVE  Unused(s) \in Nat /\ (s.shortPending => Unused(s) >= 1)
BY DEF Unused

\* The clock moves on under a deadline that has not been seen to pass.
LEMMA WaitingLater ==
    ASSUME NEW t \in Time, NEW deadline \in Time, NEW d \in 0..MaxStep, NEW since \in Nat,
           since < DoublePressMs + MaxStep,
           Past(t, deadline) = IF since >= DoublePressMs THEN since - DoublePressMs
                               ELSE ClockPeriod + since - DoublePressMs
    PROVE  /\ Past(After(t, d), deadline) =
                  IF since + d >= DoublePressMs THEN since + d - DoublePressMs
                  ELSE ClockPeriod + (since + d) - DoublePressMs
           /\ TimeReached(After(t, d), deadline) <=> since + d >= DoublePressMs
<1>1. PICK p \in Nat, w \in Nat, m \in Nat :
          /\ p = ClockPeriod /\ w = DoublePressMs /\ m = MaxStep
          /\ 4 * m <= p /\ 2 * w <= p /\ w > 0 /\ m > 0
    BY ClockIs
<1>2. PICK x : x = Past(t, deadline)
    OBVIOUS
<1>3. x = IF since >= w THEN since - w ELSE p + since - w
    BY <1>1, <1>2
<1>4. PICK y : y = Past(After(t, d), deadline)
    OBVIOUS
<1>5. y = IF x + d < p THEN x + d ELSE x + d - p
    BY <1>1, <1>2, <1>4, PastLater
<1>6. since < w + m /\ d \in Nat /\ d <= m
    BY <1>1
<1>7. y = IF since + d >= w THEN since + d - w ELSE p + (since + d) - w
    BY <1>1, <1>3, <1>5, <1>6
<1>8. 2 * y < p <=> since + d >= w
    BY <1>1, <1>6, <1>7
<1>9. TimeReached(After(t, d), deadline) <=> 2 * y < p
    BY <1>1, <1>4 DEF TimeReached, Past
<1>10. QED BY <1>1, <1>4, <1>7, <1>8, <1>9
-----------------------------------------------------------------------------
(* The button: the invariant, step by step.                                *)
LEMMA TickIs ==
    ASSUME ButtonTypeOK, NEW d \in 0..MaxStep, Tick(d)
    PROVE  /\ now' = After(now, d) /\ now' \in Time
           /\ \E u \in State, c, b \in Int :
                  /\ Debounces(state, now', u, c) /\ Matures(u, now', state', b)
                  /\ owed' = owed + (c + b)
           /\ sinceRelease' = IF ~state'.shortPending \/ (state.stable /\ ~state'.stable)
                              THEN 0 ELSE sinceRelease + d
<1>1. now \in Time /\ state \in State
    BY DEF ButtonTypeOK
<1>2. now' = After(now, d)
    BY DEF Tick, Apply
<1>3. now' \in Time
    BY <1>1, <1>2, PastLater
<1>4. PICK t \in Time : t = After(now, d) /\ t = now'
    BY <1>2, <1>3
<1>5. PICK r : r = Ticked(state, t)
    OBVIOUS
<1>6. /\ state' = r.state /\ owed' = owed + Credit(r.actions)
      /\ sinceRelease' = IF ~r.state.shortPending \/ (state.stable /\ ~r.state.stable)
                         THEN 0 ELSE sinceRelease + d
    BY <1>4, <1>5 DEF Tick, Apply
<1>7. \E u \in State, c, b \in Int :
          Debounces(state, t, u, c) /\ Matures(u, t, r.state, b) /\ Credit(r.actions) = c + b
    BY <1>1, <1>5, TickedIs
<1>8. QED BY <1>4, <1>6, <1>7

LEMMA SampleIs ==
    ASSUME ButtonTypeOK, NEW pressed \in BOOLEAN, NEW joined \in BOOLEAN,
           NEW d \in 0..MaxStep, Sample(pressed, joined, d)
    PROVE  /\ now' = After(now, d) /\ now' \in Time
           /\ \E w, u \in State, c \in Int :
                  /\ w = Sampled(state, pressed, now')
                  /\ Debounces(w, now', u, c) /\ Joins(pressed, joined, u, state')
                  /\ owed' = owed + c
           /\ sinceRelease' = IF ~state'.shortPending \/ (state.stable /\ ~state'.stable)
                              THEN 0 ELSE sinceRelease + d
<1>1. now \in Time /\ state \in State
    BY DEF ButtonTypeOK
<1>2. now' = After(now, d)
    BY DEF Sample, Apply
<1>3. now' \in Time
    BY <1>1, <1>2, PastLater
<1>4. PICK t \in Time : t = After(now, d) /\ t = now'
    BY <1>2, <1>3
<1>5. PICK r : r = Updated(state, pressed, joined, t)
    OBVIOUS
<1>6. /\ state' = r.state /\ owed' = owed + Credit(r.actions)
      /\ sinceRelease' = IF ~r.state.shortPending \/ (state.stable /\ ~r.state.stable)
                         THEN 0 ELSE sinceRelease + d
    BY <1>4, <1>5 DEF Sample, Apply
<1>7. \E w, u \in State, c \in Int :
          /\ w = Sampled(state, pressed, t)
          /\ Debounces(w, t, u, c) /\ Joins(pressed, joined, u, r.state)
          /\ Credit(r.actions) = c
    <2>1. \E w, u \in State, c \in Int :
              /\ w = Sampled(state, pressed, t)
              /\ Debounces(w, t, u, c)
              /\ Joins(pressed, joined, u, Updated(state, pressed, joined, t).state)
              /\ Credit(Updated(state, pressed, joined, t).actions) = c
        BY <1>1, UpdatedIs
    <2>2. QED BY <1>5, <2>1
<1>8. QED BY <1>4, <1>6, <1>7

LEMMA ButtonInitHolds == ButtonInit => ButtonInv
<1> SUFFICES ASSUME ButtonInit PROVE ButtonInv
    OBVIOUS
<1>1. 0 \in Time /\ MaxEdges \in Nat
    BY ClockIs, ButtonAssumption
<1>2. state \in State /\ ~state.stable /\ ~state.shortPending
    BY <1>1 DEF ButtonInit, State
<1>3. ButtonTypeOK
    <2>1. /\ now = 0 /\ ticked = FALSE /\ edges = 0 /\ owed = 0
          /\ chord = FALSE /\ bounced = FALSE /\ sinceRelease = 0
        BY DEF ButtonInit
    <2>2. ticked \in BOOLEAN /\ chord \in BOOLEAN /\ bounced \in BOOLEAN
        BY <2>1, Zenon
    <2>3. now \in Time /\ edges \in 0..MaxEdges /\ owed \in Int /\ sinceRelease \in Nat
        BY <1>1, <2>1
    <2>4. QED BY <1>2, <2>2, <2>3 DEF ButtonTypeOK
<1>4. Owing
    BY <1>2 DEF ButtonInit, Owing, Unused, Held
<1>5. Remembered /\ Waiting
    BY <1>2 DEF ButtonInit, Remembered, Waiting
<1>6. QED BY <1>3, <1>4, <1>5 DEF ButtonInv

LEMMA ButtonTypeKept == ButtonTypeOK /\ [ButtonNext]_buttonVars => ButtonTypeOK'
<1> SUFFICES ASSUME ButtonTypeOK, [ButtonNext]_buttonVars PROVE ButtonTypeOK'
    OBVIOUS
<1>1. MaxEdges \in Nat /\ MaxStep \in Nat
    BY ButtonAssumption
<1>2. ASSUME NEW d \in 0..MaxStep, Tick(d) PROVE ButtonTypeOK'
    <2>1. state' \in State /\ now' \in Time
        BY <1>2, TickIs DEF Matures
    <2>2. owed' \in Int
        BY <1>2, TickIs DEF ButtonTypeOK
    <2>3. sinceRelease' \in Nat
        BY <1>1, <1>2, TickIs DEF ButtonTypeOK
    <2>4. ticked' \in BOOLEAN /\ edges' \in 0..MaxEdges /\ chord' \in BOOLEAN /\ bounced' \in BOOLEAN
        BY <1>2 DEF Tick, ButtonTypeOK
    <2>5. QED BY <2>1, <2>2, <2>3, <2>4 DEF ButtonTypeOK
<1>3. ASSUME NEW pressed \in BOOLEAN, NEW joined \in BOOLEAN, NEW d \in 0..MaxStep,
             Sample(pressed, joined, d)
      PROVE  ButtonTypeOK'
    <2>1. state' \in State /\ now' \in Time
        BY <1>3, SampleIs DEF Joins
    <2>2. owed' \in Int
        BY <1>3, SampleIs DEF ButtonTypeOK
    <2>3. sinceRelease' \in Nat
        BY <1>1, <1>3, SampleIs DEF ButtonTypeOK
    <2>4. ticked' \in BOOLEAN /\ chord' \in BOOLEAN /\ bounced' \in BOOLEAN
        BY <1>3 DEF Sample, ButtonTypeOK
    <2>5. edges' \in 0..MaxEdges
        BY <1>1, <1>3 DEF Sample, ButtonTypeOK
    <2>6. QED BY <2>1, <2>2, <2>3, <2>4, <2>5 DEF ButtonTypeOK
<1>4. CASE SkipSample \/ UNCHANGED buttonVars
    BY <1>4 DEF SkipSample, buttonVars, history, ButtonTypeOK
<1>5. QED BY <1>2, <1>3, <1>4 DEF ButtonNext

LEMMA OwingKept == ButtonTypeOK /\ Owing /\ [ButtonNext]_buttonVars => Owing'
<1> SUFFICES ASSUME ButtonTypeOK, Owing, [ButtonNext]_buttonVars PROVE Owing'
    OBVIOUS
<1>1. state \in State /\ owed \in Int /\ owed >= Unused(state) /\ Unused(state) \in Nat
    BY UnusedIs DEF ButtonTypeOK, Owing
<1>2. ASSUME NEW d \in 0..MaxStep, Tick(d) PROVE Owing'
    <2>1. PICK u \in State, c \in Int, b \in Int :
              /\ Debounces(state, now', u, c) /\ Matures(u, now', state', b)
              /\ owed' = owed + (c + b) /\ now' \in Time
        BY <1>2, TickIs
    <2>2. PICK v \in State : v = state'
        BY <2>1 DEF Matures
    <2>3. Unused(u) <= Unused(state) + c /\ Unused(v) <= Unused(u) + b
        BY <1>1, <2>1, <2>2, DebounceCredit, MatureCredit
    <2>4. Unused(u) \in Nat /\ Unused(v) \in Nat
        BY <2>2, UnusedIs
    <2>5. owed' >= Unused(v)
        BY <1>1, <2>1, <2>3, <2>4
    <2>6. QED BY <2>2, <2>5 DEF Owing
<1>3. ASSUME NEW pressed \in BOOLEAN, NEW joined \in BOOLEAN, NEW d \in 0..MaxStep,
             Sample(pressed, joined, d)
      PROVE  Owing'
    <2>1. PICK w \in State, u \in State, c \in Int :
              /\ w = Sampled(state, pressed, now')
              /\ Debounces(w, now', u, c) /\ Joins(pressed, joined, u, state')
              /\ owed' = owed + c /\ now' \in Time
        BY <1>3, SampleIs
    <2>2. PICK v \in State : v = state'
        BY <2>1 DEF Joins
    <2>3. Unused(w) = Unused(state)
        BY <1>1, <2>1, SampledIs DEF Unused, Held
    <2>4. Unused(u) <= Unused(w) + c
        BY <2>1, DebounceCredit
    <2>5. Unused(v) <= Unused(u)
        BY <2>1, <2>2 DEF Joins, Unused, Held, State
    <2>6. Unused(u) \in Nat /\ Unused(v) \in Nat
        BY <2>2, UnusedIs
    <2>7. owed' >= Unused(v)
        BY <1>1, <2>1, <2>3, <2>4, <2>5, <2>6
    <2>8. QED BY <2>2, <2>7 DEF Owing
<1>4. CASE SkipSample \/ UNCHANGED buttonVars
    BY <1>4 DEF SkipSample, buttonVars, history, Owing
<1>5. QED BY <1>2, <1>3, <1>4 DEF ButtonNext

LEMMA RememberedKept == ButtonTypeOK /\ Remembered /\ [ButtonNext]_buttonVars => Remembered'
<1> SUFFICES ASSUME ButtonTypeOK, Remembered, [ButtonNext]_buttonVars PROVE Remembered'
    OBVIOUS
<1>1. state \in State /\ chord \in BOOLEAN /\ bounced \in BOOLEAN
    BY DEF ButtonTypeOK
<1>2. ASSUME NEW d \in 0..MaxStep, Tick(d) PROVE Remembered'
    <2>1. state'.chordUsed = state.chordUsed
        BY <1>2, TickIs DEF Debounces, Matures
    <2>2. chord' = chord /\ bounced' = bounced
        BY <1>2 DEF Tick
    <2>3. QED BY <2>1, <2>2 DEF Remembered
<1>3. ASSUME NEW pressed \in BOOLEAN, NEW joined \in BOOLEAN, NEW d \in 0..MaxStep,
             Sample(pressed, joined, d), chord', ~bounced'
      PROVE  state'.chordUsed
    <2>1. PICK w \in State, u \in State, c \in Int :
              /\ w = Sampled(state, pressed, now')
              /\ Debounces(w, now', u, c) /\ Joins(pressed, joined, u, state') /\ now' \in Time
        BY <1>3, SampleIs
    <2>2. w.chordUsed = (state.chordUsed /\ ~(pressed /\ ~state.raw))
        BY <1>1, <2>1, SampledIs
    <2>3. CASE joined
        BY <1>3, <2>1, <2>3 DEF Sample, Joins
    <2>4. CASE ~joined
        <3>1. chord /\ ~bounced /\ ~(pressed /\ ~state.raw)
            BY <1>1, <1>3, <2>4 DEF Sample
        <3>2. w.chordUsed
            BY <2>2, <3>1 DEF Remembered
        <3>3. QED BY <2>1, <2>4, <3>2 DEF Debounces, Joins
    <2>5. QED BY <2>3, <2>4
<1>4. CASE SkipSample \/ UNCHANGED buttonVars
    BY <1>4 DEF SkipSample, buttonVars, history, Remembered
<1>5. QED BY <1>2, <1>3, <1>4 DEF ButtonNext, Remembered

LEMMA WaitingKept == ButtonTypeOK /\ Waiting /\ [ButtonNext]_buttonVars => Waiting'
<1> SUFFICES ASSUME ButtonTypeOK, Waiting, [ButtonNext]_buttonVars PROVE Waiting'
    OBVIOUS
<1>1. state \in State /\ now \in Time /\ sinceRelease \in Nat /\ state.shortDeadline \in Time
      /\ ticked \in BOOLEAN
    BY DEF ButtonTypeOK, State
<1>2. PICK p \in Nat, w \in Nat, m \in Nat :
          p = ClockPeriod /\ w = DoublePressMs /\ m = MaxStep /\ w > 0 /\ m > 0 /\ 2 * w <= p
    BY ClockIs
<1>3. \A t \in Time : /\ ~TimeReached(t, After(t, w))
                      /\ Past(t, After(t, w)) = p - w
    BY <1>2, NotYet
<1>4. ASSUME NEW d \in 0..MaxStep, now' = After(now, d), state.shortPending
      PROVE  /\ Past(now', state.shortDeadline) =
                    IF sinceRelease + d >= w THEN sinceRelease + d - w
                    ELSE p + (sinceRelease + d) - w
             /\ TimeReached(now', state.shortDeadline) <=> sinceRelease + d >= w
    <2>1. sinceRelease < DoublePressMs + MaxStep
        BY <1>1, <1>2, <1>4 DEF Waiting
    <2>2. Past(now, state.shortDeadline) = IF sinceRelease >= DoublePressMs
                                           THEN sinceRelease - DoublePressMs
                                           ELSE ClockPeriod + sinceRelease - DoublePressMs
        BY <1>4 DEF Waiting
    <2>3. /\ Past(After(now, d), state.shortDeadline) =
                 IF sinceRelease + d >= DoublePressMs THEN sinceRelease + d - DoublePressMs
                 ELSE ClockPeriod + (sinceRelease + d) - DoublePressMs
          /\ TimeReached(After(now, d), state.shortDeadline)
                 <=> sinceRelease + d >= DoublePressMs
        BY <1>1, <1>4, <2>1, <2>2, WaitingLater
    <2>4. QED BY <1>2, <1>4, <2>3
<1>5. ASSUME NEW d \in 0..MaxStep, Tick(d), state'.shortPending PROVE Waiting'
    <2>1. PICK u \in State, c \in Int, b \in Int :
              Debounces(state, now', u, c) /\ Matures(u, now', state', b)
        BY <1>5, TickIs
    <2>2. now' = After(now, d) /\ now' \in Time /\ ticked' = TRUE
        BY <1>5, TickIs DEF Tick
    <2>3. sinceRelease' = IF ~state'.shortPending \/ (state.stable /\ ~state'.stable)
                          THEN 0 ELSE sinceRelease + d
        BY <1>5, TickIs
    <2>4. state' = u /\ ~TimeReached(now', u.shortDeadline) /\ u.shortPending
        BY <1>5, <2>1 DEF Matures
    <2>5. CASE state.stable /\ ~u.stable
        <3>1. u.shortDeadline = After(now', w)
            BY <1>1, <1>2, <2>1, <2>4, <2>5 DEF Debounces
        <3>2. Past(now', state'.shortDeadline) = p - w /\ sinceRelease' = 0
            BY <1>3, <2>2, <2>3, <2>4, <2>5, <3>1
        <3>3. QED BY <1>2, <2>2, <3>2 DEF Waiting
    <2>6. CASE ~(state.stable /\ ~u.stable)
        <3>1. state.shortPending /\ u.shortDeadline = state.shortDeadline
            BY <2>1, <2>4, <2>6 DEF Debounces
        <3>2. sinceRelease' = sinceRelease + d
            BY <1>5, <2>3, <2>4, <2>6
        <3>3. ~(sinceRelease + d >= w)
            BY <1>4, <2>2, <2>4, <3>1
        <3>4. Past(now', state'.shortDeadline) = p + sinceRelease' - w
            BY <1>4, <2>2, <2>4, <3>1, <3>2, <3>3
        <3>5. sinceRelease' < w /\ sinceRelease' \in Nat
            BY <1>1, <1>2, <3>2, <3>3
        <3>6. QED BY <1>2, <2>2, <3>4, <3>5 DEF Waiting
    <2>7. QED BY <2>5, <2>6
<1>6. ASSUME NEW pressed \in BOOLEAN, NEW joined \in BOOLEAN, NEW d \in 0..MaxStep,
             Sample(pressed, joined, d), state'.shortPending
      PROVE  Waiting'
    <2>1. PICK v \in State, u \in State, c \in Int :
              /\ v = Sampled(state, pressed, now')
              /\ Debounces(v, now', u, c) /\ Joins(pressed, joined, u, state')
        BY <1>6, SampleIs
    <2>2. now' = After(now, d) /\ now' \in Time /\ ticked' = FALSE /\ ticked
        BY <1>6, SampleIs DEF Sample
    <2>3. sinceRelease' = IF ~state'.shortPending \/ (state.stable /\ ~state'.stable)
                          THEN 0 ELSE sinceRelease + d
        BY <1>6, SampleIs
    <2>4. state' = u /\ u.shortPending
        BY <1>6, <2>1 DEF Joins
    <2>5. /\ v.stable = state.stable /\ v.shortPending = state.shortPending
          /\ v.shortDeadline = state.shortDeadline
        <3>1. PICK t \in Time : t = now'
            BY <2>2
        <3>2. v = Sampled(state, pressed, t)
            BY <2>1, <3>1
        <3>3. QED BY <1>1, <3>2 DEF Sampled, State
    <2>6. CASE state.stable /\ ~u.stable
        <3>1. u.shortDeadline = After(now', w)
            BY <1>1, <1>2, <2>1, <2>4, <2>5, <2>6 DEF Debounces
        <3>2. Past(now', state'.shortDeadline) = p - w /\ sinceRelease' = 0
            BY <1>3, <2>2, <2>3, <2>4, <2>6, <3>1
        <3>3. QED BY <1>2, <2>2, <3>2 DEF Waiting
    <2>7. CASE ~(state.stable /\ ~u.stable)
        <3>1. state.shortPending /\ u.shortDeadline = state.shortDeadline
            BY <2>1, <2>4, <2>5, <2>7 DEF Debounces
        <3>2. sinceRelease' = sinceRelease + d
            BY <1>6, <2>3, <2>4, <2>7
        <3>3. Past(now', state'.shortDeadline) =
                  IF sinceRelease' >= w THEN sinceRelease' - w ELSE p + (sinceRelease') - w
            <4>1. Past(now', state.shortDeadline) =
                      IF sinceRelease + d >= w THEN sinceRelease + d - w
                      ELSE p + (sinceRelease + d) - w
                BY <1>4, <1>6, <2>2, <3>1
            <4>2. PICK x : x = sinceRelease + d
                OBVIOUS
            <4>3. PICK y : y = Past(now', state.shortDeadline)
                OBVIOUS
            <4>4. y = IF x >= w THEN x - w ELSE p + x - w
                BY <1>1, <1>2, <4>1, <4>2, <4>3
            <4>5. Past(now', state'.shortDeadline) = y
                BY <2>4, <3>1, <4>3
            <4>6. sinceRelease' = x
                BY <3>2, <4>2
            <4>7. QED BY <4>4, <4>5, <4>6
        <3>4. sinceRelease < w
            BY <1>1, <1>2, <2>2, <3>1 DEF Waiting
        <3>5. sinceRelease' < w + m
            BY <1>1, <1>2, <3>2, <3>4
        <3>6. QED BY <1>2, <2>2, <3>3, <3>5 DEF Waiting
    <2>8. QED BY <2>6, <2>7
<1>7. CASE SkipSample
    <2>1. state' = state /\ now' = now /\ sinceRelease' = sinceRelease /\ ticked /\ ~ticked'
        BY <1>7 DEF SkipSample, history
    <2>2. ASSUME state.shortPending PROVE sinceRelease < w + m
        BY <1>1, <1>2, <2>1, <2>2 DEF Waiting
    <2>3. QED BY <1>2, <2>1, <2>2 DEF Waiting
<1>8. CASE UNCHANGED buttonVars
    BY <1>8 DEF buttonVars, history, Waiting
<1>9. CASE ~state'.shortPending
    BY <1>9 DEF Waiting
<1>10. QED BY <1>5, <1>6, <1>7, <1>8, <1>9 DEF ButtonNext

LEMMA ButtonInvKept == ButtonInv /\ [ButtonNext]_buttonVars => ButtonInv'
BY ButtonTypeKept, OwingKept, RememberedKept, WaitingKept DEF ButtonInv

\* The recognizer's invariant: presses are accounted for, a chord is remembered, and
\* a pending SHORT's deadline stands for the real time since its release.
THEOREM ButtonInvariant == ButtonSpec => []ButtonInv
<1>1. QED BY ButtonInitHolds, ButtonInvKept, PTL DEF ButtonSpec

\* Every field of the recognizer stays within its type.
THEOREM ButtonTypes == ButtonSpec => []ButtonTypeOK
<1>1. ButtonInv => ButtonTypeOK
    BY DEF ButtonInv
<1>2. QED BY <1>1, ButtonInvariant, PTL

\* The recognizer reports no gesture without the presses it needs, for any intervals,
\* any clock and any timing of ticks and samples.
THEOREM NoPhantoms == ButtonSpec => []NoPhantomGesture
<1>1. ButtonInv => NoPhantomGesture
    BY UnusedIs DEF ButtonInv, ButtonTypeOK, Owing, NoPhantomGesture
<1>2. QED BY <1>1, ButtonInvariant, PTL

\* A SHORT comes when the double-press window is over and not a tick later, across
\* any number of wraps of the clock.
THEOREM ShortsOnTime == ButtonSpec => ShortOnTime
<1> DEFINE Ripe == /\ state.shortPending /\ ~state'.shortPending /\ owed' = owed - 1
                      /\ state'.longEmitted = state.longEmitted
                      => sinceRelease + ((now' - now) % ClockPeriod) >= DoublePressMs
                   /\ ~ticked /\ ticked' /\ state'.shortPending
                      => sinceRelease' < DoublePressMs
<1>1. ButtonInv /\ ButtonInv' /\ [ButtonNext]_buttonVars => [Ripe]_buttonVars
    <2> SUFFICES ASSUME ButtonInv, ButtonInv', ButtonNext PROVE Ripe
        OBVIOUS
    <2>1. ButtonTypeOK /\ state \in State /\ now \in Time /\ owed \in Int
          /\ sinceRelease \in Nat /\ state.shortDeadline \in Time
        BY DEF ButtonInv, ButtonTypeOK, State
    <2>2. ~ticked /\ ticked' /\ state'.shortPending => sinceRelease' < DoublePressMs
        BY ClockIs DEF ButtonInv, ButtonTypeOK, Waiting
    <2>3. SUFFICES ASSUME state.shortPending, ~state'.shortPending, owed' = owed - 1,
                          state'.longEmitted = state.longEmitted
                   PROVE  sinceRelease + ((now' - now) % ClockPeriod) >= DoublePressMs
        BY <2>2
    <2>4. ASSUME NEW d \in 0..MaxStep, Tick(d)
          PROVE  sinceRelease + ((now' - now) % ClockPeriod) >= DoublePressMs
        <3>1. PICK u \in State, c \in Int, b \in Int :
                  /\ Debounces(state, now', u, c) /\ Matures(u, now', state', b)
                  /\ owed' = owed + (c + b) /\ now' = After(now, d) /\ now' \in Time
            BY <2>1, <2>4, TickIs
        <3>2. c + b = -1
            BY <2>1, <2>3, <3>1
        <3>3. ~TimeReached(now', After(now', DoublePressMs))
            BY <3>1, NotYet, ClockIs
        <3>4. u = state /\ TimeReached(now', state.shortDeadline)
            <4>1. b = 0 \/ b = -1
                BY <3>1 DEF Matures
            <4>2. c = -1 \/ c = 0
                BY <3>2, <4>1
            <4>3. c = 0 /\ b = -1
                BY <3>1, <3>2, <4>2 DEF Debounces
            <4>4. CASE u = state
                BY <2>3, <3>1, <4>3, <4>4 DEF Matures
            <4>5. CASE u # state
                <5>1. ~u.stable
                    BY <3>1, <4>3, <4>5 DEF Debounces
                <5>2. u.shortPending /\ TimeReached(now', u.shortDeadline)
                    BY <3>1, <4>3, <5>1 DEF Matures
                <5>3. u.shortDeadline = After(now', DoublePressMs)
                    BY <3>1, <4>3, <4>5, <5>2 DEF Debounces
                <5>4. QED BY <3>3, <5>2, <5>3
            <4>6. QED BY <4>4, <4>5
        <3>5. sinceRelease < DoublePressMs + MaxStep
            BY <2>1, <2>3, ClockIs DEF ButtonInv, Waiting
        <3>6. Past(now, state.shortDeadline) =
                  IF sinceRelease >= DoublePressMs THEN sinceRelease - DoublePressMs
                  ELSE ClockPeriod + sinceRelease - DoublePressMs
            BY <2>3 DEF ButtonInv, Waiting
        <3>7. sinceRelease + d >= DoublePressMs
            BY <2>1, <3>1, <3>4, <3>5, <3>6, WaitingLater
        <3>8. (now' - now) % ClockPeriod = d
            <4>1. PICK p \in Nat : p = ClockPeriod /\ p > 1 /\ Time = 0..(p - 1)
                                   /\ d \in Nat /\ d < p
                BY ClockIs
            <4>2. now' = IF now + d < p THEN now + d ELSE now + d - p
                <5>1. d <= ClockPeriod
                    BY <4>1
                <5>2. After(now, d) = IF now + d < ClockPeriod THEN now + d
                                      ELSE now + d - ClockPeriod
                    BY <2>1, <4>1, <5>1, AfterIs
                <5>3. QED BY <3>1, <4>1, <5>2
            <4>3. Past(now', now) = IF now' >= now THEN now' - now ELSE now' - now + p
                BY <2>1, <3>1, <4>1, PastIs
            <4>4. Past(now', now) = d
                BY <2>1, <4>1, <4>2, <4>3
            <4>5. QED BY <4>4 DEF Past
        <3>9. QED BY <3>7, <3>8
    <2>5. ASSUME NEW pressed \in BOOLEAN, NEW joined \in BOOLEAN, NEW d \in 0..MaxStep,
                 Sample(pressed, joined, d)
          PROVE  FALSE
        <3>1. PICK w \in State, u \in State, c \in Int :
                  Debounces(w, now', u, c) /\ owed' = owed + c
            BY <2>1, <2>5, SampleIs
        <3>2. c = 0 \/ c = 1 \/ c = -2
            BY <3>1 DEF Debounces
        <3>3. QED BY <2>1, <2>3, <3>1, <3>2
    <2>6. CASE SkipSample
        BY <2>1, <2>3, <2>6 DEF SkipSample
    <2>7. QED BY <2>4, <2>5, <2>6 DEF ButtonNext
<1>2. ButtonSpec => [][Ripe]_buttonVars
    BY <1>1, ButtonInvariant, PTL DEF ButtonSpec
<1>3. QED BY <1>2 DEF ShortOnTime

\* A press that was part of a chord is no gesture of its own while its contact does
\* not bounce.
THEOREM ChordsCancel == ButtonSpec => CleanChordCancels
<1> DEFINE Cancels == chord /\ ~bounced =>
                          /\ ~state.longEmitted /\ state.stable => ~state'.longEmitted
                          /\ state.stable /\ ~state'.stable
                             => ~state'.shortPending /\ owed' = owed
<1>1. ButtonInv /\ [ButtonNext]_buttonVars => [Cancels]_buttonVars
    <2> SUFFICES ASSUME ButtonInv, ButtonNext, chord, ~bounced
                 PROVE  /\ ~state.longEmitted /\ state.stable => ~state'.longEmitted
                        /\ state.stable /\ ~state'.stable
                           => ~state'.shortPending /\ owed' = owed
        OBVIOUS
    <2>1. ButtonTypeOK /\ state \in State /\ owed \in Int /\ state.chordUsed
        BY DEF ButtonInv, ButtonTypeOK, Remembered
    <2>2. ASSUME NEW d \in 0..MaxStep, Tick(d)
          PROVE  /\ ~state.longEmitted /\ state.stable => ~state'.longEmitted
                 /\ state.stable /\ ~state'.stable
                    => ~state'.shortPending /\ owed' = owed
        <3>1. PICK u \in State, c \in Int, b \in Int :
                  /\ Debounces(state, now', u, c) /\ Matures(u, now', state', b)
                  /\ owed' = owed + (c + b)
            BY <2>1, <2>2, TickIs
        <3>2. ASSUME ~state.longEmitted, state.stable PROVE ~state'.longEmitted
            BY <2>1, <3>1, <3>2 DEF Debounces, Matures
        <3>3. ASSUME state.stable, ~state'.stable PROVE ~u.shortPending /\ c = 0 /\ ~u.stable
            BY <2>1, <3>1, <3>3 DEF Debounces, Matures
        <3>4. ASSUME state.stable, ~state'.stable PROVE ~state'.shortPending /\ b = 0
            BY <3>1, <3>3, <3>4 DEF Matures
        <3>5. QED BY <2>1, <3>1, <3>2, <3>3, <3>4
    <2>3. ASSUME NEW pressed \in BOOLEAN, NEW joined \in BOOLEAN, NEW d \in 0..MaxStep,
                 Sample(pressed, joined, d)
          PROVE  /\ ~state.longEmitted /\ state.stable => ~state'.longEmitted
                 /\ state.stable /\ ~state'.stable
                    => ~state'.shortPending /\ owed' = owed
        <3>1. PICK w \in State, u \in State, c \in Int :
                  /\ w = Sampled(state, pressed, now')
                  /\ Debounces(w, now', u, c) /\ Joins(pressed, joined, u, state')
                  /\ owed' = owed + c /\ now' \in Time
            BY <2>1, <2>3, SampleIs
        <3>2. /\ w.raw = pressed /\ w.stable = state.stable /\ w.longEmitted = state.longEmitted
              /\ w.chordUsed = (state.chordUsed /\ ~(pressed /\ ~state.raw))
            BY <2>1, <3>1, SampledIs
        <3>3. ASSUME ~state.longEmitted, state.stable PROVE ~state'.longEmitted
            BY <3>1, <3>2, <3>3 DEF Debounces, Joins
        <3>4. ASSUME state.stable, ~state'.stable PROVE ~u.shortPending /\ c = 0 /\ ~pressed
            BY <2>1, <3>1, <3>2, <3>4 DEF Debounces, Joins
        <3>5. QED BY <2>1, <3>1, <3>3, <3>4 DEF Joins
    <2>4. CASE SkipSample
        BY <2>1, <2>4 DEF SkipSample, history
    <2>5. QED BY <2>2, <2>3, <2>4 DEF ButtonNext
<1>2. ButtonSpec => [][Cancels]_buttonVars
    BY <1>1, ButtonInvariant, PTL DEF ButtonSpec
<1>3. QED BY <1>2 DEF CleanChordCancels
-----------------------------------------------------------------------------
(* The line editor.  Until the buffer is full it holds what an editor      *)
(* without a limit would hold; from then on the line has had its answer.   *)
Meaning ==
    IF discarding
    THEN ~fits /\ answers = <<TooLong>>
    ELSE /\ fits /\ answers = <<>>
         /\ length = Len(text) /\ \A i \in 1..length : buffer[i] = text[i]

LineInv == LineTypeOK /\ Meaning

LEMMA KindsDiffer ==
    /\ TooLong.kind # "OK" /\ Unknown.kind # "OK"
    /\ \A c : Ok(c).kind = "OK" /\ Usage(c).kind # "OK"
BY DEF TooLong, Unknown, Ok, Usage

LEMMA AnswerIs ==
    /\ TooLong \in Answer /\ Unknown \in Answer
    /\ \A c \in Commands : Ok(c) \in Answer
    /\ \A u \in Usages : Usage(u) \in Answer
BY DEF Answer

LEMMA ReplyIs == Reply \in Answer /\ (Reply.kind = "OK" <=> Line \in Commands)
<1>1. CASE Line \in Commands
    <2>1. Reply = Ok(Line)
        BY <1>1 DEF Reply
    <2>2. QED BY <1>1, <2>1, AnswerIs, KindsDiffer
<1>2. CASE Line \notin Commands /\ \E u \in Usages : Matches(u)
    <2>1. PICK u \in Usages : u = CHOOSE v \in Usages : Matches(v)
        BY <1>2
    <2>2. Reply = Usage(u)
        BY <1>2, <2>1 DEF Reply
    <2>3. QED BY <1>2, <2>1, <2>2, AnswerIs, KindsDiffer
<1>3. CASE Line \notin Commands /\ ~\E u \in Usages : Matches(u)
    <2>1. Reply = Unknown
        BY <1>3 DEF Reply
    <2>2. QED BY <1>3, <2>1, AnswerIs, KindsDiffer
<1>4. QED BY <1>1, <1>2, <1>3

LEMMA LineIsText == LineInv /\ ~discarding => Line = text
<1> SUFFICES ASSUME LineInv, ~discarding PROVE Line = text
    OBVIOUS
<1>1. PICK S : S = Letters \cup {Nul}
    OBVIOUS
<1>2. /\ buffer \in [1..Capacity -> S] /\ Capacity \in Nat
      /\ length \in 0..Capacity /\ text \in Seq(Letters)
      /\ length = Len(text) /\ \A i \in 1..length : buffer[i] = text[i]
    BY <1>1, LineAssumption DEF LineInv, LineTypeOK, Meaning
<1>3. buffer \in Seq(S) /\ Len(buffer) = Capacity
    BY <1>2, SeqDef
<1>4. /\ Line \in Seq(S) /\ Len(Line) = length
      /\ \A i \in 1..length : Line[i] = buffer[i]
    <2>1. /\ SubSeq(buffer, 1, length) \in Seq(S)
          /\ Len(SubSeq(buffer, 1, length)) = IF 1 <= length THEN length - 1 + 1 ELSE 0
          /\ \A i \in 1..(length - 1 + 1) : SubSeq(buffer, 1, length)[i] = buffer[1 + i - 1]
        BY <1>2, <1>3, SubSeqProperties
    <2>2. PICK l : l = SubSeq(buffer, 1, length)
        OBVIOUS
    <2>3. Line = l
        BY <2>2 DEF Line
    <2>4. PICK n \in Nat : n = length
        BY <1>2
    <2>5. l \in Seq(S) /\ Len(l) = n
        BY <2>1, <2>2, <2>4
    <2>6. \A i \in 1..n : l[i] = buffer[i]
        BY <2>1, <2>2, <2>4
    <2>7. QED BY <2>3, <2>4, <2>5, <2>6
<1>5. text \in Seq(Letters \cup S) /\ Line \in Seq(Letters \cup S)
    BY <1>2, <1>4, SeqDef
<1>6. \A i \in 1..length : Line[i] = text[i]
    BY <1>2, <1>4
<1>7. QED BY <1>2, <1>4, <1>5, <1>6, SeqEqual

LEMMA FrontIs ==
    ASSUME NEW s \in Seq(Letters), s # <<>>
    PROVE  /\ Front(s) \in Seq(Letters) /\ Len(Front(s)) = Len(s) - 1
           /\ \A i \in 1..(Len(s) - 1) : Front(s)[i] = s[i]
<1>1. PICK n \in Nat : n = Len(s) /\ n > 0
    BY EmptySeq
<1>2. PICK f : f = Front(s) /\ f = SubSeq(s, 1, n - 1)
    BY <1>1 DEF Front
<1>3. /\ f \in Seq(Letters) /\ Len(f) = (IF 1 <= n - 1 THEN n - 1 - 1 + 1 ELSE 0)
      /\ \A i \in 1..(n - 1 - 1 + 1) : f[i] = s[1 + i - 1]
    BY <1>1, <1>2, SubSeqProperties
<1>4. Len(f) = n - 1 /\ \A i \in 1..(n - 1) : f[i] = s[i]
    BY <1>1, <1>3
<1>5. QED BY <1>1, <1>2, <1>3, <1>4

LEMMA LineInitHolds == LineInit => LineInv
<1> SUFFICES ASSUME LineInit PROVE LineInv
    OBVIOUS
<1>1. buffer \in [1..Capacity -> Letters \cup {Nul}] /\ length \in 0..Capacity
    BY LineAssumption DEF LineInit
<1>2. text = <<>> /\ fits /\ answers = <<>> /\ length = 0 /\ ~discarding
      /\ fits = TRUE /\ discarding = FALSE
    BY DEF LineInit
<1>3. last \in [text : Seq(Letters), fits : BOOLEAN, answers : Seq(Answer)]
    BY EmptySeq DEF LineInit, NoLine
<1>4. LineTypeOK
    BY <1>1, <1>2, <1>3, EmptySeq DEF LineTypeOK
<1>5. Meaning
    BY <1>2, EmptySeq DEF Meaning
<1>6. QED BY <1>4, <1>5 DEF LineInv

\* What a finished line has been answered.
LEMMA GivenIs ==
    ASSUME LineInv
    PROVE  LET given == IF discarding \/ length = 0 THEN answers ELSE Append(answers, Reply)
           IN  /\ given \in Seq(Answer)
               /\ discarding => ~fits /\ given = <<TooLong>>
               /\ ~discarding /\ text = <<>> => fits /\ given = <<>>
               /\ ~discarding /\ text # <<>> => fits /\ given = <<Reply>> /\ Line = text
<1>1. text \in Seq(Letters) /\ answers \in Seq(Answer)
    BY DEF LineInv, LineTypeOK
<1>2. CASE discarding
    BY <1>1, <1>2 DEF LineInv, Meaning
<1>3. CASE ~discarding /\ length = 0
    <2>1. fits /\ answers = <<>> /\ Len(text) = 0
        BY <1>3 DEF LineInv, Meaning
    <2>2. text = <<>>
        BY <1>1, <2>1, EmptySeq
    <2>3. QED BY <1>1, <1>3, <2>1, <2>2
<1>4. CASE ~discarding /\ length # 0
    <2>1. fits /\ answers = <<>> /\ Len(text) # 0
        BY <1>4 DEF LineInv, Meaning
    <2>2. text # <<>> /\ Line = text
        BY <1>1, <1>4, <2>1, EmptySeq, LineIsText
    <2>3. PICK r \in Answer : r = Reply
        BY ReplyIs
    <2>4. Append(answers, r) = <<r>> /\ <<r>> \in Seq(Answer)
        BY <2>1, <2>3
    <2>5. QED BY <1>4, <2>1, <2>2, <2>3, <2>4
<1>5. QED BY <1>2, <1>3, <1>4

LEMMA EndLineIs ==
    ASSUME LineInv, EndLine
    PROVE  /\ LineInv'
           /\ OneAnswerPerLine' /\ RunsWhatWasSent'
<1>1. PICK given :
          /\ given = IF discarding \/ length = 0 THEN answers ELSE Append(answers, Reply)
          /\ given \in Seq(Answer)
          /\ discarding => ~fits /\ given = <<TooLong>>
          /\ ~discarding /\ text = <<>> => fits /\ given = <<>>
          /\ ~discarding /\ text # <<>> => fits /\ given = <<Reply>> /\ Line = text
    BY GivenIs
<1>2. /\ length' = 0 /\ text' = <<>> /\ fits' = TRUE /\ answers' = <<>> /\ discarding' = FALSE
      /\ buffer' = buffer /\ last' = [text |-> text, fits |-> fits, answers |-> given]
    BY <1>1 DEF EndLine, Finished
<1>3. text \in Seq(Letters) /\ fits \in BOOLEAN
    BY DEF LineInv, LineTypeOK
<1>4. /\ last'.text = text /\ last'.fits = fits /\ last'.answers = given
      /\ last' \in [text : Seq(Letters), fits : BOOLEAN, answers : Seq(Answer)]
    <2>1. PICK l : l = [text |-> text, fits |-> fits, answers |-> given]
        OBVIOUS
    <2>2. l.text = text /\ l.fits = fits /\ l.answers = given
        BY <2>1
    <2>3. l \in [text : Seq(Letters), fits : BOOLEAN, answers : Seq(Answer)]
        BY <1>1, <1>3, <2>1
    <2>4. last' = l
        BY <1>2, <2>1
    <2>5. QED BY <2>2, <2>3, <2>4
<1>5. LineTypeOK'
    <2>1. buffer' \in [1..Capacity -> Letters \cup {Nul}] /\ length' \in 0..Capacity
        BY <1>2, LineAssumption DEF LineInv, LineTypeOK
    <2>2. text' \in Seq(Letters) /\ answers' \in Seq(Answer)
        BY <1>2, EmptySeq
    <2>3. fits' \in BOOLEAN /\ discarding' \in BOOLEAN
        BY <1>2
    <2>4. QED BY <1>4, <2>1, <2>2, <2>3 DEF LineTypeOK
<1>6. Meaning'
    BY <1>2, EmptySeq DEF Meaning
<1>7. OneAnswerPerLine'
    <2>1. Len(given) = IF fits /\ text = <<>> THEN 0 ELSE 1
        <3>1. CASE discarding
            BY <1>1, <3>1
        <3>2. CASE ~discarding /\ text = <<>>
            BY <1>1, <3>2, EmptySeq
        <3>3. CASE ~discarding /\ text # <<>>
            BY <1>1, <3>3
        <3>4. QED BY <3>1, <3>2, <3>3
    <2>2. QED BY <1>4, <2>1 DEF OneAnswerPerLine
<1>8. RunsWhatWasSent'
    <2>1. (IF given = <<>> THEN Unknown ELSE given[1]).kind = "OK"
          <=> fits /\ text \in Commands
        <3>1. CASE discarding
            BY <1>1, <3>1, KindsDiffer
        <3>2. CASE ~discarding /\ text = <<>>
            BY <1>1, <3>2, KindsDiffer, LineAssumption
        <3>3. CASE ~discarding /\ text # <<>>
            BY <1>1, <3>3, ReplyIs
        <3>4. QED BY <3>1, <3>2, <3>3
    <2>2. QED BY <1>4, <2>1 DEF RunsWhatWasSent
<1>9. QED BY <1>5, <1>6, <1>7, <1>8 DEF LineInv

LEMMA TypedIs ==
    ASSUME LineTypeOK, NEW c \in Letters \cup {Backspace}
    PROVE  /\ Typed(c) \in Seq(Letters)
           /\ c \in Letters => /\ Len(Typed(c)) = Len(text) + 1
                               /\ \A i \in 1..Len(text) : Typed(c)[i] = text[i]
                               /\ Typed(c)[Len(text) + 1] = c
           /\ c = Backspace => /\ Len(Typed(c)) = IF Len(text) > 0 THEN Len(text) - 1 ELSE 0
                               /\ \A i \in 1..Len(Typed(c)) : Typed(c)[i] = text[i]
<1>1. text \in Seq(Letters) /\ Len(text) \in Nat
    BY DEF LineTypeOK
<1>2. CASE c \in Letters
    <2>1. c # Backspace
        BY <1>2, LineAssumption
    <2>2. Typed(c) = Append(text, c)
        BY <2>1 DEF Typed
    <2>3. QED BY <1>1, <1>2, <2>1, <2>2, AppendProperties
<1>3. CASE c = Backspace /\ text = <<>>
    <2>1. Typed(c) = <<>>
        BY <1>3 DEF Typed
    <2>2. Typed(c) \in Seq(Letters) /\ Len(Typed(c)) = 0 /\ Len(text) = 0
        BY <1>3, <2>1, EmptySeq
    <2>3. QED BY <1>3, <2>2, LineAssumption
<1>4. CASE c = Backspace /\ text # <<>>
    <2>1. Typed(c) = Front(text)
        BY <1>4 DEF Typed
    <2>2. Len(text) > 0
        BY <1>1, <1>4, EmptySeq
    <2>3. /\ Typed(c) \in Seq(Letters) /\ Len(Typed(c)) = Len(text) - 1
          /\ \A i \in 1..(Len(text) - 1) : Typed(c)[i] = text[i]
        BY <1>1, <1>4, <2>1, FrontIs
    <2>4. QED BY <1>1, <1>4, <2>2, <2>3, LineAssumption
<1>5. QED BY <1>2, <1>3, <1>4

LEMMA ReceiveIs ==
    ASSUME LineInv, NEW c \in Letters \cup {Backspace}, Receive(c)
    PROVE  LineInv' /\ last' = NoLine
<1>1. PICK n \in Nat, k \in Nat : n = Len(text) /\ k = Capacity /\ k > 0 /\ length \in 0..k
    BY LineAssumption DEF LineInv, LineTypeOK
<1>2. PICK t : t = Typed(c) /\ t = text'
    BY DEF Receive, Meant
<1>3. /\ t \in Seq(Letters)
      /\ c \in Letters => Len(t) = n + 1 /\ (\A i \in 1..n : t[i] = text[i]) /\ t[n + 1] = c
      /\ c = Backspace => /\ Len(t) = IF n > 0 THEN n - 1 ELSE 0
                          /\ \A i \in 1..Len(t) : t[i] = text[i]
    <2>1. LineTypeOK
        BY DEF LineInv
    <2>2. /\ Typed(c) \in Seq(Letters)
          /\ c \in Letters => /\ Len(Typed(c)) = Len(text) + 1
                              /\ \A i \in 1..Len(text) : Typed(c)[i] = text[i]
                              /\ Typed(c)[Len(text) + 1] = c
          /\ c = Backspace => /\ Len(Typed(c)) = IF Len(text) > 0 THEN Len(text) - 1 ELSE 0
                              /\ \A i \in 1..Len(Typed(c)) : Typed(c)[i] = text[i]
        BY <2>1, TypedIs
    <2>3. PICK u, m : u = Typed(c) /\ m = Len(text)
        OBVIOUS
    <2>4. u = t /\ m = n
        BY <1>1, <1>2, <2>3
    <2>5. /\ u \in Seq(Letters)
          /\ c \in Letters => Len(u) = m + 1 /\ (\A i \in 1..m : u[i] = text[i]) /\ u[m + 1] = c
          /\ c = Backspace => /\ Len(u) = IF m > 0 THEN m - 1 ELSE 0
                              /\ \A i \in 1..Len(u) : u[i] = text[i]
        BY <2>2, <2>3
    <2>6. QED BY <2>4, <2>5
<1>4. fits' = (fits /\ Len(t) <= k) /\ last' = NoLine
    BY <1>1, <1>2 DEF Receive, Meant
<1>5. /\ buffer \in [1..k -> Letters \cup {Nul}] /\ discarding \in BOOLEAN
      /\ answers \in Seq(Answer) /\ fits \in BOOLEAN
    BY <1>1 DEF LineInv, LineTypeOK
<1>6. /\ NoLine \in [text : Seq(Letters), fits : BOOLEAN, answers : Seq(Answer)]
    BY EmptySeq DEF NoLine
<1>7. text' \in Seq(Letters) /\ fits' \in BOOLEAN
      /\ last' \in [text : Seq(Letters), fits : BOOLEAN, answers : Seq(Answer)]
    <2>1. fits' \in BOOLEAN
        BY <1>4, <1>5
    <2>2. QED BY <1>2, <1>3, <1>4, <1>6, <2>1
<1>8. CASE discarding
    <2>1. UNCHANGED <<buffer, length, discarding, answers>>
        BY <1>8 DEF Receive, Skip
    <2>2. LineTypeOK'
        BY <1>1, <1>5, <1>7, <2>1 DEF LineTypeOK
    <2>3. Meaning'
        BY <1>4, <1>8, <2>1 DEF LineInv, Meaning
    <2>4. QED BY <1>4, <2>2, <2>3 DEF LineInv
<1>9. CASE ~discarding
    <2>1. fits /\ answers = <<>> /\ length = n /\ \A i \in 1..n : buffer[i] = text[i]
        BY <1>1, <1>9 DEF LineInv, Meaning
    <2>2. CASE c = Backspace
        <3>1. /\ length' = (IF length > 0 THEN length - 1 ELSE 0)
              /\ buffer' = buffer /\ discarding' = discarding /\ answers' = answers
            BY <1>9, <2>2 DEF Receive, Erase
        <3>2. length' = Len(t) /\ Len(t) <= k /\ Len(t) <= n /\ length' \in 0..k
            BY <1>1, <1>3, <2>1, <2>2, <3>1
        <3>3. LineTypeOK'
            BY <1>1, <1>5, <1>7, <3>1, <3>2 DEF LineTypeOK
        <3>4. \A i \in 1..length' : buffer'[i] = t[i]
            BY <1>1, <1>3, <2>1, <2>2, <3>1, <3>2
        <3>5. fits' /\ answers' = <<>> /\ ~discarding'
            BY <1>4, <1>9, <2>1, <3>1, <3>2
        <3>6. Meaning'
            BY <1>2, <3>2, <3>4, <3>5 DEF Meaning
        <3>7. QED BY <1>4, <3>3, <3>6 DEF LineInv
    <2>3. CASE c # Backspace /\ Room
        <3>1. /\ buffer' = [buffer EXCEPT ![length + 1] = c] /\ length' = length + 1
              /\ discarding' = discarding /\ answers' = answers
            BY <1>9, <2>3 DEF Receive, Store, Overflow
        <3>2. c \in Letters /\ length < k
            BY <1>1, <2>3 DEF Room
        <3>3. length' = Len(t) /\ Len(t) <= k /\ length' \in 0..k
            BY <1>1, <1>3, <2>1, <3>1, <3>2
        <3>4. buffer' \in [1..k -> Letters \cup {Nul}]
            BY <1>5, <3>1, <3>2
        <3>5. LineTypeOK'
            BY <1>1, <1>5, <1>7, <3>1, <3>3, <3>4 DEF LineTypeOK
        <3>6. \A i \in 1..length' : buffer'[i] = t[i]
            BY <1>1, <1>3, <1>5, <2>1, <3>1, <3>2, <3>3
        <3>7. fits' /\ answers' = <<>> /\ ~discarding'
            BY <1>4, <1>9, <2>1, <3>1, <3>3
        <3>8. Meaning'
            BY <1>2, <3>3, <3>6, <3>7 DEF Meaning
        <3>9. QED BY <1>4, <3>5, <3>8 DEF LineInv
    <2>4. CASE c # Backspace /\ ~Room
        <3>1. /\ length' = 0 /\ discarding' = TRUE /\ buffer' = buffer
              /\ answers' = Append(answers, TooLong)
            BY <1>9, <2>4 DEF Receive, Store, Overflow
        <3>2. c \in Letters /\ n = k
            BY <1>1, <2>1, <2>4 DEF Room
        <3>3. answers' = <<TooLong>> /\ answers' \in Seq(Answer)
            <4>1. PICK r \in Answer : r = TooLong
                BY AnswerIs
            <4>2. Append(answers, r) = <<r>> /\ <<r>> \in Seq(Answer)
                BY <2>1
            <4>3. QED BY <3>1, <4>1, <4>2
        <3>4. LineTypeOK'
            BY <1>1, <1>5, <1>7, <3>1, <3>3 DEF LineTypeOK
        <3>5. ~fits'
            <4>1. ~(Len(t) <= k)
                BY <1>1, <1>3, <3>2
            <4>2. QED BY <1>4, <4>1
        <3>6. Meaning'
            BY <3>1, <3>3, <3>5 DEF Meaning
        <3>7. QED BY <1>4, <3>4, <3>6 DEF LineInv
    <2>5. QED BY <2>2, <2>3, <2>4
<1>10. QED BY <1>5, <1>8, <1>9

LEMMA NoLineAnswers == last = NoLine => OneAnswerPerLine /\ RunsWhatWasSent
<1> SUFFICES ASSUME last = NoLine PROVE OneAnswerPerLine /\ RunsWhatWasSent
    OBVIOUS
<1>1. last.text = <<>> /\ last.fits /\ last.answers = <<>>
    BY DEF NoLine
<1>2. OneAnswerPerLine
    BY <1>1, EmptySeq DEF OneAnswerPerLine
<1>3. RunsWhatWasSent
    BY <1>1, KindsDiffer, LineAssumption DEF RunsWhatWasSent
<1>4. QED BY <1>2, <1>3

LEMMA LineInvKept ==
    LineInv /\ OneAnswerPerLine /\ RunsWhatWasSent /\ [LineNext]_lineVars
    => LineInv' /\ OneAnswerPerLine' /\ RunsWhatWasSent'
<1> SUFFICES ASSUME LineInv, OneAnswerPerLine, RunsWhatWasSent, [LineNext]_lineVars
             PROVE  LineInv' /\ OneAnswerPerLine' /\ RunsWhatWasSent'
    OBVIOUS
<1>1. CASE EndLine
    BY <1>1, EndLineIs
<1>2. ASSUME NEW c \in Letters \cup {Backspace}, Receive(c)
      PROVE  LineInv' /\ OneAnswerPerLine' /\ RunsWhatWasSent'
    <2>1. LineInv' /\ last' = NoLine
        BY <1>2, ReceiveIs
    <2>2. OneAnswerPerLine' /\ RunsWhatWasSent'
        <3>1. (last = NoLine => OneAnswerPerLine /\ RunsWhatWasSent)'
            BY NoLineAnswers, PTL
        <3>2. QED BY <2>1, <3>1 DEF NoLine
    <2>3. QED BY <2>1, <2>2
<1>3. CASE UNCHANGED lineVars
    BY <1>3 DEF lineVars, LineInv, LineTypeOK, Meaning, OneAnswerPerLine, RunsWhatWasSent
<1>4. QED BY <1>1, <1>2, <1>3 DEF LineNext

LEMMA LineInvariant == LineSpec => [](LineInv /\ OneAnswerPerLine /\ RunsWhatWasSent)
<1>1. LineInit => LineInv /\ OneAnswerPerLine /\ RunsWhatWasSent
    BY LineInitHolds, NoLineAnswers DEF LineInit
<1>2. QED BY <1>1, LineInvKept, PTL DEF LineSpec

\* The buffer and what it stands for: until it is full it holds the line the host
\* has typed, whatever was typed and erased before.
THEOREM BufferHoldsLine == LineSpec => []LineInv
<1>1. QED BY LineInvariant, PTL

\* A line gets one answer, an empty one none, whatever the buffer's size and
\* whatever stood in the buffer before.
THEOREM OneAnswer == LineSpec => []OneAnswerPerLine
<1>1. QED BY LineInvariant, PTL

\* A command is run when that line was sent, and only then.
THEOREM RunsSentLines == LineSpec => []RunsWhatWasSent
<1>1. QED BY LineInvariant, PTL
-----------------------------------------------------------------------------
(* The pad.  Division rounds down and scales by constants that are not     *)
(* known here: what the conversions need of it is said once.               *)
LEMMA DivIs ==
    ASSUME NEW a \in Int, NEW d \in Int, d > 0
    PROVE  a \div d \in Int /\ d * (a \div d) <= a /\ a < d * (a \div d) + d
OBVIOUS

LEMMA Scales ==
    ASSUME NEW a \in Int, NEW b \in Int, NEW d \in Int, d >= 0, a <= b
    PROVE  d * a <= d * b /\ a * d <= b * d /\ d * a = a * d
OBVIOUS

LEMMA DivMonotone ==
    ASSUME NEW a \in Int, NEW b \in Int, NEW d \in Int, d > 0, a <= b
    PROVE  a \div d <= b \div d
<1>1. PICK p \in Int, q \in Int : p = a \div d /\ q = b \div d
    BY DivIs
<1>2. d * p <= a /\ b < d * q + d
    BY <1>1, DivIs
<1>3. CASE q < p
    <2>1. d * (q + 1) <= d * p
        BY <1>3, Scales
    <2>2. d * (q + 1) = d * q + d
        OBVIOUS
    <2>3. QED BY <1>2, <2>1, <2>2
<1>4. QED BY <1>1, <1>3

LEMMA DivExact ==
    ASSUME NEW a \in Int, NEW b \in Int, NEW r \in Int, 0 <= r, r < a
    PROVE  (a * b + r) \div a = b /\ (b * a + r) \div a = b
OBVIOUS

\* A product by a name, so that the provers find the fact about it.
Times(a, b) == a * b

LEMMA DivTimes ==
    ASSUME NEW a \in Nat, NEW b \in Nat, NEW r \in Nat, r < a
    PROVE  (Times(a, b) + r) \div a = b /\ Times(a, b) \in Nat /\ r \div a = 0
<1>1. a * b \in Nat
    OBVIOUS
<1>2. (a * b + r) \div a = b
    OBVIOUS
<1>3. r \div a = 0
    OBVIOUS
<1>4. QED BY <1>1, <1>2, <1>3 DEF Times

LEMMA HalfIs ==
    ASSUME NEW d \in Nat, d > 0
    PROVE  d \div 2 \in Nat /\ d \div 2 < d
OBVIOUS

LEMMA PadIs ==
    /\ AdcMax \in Nat /\ DeadZone \in Nat /\ AxisMax \in Nat /\ HidMax \in Nat /\ Ratio \in Nat
    /\ AdcMax > 0 /\ DeadZone > 0 /\ AxisMax > 0 /\ HidMax > 0 /\ Ratio > 0
    /\ TriggerMax = HidMax * Ratio /\ TriggerMax \in Nat
    /\ ReportPeriod \in Nat /\ ReportPeriod > 0 /\ MaxPass \in Nat /\ MaxPass > 0
    /\ ClockMod \in Nat /\ ReportPeriod + MaxPass < ClockMod
    /\ NoTest \notin 0..TriggerMax
<1>1. \A a, b \in Nat : a * b \in Nat
    OBVIOUS
<1>2. QED BY <1>1, PadAssumption

\* The stick: x of d steps from the dead zone to the stop.
Deflection(x, d) == (x * AxisMax) \div d

LEMMA DeflectionIs ==
    ASSUME NEW d \in Nat, d > 0, NEW x \in 0..d
    PROVE  /\ Deflection(x, d) \in 0..AxisMax
           /\ x = d => Deflection(x, d) = AxisMax
           /\ \A y \in 0..d : x <= y => Deflection(x, d) <= Deflection(y, d)
<1>1. PICK m \in Nat : m = AxisMax
    BY PadIs
<1>2. ASSUME NEW y \in 0..d, NEW z \in 0..d, y <= z
      PROVE  (y * m) \div d <= (z * m) \div d
    <2>1. y * m \in Int /\ z * m \in Int /\ y * m <= z * m
        BY <1>2, Scales
    <2>2. QED BY <2>1, DivMonotone
<1>3. (0 * m) \div d = 0 /\ (d * m) \div d = m
    <2>1. (d * 0 + 0) \div d = 0 /\ (d * m + 0) \div d = m
        BY DivExact
    <2>2. 0 * m = d * 0 + 0 /\ d * m = d * m + 0
        OBVIOUS
    <2>3. QED BY <2>1, <2>2
<1>4. (x * m) \div d \in Int
    BY DivIs
<1>5. (x * m) \div d \in 0..m
    BY <1>2, <1>3, <1>4
<1>6. QED BY <1>1, <1>2, <1>3, <1>5 DEF Deflection

LEMMA AxisIs ==
    ASSUME NEW raw \in Adc, NEW middle \in Adc
    PROVE  LET delta == raw - middle
               above == AdcMax - middle - DeadZone
               below == middle - DeadZone
           IN  /\ delta \in (1 - DeadZone)..(DeadZone - 1) => Axis(raw, middle) = 0
               /\ delta >= DeadZone /\ above <= 0 => Axis(raw, middle) = AxisMax
               /\ delta >= DeadZone /\ above > 0
                      => /\ Axis(raw, middle) = Deflection(delta - DeadZone, above)
                         /\ delta - DeadZone \in 0..above
               /\ delta <= -DeadZone /\ below <= 0 => Axis(raw, middle) = -AxisMax
               /\ delta <= -DeadZone /\ below > 0
                      => /\ Axis(raw, middle) = -Deflection(-(delta + DeadZone), below)
                         /\ -(delta + DeadZone) \in 0..below
<1>1. PICK a \in Nat, z \in Nat : a = AdcMax /\ z = DeadZone /\ z > 0 /\ Adc = 0..a
    BY PadIs DEF Adc
<1>2. PICK delta \in Int, above \in Int, below \in Int :
          delta = raw - middle /\ above = a - middle - z /\ below = middle - z
    BY <1>1
<1>3. Axis(raw, middle) =
          CASE delta > -z /\ delta < z   -> 0
            [] delta >= z /\ above <= 0  -> AxisMax
            [] delta >= z /\ above > 0   -> Deflection(delta - z, above)
            [] delta <= -z /\ below <= 0 -> -AxisMax
            [] delta <= -z /\ below > 0  -> -Deflection(-(delta + z), below)
    BY <1>1, <1>2 DEF Axis, Deflection
<1>4. delta \in (1 - z)..(z - 1) => Axis(raw, middle) = 0
    BY <1>1, <1>3
<1>5. delta >= z /\ above <= 0 => Axis(raw, middle) = AxisMax
    BY <1>1, <1>3
<1>6. delta >= z /\ above > 0 => Axis(raw, middle) = Deflection(delta - z, above)
    BY <1>1, <1>3
<1>7. delta <= -z /\ below <= 0 => Axis(raw, middle) = -AxisMax
    BY <1>1, <1>3
<1>8. delta <= -z /\ below > 0 => Axis(raw, middle) = -Deflection(-(delta + z), below)
    BY <1>1, <1>3
<1>9. delta >= z => delta - z \in 0..above
    BY <1>1, <1>2
<1>10. delta <= -z => -(delta + z) \in 0..below
    BY <1>1, <1>2
<1>11. QED BY <1>1, <1>2, <1>4, <1>5, <1>6, <1>7, <1>8, <1>9, <1>10

LEMMA AxisFits ==
    ASSUME NEW raw \in Adc, NEW middle \in Adc
    PROVE  /\ Axis(raw, middle) \in -AxisMax..AxisMax
           /\ raw - middle >= DeadZone => Axis(raw, middle) >= 0
           /\ raw - middle <= -DeadZone => Axis(raw, middle) <= 0
           /\ raw = AdcMax /\ AdcMax - middle >= DeadZone => Axis(raw, middle) = AxisMax
           /\ raw = 0 /\ middle >= DeadZone => Axis(raw, middle) = -AxisMax
<1>1. PICK a \in Nat, z \in Nat, m \in Nat :
          a = AdcMax /\ z = DeadZone /\ m = AxisMax /\ z > 0 /\ Adc = 0..a
    BY PadIs DEF Adc
<1>2. PICK delta, above, below, x :
          /\ delta \in Int /\ above \in Int /\ below \in Int
          /\ delta = raw - middle /\ above = a - middle - z /\ below = middle - z
          /\ x = Axis(raw, middle)
    BY <1>1
<1>3. CASE delta \in (1 - z)..(z - 1)
    <2>1. x = 0
        BY <1>1, <1>2, <1>3, AxisIs
    <2>2. QED BY <1>1, <1>2, <1>3, <2>1
<1>4. CASE delta >= z /\ above <= 0
    <2>1. x = m
        BY <1>1, <1>2, <1>4, AxisIs
    <2>2. QED BY <1>1, <1>2, <1>4, <2>1
<1>5. CASE delta >= z /\ above > 0
    <2>1. x = Deflection(delta - z, above) /\ delta - z \in 0..above
        BY <1>1, <1>2, <1>5, AxisIs
    <2>2. x \in 0..m /\ (delta - z = above => x = m)
        BY <1>1, <1>2, <1>5, <2>1, DeflectionIs
    <2>3. QED BY <1>1, <1>2, <1>5, <2>2
<1>6. CASE delta <= -z /\ below <= 0
    <2>1. x = -m
        BY <1>1, <1>2, <1>6, AxisIs
    <2>2. QED BY <1>1, <1>2, <1>6, <2>1
<1>7. CASE delta <= -z /\ below > 0
    <2>1. PICK y \in 0..below : y = -(delta + z) /\ x = -Deflection(y, below)
        BY <1>1, <1>2, <1>7, AxisIs
    <2>2. Deflection(y, below) \in 0..m /\ (y = below => Deflection(y, below) = m)
        BY <1>1, <1>2, <1>7, <2>1, DeflectionIs
    <2>3. PICK w \in 0..m : x = -w /\ (y = below => w = m)
        BY <2>1, <2>2
    <2>4. QED BY <1>1, <1>2, <1>7, <2>1, <2>3
<1>8. QED BY <1>1, <1>2, <1>3, <1>4, <1>5, <1>6, <1>7

LEMMA AxisMonotone ==
    ASSUME NEW r \in Adc, NEW s \in Adc, NEW middle \in Adc, r < s
    PROVE  Axis(r, middle) <= Axis(s, middle)
<1>1. PICK a \in Nat, z \in Nat, m \in Nat :
          a = AdcMax /\ z = DeadZone /\ m = AxisMax /\ z > 0 /\ Adc = 0..a
    BY PadIs DEF Adc
<1>2. PICK x \in -m..m, y \in -m..m : x = Axis(r, middle) /\ y = Axis(s, middle)
    BY <1>1, AxisFits
<1>3. PICK d \in Int, e \in Int, above \in Int, below \in Int :
          /\ d = r - middle /\ e = s - middle /\ d < e
          /\ above = a - middle - z /\ below = middle - z
    BY <1>1
<1>4. CASE d >= z
    <2>1. e >= z
        BY <1>3, <1>4
    <2>2. CASE above <= 0
        BY <1>1, <1>2, <1>3, <1>4, <2>1, <2>2, AxisIs
    <2>3. CASE above > 0
        <3>1. PICK u \in 0..above : u = d - z /\ x = Deflection(u, above)
            BY <1>1, <1>2, <1>3, <1>4, <2>3, AxisIs
        <3>2. PICK v \in 0..above : v = e - z /\ y = Deflection(v, above)
            BY <1>1, <1>2, <1>3, <2>1, <2>3, AxisIs
        <3>3. u <= v
            BY <1>3, <3>1, <3>2
        <3>4. Deflection(u, above) <= Deflection(v, above)
            BY <2>3, <3>3, DeflectionIs
        <3>5. QED BY <1>2, <3>1, <3>2, <3>4
    <2>4. QED BY <2>2, <2>3
<1>5. CASE e <= -z
    <2>1. d <= -z
        BY <1>3, <1>5
    <2>2. CASE below <= 0
        BY <1>1, <1>2, <1>3, <1>5, <2>1, <2>2, AxisIs
    <2>3. CASE below > 0
        <3>1. PICK u \in 0..below : u = -(d + z) /\ x = -Deflection(u, below)
            BY <1>1, <1>2, <1>3, <2>1, <2>3, AxisIs
        <3>2. PICK v \in 0..below : v = -(e + z) /\ y = -Deflection(v, below)
            BY <1>1, <1>2, <1>3, <1>5, <2>3, AxisIs
        <3>3. v <= u
            BY <1>3, <3>1, <3>2
        <3>4. /\ Deflection(v, below) <= Deflection(u, below)
              /\ Deflection(v, below) \in 0..m /\ Deflection(u, below) \in 0..m
            BY <1>1, <2>3, <3>3, DeflectionIs
        <3>5. QED BY <1>2, <3>1, <3>2, <3>4
    <2>4. QED BY <2>2, <2>3
<1>6. CASE d < z /\ e > -z
    <2>1. x <= 0
        <3>1. CASE d <= -z
            BY <1>1, <1>2, <1>3, <3>1, AxisFits
        <3>2. CASE d > -z
            <4>1. d \in (1 - z)..(z - 1)
                BY <1>6, <3>2
            <4>2. QED BY <1>1, <1>2, <1>3, <4>1, AxisIs
        <3>3. QED BY <3>1, <3>2
    <2>2. y >= 0
        <3>1. CASE e >= z
            BY <1>1, <1>2, <1>3, <3>1, AxisFits
        <3>2. CASE e < z
            <4>1. e \in (1 - z)..(z - 1)
                BY <1>6, <3>2
            <4>2. QED BY <1>1, <1>2, <1>3, <4>1, AxisIs
        <3>3. QED BY <3>1, <3>2
    <2>3. QED BY <1>2, <2>1, <2>2
<1>7. QED BY <1>4, <1>5, <1>6

\* The trigger: a position on a working calibration, and the eight bits of the report.
Pull(p, c) ==
    IF p <= c.deadZone THEN 0
    ELSE ((p - c.deadZone) * TriggerMax + (c.max - c.min - c.deadZone) \div 2)
             \div (c.max - c.min - c.deadZone)

Rounded(value) == (value + Ratio \div 2) \div Ratio

Working(sample, c) == sample.source /\ sample.adc /\ c.deadZone < c.max - c.min

LEMMA CalibrationIs ==
    ASSUME NEW c \in Calibrations
    PROVE  c.min \in Nat /\ c.max \in Nat /\ c.deadZone \in Nat /\ c.inverted \in BOOLEAN
BY PadAssumption

LEMMA RoundedIs ==
    /\ \A u, v \in 0..TriggerMax : u <= v => Rounded(u) <= Rounded(v)
    /\ Rounded(0) = 0 /\ Rounded(TriggerMax) = HidMax
    /\ \A v \in 0..TriggerMax : Rounded(v) \in 0..HidMax
<1>1. PICK r \in Nat, h \in Nat, t \in Nat, k \in Nat :
          /\ r = Ratio /\ r > 0 /\ h = HidMax /\ t = TriggerMax /\ t = h * r
          /\ k = r \div 2 /\ k < r
    BY PadIs, HalfIs
<1>2. \A u, v \in 0..t : u <= v => (u + k) \div r <= (v + k) \div r
    <2> SUFFICES ASSUME NEW u \in 0..t, NEW v \in 0..t, u <= v
                 PROVE  (u + k) \div r <= (v + k) \div r
        OBVIOUS
    <2>1. u + k \in Int /\ v + k \in Int /\ u + k <= v + k
        OBVIOUS
    <2>2. QED BY <1>1, <2>1, DivMonotone
<1>3. (0 + k) \div r = 0 /\ (t + k) \div r = h
    <2>1. k < r
        BY <1>1
    <2>2. (Times(r, h) + k) \div r = h /\ k \div r = 0
        BY <2>1, DivTimes
    <2>3. Times(r, h) = t
        BY <1>1 DEF Times
    <2>4. QED BY <2>2, <2>3
<1>4. \A v \in 0..t : (v + k) \div r \in Int
    BY <1>1, DivIs
<1>5. \A v \in 0..t : (v + k) \div r \in 0..h
    BY <1>2, <1>3, <1>4
<1>6. \A v : Rounded(v) = (v + k) \div r
    BY <1>1 DEF Rounded
<1>7. QED BY <1>1, <1>2, <1>3, <1>5, <1>6

LEMMA PullIs ==
    ASSUME NEW c \in Calibrations, c.deadZone < c.max - c.min
    PROVE  /\ \A p, q \in 0..(c.max - c.min) : p <= q => Pull(p, c) <= Pull(q, c)
           /\ Pull(c.max - c.min, c) = TriggerMax
           /\ \A p \in 0..(c.max - c.min) : Pull(p, c) \in 0..TriggerMax
           /\ \A p \in 0..(c.max - c.min) : p <= c.deadZone => Pull(p, c) = 0
<1>1. PICK z \in Nat, s \in Int, a \in Nat, t \in Nat, k \in Nat :
          /\ z = c.deadZone /\ s = c.max - c.min /\ a = s - z /\ a > 0 /\ t = TriggerMax
          /\ k = a \div 2 /\ k < a
    <2>1. PICK z \in Nat, s \in Int, a \in Nat, t \in Nat :
              z = c.deadZone /\ s = c.max - c.min /\ a = s - z /\ a > 0 /\ t = TriggerMax
        <3>1. /\ c.deadZone \in Nat /\ c.max - c.min \in Int
              /\ c.max - c.min - c.deadZone \in Nat /\ c.max - c.min - c.deadZone > 0
            BY CalibrationIs
        <3>2. QED BY <3>1, PadIs
    <2>2. a \div 2 \in Nat /\ a \div 2 < a
        BY <2>1, HalfIs
    <2>3. QED BY <2>1, <2>2
<1>2. \A p : Pull(p, c) = IF p <= z THEN 0 ELSE ((p - z) * t + k) \div a
    BY <1>1 DEF Pull
<1>3. \A p, q \in z..s : p <= q => ((p - z) * t + k) \div a <= ((q - z) * t + k) \div a
    <2> SUFFICES ASSUME NEW p \in z..s, NEW q \in z..s, p <= q
                 PROVE  ((p - z) * t + k) \div a <= ((q - z) * t + k) \div a
        OBVIOUS
    <2>1. PICK u \in Nat, v \in Nat : u = p - z /\ v = q - z /\ u <= v
        BY <1>1
    <2>2. u * t \in Int /\ v * t \in Int /\ u * t <= v * t
        BY <2>1, Scales
    <2>3. u * t + k \in Int /\ v * t + k \in Int /\ u * t + k <= v * t + k
        BY <2>2
    <2>4. (u * t + k) \div a <= (v * t + k) \div a
        BY <1>1, <2>3, DivMonotone
    <2>5. QED BY <2>1, <2>4
<1>4. ((z - z) * t + k) \div a = 0 /\ ((s - z) * t + k) \div a = t
    <2>1. k < a
        BY <1>1
    <2>2. (Times(a, t) + k) \div a = t /\ k \div a = 0
        BY <2>1, DivTimes
    <2>3. (s - z) * t = Times(a, t)
        BY <1>1 DEF Times
    <2>4. (z - z) * t + k = k
        BY <1>1
    <2>5. QED BY <2>2, <2>3, <2>4
<1>5. \A p \in z..s : ((p - z) * t + k) \div a \in Int
    <2> SUFFICES ASSUME NEW p \in z..s PROVE ((p - z) * t + k) \div a \in Int
        OBVIOUS
    <2>1. (p - z) * t + k \in Int
        OBVIOUS
    <2>2. QED BY <1>1, <2>1, DivIs
<1>6. z \in z..s /\ s \in z..s
    BY <1>1
<1>7. \A p \in z..s : ((p - z) * t + k) \div a \in 0..t
    BY <1>3, <1>4, <1>5, <1>6
<1>8. \A p \in 0..s : Pull(p, c) \in 0..t
    BY <1>1, <1>2, <1>7
<1>9. \A p, q \in 0..s : p <= q => Pull(p, c) <= Pull(q, c)
    <2> SUFFICES ASSUME NEW p \in 0..s, NEW q \in 0..s, p <= q PROVE Pull(p, c) <= Pull(q, c)
        OBVIOUS
    <2>1. CASE p <= z
        BY <1>2, <1>8, <2>1
    <2>2. CASE p > z
        BY <1>1, <1>2, <1>3, <2>2
    <2>3. QED BY <2>1, <2>2
<1>10. Pull(s, c) = t
    BY <1>1, <1>2, <1>4
<1>11. \A p \in 0..s : p <= z => Pull(p, c) = 0
    BY <1>2
<1>12. QED BY <1>1, <1>8, <1>9, <1>10, <1>11

\* Where a raw reading stands on a working calibration.
LEMMA PositionIs ==
    ASSUME NEW c \in Calibrations, c.deadZone < c.max - c.min, NEW raw \in Adc
    PROVE  LET p == Position(Clamped(raw, c.min, c.max), c)
           IN  /\ p \in 0..(c.max - c.min)
               /\ Position(raw, c) <= c.deadZone => p <= c.deadZone
               /\ Position(raw, c) >= c.max - c.min => p = c.max - c.min
               /\ \A s \in Adc : raw < s =>
                      LET q == Position(Clamped(s, c.min, c.max), c)
                      IN  IF c.inverted THEN q <= p ELSE p <= q
<1>1. PICK lo \in Nat, hi \in Nat, z \in Nat :
          lo = c.min /\ hi = c.max /\ z = c.deadZone /\ z < hi - lo
    BY CalibrationIs
<1>2. Adc \subseteq Nat
    BY PadIs DEF Adc
<1>3. \A s : Position(s, c) = IF c.inverted THEN hi - s ELSE s - lo
    BY <1>1 DEF Position
<1>4. \A s : Clamped(s, lo, hi) = IF s < lo THEN lo ELSE IF s > hi THEN hi ELSE s
    BY DEF Clamped
<1>5. PICK k : k = Clamped(raw, lo, hi)
    OBVIOUS
<1>6. k \in lo..hi /\ k = IF raw < lo THEN lo ELSE IF raw > hi THEN hi ELSE raw
    BY <1>1, <1>2, <1>4, <1>5
<1>7. Position(k, c) \in 0..(hi - lo)
    BY <1>3, <1>6
<1>8. Position(raw, c) <= z => Position(k, c) <= z
    BY <1>1, <1>2, <1>3, <1>6
<1>9. Position(raw, c) >= hi - lo => Position(k, c) = hi - lo
    BY <1>1, <1>2, <1>3, <1>6
<1>10. ASSUME NEW s \in Adc, raw < s
       PROVE  IF c.inverted THEN Position(Clamped(s, lo, hi), c) <= Position(k, c)
                            ELSE Position(k, c) <= Position(Clamped(s, lo, hi), c)
    <2>1. PICK j : j = Clamped(s, lo, hi)
        OBVIOUS
    <2>2. j \in lo..hi /\ j = IF s < lo THEN lo ELSE IF s > hi THEN hi ELSE s
        BY <1>1, <1>2, <1>4, <2>1
    <2>3. k <= j
        BY <1>1, <1>2, <1>6, <1>10, <2>2
    <2>4. IF c.inverted THEN Position(j, c) <= Position(k, c) ELSE Position(k, c) <= Position(j, c)
        <3>1. k \in Nat /\ j \in Nat
            BY <1>6, <2>2
        <3>2. CASE c.inverted
            BY <1>3, <2>3, <3>1, <3>2
        <3>3. CASE ~c.inverted
            BY <1>3, <2>3, <3>1, <3>3
        <3>4. QED BY <3>2, <3>3
    <2>5. QED BY <2>1, <2>4
<1>11. QED BY <1>1, <1>5, <1>7, <1>8, <1>9, <1>10

LEMMA StatusDiffers ==
    "NO_SOURCE" # "OK" /\ "ADC_UNAVAILABLE" # "OK" /\ "INVALID_CAL" # "OK"
OBVIOUS

LEMMA NormalizedIs ==
    ASSUME NEW sample \in Samples, NEW c \in Calibrations
    PROVE  LET n == Normalized(sample, c)
           IN  /\ (n.status = "OK") <=> Working(sample, c)
               /\ ~Working(sample, c) => n.value = 0
               /\ Working(sample, c)
                      => n.value = Pull(Position(Clamped(sample.raw, c.min, c.max), c), c)
<1>1. PICK z \in Nat, s \in Int : z = c.deadZone /\ s = c.max - c.min
    BY CalibrationIs
<1>2. sample.source \in BOOLEAN /\ sample.adc \in BOOLEAN
    BY DEF Samples
<1>3. PICK n : n = Normalized(sample, c)
    OBVIOUS
<1>4. CASE ~sample.source
    <2>1. n = NotPulled("NO_SOURCE")
        BY <1>2, <1>3, <1>4 DEF Normalized
    <2>2. n.status # "OK" /\ n.value = 0
        BY <2>1, StatusDiffers DEF NotPulled
    <2>3. QED BY <1>3, <1>4, <2>2 DEF Working
<1>5. CASE sample.source /\ ~sample.adc
    <2>1. n = NotPulled("ADC_UNAVAILABLE")
        BY <1>2, <1>3, <1>5 DEF Normalized
    <2>2. n.status # "OK" /\ n.value = 0
        BY <2>1, StatusDiffers DEF NotPulled
    <2>3. QED BY <1>3, <1>5, <2>2 DEF Working
<1>6. CASE sample.source /\ sample.adc /\ z >= s
    <2>1. n = NotPulled("INVALID_CAL")
        BY <1>1, <1>2, <1>3, <1>6 DEF Normalized
    <2>2. n.status # "OK" /\ n.value = 0
        BY <2>1, StatusDiffers DEF NotPulled
    <2>3. ~Working(sample, c)
        BY <1>1, <1>6 DEF Working
    <2>4. QED BY <1>3, <2>2, <2>3
<1>7. CASE sample.source /\ sample.adc /\ ~(z >= s)
    <2>1. PICK p : p = Position(Clamped(sample.raw, c.min, c.max), c)
        OBVIOUS
    <2>2. n = [value |-> Pull(p, c), status |-> "OK"]
        BY <1>1, <1>2, <1>3, <1>7, <2>1 DEF Normalized, Pull
    <2>3. n.status = "OK" /\ n.value = Pull(p, c)
        BY <2>2
    <2>4. Working(sample, c)
        BY <1>1, <1>7 DEF Working
    <2>5. QED BY <1>3, <2>1, <2>3, <2>4
<1>8. QED BY <1>4, <1>5, <1>6, <1>7

\* The D-pad: what is left when opposite directions cancel points somewhere or nowhere.
LEMMA DirectionsDiffer ==
    /\ "UP" # "DOWN" /\ "UP" # "LEFT" /\ "UP" # "RIGHT"
    /\ "DOWN" # "LEFT" /\ "DOWN" # "RIGHT" /\ "LEFT" # "RIGHT"
OBVIOUS

LEMMA AroundIs ==
    /\ DOMAIN Around = 1..8
    /\ Around[1] = {"UP"} /\ Around[2] = {"UP", "RIGHT"} /\ Around[3] = {"RIGHT"}
    /\ Around[4] = {"DOWN", "RIGHT"} /\ Around[5] = {"DOWN"} /\ Around[6] = {"DOWN", "LEFT"}
    /\ Around[7] = {"LEFT"} /\ Around[8] = {"UP", "LEFT"}
BY DEF Around

LEMMA CancelledIs ==
    ASSUME NEW p \in SUBSET Directions
    PROVE  /\ Cancelled(p) \in SUBSET Directions
           /\ "UP" \in Cancelled(p) <=> "UP" \in p /\ "DOWN" \notin p
           /\ "DOWN" \in Cancelled(p) <=> "DOWN" \in p /\ "UP" \notin p
           /\ "LEFT" \in Cancelled(p) <=> "LEFT" \in p /\ "RIGHT" \notin p
           /\ "RIGHT" \in Cancelled(p) <=> "RIGHT" \in p /\ "LEFT" \notin p
<1>1. PICK u, d, l, r :
          /\ u = "UP" /\ d = "DOWN" /\ l = "LEFT" /\ r = "RIGHT"
          /\ u # d /\ u # l /\ u # r /\ d # l /\ d # r /\ l # r
    BY DirectionsDiffer
<1>2. PICK v, h : /\ v = IF {u, d} \subseteq p THEN {u, d} ELSE {}
                  /\ h = IF {l, r} \subseteq p THEN {l, r} ELSE {}
    OBVIOUS
<1>3. Cancelled(p) = p \ (v \cup h)
    BY <1>1, <1>2 DEF Cancelled
<1>4. PICK c : c = p \ (v \cup h)
    OBVIOUS
<1>5. c \subseteq p
    BY <1>4
<1>6. u \in c <=> u \in p /\ d \notin p
    BY <1>1, <1>2, <1>4
<1>7. d \in c <=> d \in p /\ u \notin p
    BY <1>1, <1>2, <1>4
<1>8. l \in c <=> l \in p /\ r \notin p
    BY <1>1, <1>2, <1>4
<1>9. r \in c <=> r \in p /\ l \notin p
    BY <1>1, <1>2, <1>4
<1>10. QED BY <1>1, <1>3, <1>4, <1>5, <1>6, <1>7, <1>8, <1>9

LEMMA PointsSomewhere ==
    ASSUME NEW p \in SUBSET Directions, Cancelled(p) # {}
    PROVE  \E i \in DOMAIN Around : Around[i] = Cancelled(p)
<1>1. PICK u, d, l, r :
          /\ u = "UP" /\ d = "DOWN" /\ l = "LEFT" /\ r = "RIGHT"
          /\ u # d /\ u # l /\ u # r /\ d # l /\ d # r /\ l # r
    BY DirectionsDiffer
<1>2. PICK c : c = Cancelled(p)
    OBVIOUS
<1>3. c \subseteq {u, d, l, r} /\ c # {} /\ ~(u \in c /\ d \in c) /\ ~(l \in c /\ r \in c)
    BY <1>1, <1>2, CancelledIs DEF Directions
<1>4. c \in {{u}, {u, r}, {r}, {d, r}, {d}, {d, l}, {l}, {u, l}}
    <2>1. CASE u \in c
        <3>1. CASE r \in c
            BY <1>3, <2>1, <3>1
        <3>2. CASE l \in c
            BY <1>3, <2>1, <3>2
        <3>3. CASE r \notin c /\ l \notin c
            BY <1>3, <2>1, <3>3
        <3>4. QED BY <3>1, <3>2, <3>3
    <2>2. CASE d \in c
        <3>1. CASE r \in c
            BY <1>3, <2>2, <3>1
        <3>2. CASE l \in c
            BY <1>3, <2>2, <3>2
        <3>3. CASE r \notin c /\ l \notin c
            BY <1>3, <2>2, <3>3
        <3>4. QED BY <3>1, <3>2, <3>3
    <2>3. CASE u \notin c /\ d \notin c
        <3>1. CASE r \in c
            BY <1>3, <2>3, <3>1
        <3>2. CASE l \in c
            BY <1>3, <2>3, <3>2
        <3>3. QED BY <1>3, <2>3, <3>1, <3>2
    <2>4. QED BY <2>1, <2>2, <2>3
<1>5. /\ DOMAIN Around = 1..8
      /\ Around[1] = {u} /\ Around[2] = {u, r} /\ Around[3] = {r} /\ Around[4] = {d, r}
      /\ Around[5] = {d} /\ Around[6] = {d, l} /\ Around[7] = {l} /\ Around[8] = {u, l}
    BY <1>1, AroundIs
<1>6. QED BY <1>2, <1>4, <1>5

LEMMA HatIs ==
    ASSUME NEW h \in Hands
    PROVE  /\ Hat(h.dpad) \in 0..8
           /\ HatVector[Hat(h.dpad)] = <<Push(h, "RIGHT", "LEFT"), Push(h, "UP", "DOWN")>>
<1>1. PICK p \in SUBSET Directions : p = h.dpad
    BY DEF Hands
<1>2. PICK c : c = Cancelled(p)
    OBVIOUS
<1>3. DOMAIN HatVector = 0..8 /\ DOMAIN Around = 1..8
    BY AroundIs DEF HatVector
<1>4. /\ Push(h, "RIGHT", "LEFT") = (IF "RIGHT" \in p THEN 1 ELSE 0) - (IF "LEFT" \in p THEN 1 ELSE 0)
      /\ Push(h, "UP", "DOWN") = (IF "UP" \in p THEN 1 ELSE 0) - (IF "DOWN" \in p THEN 1 ELSE 0)
    BY <1>1 DEF Push
<1>5. CASE c = {}
    <2>1. Hat(p) = 0
        BY <1>2, <1>5 DEF Hat
    <2>2. ("UP" \in p <=> "DOWN" \in p) /\ ("LEFT" \in p <=> "RIGHT" \in p)
        BY <1>2, <1>5, CancelledIs
    <2>3. Push(h, "RIGHT", "LEFT") = 0
        BY <1>4, <2>2
    <2>4. Push(h, "UP", "DOWN") = 0
        BY <1>4, <2>2
    <2>5. HatVector[0] = <<0, 0>>
        BY DEF HatVector
    <2>6. QED BY <1>1, <2>1, <2>3, <2>4, <2>5
<1>6. CASE c # {}
    <2>1. PICK i : i = CHOOSE j \in DOMAIN Around : Around[j] = c
        OBVIOUS
    <2>2. i \in DOMAIN Around /\ Around[i] = c
        BY <1>2, <1>6, <2>1, PointsSomewhere
    <2>3. Hat(p) = i /\ i \in 1..8
        BY <1>2, <1>3, <1>6, <2>1, <2>2 DEF Hat
    <2>4. PICK d : d = [dpad |-> c]
        OBVIOUS
    <2>5. HatVector[i] = <<Push(d, "RIGHT", "LEFT"), Push(d, "UP", "DOWN")>>
        BY <2>2, <2>3, <2>4 DEF HatVector
    <2>6. /\ Push(d, "RIGHT", "LEFT") =
                 (IF "RIGHT" \in c THEN 1 ELSE 0) - (IF "LEFT" \in c THEN 1 ELSE 0)
          /\ Push(d, "UP", "DOWN") =
                 (IF "UP" \in c THEN 1 ELSE 0) - (IF "DOWN" \in c THEN 1 ELSE 0)
        BY <2>4 DEF Push
    <2>7. Push(d, "RIGHT", "LEFT") = Push(h, "RIGHT", "LEFT")
        <3>1. ("RIGHT" \in c <=> "RIGHT" \in p /\ "LEFT" \notin p)
              /\ ("LEFT" \in c <=> "LEFT" \in p /\ "RIGHT" \notin p)
            BY <1>2, CancelledIs
        <3>2. QED BY <1>4, <2>6, <3>1
    <2>8. Push(d, "UP", "DOWN") = Push(h, "UP", "DOWN")
        <3>1. ("UP" \in c <=> "UP" \in p /\ "DOWN" \notin p)
              /\ ("DOWN" \in c <=> "DOWN" \in p /\ "UP" \notin p)
            BY <1>2, CancelledIs
        <3>2. QED BY <1>4, <2>6, <3>1
    <2>9. QED BY <1>1, <2>3, <2>5, <2>7, <2>8
<1>7. QED BY <1>5, <1>6

LEMMA NormalizedFits ==
    ASSUME NEW sample \in Samples, NEW c \in Calibrations
    PROVE  Normalized(sample, c).value \in 0..TriggerMax
<1>1. PICK n : n = Normalized(sample, c)
    OBVIOUS
<1>2. CASE ~Working(sample, c)
    <2>1. n.value = 0
        BY <1>1, <1>2, NormalizedIs
    <2>2. QED BY <1>1, <2>1, PadIs
<1>3. CASE Working(sample, c)
    <2>1. sample.raw \in Adc /\ c.deadZone < c.max - c.min
        BY <1>3 DEF Samples, Working
    <2>2. PICK p \in 0..(c.max - c.min) : p = Position(Clamped(sample.raw, c.min, c.max), c)
        BY <2>1, PositionIs
    <2>3. n.value = Pull(p, c)
        BY <1>1, <1>3, <2>2, NormalizedIs
    <2>4. Pull(p, c) \in 0..TriggerMax
        BY <2>1, PullIs
    <2>5. QED BY <1>1, <2>3, <2>4
<1>4. QED BY <1>2, <1>3

\* What the host was told is what the conversions make of the sample.
Told ==
    /\ report.axis = Axis(sampled.stick, centre)
    /\ report.hat = Hat(sampled.dpad)
    /\ report.buttons = sampled.buttons
    /\ test = NoTest => report.trigger = Rounded(Normalized(sampled.trigger, calibration).value)

\* The age of the last due report on the wrapping clock.
Age == (time + ClockMod - lastReport) % ClockMod

\* A change that is older than the last due report is in the report.
Aged == /\ sinceLoop <= Age /\ Age < ReportPeriod + sinceLoop
        /\ ready /\ steady > Age => report = Report(hands)

PadInv == PadTypeOK /\ Told /\ Aged

ReportFields == [axis : -AxisMax..AxisMax, hat : 0..8,
                 buttons : SUBSET Buttons, trigger : 0..HidMax]

LEMMA ReportIs ==
    ASSUME PadTypeOK, NEW h \in Hands
    PROVE  /\ Report(h) \in ReportFields
           /\ Report(h).axis = Axis(h.stick, centre)
           /\ Report(h).hat = Hat(h.dpad)
           /\ Report(h).buttons = h.buttons
           /\ test = NoTest
                  => Report(h).trigger = Rounded(Normalized(h.trigger, calibration).value)
<1>1. /\ h.stick \in Adc /\ h.buttons \in SUBSET Buttons /\ h.trigger \in Samples
      /\ centre \in Adc /\ calibration \in Calibrations
    BY DEF PadTypeOK, Hands
<1>2. PICK a, d, t :
          a = Axis(h.stick, centre) /\ d = Hat(h.dpad) /\ t = Rounded(Trigger(h).value)
    OBVIOUS
<1>3. Report(h) = [axis |-> a, hat |-> d, buttons |-> h.buttons, trigger |-> t]
    BY <1>2 DEF Report, Rounded
<1>4. a \in -AxisMax..AxisMax
    BY <1>1, <1>2, AxisFits
<1>5. d \in 0..8
    BY <1>2, HatIs
<1>6. Trigger(h).value \in 0..TriggerMax
    <2>1. CASE test = NoTest
        BY <1>1, <2>1, NormalizedFits DEF Trigger
    <2>2. CASE test # NoTest
        BY <2>2 DEF Trigger, PadTypeOK
    <2>3. QED BY <2>1, <2>2
<1>7. t \in 0..HidMax
    BY <1>2, <1>6, RoundedIs
<1>8. test = NoTest => t = Rounded(Normalized(h.trigger, calibration).value)
    BY <1>2 DEF Trigger
<1>9. Report(h) \in ReportFields
    BY <1>1, <1>3, <1>4, <1>5, <1>7 DEF ReportFields
<1>10. QED BY <1>2, <1>3, <1>8, <1>9

LEMMA AgeIs ==
    ASSUME NEW t \in 0..(ClockMod - 1), NEW reported \in 0..(ClockMod - 1)
    PROVE  (t + ClockMod - reported) % ClockMod = IF t >= reported THEN t - reported ELSE t - reported + ClockMod
<1>1. PICK m \in Nat : m = ClockMod /\ m > 0
    BY PadIs
<1>2. PICK a \in Nat : a = t + m - reported /\ a < 2 * m
    BY <1>1
<1>3. a % m = IF a < m THEN a ELSE a - m
    BY <1>1, <1>2, Wraps
<1>4. PICK x : x = a % m
    OBVIOUS
<1>5. x = IF t >= reported THEN t - reported ELSE t - reported + m
    BY <1>1, <1>2, <1>3, <1>4
<1>6. (t + ClockMod - reported) % ClockMod = x
    BY <1>1, <1>2, <1>4
<1>7. QED BY <1>1, <1>5, <1>6

LEMMA AgeNat ==
    ASSUME PadTypeOK
    PROVE  Age \in Nat
<1>1. PICK t \in 0..(ClockMod - 1), reported \in 0..(ClockMod - 1) : t = time /\ reported = lastReport
    BY DEF PadTypeOK
<1>2. (t + ClockMod - reported) % ClockMod = IF t >= reported THEN t - reported ELSE t - reported + ClockMod
    BY AgeIs
<1>3. PICK n : n = (t + ClockMod - reported) % ClockMod
    OBVIOUS
<1>4. n \in Nat
    BY <1>2, <1>3, PadIs
<1>5. QED BY <1>1, <1>3, <1>4 DEF Age

LEMMA AgeLater ==
    ASSUME NEW t \in 0..(ClockMod - 1), NEW reported \in 0..(ClockMod - 1), NEW ms \in Nat, NEW a \in Nat,
           a = (t + ClockMod - reported) % ClockMod, a + ms < ClockMod
    PROVE  /\ ((t + ms) % ClockMod) \in 0..(ClockMod - 1)
           /\ (((t + ms) % ClockMod) + ClockMod - reported) % ClockMod = a + ms
<1>1. PICK m \in Nat : m = ClockMod /\ m > 0
    BY PadIs
<1>2. a = IF t >= reported THEN t - reported ELSE t - reported + m
    BY <1>1, AgeIs
<1>3. PICK b \in Nat : b = t + ms /\ b < 2 * m
    BY <1>1, <1>2
<1>4. PICK u : u = b % m
    OBVIOUS
<1>5. u = (IF b < m THEN b ELSE b - m)
    BY <1>1, <1>3, <1>4, Wraps
<1>6. u \in 0..(m - 1)
    BY <1>1, <1>3, <1>5
<1>7. PICK y : y = (u + m - reported) % m
    OBVIOUS
<1>8. y = IF u >= reported THEN u - reported ELSE u - reported + m
    BY <1>1, <1>6, <1>7, AgeIs
<1>9. y = a + ms
    BY <1>1, <1>2, <1>3, <1>5, <1>6, <1>8
<1>10. (t + ms) % ClockMod = u
    BY <1>1, <1>3, <1>4
<1>11. QED BY <1>1, <1>6, <1>7, <1>9, <1>10

LEMMA PadInitHolds == PadInit => PadInv
<1> SUFFICES ASSUME PadInit PROVE PadInv
    OBVIOUS
<1>1. centre \in Adc /\ calibration \in Calibrations
    BY DEF PadInit
<1>2. PICK z : z = [raw |-> 0, source |-> FALSE, adc |-> FALSE]
    OBVIOUS
<1>3. z \in Samples /\ ~Working(z, calibration)
    BY <1>2, PadIs DEF Samples, Adc, Working
<1>4. PICK h : h = [stick |-> centre, dpad |-> {}, buttons |-> {}, trigger |-> z]
    OBVIOUS
<1>5. h \in Hands /\ h.stick = centre /\ h.dpad = {} /\ h.buttons = {} /\ h.trigger = z
    BY <1>1, <1>3, <1>4 DEF Hands
<1>6. hands = h /\ sampled = h
    BY <1>2, <1>4 DEF PadInit, AtRest
<1>7. report = [axis |-> 0, hat |-> 0, buttons |-> {}, trigger |-> 0]
    BY DEF PadInit, Neutral
<1>8. test = NoTest /\ ready = FALSE /\ time = 0 /\ lastReport = 0 /\ sinceLoop = 0 /\ steady = 0
    BY DEF PadInit
<1>9. PadTypeOK
    <2>1. report \in [axis : -AxisMax..AxisMax, hat : 0..8, buttons : SUBSET Buttons,
                      trigger : 0..HidMax]
        BY <1>7, PadIs
    <2>2. time \in 0..(ClockMod - 1) /\ lastReport \in 0..(ClockMod - 1)
          /\ sinceLoop \in 0..MaxPass /\ steady \in 0..Settled
        BY <1>8, PadIs DEF Settled
    <2>3. test \in 0..TriggerMax \cup {NoTest} /\ ready \in BOOLEAN
        BY <1>8
    <2>4. QED BY <1>1, <1>5, <1>6, <2>1, <2>2, <2>3 DEF PadTypeOK
<1>10. Told
    <2>1. Axis(centre, centre) = 0
        <3>1. centre \in Int /\ centre - centre \in (1 - DeadZone)..(DeadZone - 1)
            BY <1>1, PadIs DEF Adc
        <3>2. QED BY <1>1, <3>1, AxisIs
    <2>2. Hat({}) = 0
        BY DEF Hat, Cancelled
    <2>3. Rounded(Normalized(z, calibration).value) = 0
        BY <1>1, <1>3, NormalizedIs, RoundedIs
    <2>4. report.axis = 0 /\ report.hat = 0 /\ report.buttons = {} /\ report.trigger = 0
        BY <1>7
    <2>5. QED BY <1>5, <1>6, <2>1, <2>2, <2>3, <2>4 DEF Told
<1>11. Aged
    <2>1. Age = 0
        <3>1. 0 \in 0..(ClockMod - 1)
            BY PadIs
        <3>2. (0 + ClockMod - 0) % ClockMod = 0
            BY <3>1, AgeIs
        <3>3. QED BY <1>8, <3>2 DEF Age
    <2>2. QED BY <1>8, <2>1, PadIs DEF Aged
<1>12. QED BY <1>9, <1>10, <1>11 DEF PadInv

\* The sample's conversions only depend on the sample, the rest position, the
\* calibration and the test value.
LEMMA MoveKeeps == PadInv /\ (\E h \in Hands : Move(h)) => PadInv'
<1> SUFFICES ASSUME PadInv, NEW h \in Hands, Move(h) PROVE PadInv'
    OBVIOUS
<1>1. /\ hands' = h /\ steady' = 0 /\ centre' = centre /\ calibration' = calibration
      /\ test' = test /\ ready' = ready /\ report' = report /\ sampled' = sampled
      /\ time' = time /\ lastReport' = lastReport /\ sinceLoop' = sinceLoop
    BY DEF Move, clock
<1>2. PadTypeOK'
    BY <1>1, PadIs DEF PadInv, PadTypeOK, Settled
<1>3. Told'
    BY <1>1 DEF PadInv, Told
<1>4. Aged'
    <2>1. Age' = Age /\ Age \in Nat
        <3>1. Age' = Age
            BY <1>1 DEF Age
        <3>2. Age \in Nat
            BY AgeNat DEF PadInv
        <3>3. QED BY <3>1, <3>2
    <2>2. QED BY <1>1, <2>1 DEF PadInv, Aged
<1>5. QED BY <1>2, <1>3, <1>4 DEF PadInv

LEMMA TestKeeps == PadInv /\ (\E value \in 0..TriggerMax : TestTriggers(value)) => PadInv'
<1> SUFFICES ASSUME PadInv, NEW value \in 0..TriggerMax, TestTriggers(value) PROVE PadInv'
    OBVIOUS
<1>1. /\ hands' = hands /\ steady' = 0 /\ centre' = centre /\ calibration' = calibration
      /\ test' = value /\ ready' = ready /\ report' = report /\ sampled' = sampled
      /\ time' = time /\ lastReport' = lastReport /\ sinceLoop' = sinceLoop
    BY DEF TestTriggers, clock
<1>2. PadTypeOK'
    BY <1>1, PadIs DEF PadInv, PadTypeOK, Settled
<1>3. Told'
    <2>1. test' # NoTest
        BY <1>1, PadIs
    <2>2. QED BY <1>1, <2>1 DEF PadInv, Told
<1>4. Aged'
    <2>1. Age' = Age
        BY <1>1 DEF Age
    <2>2. Age \in Nat
        BY AgeNat DEF PadInv
    <2>3. QED BY <1>1, <2>1, <2>2 DEF PadInv, Aged
<1>5. QED BY <1>2, <1>3, <1>4 DEF PadInv

LEMMA PollKeeps == PadInv /\ HostPolls => PadInv'
<1> SUFFICES ASSUME PadInv, HostPolls PROVE PadInv'
    OBVIOUS
<1>1. /\ hands' = hands /\ steady' = 0 /\ centre' = centre /\ calibration' = calibration
      /\ test' = test /\ ready' = ~ready /\ report' = report /\ sampled' = sampled
      /\ time' = time /\ lastReport' = lastReport /\ sinceLoop' = sinceLoop
    BY DEF HostPolls, clock
<1>2. PadTypeOK'
    <2>1. ready' \in BOOLEAN
        BY <1>1
    <2>2. QED BY <1>1, <2>1, PadIs DEF PadInv, PadTypeOK, Settled
<1>3. Told'
    BY <1>1 DEF PadInv, Told
<1>4. Aged'
    <2>1. Age' = Age
        BY <1>1 DEF Age
    <2>2. Age \in Nat
        BY AgeNat DEF PadInv
    <2>3. QED BY <1>1, <2>1, <2>2 DEF PadInv, Aged
<1>5. QED BY <1>2, <1>3, <1>4 DEF PadInv

LEMMA TimeKeeps == PadInv /\ (\E ms \in 1..MaxPass : Elapse(ms)) => PadInv'
<1> SUFFICES ASSUME PadInv, NEW ms \in 1..MaxPass, Elapse(ms) PROVE PadInv'
    OBVIOUS
<1>1. /\ hands' = hands /\ centre' = centre /\ calibration' = calibration
      /\ test' = test /\ ready' = ready /\ report' = report /\ sampled' = sampled
      /\ lastReport' = lastReport /\ sinceLoop' = sinceLoop + ms /\ sinceLoop + ms <= MaxPass
      /\ time' = (time + ms) % ClockMod
    BY DEF Elapse
<1>2. PICK a \in Nat, s \in Nat, p \in Nat, x \in Nat, m \in Nat, top \in Nat :
          /\ a = Age /\ s = steady /\ p = sinceLoop /\ x = MaxPass /\ m = ReportPeriod
          /\ top = ClockMod /\ m + x < top
    <2>1. Age \in Nat /\ steady \in Nat /\ sinceLoop \in Nat
        BY AgeNat, PadIs DEF PadInv, PadTypeOK, Settled
    <2>2. QED BY <2>1, PadIs
<1>3. p <= a /\ a < m + p /\ p + ms <= x /\ a + ms < top /\ ms \in Nat
    BY <1>1, <1>2 DEF PadInv, Aged
<1>4. time' \in 0..(ClockMod - 1) /\ Age' = a + ms
    <2>1. PICK t \in 0..(ClockMod - 1), reported \in 0..(ClockMod - 1) : t = time /\ reported = lastReport
        BY DEF PadInv, PadTypeOK
    <2>2. a = (t + ClockMod - reported) % ClockMod
        BY <1>2, <2>1 DEF Age
    <2>3. /\ ((t + ms) % ClockMod) \in 0..(ClockMod - 1)
          /\ (((t + ms) % ClockMod) + ClockMod - reported) % ClockMod = a + ms
        BY <1>2, <1>3, <2>2, AgeLater
    <2>4. Age' = (((t + ms) % ClockMod) + ClockMod - reported) % ClockMod
        BY <1>1, <2>1 DEF Age
    <2>5. QED BY <1>1, <2>1, <2>3, <2>4
<1>5. steady' = (IF s + ms < m + x THEN s + ms ELSE m + x)
    BY <1>2 DEF Elapse, Settled
<1>6. PadTypeOK'
    <2>1. sinceLoop' \in 0..MaxPass
        BY <1>1, <1>2, <1>3
    <2>2. steady' \in 0..(ReportPeriod + MaxPass)
        BY <1>2, <1>3, <1>5
    <2>3. QED BY <1>1, <1>4, <2>1, <2>2 DEF PadInv, PadTypeOK, Settled
<1>7. Told'
    BY <1>1 DEF PadInv, Told
<1>8. Aged'
    <2>1. sinceLoop' <= Age' /\ Age' < ReportPeriod + sinceLoop'
        BY <1>1, <1>2, <1>3, <1>4
    <2>2. ASSUME ready', steady' > Age' PROVE report' = Report(hands)'
        <3>1. s > a
            BY <1>2, <1>3, <1>4, <1>5, <2>2
        <3>2. report = Report(hands)
            BY <1>1, <1>2, <2>2, <3>1 DEF PadInv, Aged
        <3>3. Report(hands)' = Report(hands)
            BY <1>1 DEF Report, Trigger
        <3>4. QED BY <1>1, <3>2, <3>3
    <2>3. QED BY <2>1, <2>2 DEF Aged
<1>9. QED BY <1>6, <1>7, <1>8 DEF PadInv

LEMMA LoopKeeps == PadInv /\ Loop => PadInv'
<1> SUFFICES ASSUME PadInv, Loop PROVE PadInv'
    OBVIOUS
<1>1. /\ hands' = hands /\ centre' = centre /\ calibration' = calibration
      /\ test' = test /\ ready' = ready /\ time' = time /\ steady' = steady /\ sinceLoop' = 0
    BY DEF Loop
<1>2. Report(hands)' = Report(hands)
    BY <1>1 DEF Report, Trigger
<1>3. PICK r : r = Report(hands)
    OBVIOUS
<1>4. hands \in Hands /\ PadTypeOK
    BY DEF PadInv, PadTypeOK
<1>5. /\ r \in ReportFields /\ r.axis = Axis(hands.stick, centre)
      /\ r.hat = Hat(hands.dpad) /\ r.buttons = hands.buttons
      /\ test = NoTest => r.trigger = Rounded(Normalized(hands.trigger, calibration).value)
    BY <1>3, <1>4, ReportIs
<1>6. \/ report' = r /\ sampled' = hands
      \/ report' = report /\ sampled' = sampled
    BY <1>3 DEF Loop, Sends
<1>7. lastReport' \in 0..(ClockMod - 1)
    BY DEF Loop, PadInv, PadTypeOK
<1>8. PadTypeOK'
    <2>1. report' \in ReportFields /\ sampled' \in Hands
        BY <1>4, <1>5, <1>6 DEF PadTypeOK, ReportFields
    <2>2. QED BY <1>1, <1>7, <2>1, PadIs DEF PadInv, PadTypeOK, ReportFields, Settled
<1>9. Told'
    <2>1. CASE report' = r /\ sampled' = hands
        BY <1>1, <1>5, <2>1 DEF Told
    <2>2. CASE report' = report /\ sampled' = sampled
        BY <1>1, <2>2 DEF PadInv, Told
    <2>3. QED BY <1>6, <2>1, <2>2
<1>10. Aged'
    <2>1. Age \in Nat /\ steady \in Nat /\ ReportPeriod \in Nat /\ ReportPeriod > 0
        BY AgeNat, PadIs DEF PadInv, PadTypeOK, Settled
    <2>2. CASE ReportDue
        <3>1. lastReport' = time
            BY <2>2 DEF Loop
        <3>2. Age' = 0
            <4>1. PICK t \in 0..(ClockMod - 1) : t = time
                BY DEF PadInv, PadTypeOK
            <4>2. (t + ClockMod - t) % ClockMod = 0
                BY AgeIs
            <4>3. QED BY <1>1, <3>1, <4>1, <4>2 DEF Age
        <3>3. ready' => report' = Report(hands)'
            BY <1>1, <1>2, <2>2 DEF Loop, Sends
        <3>4. QED BY <1>1, <2>1, <3>2, <3>3 DEF Aged
    <2>3. CASE ~ReportDue
        <3>1. lastReport' = lastReport /\ report' = report
            BY <2>3 DEF Loop
        <3>2. Age' = Age
            BY <1>1, <3>1 DEF Age
        <3>3. Age < ReportPeriod
            BY <2>1, <2>3 DEF ReportDue, Age
        <3>4. steady' > Age' => steady > Age
            BY <1>1, <3>2
        <3>5. QED BY <1>1, <1>2, <2>1, <3>1, <3>2, <3>3, <3>4 DEF PadInv, Aged
    <2>4. QED BY <2>2, <2>3
<1>11. QED BY <1>8, <1>9, <1>10 DEF PadInv

LEMMA PadStays == PadInv /\ UNCHANGED padVars => PadInv'
BY DEF PadInv, PadTypeOK, Told, Aged, Age, Report, Trigger, padVars, clock, Settled

LEMMA PadSteps == PadInv /\ [PadNext]_padVars => PadInv'
BY MoveKeeps, TestKeeps, PollKeeps, TimeKeeps, LoopKeeps, PadStays DEF PadNext

LEMMA PadAlways == PadSpec => []PadInv
BY PadInitHolds, PadSteps, PTL DEF PadSpec

\* Every field of a report fits its field in the HID descriptor: the conversions of
\* core/r4_controller.c never leave the ranges, for every rest position, dead zone,
\* trigger calibration and sample, and the wrapping clock stays in its width.
THEOREM PadTypes == PadSpec => []PadTypeOK
BY PadAlways, PTL DEF PadInv

\* What the player has held for a report period and a pass of the main loop, while the
\* host polls, is what the host has: for every period, pass and width of the clock with
\* room for both, at any place on it (send_gamepad_report).
THEOREM HeldIsReported == PadSpec => []ReportIsCurrent
<1>1. PadInv => ReportIsCurrent
    <2> SUFFICES ASSUME PadInv, steady >= Settled, ready PROVE report = Report(hands)
        BY DEF ReportIsCurrent
    <2>1. Age \in Nat /\ steady \in Nat /\ sinceLoop \in 0..MaxPass
        BY AgeNat, PadIs DEF PadInv, PadTypeOK, Settled
    <2>2. Age < ReportPeriod + sinceLoop
        BY DEF PadInv, Aged
    <2>3. Age < steady
        BY <2>1, <2>2, PadIs DEF Settled
    <2>4. QED BY <2>1, <2>3 DEF PadInv, Aged
<1>2. QED BY <1>1, PadAlways, PTL

\* The meaning of a report, for every sample and calibration: the hat is the sum of the
\* directions, a stick in its dead zone is centred and one at its stop fully deflected,
\* a trigger that does not work or is in its dead zone is released and one at its end
\* fully pressed (r4_map_centered_axis, r4_normalize_analog, r4_build_hid_report).
THEOREM SamplesAreTold == PadSpec => []InputsAreTold
<1>1. PadInv => InputsAreTold
    <2> SUFFICES ASSUME PadInv PROVE InputsAreTold
        OBVIOUS
    <2>1. /\ sampled \in Hands /\ sampled.stick \in Adc /\ sampled.trigger \in Samples
          /\ sampled.trigger.raw \in Adc /\ centre \in Adc /\ calibration \in Calibrations
        BY DEF PadInv, PadTypeOK, Hands, Samples
    <2>2. HatVector[report.hat] = <<Push(sampled, "RIGHT", "LEFT"), Push(sampled, "UP", "DOWN")>>
        BY <2>1, HatIs DEF PadInv, Told
    <2>3. report.buttons = sampled.buttons
        BY DEF PadInv, Told
    <2>4. /\ sampled.stick - centre \in (1 - DeadZone)..(DeadZone - 1) => report.axis = 0
          /\ sampled.stick = AdcMax /\ AdcMax - centre >= DeadZone => report.axis = AxisMax
          /\ sampled.stick = 0 /\ centre >= DeadZone => report.axis = -AxisMax
        BY <2>1, AxisIs, AxisFits DEF PadInv, Told
    <2>5. ASSUME test = NoTest
          PROVE  LET c == calibration
                     position == Position(sampled.trigger.raw, c)
                 IN  /\ Trigger(sampled).status # "OK" => report.trigger = 0
                     /\ Trigger(sampled).status = "OK" /\ position <= c.deadZone
                            => report.trigger = 0
                     /\ Trigger(sampled).status = "OK" /\ position >= c.max - c.min
                            => report.trigger = HidMax
        <3>1. PICK n : n = Normalized(sampled.trigger, calibration)
            OBVIOUS
        <3>2. Trigger(sampled) = n /\ report.trigger = Rounded(n.value)
            BY <2>5, <3>1 DEF Trigger, PadInv, Told
        <3>3. CASE ~Working(sampled.trigger, calibration)
            <4>1. n.status # "OK" /\ n.value = 0
                BY <2>1, <3>1, <3>3, NormalizedIs
            <4>2. QED BY <3>2, <4>1, RoundedIs
        <3>4. CASE Working(sampled.trigger, calibration)
            <4>1. calibration.deadZone < calibration.max - calibration.min
                BY <3>4 DEF Working
            <4>2. PICK p \in 0..(calibration.max - calibration.min) :
                      p = Position(Clamped(sampled.trigger.raw, calibration.min, calibration.max),
                                   calibration)
                BY <2>1, <4>1, PositionIs
            <4>3. n.status = "OK" /\ n.value = Pull(p, calibration)
                BY <2>1, <3>1, <3>4, <4>2, NormalizedIs
            <4>4. /\ Position(sampled.trigger.raw, calibration) <= calibration.deadZone
                         => p <= calibration.deadZone
                  /\ Position(sampled.trigger.raw, calibration) >= calibration.max - calibration.min
                         => p = calibration.max - calibration.min
                BY <2>1, <4>1, <4>2, PositionIs
            <4>5. /\ p <= calibration.deadZone => Pull(p, calibration) = 0
                  /\ p = calibration.max - calibration.min => Pull(p, calibration) = TriggerMax
                BY <2>1, <4>1, PullIs
            <4>6. QED BY <3>2, <4>3, <4>4, <4>5, RoundedIs
        <3>5. QED BY <3>3, <3>4
    <2>6. QED BY <2>2, <2>3, <2>4, <2>5 DEF InputsAreTold
<1>2. QED BY <1>1, PadAlways, PTL

LEMMA PressKeepsDirection ==
    ASSUME NEW c \in Calibrations, NEW one \in Samples, NEW two \in Samples,
           Normalized(one, c).status = "OK", Normalized(two, c).status = "OK", one.raw < two.raw
    PROVE  LET r == Rounded(Normalized(one, c).value)
               s == Rounded(Normalized(two, c).value)
           IN  IF c.inverted THEN s <= r ELSE r <= s
<1>1. Working(one, c) /\ Working(two, c) /\ one.raw \in Adc /\ two.raw \in Adc
    BY NormalizedIs DEF Samples
<1>2. c.deadZone < c.max - c.min
    BY <1>1 DEF Working
<1>3. PICK p \in 0..(c.max - c.min), q \in 0..(c.max - c.min) :
          /\ p = Position(Clamped(one.raw, c.min, c.max), c)
          /\ q = Position(Clamped(two.raw, c.min, c.max), c)
    BY <1>1, <1>2, PositionIs
<1>4. IF c.inverted THEN q <= p ELSE p <= q
    BY <1>1, <1>2, <1>3, PositionIs
<1>5. PICK v \in 0..TriggerMax, w \in 0..TriggerMax : v = Pull(p, c) /\ w = Pull(q, c)
    BY <1>2, PullIs
<1>6. IF c.inverted THEN w <= v ELSE v <= w
    BY <1>2, <1>4, <1>5, PullIs
<1>7. Normalized(one, c).value = v /\ Normalized(two, c).value = w
    BY <1>1, <1>3, <1>5, NormalizedIs
<1>8. IF c.inverted THEN Rounded(w) <= Rounded(v) ELSE Rounded(v) <= Rounded(w)
    BY <1>6, RoundedIs
<1>9. QED BY <1>7, <1>8

\* From one report to the next the stick never moves against the hand, nor the trigger
\* against the finger, whatever the rounding of the two divisions: the conversions are
\* monotone for every rest position and calibration.
THEOREM DirectionIsKept == PadSpec => MovesKeepDirection
<1>1. ASSUME PadInv, PadInv', [PadNext]_padVars
      PROVE  /\ sampled'.stick > sampled.stick => report'.axis >= report.axis
             /\ sampled'.stick < sampled.stick => report'.axis <= report.axis
             /\ test' = NoTest /\ Trigger(sampled).status = "OK" /\ Trigger(sampled)'.status = "OK"
                   /\ sampled'.trigger.raw > sampled.trigger.raw =>
                IF calibration.inverted THEN report'.trigger <= report.trigger
                                        ELSE report'.trigger >= report.trigger
    <2>1. /\ sampled.stick \in Adc /\ sampled'.stick \in Adc
          /\ sampled.trigger \in Samples /\ sampled'.trigger \in Samples
          /\ sampled.trigger.raw \in Adc /\ sampled'.trigger.raw \in Adc
          /\ centre \in Adc /\ calibration \in Calibrations
        BY <1>1 DEF PadInv, PadTypeOK, Hands, Samples
    <2>2. CASE sampled' = sampled
        BY <2>1, <2>2, PadIs DEF Adc
    <2>3. CASE Loop
        <3>1. centre' = centre /\ calibration' = calibration /\ test' = test
            BY <2>3 DEF Loop
        <3>2. PICK x \in Adc, y \in Adc : x = sampled.stick /\ y = sampled'.stick
            BY <2>1
        <3>3. report.axis = Axis(x, centre) /\ report'.axis = Axis(y, centre)
            BY <1>1, <3>1, <3>2 DEF PadInv, Told
        <3>4. x < y => Axis(x, centre) <= Axis(y, centre)
            BY <2>1, AxisMonotone
        <3>5. y < x => Axis(y, centre) <= Axis(x, centre)
            BY <2>1, AxisMonotone
        <3>6. Axis(x, centre) \in Int /\ Axis(y, centre) \in Int /\ x \in Int /\ y \in Int
            BY <2>1, AxisFits, PadIs DEF Adc
        <3>7. /\ sampled'.stick > sampled.stick => report'.axis >= report.axis
              /\ sampled'.stick < sampled.stick => report'.axis <= report.axis
            BY <3>2, <3>3, <3>4, <3>5, <3>6
        <3>8. ASSUME test' = NoTest, Trigger(sampled).status = "OK",
                     Trigger(sampled)'.status = "OK", sampled'.trigger.raw > sampled.trigger.raw
              PROVE  IF calibration.inverted THEN report'.trigger <= report.trigger
                                             ELSE report'.trigger >= report.trigger
            <4>1. PICK one \in Samples, two \in Samples :
                      one = sampled.trigger /\ two = sampled'.trigger
                BY <2>1
            <4>2. Trigger(sampled) = Normalized(one, calibration)
                BY <3>1, <3>8, <4>1 DEF Trigger
            <4>3. Trigger(sampled)' = Normalized(two, calibration)
                BY <3>1, <3>8, <4>1 DEF Trigger
            <4>4. one.raw < two.raw
                BY <2>1, <3>8, <4>1, PadIs DEF Adc
            <4>5. LET r == Rounded(Normalized(one, calibration).value)
                      s == Rounded(Normalized(two, calibration).value)
                  IN  IF calibration.inverted THEN s <= r ELSE r <= s
                BY <2>1, <3>8, <4>2, <4>3, <4>4, PressKeepsDirection
            <4>6. report.trigger = Rounded(Normalized(one, calibration).value)
                BY <1>1, <3>1, <3>8, <4>1 DEF PadInv, Told
            <4>7. report'.trigger = Rounded(Normalized(two, calibration).value)
                BY <1>1, <3>1, <3>8, <4>1 DEF PadInv, Told
            <4>8. report.trigger \in Int /\ report'.trigger \in Int
                BY <1>1, PadIs DEF PadInv, PadTypeOK
            <4>9. QED BY <4>5, <4>6, <4>7, <4>8
        <3>9. QED BY <3>7, <3>8
    <2>4. sampled' = sampled \/ Loop
        BY <1>1 DEF PadNext, Move, TestTriggers, Elapse, HostPolls, padVars
    <2>5. QED BY <2>2, <2>3, <2>4
<1>2. QED BY <1>1, PadAlways, PTL DEF PadSpec, MovesKeepDirection
=============================================================================
