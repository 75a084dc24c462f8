------------------------ MODULE FramebufferTransfer ------------------------
(***************************************************************************)
(* Reading the controller's screen in pieces.  FRAMEBUFFER INFO renders    *)
(* the display into the one snapshot buffer and gives it an identifier;    *)
(* FRAMEBUFFER CHUNK reads a range of it, if the identifier is still the   *)
(* current one.  Readers are processes that each take a snapshot and fetch *)
(* its chunks in order; the lock they share keeps them apart only while    *)
(* nobody breaks it, so their commands interleave freely here, and the     *)
(* display changes between any two of them.                                *)
(*                                                                         *)
(* Identifiers are 32 bits wide: the model stops at MaxId snapshots, short *)
(* of their first reuse.                                                   *)
(***************************************************************************)
EXTENDS Naturals

CONSTANTS Readers,
          Images,     \* what the display can show: its packed bytes
          Size,       \* R4_FRAMEBUFFER_PACKED_SIZE
          ChunkMax,   \* R4_FRAMEBUFFER_CHUNK_MAX
          MaxId,
          None        \* nothing read yet, or no image

ASSUME SizeAssumption == Size \in Nat \ {0} /\ ChunkMax \in Nat \ {0} /\ MaxId \in Nat
ASSUME NoneAssumption == None \notin Images

Offsets == 0..(Size - 1)

VARIABLES screen,    \* what the display model would render to
          snapshot,  \* identifier, validity and content of the packed buffer
          reader     \* each reader: its phase, identifier, offset and bytes

vars == <<screen, snapshot, reader>>

Phases == {"idle", "reading", "done", "failed"}

(* A byte is represented by the image it belongs to; taken is a ghost, the *)
(* image that INFO described to this reader.                               *)
Reader == [phase : Phases, id : 0..MaxId, offset : 0..Size,
           bytes : [Offsets -> Images \cup {None}], taken : Images \cup {None}]

TypeOK == /\ screen \in Images
          /\ snapshot \in [id : 0..MaxId, valid : BOOLEAN, image : Images \cup {None}]
          /\ snapshot.valid => snapshot.id # 0 /\ snapshot.image # None
          /\ reader \in [Readers -> Reader]

NoBytes == [o \in Offsets |-> None]

NotStarted == [phase |-> "idle", id |-> 0, offset |-> 0, bytes |-> NoBytes, taken |-> None]

Started(id) == [phase |-> "reading", id |-> id, offset |-> 0, bytes |-> NoBytes, taken |-> screen]

NoSnapshot == [id |-> 0, valid |-> FALSE, image |-> None]

Init == /\ screen \in Images
        /\ snapshot = NoSnapshot
        /\ reader = [r \in Readers |-> NotStarted]

-----------------------------------------------------------------------------
(* Telemetry, popups, the clock's colon: the picture changes at any time.  *)
Redraw(image) == screen' = image /\ UNCHANGED <<snapshot, reader>>

Captured == [id |-> snapshot.id + 1, valid |-> TRUE, image |-> screen]

(* FRAMEBUFFER INFO, sent by a reader that starts.                         *)
Info(r) ==
    /\ reader[r].phase \in {"idle", "done", "failed"}
    /\ snapshot.id < MaxId
    /\ snapshot' = Captured
    /\ reader' = [reader EXCEPT ![r] = Started(Captured.id)]
    /\ UNCHANGED screen

Smaller(m, n) == IF m <= n THEN m ELSE n

Length_Whole(offset) == ChunkMax

(* The reader's loop: whole chunks, the last one shorter.                  *)
Length(offset) == Smaller(ChunkMax, Size - offset)

Served_AnyId(id, offset, length) ==
    /\ snapshot.valid
    /\ length \in 1..ChunkMax /\ offset <= Size /\ length <= Size - offset

(* The device's checks, in the order of its error answers.                 *)
Served(id, offset, length) ==
    /\ snapshot.valid
    /\ id = snapshot.id
    /\ length \in 1..ChunkMax /\ offset <= Size /\ length <= Size - offset

Received(old, length) ==
    [o \in Offsets |-> IF o \in old.offset..(old.offset + length - 1) THEN snapshot.image
                                                                      ELSE old.bytes[o]]

Advanced(old, length) == [old EXCEPT !.offset = old.offset + length,
                                     !.bytes = Received(old, length)]

Failed(old) == [old EXCEPT !.phase = "failed"]

(* FRAMEBUFFER CHUNK and its answer.  A reader gives up on any error.      *)
Chunk(r) ==
    LET old == reader[r]
        length == Length(old.offset)
    IN  /\ old.phase = "reading" /\ old.offset < Size
        /\ reader' = [reader EXCEPT ![r] = IF Served(old.id, old.offset, length)
                                           THEN Advanced(old, length)
                                           ELSE Failed(old)]
        /\ UNCHANGED <<screen, snapshot>>

Finish(r) == /\ reader[r].phase = "reading" /\ reader[r].offset >= Size
             /\ reader' = [reader EXCEPT ![r].phase = "done"]
             /\ UNCHANGED <<screen, snapshot>>

(* No answer within two seconds; or the described picture is the one the   *)
(* caller already has, and is not fetched.                                 *)
GiveUp(r) == /\ reader[r].phase = "reading"
             /\ reader' = [reader EXCEPT ![r] = Failed(reader[r])]
             /\ UNCHANGED <<screen, snapshot>>

(* The controller restarts: its snapshot is gone and identifiers begin     *)
(* again.  The port goes with it, so every reader in progress fails.       *)
AfterRestart(r) == IF reader[r].phase = "reading" THEN Failed(reader[r]) ELSE reader[r]

Restart == /\ screen' \in Images
           /\ snapshot' = NoSnapshot
           /\ reader' = [r \in Readers |-> AfterRestart(r)]

Next == \/ \E image \in Images : Redraw(image)
        \/ \E r \in Readers : Info(r) \/ Chunk(r) \/ Finish(r) \/ GiveUp(r)
        \/ Restart

Spec == Init /\ [][Next]_vars

-----------------------------------------------------------------------------
(* A finished frame is one picture: the one INFO described, byte for byte. *)
(* Neither a redraw, nor another reader's INFO between two chunks, nor a   *)
(* restart puts bytes of two pictures into one frame.                      *)
FramesAreWhole ==
    \A r \in Readers : reader[r].phase = "done" =>
        \A o \in Offsets : reader[r].bytes[o] = reader[r].taken

(* An identifier names one content: readers that hold the current one were *)
(* given the picture it still has.                                         *)
IdentifierIsImmutable ==
    \A r \in Readers : reader[r].phase = "reading" /\ reader[r].id = snapshot.id =>
        snapshot.valid /\ snapshot.image = reader[r].taken

(* A reader whose identifier is current and who asks for what its loop     *)
(* computes is served: only another INFO, a restart or a timeout fails it. *)
OnlyOvertakenReadersFail ==
    [][\A r \in Readers : Chunk(r) /\ reader[r].id = snapshot.id => reader'[r].phase # "failed"]_vars
=============================================================================
