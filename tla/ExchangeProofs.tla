--------------------------- MODULE ExchangeProofs ---------------------------
(***************************************************************************)
(* Proofs about PortLock and Exchange, for any set of clients, any checks  *)
(* and any number of events and faults.                                    *)
(*                                                                         *)
(* LInv is the lock's part.  While no lock has changed hands before its    *)
(* removal there is one owner at most, and where there is one there is a   *)
(* directory, so that nobody makes another; who is about to remove a       *)
(* directory has read of a dead process in it.  AInv is the line's part: a *)
(* client that asks holds the lock, and what is on the line of one that    *)
(* found it empty is its own request or the answer to it.                  *)
(*                                                                         *)
(* The ring's part, RInv, numbers what is stored without a gap, which is   *)
(* all that its refinement needs. InOrder joins ring and line: an event    *)
(* acted on is older than one in an answer on the line, and that one older *)
(* than what the ring holds. Clean tells where an event is that has left   *)
(* the ring: while no fault has been met it was acted on or is in the      *)
(* answer on the line.                                                     *)
(***************************************************************************)
EXTENDS Exchange, FiniteSetTheorems, SequenceTheorems, TLAPS

Place == {"idle", "locking", "looking", "stale", "made", "holding"}

OneOwner == \A c, d \in Client : Owns(c) /\ Owns(d) => c = d

LInv ==
    /\ pc \in [Client -> Place]
    /\ DOMAIN seen = Client
    /\ \A c \in Client : pc[c] = "stale" => seen[c] = Dead
    /\ ~raced => OneOwner /\ \A c \in Client : Owns(c) => lock # Free

Mine(c) ==
    \/ requests = <<>> /\ lines = <<>>
    \/ \E r : requests = <<r>> /\ lines = <<>> /\ r.by = c /\ r.command = asked[c]
    \/ \E l : requests = <<>> /\ lines = <<l>> /\ l.by = c /\ l.command = asked[c]

AInv ==
    /\ DOMAIN asked = Client /\ DOMAIN dirty = Client
    /\ \A c \in Client : asked[c] # Silent => pc[c] = "holding"
    /\ \A c \in Client : asked[c] # Silent /\ ~dirty[c] /\ ~raced => Mine(c)
-----------------------------------------------------------------------------
(* The lock, step by step.                                                 *)
LEMMA LockInitHolds == LockInit => LInv
BY DEF LockInit, LInv, Place, OneOwner, Owns

LEMMA BeginHolds == ASSUME LInv, NEW c \in Client, Begin(c) PROVE LInv'
BY DEF Begin, LInv, Place, OneOwner, Owns

(* A directory that can be made is nobody's.                               *)
LEMMA TryLockHolds == ASSUME LInv, NEW c \in Client, TryLock(c) PROVE LInv'
<1>1. CASE lock = Free /\ lock' = NoPid /\ pc' = [pc EXCEPT ![c] = "made"] /\ UNCHANGED <<seen, raced>>
    BY <1>1, LockAssumption DEF TryLock, LInv, Place, OneOwner, Owns
<1>2. CASE /\ seen' = [seen EXCEPT ![c] = lock] /\ pc' = [pc EXCEPT ![c] = "looking"]
           /\ UNCHANGED <<lock, raced>> /\ pc[c] = "locking"
    BY <1>2 DEF LInv, Place, OneOwner, Owns
<1> QED BY <1>1, <1>2 DEF TryLock, Makes

LEMMA LookHolds == ASSUME LInv, NEW c \in Client, Look(c) PROVE LInv'
<1>1. CASE seen[c] = Dead /\ pc' = [pc EXCEPT ![c] = "stale"] /\ UNCHANGED <<lock, seen, raced>>
    BY <1>1 DEF Look, LInv, Place, OneOwner, Owns
<1>2. ASSUME NEW place \in {"locking", "idle"}, seen' = [seen EXCEPT ![c] = Free],
             pc' = [pc EXCEPT ![c] = place], UNCHANGED <<lock, raced>>
      PROVE  LInv'
    BY <1>2 DEF Look, LInv, Place, OneOwner, Owns
<1> QED BY <1>1, <1>2 DEF Look, Stale

(* A directory that somebody owns is removed at the cost of raced only.    *)
LEMMA RemoveStaleHolds == ASSUME LInv, NEW c \in Client, RemoveStale(c) PROVE LInv'
<1>1. ~raced' => ~raced /\ \A d \in Client : ~Owns(d)
    BY DEF RemoveStale, LosesRace, LInv
<1> QED BY <1>1 DEF RemoveStale, LInv, Place, OneOwner, Owns

LEMMA WritePidHolds == ASSUME LInv, NEW c \in Client, WritePid(c) PROVE LInv'
BY LockAssumption DEF WritePid, LInv, Place, OneOwner, Owns

(* Who is gone owns nothing; the others keep what they had.                *)
LEMMA GoneHolds ==
    ASSUME LInv, NEW c \in Client, Gone(c),
           (\E d \in Client \ {c} : Owns(d)) /\ ~raced => lock' # Free
    PROVE  LInv'
<1>1. pc' = [pc EXCEPT ![c] = "idle"] /\ pc' \in [Client -> Place]
    BY DEF Gone, LInv, Place
<1>2. DOMAIN seen' = Client /\ \A d \in Client : pc'[d] = "stale" => seen'[d] = Dead
    BY <1>1 DEF Gone, LInv
<1>3. \A d \in Client : Owns(d)' => Owns(d) /\ d # c
    BY <1>1 DEF LInv, Owns
<1>4. ASSUME ~raced' PROVE OneOwner' /\ \A d \in Client : Owns(d)' => lock' # Free
    <2>1. CASE ~raced
        BY <1>3, <2>1 DEF LInv, OneOwner
    <2>2. CASE ~\E d \in Client \ {c} : Owns(d)
        BY <1>3, <2>2 DEF OneOwner
    <2> QED BY <1>4, <2>1, <2>2 DEF Gone
<1> QED BY <1>1, <1>2, <1>4 DEF LInv

LEMMA ReleaseHolds == ASSUME LInv, NEW c \in Client, Release(c) PROVE LInv'
<1>1. Owns(c) /\ Gone(c)
    BY DEF Release, Owns
<1>2. ~raced => ~\E d \in Client \ {c} : Owns(d)
    BY <1>1 DEF LInv, OneOwner
<1> QED BY <1>1, <1>2, GoneHolds

LEMMA KillClientHolds == ASSUME LInv, NEW c \in Client, KillClient(c) PROVE LInv'
<1>1. Gone(c) /\ (lock # Free => lock' # Free)
    BY LockAssumption DEF KillClient
<1>2. (\E d \in Client \ {c} : Owns(d)) /\ ~raced => lock # Free
    BY DEF LInv
<1> QED BY <1>1, <1>2, GoneHolds

LEMMA LockStepHolds == ASSUME LInv, NEW c \in Client, LockStep(c) PROVE LInv'
BY TryLockHolds, LookHolds, RemoveStaleHolds, WritePidHolds DEF LockStep

LEMMA LockKeeps == ASSUME LInv, UNCHANGED lockVars PROVE LInv'
BY DEF lockVars, LInv, OneOwner, Owns

LEMMA LInvStep == ASSUME LInv, [ExchangeNext]_exchangeVars PROVE LInv'
<1>1. CASE Emit \/ Serve \/ UNCHANGED exchangeVars
    BY <1>1, LockKeeps DEF Emit, Serve, exchangeVars
<1>2. ASSUME NEW c \in Client, Step(c) \/ Kill(c)
      PROVE  LInv'
    <2>1. CASE BeginExchange(c) \/ LockExchange(c)
        BY <2>1, BeginHolds, LockStepHolds DEF BeginExchange, LockExchange
    <2>2. CASE Ask(c)
        BY <2>2, LockKeeps DEF Ask
    <2>3. CASE NoPort(c) \/ Read(c) \/ TimeOut(c)
        BY <2>3, ReleaseHolds DEF NoPort, Read, TimeOut
    <2>4. CASE Kill(c)
        BY <2>4, KillClientHolds DEF Kill
    <2> QED BY <1>2, <2>1, <2>2, <2>3, <2>4 DEF Step
<1> QED BY <1>1, <1>2 DEF ExchangeNext

LEMMA LInvHolds == ExchangeSpec => []LInv
BY LockInitHolds, LInvStep, PTL DEF ExchangeSpec, ExchangeInit

(* No two processes own the port at once, however many there are and       *)
(* whichever are killed, except where a stale lock has changed hands.      *)
THEOREM ExclusivePort == ExchangeSpec => []PortIsExclusive
<1>1. ASSUME LInv PROVE PortIsExclusive
    <2> DEFINE Owning == {c \in Client : Owns(c)}
    <2>1. CASE raced
        BY <2>1 DEF PortIsExclusive
    <2>2. CASE Owning = {}
        <3>1. Cardinality(Owning) = 0
            BY <2>2, FS_EmptySet
        <3> QED BY <3>1 DEF PortIsExclusive
    <2>3. ASSUME ~raced, NEW c \in Owning PROVE PortIsExclusive
        <3>1. Owning = {c}
            BY <1>1, <2>3 DEF LInv, OneOwner
        <3>2. Cardinality(Owning) = 1
            BY <3>1, FS_Singleton
        <3> QED BY <3>2 DEF PortIsExclusive
    <2> QED BY <2>1, <2>2, <2>3
<1> QED BY <1>1, LInvHolds, PTL
-----------------------------------------------------------------------------
(* The line.  A step of one client leaves the others' commands alone.      *)
LEMMA OnlyOwnerAsks ==
    ASSUME LInv, AInv, ~raced, NEW c \in Client, Owns(c)
    PROVE  \A d \in Client : asked[d] # Silent => d = c
BY DEF LInv, AInv, OneOwner, Owns

(* After a race nobody asks when it is forgotten.                          *)
LEMMA RaceForgotten ==
    ASSUME LInv, AInv, NEW c \in Client, Gone(c), raced, ~raced'
    PROVE  \A d \in Client \ {c} : asked[d] = Silent
BY DEF Gone, AInv, Owns

(* What is lost of the line of one who asks leaves it its own or empty.    *)
LEMMA LossKeepsMine ==
    ASSUME NEW c \in Client, Mine(c), UNCHANGED requests, asked'[c] = asked[c],
           NEW k \in 1..(Len(lines) + 1), lines' = From(lines, k)
    PROVE  Mine(c)'
<1>1. CASE requests = <<>> /\ lines = <<>>
    BY <1>1 DEF From, Mine
<1>2. CASE \E r : requests = <<r>> /\ lines = <<>> /\ r.by = c /\ r.command = asked[c]
    BY <1>2 DEF From, Mine
<1>3. ASSUME NEW l, requests = <<>>, lines = <<l>>, l.by = c, l.command = asked[c]
      PROVE  Mine(c)'
    <2>1. CASE k = 1
        <3>1. lines' = SubSeq(<<l>>, 1, 1)
            BY <1>3, <2>1 DEF From
        <3>2. /\ lines' \in Seq({l}) /\ Len(lines') = 1 /\ lines'[1] = l
            BY <3>1, SubSeqProperties
        <3>3. <<l>> \in Seq({l}) /\ Len(<<l>>) = 1 /\ <<l>>[1] = l
            OBVIOUS
        <3>4. \A i \in 1..Len(lines') : lines'[i] = <<l>>[i]
            BY <3>2, <3>3
        <3>5. lines' = <<l>>
            BY <3>2, <3>3, <3>4, SeqEqual, Zenon
        <3> QED BY <1>3, <3>5 DEF Mine
    <2>2. CASE k # 1
        <3>1. lines' = <<>>
            BY <1>3, <2>2 DEF From
        <3> QED BY <1>3, <3>1 DEF Mine
    <2> QED BY <2>1, <2>2
<1> QED BY <1>1, <1>2, <1>3 DEF Mine

(* The exchanges that end: whoever quits, the others' line stays theirs.   *)
LEMMA QuitsHolds ==
    ASSUME LInv, AInv, NEW c \in Client, Quits(c), Gone(c), UNCHANGED requests,
           NEW k \in 1..(Len(lines) + 1), lines' = From(lines, k)
    PROVE  AInv'
<1>1. /\ DOMAIN asked' = Client /\ DOMAIN dirty' = Client /\ asked'[c] = Silent
      /\ \A d \in Client \ {c} : asked'[d] = asked[d] /\ dirty'[d] = dirty[d]
    BY DEF Quits, AInv
<1>2. \A d \in Client \ {c} : pc'[d] = pc[d]
    BY DEF Gone, LInv
<1>3. ASSUME NEW d \in Client, asked'[d] # Silent, ~dirty'[d], ~raced'
      PROVE  Mine(d)'
    <2>1. d # c /\ asked[d] # Silent /\ ~dirty[d] /\ asked'[d] = asked[d]
        BY <1>1, <1>3
    <2>2. ~raced
        BY <1>3, <2>1, RaceForgotten
    <2>3. Mine(d)
        BY <2>1, <2>2 DEF AInv
    <2> QED BY <2>1, <2>3, LossKeepsMine
<1> QED BY <1>1, <1>2, <1>3 DEF AInv

LEMMA LockExchangeHolds == ASSUME LInv, AInv, NEW c \in Client, LockExchange(c) PROVE AInv'
<1>1. LockStep(c) /\ UNCHANGED <<requests, lines, asked, dirty>>
    BY DEF LockExchange, port
<1>2. pc[c] # "holding" /\ \A d \in Client \ {c} : pc'[d] = pc[d]
    BY <1>1 DEF LockStep, TryLock, Look, RemoveStale, WritePid, LInv
<1>3. raced => raced'
    BY <1>1 DEF LockStep, TryLock, Look, RemoveStale, WritePid
<1> QED BY <1>1, <1>2, <1>3 DEF AInv, Mine

LEMMA AskHolds == ASSUME LInv, AInv, NEW c \in Client, Ask(c) PROVE AInv'
<1>1. /\ pc[c] = "holding" /\ asked[c] = Silent /\ UNCHANGED <<pc, raced>>
      /\ dirty' = [dirty EXCEPT ![c] = requests # <<>> \/ lines' # <<>>]
      /\ requests' = Append(requests, [by |-> c, command |-> Command(c)])
      /\ asked' = [asked EXCEPT ![c] = Command(c)]
    BY DEF Ask, lockVars
<1>2. asked'[c] = Command(c)
    BY <1>1 DEF AInv
<1>3. ASSUME ~dirty'[c] PROVE Mine(c)'
    <2>1. requests = <<>> /\ lines' = <<>>
        BY <1>1, <1>3 DEF AInv
    <2>2. requests' = <<[by |-> c, command |-> Command(c)]>>
        BY <1>1, <2>1
    <2> QED BY <1>2, <2>1, <2>2 DEF Mine
<1>4. ~raced => \A d \in Client \ {c} : asked'[d] = Silent
    BY <1>1, OnlyOwnerAsks DEF Owns, AInv
<1> QED BY <1>1, <1>3, <1>4 DEF AInv

(* An answer takes the place of its request.                               *)
LEMMA ServeHolds == ASSUME LInv, AInv, Serve PROVE AInv'
<1>1. UNCHANGED <<pc, raced, asked, dirty>>
    BY DEF Serve, lockVars
<1>2. ASSUME NEW c \in Client, asked[c] # Silent, Mine(c)
      PROVE  Mine(c)'
    <2>1. PICK r : requests = <<r>> /\ lines = <<>> /\ r.by = c /\ r.command = asked[c]
        BY <1>2 DEF Serve, Mine
    <2>2. lines' = Written(Answer(r)) /\ requests' = <<>>
        BY <1>2, <2>1 DEF Serve
    <2>3. lines' = <<Answer(r)>>
        BY <2>1, <2>2 DEF Written
    <2>4. Answer(r).by = c /\ Answer(r).command = asked[c]
        BY <2>1 DEF Answer
    <2> QED BY <1>1, <2>2, <2>3, <2>4 DEF Mine
<1> QED BY <1>1, <1>2 DEF AInv

LEMMA AInvStep == ASSUME LInv, AInv, [ExchangeNext]_exchangeVars PROVE AInv'
<1>1. CASE Emit \/ UNCHANGED exchangeVars
    BY <1>1 DEF Emit, exchangeVars, lockVars, port, AInv, Mine
<1>2. CASE Serve
    BY <1>2, ServeHolds
<1>3. ASSUME NEW c \in Client, Step(c) \/ Kill(c)
      PROVE  AInv'
    <2>1. CASE BeginExchange(c)
        BY <2>1 DEF BeginExchange, Begin, port, AInv, Mine, LInv
    <2>2. CASE LockExchange(c)
        BY <2>2, LockExchangeHolds
    <2>3. CASE Ask(c)
        BY <2>3, AskHolds
    <2>4. CASE NoPort(c)
        <3>1. UNCHANGED <<requests, lines, asked, dirty>> /\ Gone(c) /\ asked[c] = Silent
            BY <2>4 DEF NoPort, Release, port
        <3>2. \A d \in Client \ {c} : pc'[d] = pc[d]
            BY <3>1 DEF Gone, LInv
        <3>3. raced /\ ~raced' => \A d \in Client : asked[d] = Silent
            BY <3>1, RaceForgotten
        <3> QED BY <3>1, <3>2, <3>3 DEF AInv, Mine
    <2>5. CASE Read(c) \/ TimeOut(c) \/ Kill(c)
        <3>1. Quits(c) /\ Gone(c) /\ UNCHANGED requests
            BY <2>5 DEF Read, TimeOut, Kill, Release, KillClient
        <3>2. PICK k \in 1..(Len(lines) + 1) : lines' = From(lines, k)
            BY <2>5 DEF Read, TimeOut, Kill
        <3> QED BY <3>1, <3>2, QuitsHolds
    <2> QED BY <1>3, <2>1, <2>2, <2>3, <2>4, <2>5 DEF Step
<1> QED BY <1>1, <1>2, <1>3 DEF ExchangeNext

LEMMA AInvInit == ExchangeInit => AInv
BY DEF ExchangeInit, AInv, Silent

LEMMA AInvHolds == ExchangeSpec => [](LInv /\ AInv)
BY LockInitHolds, LInvStep, AInvInit, AInvStep, PTL DEF ExchangeSpec, ExchangeInit

(* A client that found the line empty reads the answer to its own command, *)
(* whatever was abandoned, cut or answered late before, unless two own the *)
(* port after a race for a stale lock.                                     *)
THEOREM OwnAnswers == ExchangeSpec => AnswersBelong
<1> DEFINE Belongs == \A c \in Client :
                          Read(c) /\ ~dirty[c] /\ ~raced =>
                              Head(lines).by = c /\ Head(lines).command = asked[c]
<1>1. AInv => Belongs
    <2> SUFFICES ASSUME AInv, NEW c \in Client, Read(c), ~dirty[c], ~raced
                 PROVE  Head(lines).by = c /\ Head(lines).command = asked[c]
        OBVIOUS
    <2>1. Mine(c) /\ lines # <<>>
        BY DEF AInv, Read
    <2>2. PICK l : lines = <<l>> /\ l.by = c /\ l.command = asked[c]
        BY <2>1 DEF Mine
    <2> QED BY <2>2
<1> QED BY <1>1, AInvHolds, PTL DEF AnswersBelong
-----------------------------------------------------------------------------
(* The ring.                                                               *)
Cell(i) == (head + i - 1) % Capacity

\* The events waiting are numbered up to the last one accepted, without a gap.
Numbered ==
    /\ count <= nextSequence
    /\ \A i \in 1..count : events[Cell(i)].sequence = (nextSequence - count) + i

RInv == TypeOK /\ Numbered

\* How many events the controller has handed out.
Given == nextSequence - count

LEMMA CapacityIs == Capacity \in Nat /\ Capacity > 0 /\ Index = 0..(Capacity - 1)
BY RingAssumption DEF Index

LEMMA RingWraps ==
    ASSUME NEW a \in Nat, a < 2 * Capacity
    PROVE  a % Capacity = (IF a < Capacity THEN a ELSE a - Capacity) /\ a % Capacity \in Index
<1>0. Capacity \in Nat /\ Capacity > 0 /\ Index = 0..(Capacity - 1)
    BY CapacityIs
<1>1. CASE a < Capacity
    BY <1>0, <1>1
<1>2. CASE a >= Capacity
    BY <1>0, <1>2
<1>3. QED BY <1>0, <1>1, <1>2

LEMMA RingTypes ==
    ASSUME TypeOK
    PROVE  /\ head \in Nat /\ head < Capacity /\ count \in Nat /\ count <= Capacity
           /\ nextSequence \in Nat /\ events \in [Index -> Event]
BY CapacityIs DEF TypeOK

LEMMA CellValue ==
    ASSUME TypeOK, NEW i \in 1..Capacity
    PROVE  /\ Cell(i) = IF head + i - 1 < Capacity THEN head + i - 1 ELSE head + i - 1 - Capacity
           /\ Cell(i) \in Index
<1>1. head \in Nat /\ head < Capacity /\ Capacity \in Nat /\ i \in Nat /\ i >= 1 /\ i <= Capacity
    BY RingTypes, CapacityIs
<1>2. head + i - 1 \in Nat /\ head + i - 1 < 2 * Capacity
    BY <1>1
<1>3. PICK a \in Nat : a = head + i - 1 /\ a < 2 * Capacity
    BY <1>2
<1>4. a % Capacity = (IF a < Capacity THEN a ELSE a - Capacity) /\ a % Capacity \in Index
    BY <1>3, RingWraps
<1>5. PICK m : m = a % Capacity
    OBVIOUS
<1>6. Cell(i) = m
    BY <1>3, <1>5 DEF Cell
<1>7. m = IF head + i - 1 < Capacity THEN head + i - 1 ELSE head + i - 1 - Capacity
    BY <1>1, <1>3, <1>4, <1>5
<1>8. m \in Index
    BY <1>4, <1>5
<1>9. QED BY <1>6, <1>7, <1>8

LEMMA CellsDiffer ==
    ASSUME TypeOK, NEW i \in 1..Capacity, NEW j \in 1..Capacity, i # j
    PROVE  Cell(i) # Cell(j)
<1>1. head \in Nat /\ head < Capacity /\ Capacity \in Nat
    BY RingTypes, CapacityIs
<1>2. QED BY <1>1, CellValue

(* The slot of a new event is the first that is free, and the next head is *)
(* the second oldest event's cell.                                         *)
LEMMA EmitCell ==
    ASSUME TypeOK, count < Capacity
    PROVE  FreeSlot = Cell(count + 1) /\ count + 1 \in 1..Capacity
<1>1. head \in Nat /\ count \in Nat /\ Capacity \in Nat
    BY RingTypes, CapacityIs
<1>2. head + count = head + (count + 1) - 1
    BY <1>1
<1>3. QED BY <1>1, <1>2 DEF FreeSlot, Cell

LEMMA PopCells ==
    ASSUME TypeOK, NEW i \in 1..Capacity, i + 1 \in 1..Capacity
    PROVE  NextHead \in Index /\ (NextHead + i - 1) % Capacity = Cell(i + 1)
<1>1. /\ head \in Nat /\ head < Capacity /\ Capacity \in Nat /\ Capacity > 0 /\ i \in Nat
      /\ Index = 0..(Capacity - 1) /\ i >= 1 /\ i + 1 <= Capacity
    BY RingTypes, CapacityIs
<1>2. NextHead = (IF head + 1 < Capacity THEN head + 1 ELSE 0) /\ NextHead \in Index
    <2>1. head + 1 \in Nat /\ head + 1 < 2 * Capacity
        BY <1>1
    <2>2. PICK a \in Nat : a = head + 1 /\ a < 2 * Capacity
        BY <2>1
    <2>3. a % Capacity = (IF a < Capacity THEN a ELSE a - Capacity) /\ a % Capacity \in Index
        BY <2>2, RingWraps
    <2>4. a % Capacity = (IF a < Capacity THEN a ELSE 0)
        BY <1>1, <2>2, <2>3
    <2>5. PICK m : m = a % Capacity
        OBVIOUS
    <2>6. NextHead = m
        BY <2>2, <2>5 DEF NextHead
    <2>7. m = IF head + 1 < Capacity THEN head + 1 ELSE 0
        BY <2>2, <2>4, <2>5
    <2>8. m \in Index
        BY <2>3, <2>5
    <2>9. QED BY <2>6, <2>7, <2>8
<1>3. PICK n \in Nat : n = NextHead
    BY <1>1, <1>2
<1>4. n + i - 1 \in Nat /\ n + i - 1 < 2 * Capacity
    BY <1>1, <1>2, <1>3
<1>5. (n + i - 1) % Capacity = IF n + i - 1 < Capacity THEN n + i - 1 ELSE n + i - 1 - Capacity
    <2>1. PICK a \in Nat : a = n + i - 1 /\ a < 2 * Capacity
        BY <1>4
    <2>2. a % Capacity = IF a < Capacity THEN a ELSE a - Capacity
        BY <2>1, RingWraps
    <2>3. QED BY <1>1, <2>1, <2>2
<1>6. Cell(i + 1) = IF head + (i + 1) - 1 < Capacity THEN head + (i + 1) - 1
                                                      ELSE head + (i + 1) - 1 - Capacity
    BY CellValue
<1>7. (n + i - 1) % Capacity = Cell(i + 1)
    BY <1>1, <1>2, <1>3, <1>5, <1>6
<1>8. QED BY <1>2, <1>3, <1>7

LEMMA FunIsSeq ==
    ASSUME NEW S, NEW n \in Nat, NEW s \in [1..n -> S]
    PROVE  s \in Seq(S) /\ Len(s) = n
BY SeqDef

LEMMA RowIsSeq ==
    ASSUME NEW n \in Nat, NEW row, row = [i \in 1..n |-> row[i]],
           \A i \in 1..n : row[i] \in Event
    PROVE  row \in Seq(Event) /\ Len(row) = n
BY FunIsSeq

LEMMA ContentIs ==
    ASSUME TypeOK
    PROVE  /\ Content \in Seq(Event) /\ Len(Content) = count
           /\ \A i \in 1..count : Content[i] = events[Cell(i)]
<1>1. count \in Nat /\ count <= Capacity /\ events \in [Index -> Event] /\ Capacity \in Nat
    BY RingTypes, CapacityIs
<1>2. Content = [i \in 1..count |-> Content[i]] /\ \A i \in 1..count : Content[i] = events[Cell(i)]
    BY DEF Content, Cell
<1>3. \A i \in 1..count : Cell(i) \in Index
    BY <1>1, CellValue
<1>4. Content \in Seq(Event) /\ Len(Content) = count
    BY <1>1, <1>2, <1>3, RowIsSeq
<1>5. QED BY <1>2, <1>4

(* emit_event is Put.                                                      *)
LEMMA EmitIsPut ==
    ASSUME RInv, NEW p \in Payload, EmitEvent(p)
    PROVE  RInv' /\ Fifo!Put(p)
<1>0. /\ TypeOK /\ head \in Nat /\ count \in Nat /\ count < Capacity /\ nextSequence \in Nat
      /\ count <= nextSequence /\ events \in [Index -> Event] /\ Capacity \in Nat
    BY RingTypes, CapacityIs DEF RInv, Numbered, EmitEvent
<1>1. PICK e : e = [payload |-> p, sequence |-> nextSequence + 1]
    OBVIOUS
<1>2. e \in Event /\ e.sequence = nextSequence + 1
    BY <1>0, <1>1 DEF Event
<1>3. FreeSlot = Cell(count + 1) /\ count + 1 \in 1..Capacity /\ Cell(count + 1) \in Index
    BY <1>0, EmitCell, CellValue
<1>4. /\ nextSequence' = nextSequence + 1 /\ count' = count + 1
      /\ events' = [events EXCEPT ![Cell(count + 1)] = e]
      /\ UNCHANGED <<head, droppedEvents, reply>>
    BY <1>1, <1>3 DEF EmitEvent
<1>5. events' \in [Index -> Event]
    BY <1>0, <1>2, <1>4
<1>6. TypeOK'
    BY <1>0, <1>3, <1>4, <1>5 DEF TypeOK
<1>7. \A i \in 1..Capacity : Cell(i)' = Cell(i)
    BY <1>4 DEF Cell
<1>8. \A i \in 1..count : Cell(i) # Cell(count + 1) /\ Cell(i) \in Index
    <2>1. \A i \in 1..count : i \in 1..Capacity /\ i # count + 1
        BY <1>0
    <2>2. QED BY <1>0, <1>3, <2>1, CellsDiffer, CellValue
<1>9. \A i \in 1..count : events'[Cell(i)] = events[Cell(i)]
    BY <1>0, <1>4, <1>8
<1>10. events'[Cell(count + 1)] = e
    BY <1>0, <1>3, <1>4
<1>11. Numbered'
    <2>1. ASSUME NEW i \in 1..(count + 1)
          PROVE  events'[Cell(i)].sequence = ((nextSequence + 1) - (count + 1)) + i
        <3>1. CASE i = count + 1
            <4>1. events'[Cell(i)].sequence = nextSequence + 1
                BY <1>2, <1>10, <3>1
            <4>2. QED BY <1>0, <3>1, <4>1
        <3>2. CASE i # count + 1
            <4>1. i \in 1..count
                BY <1>0, <3>2
            <4>2. events[Cell(i)].sequence = (nextSequence - count) + i
                BY <4>1 DEF RInv, Numbered
            <4>3. QED BY <1>0, <1>9, <4>1, <4>2
        <3>3. QED BY <3>1, <3>2
    <2>2. \A i \in 1..(count + 1) : i \in 1..Capacity
        BY <1>0
    <2>3. \A i \in 1..count' : events'[Cell(i)'].sequence = (nextSequence' - count') + i
        BY <1>4, <1>7, <2>1, <2>2
    <2>4. count' <= nextSequence'
        BY <1>0, <1>4
    <2>5. QED BY <2>3, <2>4 DEF Numbered
<1>12. Content' = Append(Content, e)
    <2>1. /\ Content \in Seq(Event) /\ Len(Content) = count
          /\ \A i \in 1..count : Content[i] = events[Cell(i)]
        BY <1>0, ContentIs
    <2>2. /\ Content' \in Seq(Event) /\ Len(Content') = count + 1
          /\ \A i \in 1..(count + 1) : Content'[i] = events'[Cell(i)]
        <3>1. Content' = [i \in 1..(count + 1) |-> Content'[i]]
            BY <1>4 DEF Content
        <3>2. \A i \in 1..(count + 1) : Content'[i] = events'[Cell(i)] /\ Cell(i) \in Index
            <4>1. \A i \in 1..(count + 1) : i \in 1..Capacity
                BY <1>0
            <4>2. \A i \in 1..(count + 1) : Content'[i] = events'[Cell(i)']
                BY <1>4 DEF Content, Cell
            <4>3. QED BY <1>0, <1>7, <4>1, <4>2, CellValue
        <3>3. \A i \in 1..(count + 1) : Content'[i] \in Event
            BY <1>5, <3>2
        <3>4. count + 1 \in Nat
            BY <1>0
        <3>5. QED BY <3>1, <3>2, <3>3, <3>4, RowIsSeq
    <2>3. /\ Append(Content, e) \in Seq(Event) /\ Len(Append(Content, e)) = count + 1
          /\ \A i \in 1..count : Append(Content, e)[i] = Content[i]
          /\ Append(Content, e)[count + 1] = e
        BY <1>2, <2>1, AppendProperties
    <2>4. ASSUME NEW i \in 1..(count + 1) PROVE Content'[i] = Append(Content, e)[i]
        <3>1. CASE i = count + 1
            BY <1>10, <2>2, <2>3, <3>1
        <3>2. CASE i # count + 1
            <4>1. i \in 1..count
                BY <1>0, <3>2
            <4>2. QED BY <1>9, <2>1, <2>2, <2>3, <4>1
        <3>3. QED BY <3>1, <3>2
    <2>5. QED BY <2>2, <2>3, <2>4, SeqEqual
<1>13. Fifo!Put(p)
    <2>1. Len(Content) < Capacity
        BY <1>0, ContentIs
    <2>2. QED BY <1>1, <1>4, <1>12, <2>1 DEF Fifo!Put
<1>14. QED BY <1>6, <1>11, <1>13 DEF RInv

(* EVENT NEXT with an event waiting is Get, and hands out the next number. *)
LEMMA PopIsGet ==
    ASSUME RInv, Pop
    PROVE  /\ RInv' /\ Fifo!Get
           /\ events[head].sequence = Given + 1 /\ Given' = Given + 1
<1>0. /\ TypeOK /\ head \in Nat /\ count \in Nat /\ count > 0 /\ count <= Capacity
      /\ nextSequence \in Nat /\ count <= nextSequence /\ Capacity \in Nat /\ head < Capacity
    BY RingTypes, CapacityIs DEF RInv, Numbered, Pop
<1>1. /\ reply' = <<events[head]>> /\ head' = NextHead /\ count' = count - 1
      /\ UNCHANGED <<events, nextSequence, droppedEvents>>
    BY DEF Pop
<1>2. Cell(1) = head /\ 1 \in 1..count
    <2>1. 1 \in 1..Capacity /\ 1 \in 1..count
        BY <1>0
    <2>2. Cell(1) = IF head + 1 - 1 < Capacity THEN head + 1 - 1 ELSE head + 1 - 1 - Capacity
        BY <1>0, <2>1, CellValue
    <2>3. QED BY <1>0, <2>1, <2>2
<1>3. events[head].sequence = (nextSequence - count) + 1
    BY <1>2 DEF RInv, Numbered
<1>4. \A i \in 1..(count - 1) : Cell(i)' = Cell(i + 1) /\ i + 1 \in 1..count
    <2>1. \A i \in 1..(count - 1) : i \in 1..Capacity /\ i + 1 \in 1..Capacity /\ i + 1 \in 1..count
        BY <1>0
    <2>2. \A i \in 1..(count - 1) : (NextHead + i - 1) % Capacity = Cell(i + 1)
        BY <1>0, <2>1, PopCells
    <2>3. \A i \in 1..(count - 1) : Cell(i)' = (NextHead + i - 1) % Capacity
        BY <1>1 DEF Cell
    <2>4. QED BY <2>1, <2>2, <2>3
<1>5. NextHead \in Index
    <2>1. (head + 1) \in Nat /\ head + 1 < 2 * Capacity
        BY <1>0
    <2>2. PICK a \in Nat : a = head + 1 /\ a < 2 * Capacity
        BY <2>1
    <2>3. a % Capacity \in Index
        BY <2>2, RingWraps
    <2>4. QED BY <2>2, <2>3 DEF NextHead
<1>6. TypeOK'
    <2>1. events[head] \in Event
        BY <1>0, CapacityIs DEF TypeOK
    <2>2. reply' \in [{1} -> Event]
        BY <1>1, <2>1
    <2>3. QED BY <1>0, <1>1, <1>5, <2>2 DEF TypeOK
<1>7. Numbered'
    <2>1. ASSUME NEW i \in 1..(count - 1)
          PROVE  events[Cell(i + 1)].sequence = (nextSequence - (count - 1)) + i
        <3>1. i + 1 \in 1..count /\ i \in Nat
            BY <1>0
        <3>2. events[Cell(i + 1)].sequence = (nextSequence - count) + (i + 1)
            BY <3>1 DEF RInv, Numbered
        <3>3. QED BY <1>0, <3>1, <3>2
    <2>2. \A i \in 1..count' : events'[Cell(i)'].sequence = (nextSequence' - count') + i
        BY <1>1, <1>4, <2>1
    <2>3. count' <= nextSequence'
        BY <1>0, <1>1
    <2>4. QED BY <2>2, <2>3 DEF Numbered
<1>8. Content # <<>> /\ Head(Content) = events[head] /\ Content' = Tail(Content)
    <2>1. /\ Content \in Seq(Event) /\ Len(Content) = count
          /\ \A i \in 1..count : Content[i] = events[Cell(i)]
        BY <1>0, ContentIs
    <2>2. Content # <<>> /\ Head(Content) = Content[1]
        BY <1>0, <2>1
    <2>3. /\ Content' \in Seq(Event) /\ Len(Content') = count - 1
          /\ \A i \in 1..(count - 1) : Content'[i] = events[Cell(i + 1)]
        <3>1. Content' = [i \in 1..(count - 1) |-> Content'[i]]
            BY <1>1 DEF Content
        <3>2. \A i \in 1..(count - 1) : Content'[i] = events[Cell(i)']
            BY <1>1 DEF Content, Cell
        <3>3. \A i \in 1..(count - 1) : Content'[i] = events[Cell(i + 1)] /\ i + 1 \in 1..count
            BY <1>4, <3>2
        <3>4. \A i \in 1..(count - 1) : Content'[i] \in Event
            <4>1. \A k \in 1..count : events[Cell(k)] \in Event
                <5>1. \A k \in 1..count : Content[k] \in Event
                    BY <2>1
                <5>2. QED BY <2>1, <5>1
            <4>2. QED BY <3>3, <4>1
        <3>5. count - 1 \in Nat
            BY <1>0
        <3>6. QED BY <3>1, <3>3, <3>4, <3>5, RowIsSeq
    <2>4. /\ Tail(Content) \in Seq(Event) /\ Len(Tail(Content)) = count - 1
          /\ \A i \in 1..(count - 1) : Tail(Content)[i] = Content[i + 1]
        BY <2>1, <2>2, HeadTailProperties
    <2>5. \A i \in 1..(count - 1) : Content'[i] = Tail(Content)[i]
        BY <1>4, <2>1, <2>3, <2>4
    <2>6. Content' = Tail(Content)
        BY <2>3, <2>4, <2>5, SeqEqual
    <2>7. QED BY <1>2, <2>1, <2>2, <2>6
<1>9. Fifo!Get
    BY <1>1, <1>8 DEF Fifo!Get
<1>10. Given' = Given + 1 /\ events[head].sequence = Given + 1
    BY <1>0, <1>1, <1>3 DEF Given
<1>11. QED BY <1>6, <1>7, <1>9, <1>10 DEF RInv

LEMMA RingRests ==
    ASSUME RInv, UNCHANGED <<events, head, count, nextSequence, reply>>, droppedEvents' \in Nat
    PROVE  RInv' /\ UNCHANGED Fifo!vars /\ Given' = Given
<1>1. TypeOK' /\ Numbered'
    BY DEF RInv, TypeOK, Numbered, Cell
<1>2. UNCHANGED Content
    BY DEF Content
<1>3. QED BY <1>1, <1>2 DEF RInv, Fifo!vars, Given

LEMMA RingDrops == ASSUME RInv, DropEvent PROVE RInv' /\ UNCHANGED Fifo!vars /\ Given' = Given
<1>1. droppedEvents' \in Nat
    BY DEF RInv, TypeOK, DropEvent
<1>2. QED BY <1>1, RingRests DEF DropEvent

LEMMA RingUnchanged == ASSUME RInv, UNCHANGED ring PROVE RInv' /\ UNCHANGED Fifo!vars /\ Given' = Given
<1>1. droppedEvents' \in Nat
    BY DEF RInv, TypeOK, ring
<1>2. QED BY <1>1, RingRests DEF ring

(* Only an emitted event and an answer to EVENT NEXT change the ring.      *)
LEMMA OthersLeaveRing ==
    ASSUME NEW c \in Client, Step(c) \/ Kill(c)
    PROVE  UNCHANGED ring
BY DEF Step, Kill, BeginExchange, LockExchange, Ask, NoPort, Read, TimeOut

LEMMA EmitKeeps == ASSUME RInv, Emit PROVE RInv' /\ [Fifo!Next]_(Fifo!vars) /\ Given' = Given
<1>1. CASE DropEvent
    BY <1>1, RingDrops
<1>2. ASSUME NEW p \in Payload, EmitEvent(p)
      PROVE  RInv' /\ [Fifo!Next]_(Fifo!vars) /\ Given' = Given
    <2>1. RInv' /\ Fifo!Put(p)
        BY <1>2, EmitIsPut
    <2>2. nextSequence \in Nat /\ count \in Nat /\ nextSequence' = nextSequence + 1 /\ count' = count + 1
        BY <1>2, RingTypes DEF RInv, EmitEvent
    <2>3. Given' = Given
        BY <2>2 DEF Given
    <2>4. QED BY <2>1, <2>3 DEF Fifo!Next
<1>3. QED BY <1>1, <1>2 DEF Emit

\* The service's ring behaves as a bounded first-in first-out queue of the events it
\* accepted, numbered without gaps, whatever the clients of the port do.
LEMMA RingStep == ASSUME RInv, [ExchangeNext]_exchangeVars PROVE RInv' /\ [Fifo!Next]_(Fifo!vars)
<1>1. CASE Serve
    <2>1. Pop \/ UNCHANGED ring
        BY <1>1 DEF Serve, Answered
    <2>2. QED BY <2>1, PopIsGet, RingUnchanged DEF Fifo!Next
<1>2. CASE UNCHANGED exchangeVars
    BY <1>2, RingUnchanged DEF exchangeVars
<1>3. QED BY <1>1, <1>2, EmitKeeps, OthersLeaveRing, RingUnchanged DEF ExchangeNext

LEMMA RingStarts == ExchangeInit => RInv /\ Fifo!Init
<1>. SUFFICES ASSUME ExchangeInit PROVE RInv /\ Fifo!Init
    OBVIOUS
<1>1. PICK p \in Payload : events = [k \in Index |-> [payload |-> p, sequence |-> 0]]
    BY DEF ExchangeInit, Init
<1>2. head = 0 /\ count = 0 /\ nextSequence = 0 /\ droppedEvents = 0 /\ reply = <<>>
    BY DEF ExchangeInit, Init
<1>3. events \in [Index -> Event]
    BY <1>1 DEF Event
<1>4. TypeOK
    BY <1>2, <1>3, CapacityIs DEF TypeOK
<1>5. Content = <<>>
    <2>1. Content = [i \in 1..0 |-> events[(head + i - 1) % Capacity]]
        BY <1>2 DEF Content
    <2>2. QED BY <1>2, <1>4, ContentIs, EmptySeq
<1>6. QED BY <1>2, <1>4, <1>5 DEF RInv, Numbered, Fifo!Init

\* The ring implements BoundedFifo: the host fetches every accepted event once, in order
\* and unchanged, under gapless numbers, wherever in the array the ring's ends are and
\* whatever the clients of the port do.
THEOREM RingIsFifo == ExchangeSpec => ImplementsFifo
BY RingStarts, RingStep, PTL DEF ExchangeSpec, ImplementsFifo, Fifo!Spec
-----------------------------------------------------------------------------
(* The events on their way.                                                *)
Word == {Round[i] : i \in 1..Len(Round)}
Request == [by : Client, command : Word]
Line == [by : Client, command : Word, glued : BOOLEAN, ended : BOOLEAN, events : SUBSET Nat]

Asking ==
    /\ turn \in 1..Len(Round)
    /\ asked[Service] \in {Silent, Round[turn]}
    /\ \A c \in Client \ {Service} : asked[c] \in {Silent, Report}

WTypes ==
    /\ requests \in Seq(Request) /\ lines \in Seq(Line) /\ dispatched \in Seq(Nat)
    /\ Asking

\* Events leave in their order: acted on, then on the line, then in the ring.
Ascending(s) == \A i, j \in DOMAIN s : i < j => s[i] < s[j]

Queued(ls, s, last) ==
    /\ Ascending(s)
    /\ \A d \in DOMAIN s : s[d] <= last
    /\ \A i \in DOMAIN ls : \A e \in ls[i].events : e <= last /\ \A d \in DOMAIN s : s[d] < e
    /\ \A i, j \in DOMAIN ls : i < j => \A e \in ls[i].events, f \in ls[j].events : e < f

InOrder == Queued(lines, dispatched, Given)

\* While nothing has gone wrong the line holds the one request of a client that asks, or
\* its whole answer, and nothing when nobody asks.
Whole(l) ==
    /\ ~l.glued /\ l.ended
    /\ l.events = {} \/ (l.command = NextEvent /\ \E e \in l.events : l.events = {e})

Waits(c) ==
    \/ /\ Len(requests) = 1 /\ lines = <<>>
       /\ requests[1].by = c /\ requests[1].command = asked[c]
    \/ /\ requests = <<>> /\ Len(lines) = 1
       /\ lines[1].by = c /\ lines[1].command = asked[c] /\ Whole(lines[1])

Clean ==
    ~spoilt =>
        /\ ~raced
        /\ \A c \in Client : asked[c] # Silent => Waits(c)
        /\ (\A c \in Client : asked[c] = Silent) => requests = <<>> /\ lines = <<>>
        /\ 1..Given = {dispatched[i] : i \in DOMAIN dispatched} \cup InFlight
-----------------------------------------------------------------------------
(* The words of a round.                                                   *)
LEMMA WordsDiffer == Report # NextEvent /\ Report # Silent /\ NextEvent # Silent
BY DEF Report, NextEvent, Silent

LEMMA RoundIs ==
    /\ Len(Round) \in Nat /\ Len(Round) >= 1 /\ Report \in Word /\ Silent \notin Word
    /\ Len(Checks) \in Nat
    /\ \A i \in 1..Len(Round) : Round[i] \in Word
    /\ \A i \in 1..Len(Round) : i <= Len(Checks) => Round[i] # NextEvent /\ Round[i] # Report
    /\ \A i \in 1..Len(Round) : ~(i <= Len(Checks)) => Round[i] \in {Report, NextEvent}
    /\ \A i \in 1..Len(Round) : i + 1 \in 1..Len(Round) \/ Round[i] = NextEvent
<1>1. PICK K : /\ Checks \in Seq(K)
              /\ \A i \in DOMAIN Checks : Checks[i] \notin {Report, NextEvent, Silent}
    BY ExchangeAssumption
<1>2. PICK t : t = <<Report, NextEvent>>
    OBVIOUS
<1>3. PICK W : W = K \cup {Report, NextEvent}
    OBVIOUS
<1>4. t \in Seq(W) /\ Len(t) = 2 /\ t[1] = Report /\ t[2] = NextEvent
    BY <1>2, <1>3
<1>20. PICK s \in Seq(W) : s = Checks
    <2>1. Checks \in [1..Len(Checks) -> K] /\ Len(Checks) \in Nat
        BY <1>1
    <2>2. Checks \in [1..Len(Checks) -> W]
        BY <1>3, <2>1
    <2>3. Checks \in Seq(W)
        BY <2>1, <2>2, SeqDef
    <2>4. QED BY <2>3
<1>21. PICK n \in Nat : n = Len(s) /\ DOMAIN s = 1..n
    OBVIOUS
<1>5. PICK r : r = s \o t
    OBVIOUS
<1>6. Round = r
    BY <1>2, <1>20, <1>5 DEF Round
<1>7. /\ Len(r) = n + 2
      /\ \A i \in 1..(n + 2) : r[i] = IF i <= n THEN s[i] ELSE t[i - n]
    <2>1. /\ Len(s \o t) = Len(s) + Len(t)
          /\ \A i \in 1 .. Len(s) + Len(t) : (s \o t)[i] = IF i <= Len(s) THEN s[i] ELSE t[i - Len(s)]
        BY <1>4, ConcatProperties
    <2>2. QED BY <1>4, <1>21, <1>5, <2>1
<1>8. \A i \in 1..n : r[i] = s[i] /\ s[i] \notin {Report, NextEvent, Silent}
    BY <1>1, <1>20, <1>21, <1>7
<1>9. r[n + 1] = Report /\ r[n + 2] = NextEvent
    <2>1. n + 1 \in 1..(n + 2) /\ ~(n + 1 <= n) /\ (n + 1) - n = 1
        OBVIOUS
    <2>2. n + 2 \in 1..(n + 2) /\ ~(n + 2 <= n) /\ (n + 2) - n = 2
        OBVIOUS
    <2>3. QED BY <1>4, <1>7, <2>1, <2>2
<1>10. Len(Round) = n + 2
    BY <1>6, <1>7
<1>11. \A i \in 1..(n + 2) : i \in 1..n \/ i = n + 1 \/ i = n + 2
    OBVIOUS
<1>12. \A i \in 1..(n + 2) : r[i] \in Word
    BY <1>6, <1>10 DEF Word
<1>13. Report \in Word
    <2>1. n + 1 \in 1..(n + 2)
        OBVIOUS
    <2>2. QED BY <1>9, <1>12, <2>1
<1>14. \A i \in 1..(n + 2) : r[i] # Silent
    BY <1>8, <1>9, <1>11, WordsDiffer
<1>15. Silent \notin Word
    BY <1>6, <1>10, <1>14 DEF Word
<1>16. \A i \in 1..(n + 2) : i <= n => r[i] # NextEvent /\ r[i] # Report
    BY <1>8
<1>17. \A i \in 1..(n + 2) : i + 1 \in 1..(n + 2) \/ r[i] = NextEvent
    BY <1>9
<1>19. \A i \in 1..(n + 2) : ~(i <= n) => r[i] \in {Report, NextEvent}
    BY <1>9, <1>11
<1>18. QED BY <1>19, <1>20, <1>21, <1>6, <1>10, <1>12, <1>13, <1>15, <1>16, <1>17

(* An answer, and what it may become on the line.                          *)
LEMMA GluedIs ==
    ASSUME NEW start \in Line, NEW line \in Line
    PROVE  /\ Glued(start, line) \in Line
           /\ Glued(start, line).events \subseteq start.events \cup line.events
<1>1. PICK one : one = [line EXCEPT !.glued = TRUE]
    OBVIOUS
<1>2. one \in Line /\ one.events = line.events
    BY <1>1 DEF Line
<1>3. PICK es : es = IF start.events = {} THEN {} ELSE start.events \cup line.events
    OBVIOUS
<1>4. es \in SUBSET Nat /\ es \subseteq start.events \cup line.events
    BY <1>3 DEF Line
<1>5. Glued(start, line) = [one EXCEPT !.events = es]
    BY <1>1, <1>3 DEF Glued, Line
<1>6. QED BY <1>2, <1>4, <1>5 DEF Line

LEMMA WrittenIs ==
    ASSUME NEW ls, ls = lines, lines \in Seq(Line), NEW a \in Line, NEW w, w = Written(a)
    PROVE  /\ w \in Seq(Line) /\ Len(w) >= Len(ls)
           /\ \A i \in 1..Len(w) : \A e \in w[i].events :
                  (i \in 1..Len(ls) /\ e \in ls[i].events) \/ (i = Len(w) /\ e \in a.events)
<1>0. ls \in Seq(Line) /\ Len(ls) \in Nat
    OBVIOUS
<1>1. CASE w = Append(ls, a)
    <2>1. /\ w \in Seq(Line) /\ Len(w) = Len(ls) + 1
          /\ \A i \in 1..Len(ls) : w[i] = ls[i]
          /\ w[Len(ls) + 1] = a
        BY <1>0, <1>1, AppendProperties
    <2>2. \A i \in 1..Len(w) : i \in 1..Len(ls) \/ i = Len(ls) + 1
        BY <1>0, <2>1
    <2>3. QED BY <1>0, <2>1, <2>2
<1>2. CASE ls # <<>> /\ w = Append(Front(ls), Glued(Last(ls), a))
    <2>. DEFINE n == Len(ls)
    <2>0. n \in Nat /\ n >= 1
        BY <1>0, <1>2, EmptySeq
    <2>1. /\ Front(ls) \in Seq(Line) /\ Len(Front(ls)) = n - 1
          /\ \A i \in 1..(n - 1) : Front(ls)[i] = ls[i]
        <3>1. PICK m \in Nat : m = n - 1
            BY <2>0
        <3>2. PICK f : f = SubSeq(ls, 1, m)
            OBVIOUS
        <3>3. \A i \in 1..m : ls[i] \in Line
            BY <1>0, <2>0, <3>1
        <3>4. /\ f \in Seq(Line)
              /\ Len(f) = IF 1 <= m THEN m - 1 + 1 ELSE 0
              /\ \A i \in 1..(m - 1 + 1) : f[i] = ls[1 + i - 1]
            BY <3>2, <3>3, SubSeqProperties
        <3>5. Len(f) = m /\ \A i \in 1..m : f[i] = ls[i]
            BY <3>4
        <3>6. Front(ls) = f
            BY <3>1, <3>2 DEF Front
        <3>7. QED BY <3>1, <3>4, <3>5, <3>6
    <2>2. PICK g \in Line : /\ g = Glued(Last(ls), a) /\ g.events \subseteq ls[n].events \cup a.events
        <3>1. Last(ls) = ls[n] /\ ls[n] \in Line
            BY <1>0, <2>0 DEF Last
        <3>2. QED BY <3>1, GluedIs
    <2>3. /\ w \in Seq(Line) /\ Len(w) = n
          /\ \A i \in 1..(n - 1) : w[i] = ls[i]
          /\ w[n] = g
        <3>1. w = Append(Front(ls), g)
            BY <1>2, <2>2
        <3>2. PICK f \in Seq(Line) : f = Front(ls)
            BY <2>1
        <3>3. /\ Append(f, g) \in Seq(Line) /\ Len(Append(f, g)) = Len(f) + 1
              /\ \A i \in 1..Len(f) : Append(f, g)[i] = f[i]
              /\ Append(f, g)[Len(f) + 1] = g
            BY AppendProperties
        <3>4. Len(f) = n - 1 /\ Len(f) + 1 = n
            BY <2>0, <2>1, <3>2
        <3>5. QED BY <2>1, <3>1, <3>2, <3>3, <3>4
    <2>4. \A i \in 1..n : i \in 1..(n - 1) \/ i = n
        BY <2>0
    <2>5. QED BY <2>0, <2>2, <2>3, <2>4
<1>3. QED BY <1>1, <1>2 DEF Written

LEMMA AnswerIs ==
    ASSUME RInv, NEW r \in Request, Answered(r), NEW a, a = Answer(r)
    PROVE  /\ a \in Line /\ ~a.glued /\ a.ended /\ a.by = r.by /\ a.command = r.command
           /\ RInv' /\ Given \in Nat
           /\ \/ a.events = {} /\ Given' = Given
              \/ r.command = NextEvent /\ a.events = {Given + 1} /\ Given' = Given + 1
<1>0. count \in Nat /\ nextSequence \in Nat /\ Given \in Nat
    <2>1. count \in Nat /\ nextSequence \in Nat /\ count <= nextSequence
        BY RingTypes DEF RInv, Numbered
    <2>2. QED BY <2>1 DEF Given
<1>9. PICK es : es = IF r.command = NextEvent THEN Fetched ELSE {}
    OBVIOUS
<1>10. a = [by |-> r.by, command |-> r.command, glued |-> FALSE, ended |-> TRUE, events |-> es]
    BY <1>9 DEF Answer
<1>11. es \subseteq Nat => a \in Line
    BY <1>10 DEF Line, Request
<1>1. CASE r.command = NextEvent /\ count > 0
    <2>1. Pop
        BY <1>1 DEF Answered
    <2>2. RInv' /\ events[head].sequence = Given + 1 /\ Given' = Given + 1
        BY <1>1, <2>1, PopIsGet
    <2>3. es = {Given + 1}
        BY <1>0, <1>1, <1>9, <2>2 DEF Fetched
    <2>4. a \in Line
        BY <1>0, <1>11, <2>3
    <2>5. QED BY <1>0, <1>1, <1>10, <2>2, <2>3, <2>4
<1>2. CASE ~(r.command = NextEvent /\ count > 0)
    <2>1. UNCHANGED ring
        BY <1>2 DEF Answered
    <2>2. RInv' /\ Given' = Given
        BY <2>1, RingUnchanged
    <2>3. es = {}
        BY <1>0, <1>2, <1>9 DEF Fetched
    <2>4. a \in Line
        BY <1>11, <2>3
    <2>5. QED BY <1>0, <1>10, <2>2, <2>3, <2>4
<1>3. QED BY <1>1, <1>2

LEMMA LineEvents == ASSUME NEW l \in Line PROVE \A e \in l.events : e \in Nat
BY DEF Line

(* What happens to the line keeps the events on it in their order.         *)
LEMMA QueuedWritten ==
    ASSUME lines \in Seq(Line), NEW s \in Seq(Nat), NEW g \in Nat, Queued(lines, s, g),
           NEW a \in Line, NEW w, w = Written(a), NEW h \in Nat,
           (a.events = {} /\ h = g) \/ (a.events = {g + 1} /\ h = g + 1)
    PROVE  Queued(w, s, h) /\ Queued(lines, s, h) /\ w \in Seq(Line)
<1>1. PICK ls : ls = lines /\ ls \in Seq(Line)
    OBVIOUS
<1>2. /\ w \in Seq(Line) /\ Len(w) >= Len(ls)
      /\ \A i \in 1..Len(w) : \A e \in w[i].events :
             (i \in 1..Len(ls) /\ e \in ls[i].events) \/ (i = Len(w) /\ e \in a.events)
    BY <1>1, WrittenIs
<1>3. /\ Len(w) \in Nat /\ Len(ls) \in Nat /\ DOMAIN w = 1..Len(w) /\ DOMAIN ls = 1..Len(ls)
      /\ \A d \in DOMAIN s : s[d] \in Nat
      /\ \A i \in 1..Len(ls) : \A e \in ls[i].events : e \in Nat
    BY <1>1, <1>2, LineEvents
<1>4. /\ Ascending(s)
      /\ \A d \in DOMAIN s : s[d] <= g
      /\ \A i \in 1..Len(ls) : \A e \in ls[i].events : e <= g /\ \A d \in DOMAIN s : s[d] < e
      /\ \A i, j \in 1..Len(ls) : i < j => \A e \in ls[i].events, f \in ls[j].events : e < f
    BY <1>1, <1>3 DEF Queued
<1>5. h >= g /\ \A e \in a.events : e = g + 1 /\ e = h
    OBVIOUS
<1>6. \A d \in DOMAIN s : s[d] <= h
    BY <1>3, <1>4, <1>5
<1>7. \A i \in 1..Len(w) : \A e \in w[i].events : e <= h /\ \A d \in DOMAIN s : s[d] < e
    <2>. TAKE i \in 1..Len(w)
    <2>. TAKE e \in w[i].events
    <2>1. CASE i \in 1..Len(ls) /\ e \in ls[i].events
        BY <1>3, <1>4, <1>5, <2>1
    <2>2. CASE i = Len(w) /\ e \in a.events
        BY <1>3, <1>4, <1>5, <2>2
    <2>3. QED BY <1>2, <2>1, <2>2
<1>8. \A i, j \in 1..Len(w) : i < j => \A e \in w[i].events, f \in w[j].events : e < f
    <2>. SUFFICES ASSUME NEW i \in 1..Len(w), NEW j \in 1..Len(w), i < j,
                         NEW e \in w[i].events, NEW f \in w[j].events
                  PROVE  e < f
        OBVIOUS
    <2>0. PICK m \in Nat : m = Len(w)
        BY <1>3
    <2>1. i # Len(w)
        <3>1. i \in 1..m /\ j \in 1..m /\ i < j
            BY <2>0
        <3>2. QED BY <2>0, <3>1
    <2>2. i \in 1..Len(ls) /\ e \in ls[i].events
        BY <1>2, <2>1
    <2>3. CASE j \in 1..Len(ls) /\ f \in ls[j].events
        BY <1>4, <2>2, <2>3
    <2>4. CASE f \in a.events
        BY <1>3, <1>4, <1>5, <2>2, <2>4
    <2>5. QED BY <1>2, <2>3, <2>4
<1>9. Queued(w, s, h)
    BY <1>3, <1>4, <1>6, <1>7, <1>8 DEF Queued
<1>10. \A i \in 1..Len(ls) : \A e \in ls[i].events : e <= h
    BY <1>3, <1>4, <1>5
<1>11. Queued(ls, s, h)
    BY <1>3, <1>4, <1>6, <1>10 DEF Queued
<1>12. QED BY <1>1, <1>2, <1>9, <1>11

LEMMA FromIs ==
    ASSUME NEW ls \in Seq(Line), NEW k \in 1..(Len(ls) + 1), NEW w, w = From(ls, k)
    PROVE  /\ w \in Seq(Line) /\ Len(w) = (Len(ls) - k) + 1
           /\ \A i \in 1..Len(w) : k + i - 1 \in 1..Len(ls) /\ w[i] = ls[k + i - 1]
<1>1. PICK n \in Nat : n = Len(ls)
    OBVIOUS
<1>2. k \in Nat /\ k >= 1 /\ k <= n + 1
    BY <1>1
<1>3. \A i \in k..n : ls[i] \in Line
    BY <1>1, <1>2
<1>4. /\ SubSeq(ls, k, n) \in Seq(Line)
      /\ Len(SubSeq(ls, k, n)) = IF k <= n THEN n - k + 1 ELSE 0
      /\ \A i \in 1 .. n - k + 1 : SubSeq(ls, k, n)[i] = ls[k + i - 1]
    BY <1>2, <1>3, SubSeqProperties
<1>5. w = SubSeq(ls, k, n)
    BY <1>1 DEF From
<1>6. Len(w) = n - k + 1
    BY <1>2, <1>4, <1>5
<1>7. \A i \in 1..(n - k + 1) : k + i - 1 \in 1..n
    BY <1>2
<1>8. QED BY <1>1, <1>2, <1>4, <1>5, <1>6, <1>7

LEMMA QueuedFrom ==
    ASSUME NEW ls \in Seq(Line), NEW k \in 1..(Len(ls) + 1), NEW w, w = From(ls, k),
           NEW s \in Seq(Nat), NEW g \in Nat, Queued(ls, s, g)
    PROVE  w \in Seq(Line) /\ Queued(w, s, g)
<1>1. /\ w \in Seq(Line)
      /\ \A i \in 1..Len(w) : k + i - 1 \in 1..Len(ls) /\ w[i] = ls[k + i - 1]
    BY FromIs
<1>2. DOMAIN w = 1..Len(w) /\ DOMAIN ls = 1..Len(ls) /\ Len(w) \in Nat /\ k \in Nat
    BY <1>1
<1>3. \A i, j \in 1..Len(w) : i < j => k + i - 1 < k + j - 1
    BY <1>2
<1>4. \A i \in 1..Len(w) : \A e \in w[i].events : e <= g /\ \A d \in DOMAIN s : s[d] < e
    <2>. TAKE i \in 1..Len(w)
    <2>1. PICK p \in 1..Len(ls) : p = k + i - 1 /\ w[i] = ls[p]
        BY <1>1
    <2>2. QED BY <1>2, <2>1 DEF Queued
<1>5. \A i, j \in 1..Len(w) : i < j => \A e \in w[i].events, f \in w[j].events : e < f
    <2>. SUFFICES ASSUME NEW i \in 1..Len(w), NEW j \in 1..Len(w), i < j
                  PROVE  \A e \in w[i].events, f \in w[j].events : e < f
        OBVIOUS
    <2>1. PICK p \in 1..Len(ls) : p = k + i - 1 /\ w[i] = ls[p]
        BY <1>1
    <2>2. PICK q \in 1..Len(ls) : q = k + j - 1 /\ w[j] = ls[q]
        BY <1>1
    <2>3. p < q
        BY <1>3, <2>1, <2>2
    <2>4. QED BY <1>2, <2>1, <2>2, <2>3 DEF Queued
<1>6. QED BY <1>1, <1>2, <1>4, <1>5 DEF Queued

(* Acting on an event of the line's head puts it behind those acted on.    *)
LEMMA QueuedRead ==
    ASSUME NEW ls \in Seq(Line), NEW k \in 2..(Len(ls) + 1), NEW w, w = From(ls, k),
           NEW s \in Seq(Nat), NEW g \in Nat, Queued(ls, s, g),
           NEW e \in ls[1].events, Len(ls) >= 1, NEW t, t = Append(s, e)
    PROVE  Queued(w, t, g) /\ t \in Seq(Nat)
<1>1. k \in 1..(Len(ls) + 1) /\ k \in Nat /\ k >= 2 /\ Len(ls) \in Nat
    OBVIOUS
<1>2. /\ w \in Seq(Line)
      /\ \A i \in 1..Len(w) : k + i - 1 \in 1..Len(ls) /\ w[i] = ls[k + i - 1]
    BY <1>1, FromIs
<1>3. DOMAIN w = 1..Len(w) /\ DOMAIN ls = 1..Len(ls) /\ Len(w) \in Nat
    BY <1>2
<1>4. w \in Seq(Line) /\ Queued(w, s, g)
    BY <1>1, QueuedFrom
<1>5. ls[1] \in Line /\ e \in Nat /\ 1 \in 1..Len(ls)
    <2>1. 1 \in 1..Len(ls)
        BY <1>1
    <2>2. ls[1] \in Line
        BY <2>1
    <2>3. QED BY <2>1, <2>2, LineEvents
<1>6. e <= g /\ \A d \in DOMAIN s : s[d] < e
    BY <1>3, <1>5 DEF Queued
<1>7. \A i \in 1..Len(w) : \A f \in w[i].events : e < f
    <2>. TAKE i \in 1..Len(w)
    <2>. TAKE f \in w[i].events
    <2>1. 1 < k + i - 1
        BY <1>1, <1>3
    <2>2. PICK j \in 1..Len(ls) : j = k + i - 1 /\ w[i] = ls[j]
        BY <1>2
    <2>3. QED BY <1>3, <1>5, <2>1, <2>2 DEF Queued
<1>8. /\ t \in Seq(Nat) /\ Len(t) = Len(s) + 1
      /\ \A i \in 1..Len(s) : t[i] = s[i]
      /\ t[Len(s) + 1] = e
    BY <1>5, AppendProperties
<1>9. /\ DOMAIN t = 1..(Len(s) + 1) /\ DOMAIN s = 1..Len(s) /\ Len(s) \in Nat
      /\ \A d \in 1..(Len(s) + 1) : d \in 1..Len(s) \/ d = Len(s) + 1
    BY <1>8
<1>10. Ascending(t)
    <2>. SUFFICES ASSUME NEW i \in 1..(Len(s) + 1), NEW j \in 1..(Len(s) + 1), i < j
                  PROVE  t[i] < t[j]
        BY <1>9 DEF Ascending
    <2>1. i \in 1..Len(s)
        BY <1>9
    <2>2. CASE j \in 1..Len(s)
        BY <1>8, <1>9, <2>1, <2>2 DEF Queued, Ascending
    <2>3. CASE j = Len(s) + 1
        BY <1>6, <1>8, <1>9, <2>1, <2>3
    <2>4. QED BY <1>9, <2>2, <2>3
<1>11. \A d \in DOMAIN t : t[d] <= g
    BY <1>6, <1>8, <1>9 DEF Queued
<1>12. \A i \in DOMAIN w : \A f \in w[i].events : f <= g /\ \A d \in DOMAIN t : t[d] < f
    BY <1>3, <1>4, <1>7, <1>8, <1>9 DEF Queued
<1>13. QED BY <1>4, <1>8, <1>10, <1>11, <1>12 DEF Queued

(* The service's place in its round.                                       *)
LEMMA FailedIs == ASSUME Asking, Failed PROVE turn' \in 1..Len(Round) /\ UNCHANGED dispatched
<1>1. 1 \in 1..Len(Round)
    BY RoundIs
<1>2. Round[turn] = Report => turn + 1 \in 1..Len(Round)
    BY RoundIs, WordsDiffer DEF Asking
<1>3. QED BY <1>1, <1>2 DEF Failed

LEMMA ProceedsIs ==
    ASSUME Asking, NEW l, Proceeds(l)
    PROVE  /\ turn' \in 1..Len(Round)
           /\ \/ UNCHANGED dispatched /\ (Round[turn] # NextEvent \/ l.events = {} \/ l.glued)
              \/ Round[turn] = NextEvent /\ \E e \in l.events : dispatched' = Append(dispatched, e)
<1>1. PICK w : w = Round[turn]
    OBVIOUS
<1>2. /\ turn <= Len(Checks) => w # NextEvent /\ w # Report
      /\ ~(turn <= Len(Checks)) => w \in {Report, NextEvent}
      /\ turn + 1 \in 1..Len(Round) \/ w = NextEvent
      /\ 1 \in 1..Len(Round)
    BY <1>1, RoundIs DEF Asking
<1>3. CASE turn <= Len(Checks)
    <2>1. turn' = (IF Accepts(l, w) THEN turn + 1 ELSE 1) /\ UNCHANGED dispatched
        BY <1>1, <1>2, <1>3 DEF Proceeds
    <2>2. QED BY <1>1, <1>2, <1>3, <2>1
<1>4. CASE ~(turn <= Len(Checks)) /\ w = Report
    <2>1. turn' = turn + 1 /\ UNCHANGED dispatched
        BY <1>1, <1>4, WordsDiffer DEF Proceeds
    <2>2. QED BY <1>1, <1>2, <1>4, <2>1, WordsDiffer
<1>5. CASE ~(turn <= Len(Checks)) /\ w = NextEvent
    <2>1. /\ turn' = 1
          /\ \/ Dispatches(l.events)
             \/ (l.events = {} \/ l.glued) /\ UNCHANGED dispatched
        BY <1>1, <1>5, WordsDiffer DEF Proceeds
    <2>2. QED BY <1>1, <1>2, <1>5, <2>1 DEF Dispatches
<1>6. QED BY <1>2, <1>3, <1>4, <1>5

LEMMA GivenIs == RInv => Given \in Nat
<1>. SUFFICES ASSUME RInv PROVE Given \in Nat
    OBVIOUS
<1>1. count \in Nat /\ nextSequence \in Nat /\ count <= nextSequence
    BY RingTypes DEF RInv, Numbered
<1>2. QED BY <1>1 DEF Given

LEMMA OrderKept ==
    ASSUME WTypes, InOrder, UNCHANGED <<requests, lines, asked, turn, dispatched>>, Given' = Given
    PROVE  WTypes' /\ InOrder'
<1>1. WTypes'
    BY DEF WTypes, Asking
<1>2. InOrder'
    BY DEF InOrder, Queued
<1>3. QED BY <1>1, <1>2

(* Who quits loses what has come and, if it is the service, goes on.       *)
LEMMA QuitKeepsTypes ==
    ASSUME AInv, WTypes, NEW c \in Client, Quits(c), UNCHANGED requests,
           lines' \in Seq(Line), dispatched' \in Seq(Nat),
           turn' \in 1..Len(Round), c # Service => UNCHANGED turn
    PROVE  WTypes'
<1>1. /\ asked'[c] = Silent
      /\ \A d \in Client \ {c} : asked'[d] = asked[d]
    BY DEF Quits, AInv
<1>2. Asking'
    <2>1. asked'[Service] \in {Silent, Round[turn']}
        <3>1. CASE c = Service
            BY <1>1, <3>1
        <3>2. CASE c # Service
            BY <1>1, <3>2, ExchangeAssumption DEF WTypes, Asking
        <3>3. QED BY <3>1, <3>2
    <2>2. \A d \in Client \ {Service} : asked'[d] \in {Silent, Report}
        BY <1>1 DEF WTypes, Asking
    <2>3. Round' = Round
        BY DEF Round
    <2>4. QED BY <2>1, <2>2, <2>3 DEF Asking
<1>3. QED BY <1>2 DEF WTypes

LEMMA QuitKeeps ==
    ASSUME RInv, AInv, WTypes, InOrder, NEW c \in Client, Quits(c), UNCHANGED requests,
           NEW k \in 1..(Len(lines) + 1), lines' = From(lines, k),
           UNCHANGED dispatched, turn' \in 1..Len(Round), c # Service => UNCHANGED turn,
           Given' = Given
    PROVE  WTypes' /\ InOrder'
<1>1. PICK ls \in Seq(Line) : ls = lines
    BY DEF WTypes
<1>2. PICK w : w = From(ls, k)
    OBVIOUS
<1>3. PICK s \in Seq(Nat) : s = dispatched
    BY DEF WTypes
<1>4. PICK g \in Nat : g = Given
    BY GivenIs
<1>5. Queued(ls, s, g) /\ k \in 1..(Len(ls) + 1)
    BY <1>1, <1>3, <1>4 DEF InOrder
<1>6. w \in Seq(Line) /\ Queued(w, s, g)
    BY <1>2, <1>5, QueuedFrom
<1>7. lines' = w /\ dispatched' = s /\ Given' = g
    BY <1>1, <1>2, <1>3, <1>4
<1>8. InOrder'
    BY <1>6, <1>7 DEF InOrder
<1>9. WTypes'
    BY <1>6, <1>7, QuitKeepsTypes
<1>10. QED BY <1>8, <1>9

LEMMA DispatchKeeps ==
    ASSUME RInv, AInv, WTypes, InOrder, Quits(Service), UNCHANGED requests, lines # <<>>,
           NEW k \in 2..(Len(lines) + 1), lines' = From(lines, k),
           NEW e \in lines[1].events, dispatched' = Append(dispatched, e),
           turn' \in 1..Len(Round), Given' = Given
    PROVE  WTypes' /\ InOrder'
<1>1. PICK ls \in Seq(Line) : ls = lines
    BY DEF WTypes
<1>2. PICK w : w = From(ls, k)
    OBVIOUS
<1>3. PICK s \in Seq(Nat) : s = dispatched
    BY DEF WTypes
<1>4. PICK g \in Nat : g = Given
    BY GivenIs
<1>5. PICK t : t = Append(s, e)
    OBVIOUS
<1>6. Queued(ls, s, g) /\ k \in 2..(Len(ls) + 1) /\ Len(ls) >= 1 /\ e \in ls[1].events
    <2>1. Len(ls) \in Nat /\ Len(ls) # 0
        BY <1>1, EmptySeq
    <2>2. QED BY <1>1, <1>3, <1>4, <2>1 DEF InOrder
<1>7. Queued(w, t, g) /\ t \in Seq(Nat)
    BY <1>2, <1>5, <1>6, QueuedRead
<1>8. w \in Seq(Line)
    BY <1>2, <1>6, QueuedFrom
<1>9. lines' = w /\ dispatched' = t /\ Given' = g
    BY <1>1, <1>2, <1>3, <1>4, <1>5
<1>10. InOrder'
    BY <1>7, <1>9 DEF InOrder
<1>11. WTypes'
    BY <1>7, <1>8, <1>9, ExchangeAssumption, QuitKeepsTypes
<1>12. QED BY <1>10, <1>11

LEMMA LockKeepsOrder ==
    ASSUME AInv, LInv, WTypes, InOrder, NEW c \in Client, LockExchange(c), Given' = Given
    PROVE  WTypes' /\ InOrder'
<1>1. /\ LockStep(c) /\ UNCHANGED <<requests, lines, asked>>
      /\ IF c = Service /\ pc'[c] = "idle" THEN Failed ELSE UNCHANGED <<turn, dispatched>>
    BY DEF LockExchange, port
<1>2. CASE UNCHANGED <<turn, dispatched>>
    BY <1>1, <1>2, OrderKept
<1>3. CASE c = Service /\ Failed
    <2>1. pc[c] # "holding"
        BY <1>1 DEF LockStep, TryLock, Look, RemoveStale, WritePid
    <2>2. asked'[Service] = Silent
        BY <1>1, <1>3, <2>1 DEF AInv
    <2>3. turn' \in 1..Len(Round) /\ UNCHANGED dispatched
        BY <1>3, FailedIs DEF WTypes
    <2>4. Round' = Round
        BY DEF Round
    <2>5. Asking'
        BY <1>1, <2>2, <2>3, <2>4 DEF WTypes, Asking
    <2>6. WTypes'
        BY <1>1, <2>3, <2>5 DEF WTypes
    <2>7. InOrder'
        BY <1>1, <2>3 DEF InOrder, Queued
    <2>8. QED BY <2>6, <2>7
<1>4. QED BY <1>1, <1>2, <1>3

LEMMA NoPortKeepsOrder ==
    ASSUME WTypes, InOrder, NEW c \in Client, NoPort(c), Given' = Given
    PROVE  WTypes' /\ InOrder'
<1>1. /\ UNCHANGED <<requests, lines, asked>> /\ asked[c] = Silent
      /\ IF c = Service THEN Failed ELSE UNCHANGED <<turn, dispatched>>
    BY DEF NoPort, port
<1>2. CASE c # Service
    BY <1>1, <1>2, OrderKept
<1>3. CASE c = Service
    <2>1. turn' \in 1..Len(Round) /\ UNCHANGED dispatched
        BY <1>1, <1>3, FailedIs DEF WTypes
    <2>2. Asking'
        BY <1>1, <1>3, <2>1 DEF WTypes, Asking, Round
    <2>3. WTypes'
        BY <1>1, <2>1, <2>2 DEF WTypes
    <2>4. InOrder'
        BY <1>1, <2>1 DEF InOrder, Queued
    <2>5. QED BY <2>3, <2>4
<1>4. QED BY <1>2, <1>3

\* What a client asks for is a word of the round.
LEMMA CommandIs ==
    ASSUME Asking, NEW c \in Client
    PROVE  /\ Command(c) \in Word /\ Command(c) # Silent
           /\ c = Service => Command(c) = Round[turn]
           /\ c # Service => Command(c) = Report
<1>1. Round[turn] \in Word
    BY RoundIs DEF Asking
<1>2. CASE c = Service
    BY <1>1, <1>2, RoundIs DEF Command
<1>3. CASE c # Service
    BY <1>3, RoundIs DEF Command
<1>4. QED BY <1>2, <1>3

LEMMA AskKeepsOrder ==
    ASSUME RInv, AInv, WTypes, InOrder, NEW c \in Client, Ask(c), Given' = Given
    PROVE  WTypes' /\ InOrder'
<1>1. PICK ls \in Seq(Line) : ls = lines
    BY DEF WTypes
<1>2. PICK k \in 1..(Len(ls) + 1) : lines' = From(ls, k)
    BY <1>1 DEF Ask
<1>3. PICK w : w = From(ls, k)
    OBVIOUS
<1>4. PICK s \in Seq(Nat) : s = dispatched
    BY DEF WTypes
<1>5. PICK g \in Nat : g = Given
    BY GivenIs
<1>6. Queued(ls, s, g)
    BY <1>1, <1>4, <1>5 DEF InOrder
<1>7. w \in Seq(Line) /\ Queued(w, s, g)
    BY <1>3, <1>6, QueuedFrom
<1>8. lines' = w /\ dispatched' = s /\ Given' = g /\ turn' = turn
    BY <1>2, <1>3, <1>4, <1>5 DEF Ask
<1>9. InOrder'
    BY <1>7, <1>8 DEF InOrder
<1>10. PICK word \in Word : word = Command(c)
    BY CommandIs DEF WTypes
<1>11. PICK r \in Request : r = [by |-> c, command |-> word]
    BY DEF Request
<1>12. requests' \in Seq(Request)
    <2>1. requests' = Append(requests, r) /\ requests \in Seq(Request)
        BY <1>10, <1>11 DEF Ask, WTypes
    <2>2. QED BY <2>1, AppendProperties
<1>13. asked'[c] = word /\ \A d \in Client \ {c} : asked'[d] = asked[d]
    BY <1>10 DEF Ask, AInv
<1>14. Asking'
    <2>1. Round' = Round
        BY DEF Round
    <2>2. (c = Service => word = Round[turn]) /\ (c # Service => word = Report)
        BY <1>10, CommandIs DEF WTypes
    <2>3. turn' \in 1..Len(Round)
        BY <1>8 DEF WTypes, Asking
    <2>4. asked'[Service] \in {Silent, Round[turn']}
        <3>1. CASE c = Service
            BY <1>8, <1>13, <2>2, <3>1
        <3>2. CASE c # Service
            BY <1>8, <1>13, <3>2, ExchangeAssumption DEF WTypes, Asking
        <3>3. QED BY <3>1, <3>2
    <2>5. ASSUME NEW d \in Client \ {Service} PROVE asked'[d] \in {Silent, Report}
        <3>1. CASE d = c
            BY <1>13, <2>2, <2>5, <3>1
        <3>2. CASE d # c
            BY <1>13, <2>5, <3>2 DEF WTypes, Asking
        <3>3. QED BY <3>1, <3>2
    <2>6. QED BY <2>1, <2>3, <2>4, <2>5 DEF Asking
<1>15. WTypes'
    BY <1>7, <1>8, <1>12, <1>14 DEF WTypes
<1>16. QED BY <1>9, <1>15

LEMMA ReadKeepsOrder ==
    ASSUME RInv, AInv, WTypes, InOrder, NEW c \in Client, Read(c), Given' = Given
    PROVE  WTypes' /\ InOrder'
<1>1. PICK k \in 2..(Len(lines) + 1) : lines' = From(lines, k)
    BY DEF Read
<1>2. /\ Quits(c) /\ UNCHANGED requests /\ lines # <<>>
      /\ IF c = Service THEN Proceeds(Head(lines)) ELSE UNCHANGED <<turn, dispatched>>
    BY DEF Read
<1>3. k \in 1..(Len(lines) + 1)
    BY <1>1 DEF WTypes
<1>4. CASE c # Service
    <2>1. turn' \in 1..Len(Round)
        BY <1>2, <1>4 DEF WTypes, Asking
    <2>2. QED BY <1>1, <1>2, <1>3, <1>4, <2>1, QuitKeeps
<1>5. CASE c = Service
    <2>1. PICK l : l = Head(lines) /\ l = lines[1]
        BY <1>2 DEF WTypes
    <2>2. /\ turn' \in 1..Len(Round)
          /\ UNCHANGED dispatched \/ \E e \in l.events : dispatched' = Append(dispatched, e)
        BY <1>2, <1>5, <2>1, ProceedsIs DEF WTypes
    <2>3. CASE UNCHANGED dispatched
        BY <1>1, <1>2, <1>3, <1>5, <2>2, <2>3, QuitKeeps
    <2>4. ASSUME NEW e \in l.events, dispatched' = Append(dispatched, e)
          PROVE  WTypes' /\ InOrder'
        BY <1>1, <1>2, <1>5, <2>1, <2>2, <2>4, DispatchKeeps
    <2>5. QED BY <2>2, <2>3, <2>4
<1>6. QED BY <1>4, <1>5

LEMMA GivingUpKeepsOrder ==
    ASSUME RInv, AInv, WTypes, InOrder, NEW c \in Client, TimeOut(c) \/ Kill(c), Given' = Given
    PROVE  WTypes' /\ InOrder'
<1>1. PICK k \in 1..(Len(lines) + 1) : lines' = From(lines, k)
    BY DEF TimeOut, Kill
<1>2. /\ Quits(c) /\ UNCHANGED requests
      /\ IF c = Service THEN Failed ELSE UNCHANGED <<turn, dispatched>>
    BY DEF TimeOut, Kill
<1>3. turn' \in 1..Len(Round) /\ UNCHANGED dispatched /\ (c # Service => UNCHANGED turn)
    <2>1. CASE c = Service
        BY <1>2, <2>1, FailedIs DEF WTypes
    <2>2. CASE c # Service
        BY <1>2, <2>2 DEF WTypes, Asking
    <2>3. QED BY <2>1, <2>2
<1>4. QED BY <1>1, <1>2, <1>3, QuitKeeps

\* The controller answers the oldest request, in full, in part or not at all.
LEMMA ServeKeepsOrder ==
    ASSUME RInv, WTypes, InOrder, Serve
    PROVE  WTypes' /\ InOrder' /\ RInv'
<1>1. PICK r \in Request : r = Head(requests)
    BY HeadTailProperties DEF Serve, WTypes
<1>2. Answered(r) /\ UNCHANGED <<asked, turn, dispatched>> /\ requests' = Tail(requests)
    BY <1>1 DEF Serve
<1>3. PICK a : a = Answer(r)
    OBVIOUS
<1>4. PICK s \in Seq(Nat) : s = dispatched /\ dispatched' = s
    BY <1>2 DEF WTypes
<1>5. PICK g \in Nat : g = Given
    BY GivenIs
<1>6. /\ a \in Line /\ RInv'
      /\ (a.events = {} /\ Given' = g) \/ (a.events = {g + 1} /\ Given' = g + 1)
    BY <1>2, <1>3, <1>5, AnswerIs
<1>7. PICK h \in Nat : h = Given' /\ ((a.events = {} /\ h = g) \/ (a.events = {g + 1} /\ h = g + 1))
    BY <1>6
<1>8. PICK b : b = [a EXCEPT !.ended = FALSE]
    OBVIOUS
<1>9. b \in Line /\ b.events = a.events
    BY <1>6, <1>8 DEF Line
<1>10. Queued(lines, s, g) /\ lines \in Seq(Line)
    BY <1>4, <1>5 DEF InOrder, WTypes
<1>11. lines' \in {lines, Written(a), Written(b)}
    BY <1>1, <1>3, <1>8 DEF Serve
<1>12. lines' \in Seq(Line) /\ Queued(lines', s, h)
    <2>1. PICK u : u = Written(a)
        OBVIOUS
    <2>2. PICK v : v = Written(b)
        OBVIOUS
    <2>3. Queued(u, s, h) /\ Queued(lines, s, h) /\ u \in Seq(Line)
        BY <1>6, <1>7, <1>10, <2>1, QueuedWritten
    <2>4. Queued(v, s, h) /\ v \in Seq(Line)
        <3>1. (b.events = {} /\ h = g) \/ (b.events = {g + 1} /\ h = g + 1)
            BY <1>7, <1>9
        <3>2. QED BY <1>9, <1>10, <2>2, <3>1, QueuedWritten
    <2>5. QED BY <1>10, <1>11, <2>1, <2>2, <2>3, <2>4
<1>13. InOrder'
    BY <1>4, <1>7, <1>12 DEF InOrder
<1>14. requests' \in Seq(Request)
    BY <1>2, HeadTailProperties DEF Serve, WTypes
<1>15. WTypes'
    BY <1>2, <1>4, <1>12, <1>14 DEF WTypes, Asking
<1>16. QED BY <1>6, <1>13, <1>15

LEMMA OrderStep ==
    ASSUME LInv, AInv, RInv, WTypes, InOrder, [ExchangeNext]_exchangeVars
    PROVE  WTypes' /\ InOrder'
<1>1. CASE Serve
    BY <1>1, ServeKeepsOrder
<1>2. CASE Emit
    <2>1. Given' = Given /\ UNCHANGED <<requests, lines, asked, turn, dispatched>>
        BY <1>2, EmitKeeps DEF Emit, port
    <2>2. QED BY <2>1, OrderKept
<1>3. CASE UNCHANGED exchangeVars
    <2>1. Given' = Given /\ UNCHANGED <<requests, lines, asked, turn, dispatched>>
        BY <1>3, RingUnchanged DEF exchangeVars, port
    <2>2. QED BY <2>1, OrderKept
<1>4. ASSUME NEW c \in Client, Step(c) \/ Kill(c)
      PROVE  WTypes' /\ InOrder'
    <2>1. Given' = Given
        BY <1>4, OthersLeaveRing, RingUnchanged
    <2>2. CASE BeginExchange(c)
        <3>1. UNCHANGED <<requests, lines, asked, turn, dispatched>>
            BY <2>2 DEF BeginExchange, port
        <3>2. QED BY <2>1, <3>1, OrderKept
    <2>3. QED BY <1>4, <2>1, <2>2, LockKeepsOrder, NoPortKeepsOrder, AskKeepsOrder, ReadKeepsOrder,
                 GivingUpKeepsOrder DEF Step
<1>5. QED BY <1>1, <1>2, <1>3, <1>4 DEF ExchangeNext
-----------------------------------------------------------------------------
(* While nothing goes wrong.                                               *)
LEMMA NothingOnTheLine == ASSUME lines = <<>> PROVE InFlight = {}
BY DEF InFlight

LEMMA OneOnTheLine == ASSUME NEW l, lines = <<l>> PROVE InFlight = l.events
<1>1. DOMAIN <<l>> = {1} /\ <<l>>[1] = l
    OBVIOUS
<1>2. InFlight = UNION {<<l>>[i].events : i \in {1}}
    BY <1>1 DEF InFlight
<1>3. QED BY <1>1, <1>2

LEMMA SameFlight == ASSUME UNCHANGED lines PROVE InFlight' = InFlight
BY DEF InFlight

\* Steps that touch neither the line nor who waits.
LEMMA CleanKept ==
    ASSUME Clean, UNCHANGED <<requests, lines, asked, dispatched>>, Given' = Given,
           ~spoilt' => ~spoilt /\ ~raced'
    PROVE  Clean'
<1>. SUFFICES ASSUME ~spoilt'
              PROVE  /\ ~raced'
                     /\ \A c \in Client : asked'[c] # Silent => Waits(c)'
                     /\ (\A c \in Client : asked'[c] = Silent) => requests' = <<>> /\ lines' = <<>>
                     /\ 1..Given' = {dispatched'[i] : i \in DOMAIN dispatched'} \cup InFlight'
    BY DEF Clean
<1>1. InFlight' = InFlight
    BY SameFlight
<1>2. \A c \in Client : asked'[c] # Silent => Waits(c)'
    BY DEF Clean, Waits, Whole
<1>3. QED BY <1>1, <1>2 DEF Clean

LEMMA AskKeepsClean ==
    ASSUME LInv, AInv, Asking, Clean, NEW c \in Client, Ask(c), Given' = Given
    PROVE  Clean'
<1>1. /\ pc[c] = "holding" /\ asked[c] = Silent /\ UNCHANGED <<raced, spoilt, dispatched>>
      /\ asked' = [asked EXCEPT ![c] = Command(c)]
      /\ requests' = Append(requests, [by |-> c, command |-> Command(c)])
    BY DEF Ask, lockVars
<1>2. PICK k \in 1..(Len(lines) + 1) : lines' = From(lines, k)
    BY DEF Ask
<1>. SUFFICES ASSUME ~spoilt'
              PROVE  /\ ~raced'
                     /\ \A d \in Client : asked'[d] # Silent => Waits(d)'
                     /\ (\A d \in Client : asked'[d] = Silent) => requests' = <<>> /\ lines' = <<>>
                     /\ 1..Given' = {dispatched'[i] : i \in DOMAIN dispatched'} \cup InFlight'
    BY DEF Clean
<1>3. ~spoilt /\ ~raced
    BY <1>1 DEF Clean
<1>4. \A d \in Client : asked[d] = Silent
    BY <1>1, <1>3, OnlyOwnerAsks DEF Owns
<1>5. requests = <<>> /\ lines = <<>>
    BY <1>3, <1>4 DEF Clean
<1>6. lines' = <<>>
    BY <1>2, <1>5 DEF From
<1>7. PICK r : r = [by |-> c, command |-> Command(c)]
    OBVIOUS
<1>8. requests' = <<r>> /\ r.by = c /\ r.command = Command(c)
    BY <1>1, <1>5, <1>7
<1>9. asked'[c] = Command(c) /\ \A d \in Client \ {c} : asked'[d] = Silent
    BY <1>1, <1>4 DEF AInv
<1>10. Waits(c)'
    BY <1>6, <1>8, <1>9 DEF Waits
<1>11. asked'[c] # Silent
    BY <1>9, CommandIs
<1>12. InFlight' = {} /\ InFlight = {}
    BY <1>5, <1>6 DEF InFlight
<1>13. QED BY <1>1, <1>3, <1>9, <1>10, <1>11, <1>12 DEF Clean

LEMMA ServeKeepsClean ==
    ASSUME RInv, WTypes, Clean, Serve
    PROVE  Clean'
<1>. SUFFICES ASSUME ~spoilt'
              PROVE  /\ ~raced'
                     /\ \A d \in Client : asked'[d] # Silent => Waits(d)'
                     /\ (\A d \in Client : asked'[d] = Silent) => requests' = <<>> /\ lines' = <<>>
                     /\ 1..Given' = {dispatched'[i] : i \in DOMAIN dispatched'} \cup InFlight'
    BY DEF Clean
<1>1. /\ requests # <<>> /\ requests' = Tail(requests) /\ Answered(Head(requests))
      /\ lines' = Written(Answer(Head(requests))) /\ NoFault
      /\ UNCHANGED <<raced, asked, dispatched>>
    BY DEF Serve, Fault, lockVars
<1>2. ~spoilt /\ ~raced
    BY <1>1 DEF NoFault, Clean
<1>3. PICK c \in Client : asked[c] # Silent
    BY <1>1, <1>2 DEF Clean
<1>4. Waits(c)
    BY <1>2, <1>3 DEF Clean
<1>5. Len(requests) = 1 /\ lines = <<>> /\ requests[1].by = c /\ requests[1].command = asked[c]
    BY <1>1, <1>4 DEF Waits
<1>6. PICK r \in Request : r = Head(requests) /\ r = requests[1]
    BY <1>1, HeadTailProperties DEF WTypes
<1>7. requests' = <<>>
    <2>1. requests' \in Seq(Request) /\ Len(requests') = 0
        BY <1>1, <1>5, HeadTailProperties DEF WTypes
    <2>2. QED BY <2>1, EmptySeq
<1>8. PICK a : a = Answer(r)
    OBVIOUS
<1>9. /\ a \in Line /\ ~a.glued /\ a.ended /\ a.by = r.by /\ a.command = r.command
      /\ Given \in Nat
      /\ \/ a.events = {} /\ Given' = Given
         \/ r.command = NextEvent /\ a.events = {Given + 1} /\ Given' = Given + 1
    BY <1>1, <1>6, <1>8, AnswerIs
<1>10. lines' = <<a>>
    BY <1>1, <1>5, <1>6, <1>8 DEF Written
<1>11. Len(lines') = 1 /\ lines'[1] = a
    BY <1>10
<1>12. Whole(a)
    BY <1>9 DEF Whole
<1>13. ASSUME NEW d \in Client, asked'[d] # Silent PROVE Waits(d)'
    <2>1. asked[d] # Silent /\ asked'[d] = asked[d]
        BY <1>1, <1>13
    <2>2. Waits(d)
        BY <1>2, <2>1 DEF Clean
    <2>3. requests[1].by = d /\ requests[1].command = asked[d]
        BY <1>1, <2>2 DEF Waits
    <2>4. a.by = d /\ a.command = asked'[d]
        BY <1>6, <1>9, <2>1, <2>3
    <2>5. Whole(lines[1])'
        BY <1>11, <1>12 DEF Whole
    <2>6. QED BY <1>7, <1>11, <2>4, <2>5 DEF Waits
<1>14. asked'[c] # Silent
    BY <1>1, <1>3
<1>15. InFlight' = a.events
    BY <1>10 DEF InFlight
<1>16. InFlight = {}
    BY <1>5, NothingOnTheLine
<1>17. 1..Given' = (1..Given) \cup a.events
    BY <1>9
<1>18. 1..Given = {dispatched[i] : i \in DOMAIN dispatched}
    BY <1>2, <1>16 DEF Clean
<1>19. 1..Given' = {dispatched'[i] : i \in DOMAIN dispatched'} \cup InFlight'
    BY <1>1, <1>15, <1>17, <1>18
<1>20. QED BY <1>1, <1>2, <1>13, <1>14, <1>19

LEMMA ReadKeepsClean ==
    ASSUME AInv, WTypes, Clean, NEW c \in Client, Read(c), Given' = Given
    PROVE  Clean'
<1>. SUFFICES ASSUME ~spoilt'
              PROVE  /\ ~raced'
                     /\ \A d \in Client : asked'[d] # Silent => Waits(d)'
                     /\ (\A d \in Client : asked'[d] = Silent) => requests' = <<>> /\ lines' = <<>>
                     /\ 1..Given' = {dispatched'[i] : i \in DOMAIN dispatched'} \cup InFlight'
    BY DEF Clean
<1>1. /\ asked[c] # Silent /\ lines # <<>> /\ Gone(c) /\ Quits(c) /\ UNCHANGED <<requests, spoilt>>
      /\ IF c = Service THEN Proceeds(Head(lines)) ELSE UNCHANGED <<turn, dispatched>>
    BY DEF Read, Release
<1>2. PICK k \in 2..(Len(lines) + 1) : lines' = From(lines, k)
    BY DEF Read
<1>3. ~spoilt /\ ~raced /\ ~raced'
    BY <1>1 DEF Clean, Gone
<1>4. Waits(c)
    BY <1>1, <1>3 DEF Clean
<1>5. PICK l : l = lines[1] /\ l = Head(lines)
    BY <1>1 DEF WTypes
<1>6. /\ requests = <<>> /\ Len(lines) = 1 /\ l.by = c /\ l.command = asked[c] /\ Whole(l)
    BY <1>1, <1>4, <1>5 DEF Waits
<1>17. l \in Line
    <2>1. lines \in Seq(Line) /\ 1 \in 1..Len(lines)
        BY <1>6 DEF WTypes
    <2>2. QED BY <1>5, <2>1
<1>7. lines = <<l>>
    <2>1. lines \in Seq(Line) /\ l \in Line
        BY <1>17 DEF WTypes
    <2>2. <<l>> \in Seq(Line) /\ Len(<<l>>) = 1 /\ <<l>>[1] = l
        BY <2>1
    <2>3. Len(lines) = Len(<<l>>) /\ \A i \in 1..Len(lines) : lines[i] = <<l>>[i]
        BY <1>5, <1>6, <2>2
    <2>4. QED BY <2>1, <2>2, <2>3, SeqEqual
<1>8. k = 2
    BY <1>2, <1>6
<1>9. lines' = <<>>
    BY <1>2, <1>6, <1>8, SubSeqEmpty DEF From
<1>10. \A d \in Client : asked'[d] = Silent
    <2>. TAKE d \in Client
    <2>1. CASE d = c
        BY <1>1, <2>1 DEF Quits, AInv
    <2>2. CASE d # c
        <3>1. asked'[d] = asked[d]
            BY <1>1, <2>2 DEF Quits, AInv
        <3>2. asked[d] # Silent => l.by = d
            BY <1>1, <1>3, <1>5, <1>6 DEF Clean, Waits
        <3>3. QED BY <1>6, <2>2, <3>1, <3>2
    <2>3. QED BY <2>1, <2>2
<1>11. InFlight = l.events
    BY <1>7, OneOnTheLine
<1>12. InFlight' = {}
    BY <1>9 DEF InFlight
<1>13. PICK s \in Seq(Nat) : s = dispatched
    BY DEF WTypes
<1>14. 1..Given = {s[i] : i \in DOMAIN s} \cup l.events
    BY <1>3, <1>11, <1>13 DEF Clean
<1>15. {dispatched'[i] : i \in DOMAIN dispatched'} = {s[i] : i \in DOMAIN s} \cup l.events
    <2>1. CASE UNCHANGED dispatched /\ l.events = {}
        BY <1>13, <2>1
    <2>2. ASSUME NEW e, l.events = {e}, dispatched' = Append(dispatched, e)
          PROVE  {dispatched'[i] : i \in DOMAIN dispatched'} = {s[i] : i \in DOMAIN s} \cup l.events
        <3>1. PICK t : t = Append(s, e)
            OBVIOUS
        <3>2. e \in Nat
            <4>1. e \in l.events
                BY <2>2
            <4>2. \A f \in l.events : f \in Nat
                BY <1>17, LineEvents
            <4>3. QED BY <4>1, <4>2
        <3>3. /\ t \in Seq(Nat) /\ Len(t) = Len(s) + 1
              /\ \A i \in 1..Len(s) : t[i] = s[i]
              /\ t[Len(s) + 1] = e
            BY <3>1, <3>2, AppendProperties
        <3>4. /\ DOMAIN t = 1..(Len(s) + 1) /\ DOMAIN s = 1..Len(s)
              /\ \A i \in 1..(Len(s) + 1) : i \in 1..Len(s) \/ i = Len(s) + 1
              /\ Len(s) + 1 \in 1..(Len(s) + 1) /\ \A i \in 1..Len(s) : i \in 1..(Len(s) + 1)
            BY <3>3
        <3>5. {t[i] : i \in DOMAIN t} = {s[i] : i \in DOMAIN s} \cup {e}
            <4>1. ASSUME NEW i \in DOMAIN t PROVE t[i] \in {s[j] : j \in DOMAIN s} \cup {e}
                BY <3>3, <3>4, <4>1
            <4>2. ASSUME NEW i \in DOMAIN s PROVE s[i] \in {t[j] : j \in DOMAIN t}
                BY <3>3, <3>4, <4>2
            <4>3. e \in {t[j] : j \in DOMAIN t}
                BY <3>3, <3>4
            <4>4. QED BY <4>1, <4>2, <4>3
        <3>6. dispatched' = t
            BY <1>13, <2>2, <3>1
        <3>7. {dispatched'[i] : i \in DOMAIN dispatched'} = {t[i] : i \in DOMAIN t}
            BY <3>6
        <3>8. QED BY <2>2, <3>5, <3>7
    <2>3. CASE c # Service
        <3>1. l.command # NextEvent
            BY <1>1, <1>6, <2>3, WordsDiffer DEF WTypes, Asking
        <3>2. l.events = {} /\ UNCHANGED dispatched
            BY <1>1, <1>6, <2>3, <3>1 DEF Whole
        <3>3. QED BY <2>1, <3>2
    <2>4. CASE c = Service
        <3>1. l.command = Round[turn] /\ ~l.glued
            BY <1>1, <1>6, <2>4 DEF WTypes, Asking, Whole
        <3>2. \/ UNCHANGED dispatched /\ (Round[turn] # NextEvent \/ l.events = {} \/ l.glued)
              \/ Round[turn] = NextEvent /\ \E e \in l.events : dispatched' = Append(dispatched, e)
            BY <1>1, <1>5, <2>4, ProceedsIs DEF WTypes
        <3>3. CASE UNCHANGED dispatched /\ (Round[turn] # NextEvent \/ l.events = {})
            <4>1. l.events = {}
                BY <1>6, <3>1, <3>3 DEF Whole
            <4>2. QED BY <2>1, <3>3, <4>1
        <3>4. ASSUME NEW e \in l.events, dispatched' = Append(dispatched, e)
              PROVE  {dispatched'[i] : i \in DOMAIN dispatched'} = {s[i] : i \in DOMAIN s} \cup l.events
            <4>1. l.events = {e}
                BY <1>6, <3>4 DEF Whole
            <4>2. QED BY <2>2, <3>4, <4>1
        <3>5. QED BY <3>1, <3>2, <3>3, <3>4
    <2>5. QED BY <2>3, <2>4
<1>16. QED BY <1>1, <1>3, <1>6, <1>9, <1>10, <1>12, <1>14, <1>15

\* Nobody gives up while his answer is on its way, unless something went wrong.
LEMMA GivingUpSpoils ==
    ASSUME Clean, NEW c \in Client, TimeOut(c) \/ Kill(c)
    PROVE  Clean'
<1>. SUFFICES ASSUME ~spoilt' PROVE FALSE
    BY DEF Clean
<1>1. ~Kill(c)
    BY DEF Kill, Fault
<1>2. asked[c] # Silent /\ Hopeless /\ ~spoilt
    BY <1>1 DEF TimeOut, Fault, NoFault
<1>3. Waits(c)
    BY <1>2 DEF Clean
<1>4. CASE requests = <<>> /\ Len(lines) = 1 /\ Whole(lines[1])
    <2>1. lines # <<>> /\ Head(lines) = lines[1]
        BY <1>4
    <2>2. QED BY <1>2, <1>4, <2>1 DEF Hopeless, Whole
<1>5. CASE Len(requests) = 1
    BY <1>2, <1>5 DEF Hopeless
<1>6. QED BY <1>3, <1>4, <1>5 DEF Waits

LEMMA CleanStep ==
    ASSUME LInv, AInv, RInv, WTypes, Clean, [ExchangeNext]_exchangeVars
    PROVE  Clean'
<1>1. CASE Serve
    BY <1>1, ServeKeepsClean
<1>2. CASE Emit
    <2>1. Given' = Given /\ UNCHANGED <<requests, lines, asked, dispatched, spoilt, raced>>
        BY <1>2, EmitKeeps DEF Emit, port, lockVars
    <2>2. QED BY <2>1, CleanKept DEF Clean
<1>3. CASE UNCHANGED exchangeVars
    <2>1. Given' = Given /\ UNCHANGED <<requests, lines, asked, dispatched, spoilt, raced>>
        BY <1>3, RingUnchanged DEF exchangeVars, port, lockVars
    <2>2. QED BY <2>1, CleanKept DEF Clean
<1>4. ASSUME NEW c \in Client, Step(c) \/ Kill(c)
      PROVE  Clean'
    <2>1. Given' = Given
        BY <1>4, OthersLeaveRing, RingUnchanged
    <2>2. CASE BeginExchange(c)
        <3>1. UNCHANGED <<requests, lines, asked, dispatched, spoilt, raced>>
            BY <2>2 DEF BeginExchange, Begin, port
        <3>2. QED BY <2>1, <3>1, CleanKept DEF Clean
    <2>3. CASE LockExchange(c)
        <3>1. UNCHANGED <<requests, lines, asked>> /\ spoilt' = (spoilt \/ raced')
            BY <2>3 DEF LockExchange, port
        <3>2. UNCHANGED dispatched
            BY <2>3 DEF LockExchange, Failed
        <3>3. QED BY <2>1, <3>1, <3>2, CleanKept
    <2>4. CASE NoPort(c)
        <3>1. UNCHANGED <<requests, lines, asked, spoilt>> /\ Gone(c)
            BY <2>4 DEF NoPort, Release, port
        <3>2. UNCHANGED dispatched
            BY <2>4 DEF NoPort, Failed
        <3>3. ~raced => ~raced'
            BY <3>1 DEF Gone
        <3>4. QED BY <2>1, <3>1, <3>2, <3>3, CleanKept DEF Clean
    <2>5. CASE Ask(c)
        BY <2>1, <2>5, AskKeepsClean DEF WTypes
    <2>6. CASE Read(c)
        BY <2>1, <2>6, ReadKeepsClean
    <2>7. CASE TimeOut(c) \/ Kill(c)
        BY <2>7, GivingUpSpoils
    <2>8. QED BY <1>4, <2>2, <2>3, <2>4, <2>5, <2>6, <2>7 DEF Step
<1>5. QED BY <1>1, <1>2, <1>3, <1>4 DEF ExchangeNext

EInv == LInv /\ AInv /\ RInv /\ WTypes /\ InOrder /\ Clean

LEMMA EInvStarts == ExchangeInit => EInv
<1>. SUFFICES ASSUME ExchangeInit PROVE EInv
    OBVIOUS
<1>1. LInv /\ AInv /\ RInv
    BY LockInitHolds, AInvInit, RingStarts DEF ExchangeInit
<1>2. /\ asked = [c \in Client |-> Silent] /\ turn = 1 /\ requests = <<>> /\ lines = <<>>
      /\ dispatched = <<>> /\ ~spoilt /\ ~raced /\ nextSequence = 0 /\ count = 0
    BY DEF ExchangeInit, LockInit, Init
<1>3. WTypes
    BY <1>2, RoundIs, ExchangeAssumption DEF WTypes, Asking
<1>4. InOrder
    BY <1>2 DEF InOrder, Queued, Ascending
<1>5. Given = 0 /\ InFlight = {}
    BY <1>2, NothingOnTheLine DEF Given
<1>6. 1..Given = {dispatched[i] : i \in DOMAIN dispatched} \cup InFlight
    BY <1>2, <1>5
<1>7. Clean
    BY <1>2, <1>6 DEF Clean
<1>8. QED BY <1>1, <1>3, <1>4, <1>7 DEF EInv

LEMMA EInvStep == EInv /\ [ExchangeNext]_exchangeVars => EInv'
BY LInvStep, AInvStep, RingStep, OrderStep, CleanStep DEF EInv

\* Every event reaches the service once at most and in the order of the button, through
\* late, cut and foreign answers, killed clients and races for the lock; and as long as
\* nothing has gone wrong, every event that left the ring was acted on or is on the line.
THEOREM EventsArrive == ExchangeSpec => []EventsReachService
<1>1. EInv => EventsReachService
    BY DEF EInv, InOrder, Queued, Ascending, Clean, Given, EventsReachService
<1>2. QED BY <1>1, EInvStarts, EInvStep, PTL DEF ExchangeSpec
=============================================================================
