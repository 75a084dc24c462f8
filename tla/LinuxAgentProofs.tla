-------------------------- MODULE LinuxAgentProofs --------------------------
(***************************************************************************)
(* Proofs about module LinuxAgent: its type invariant, that what the agent *)
(* remembers as completed is settled, that a command is run again only     *)
(* after a fault, and that the agent's hub implements CommandQueue.        *)
(*                                                                         *)
(* All four rest on one inductive invariant, Inv: what requests, answers   *)
(* and leases may look like, and what the poll thread's attempt knows of   *)
(* the hub.  The last two add an account each of what faults may cost.     *)
(***************************************************************************)
EXTENDS LinuxAgent, FiniteSetTheorems, TLAPS

Work == call["poll"]

\* The shape of a request or answer, given the lease tokens granted so far.
Sound(r, tokens) ==
    /\ r \in Call
    /\ r.kind \in {"register", "heartbeat"} => r.cmd = 0
    /\ r.stage \in {"idle", "registered"} => r.kind = "register"
    /\ r.stage = "sent" /\ r.kind = "fetch" => r.cmd = 0
    /\ r.kind = "complete" => r.cmd # 0
    /\ r.stage = "executing" => r.kind = "fetch" /\ r.cmd # 0
    /\ r.kind = "fetch" /\ ~r.ok => r.cmd = 0
    /\ r.cmd = 0 <=> r.token = 0
    /\ r.token # 0 => r.token \in tokens

\* Only the poll thread fetches commands and reports results.
CallsSound ==
    /\ \A t \in Thread : Sound(call[t], used)
    /\ call["heartbeat"].kind \in {"register", "heartbeat"}
    /\ \A r \in late : Sound(r, used) /\ r.stage = "sent"

\* The tokens granted are numbered without gaps, a command holds one of them from its
\* first lease on, and a hub that knows no agent has no work.
LeasesKnown ==
    /\ IsFiniteSet(used) /\ used = 1..Cardinality(used)
    /\ \A c \in Command :
          /\ queue[c].token # 0 => queue[c].token \in used
          /\ queue[c].phase \in {"none", "waiting"} => queue[c].token = 0
          /\ queue[c].phase = "leased" => queue[c].token # 0
    /\ device = 0 => \A c \in Command : queue[c].phase \in {"none", "lost"}

\* The poll thread's attempt was granted by the hub as it is now, if its command is not
\* lost, and no other command has its token.
AttemptKnown ==
    Work.cmd # 0 =>
        /\ queue[Work.cmd].phase \in {"leased", "settled", "lost"}
        /\ queue[Work.cmd].phase # "lost" => Work.device = device
        /\ \A c \in Command : queue[c].token = Work.token => c = Work.cmd

\* A result was accepted only if its command is done with, and refused only if the
\* attempt's lease is over.
AnswersTrue ==
    Work.stage = "answered" /\ Work.kind = "complete" =>
        IF Work.ok THEN queue[Work.cmd].phase \in {"settled", "lost"}
        ELSE ~(/\ queue[Work.cmd].phase = "leased"
               /\ queue[Work.cmd].token = Work.token
               /\ ~queue[Work.cmd].expired)

Hub == LeasesKnown /\ AttemptKnown /\ AnswersTrue

Inv == TypeOK /\ CallsSound /\ Hub /\ AckMeansSettled
-----------------------------------------------------------------------------
(* What an agent step can do to the hub's view: the thread's call keeps its *)
(* attempt or drops it.                                                     *)
Keeps(r, next) == next.cmd = r.cmd /\ next.token = r.token /\ next.device = r.device

\* A step of thread t that leaves the hub alone and sends, runs or drops what it has.
AgentMove(t, next) ==
    /\ UNCHANGED hubVars
    /\ call' = [call EXCEPT ![t] = next]
    /\ Sound(next, used) /\ next.stage # "answered"
    /\ t = "heartbeat" => next.kind \in {"register", "heartbeat"}
    /\ next.cmd = 0 \/ Keeps(call[t], next)
    /\ \A r \in late' : Sound(r, used) /\ r.stage = "sent"

\* Such a step keeps what the invariant says of calls, leases and the attempt.
LEMMA AgentMoveKeeps ==
    ASSUME TypeOK, CallsSound, Hub, NEW t \in Thread, NEW next, AgentMove(t, next)
    PROVE  CallsSound' /\ Hub'
<1>1. call \in [Thread -> Call] /\ call' = [call EXCEPT ![t] = next] /\ next \in Call
    BY DEF TypeOK, AgentMove, Sound
<1>2. /\ UNCHANGED <<device, lastDevice, queue, used>>
      /\ Sound(next, used) /\ next.stage # "answered"
      /\ t = "heartbeat" => next.kind \in {"register", "heartbeat"}
      /\ next.cmd = 0 \/ Keeps(call[t], next)
    BY DEF AgentMove, hubVars
<1>3. CallsSound'
    <2>1. \A u \in Thread : Sound(call'[u], used')
        BY <1>1, <1>2 DEF CallsSound
    <2>2. call'["heartbeat"].kind \in {"register", "heartbeat"}
        BY <1>1, <1>2 DEF CallsSound, Thread
    <2>3. \A r \in late' : Sound(r, used') /\ r.stage = "sent"
        BY <1>2 DEF AgentMove
    <2>4. QED BY <2>1, <2>2, <2>3 DEF CallsSound
<1>4. LeasesKnown'
    BY <1>2 DEF Hub, LeasesKnown
<1>5. Work' = IF t = "poll" THEN next ELSE Work
    BY <1>1 DEF Work, Thread
<1>6. AttemptKnown'
    BY <1>2, <1>5 DEF Hub, AttemptKnown, Keeps, Work
<1>7. AnswersTrue'
    BY <1>2, <1>5 DEF Hub, AnswersTrue
<1>8. QED BY <1>3, <1>4, <1>6, <1>7 DEF Hub

LEMMA IdleSound == ASSUME NEW tokens PROVE Sound(Idle, tokens) /\ Idle.cmd = 0 /\ Idle.stage = "idle"
BY AgentAssumption DEF Sound, Idle, Call, Stage, Kind

LEMMA SentSound ==
    ASSUME NEW tokens, NEW kind \in {"register", "heartbeat", "fetch"}, NEW dev \in Nat
    PROVE  /\ Sound(Sent(kind, dev), tokens) /\ Sent(kind, dev).cmd = 0
           /\ Sent(kind, dev).stage = "sent" /\ Sent(kind, dev).kind = kind
BY AgentAssumption DEF Sound, Sent, Idle, Call, Stage, Kind

\* What is under way when a thread gives up is a request the hub may still handle.
LEMMA UnderWaySound ==
    ASSUME CallsSound, NEW threads \in SUBSET Thread
    PROVE  \A r \in late \cup UnderWay(threads) : Sound(r, used) /\ r.stage = "sent"
BY DEF CallsSound, UnderWay
-----------------------------------------------------------------------------
(* The agent's steps.                                                      *)
\* A move of one thread keeps the invariant if what else it changes has its type and
\* what it remembers as completed is settled.
LEMMA MoveKeepsInv ==
    ASSUME Inv, NEW t \in Thread, NEW next, AgentMove(t, next),
           deviceId' \in Nat, started' \in BOOLEAN, waiting' \in BOOLEAN,
           completed' \subseteq Command, runs' \in [Command -> Nat],
           faults' \in 0..MaxFaults, losses' = losses,
           \A c \in completed' : queue[c].phase \in {"settled", "lost"}
    PROVE  Inv'
<1>1. CallsSound' /\ Hub'
    BY AgentMoveKeeps DEF Inv
<1>2. /\ UNCHANGED <<device, lastDevice, queue, used>>
      /\ call' = [call EXCEPT ![t] = next] /\ next \in Call
      /\ \A r \in late' : r \in Call
    BY DEF AgentMove, hubVars, Sound
<1>3. TypeOK'
    BY <1>2 DEF Inv, TypeOK
<1>4. AckMeansSettled'
    BY <1>2 DEF AckMeansSettled
<1>5. QED BY <1>1, <1>3, <1>4 DEF Inv

LEMMA TaskSound ==
    ASSUME NEW tokens, NEW t \in Thread, NEW dev \in Nat
    PROVE  LET next == Sent(TaskKind(t), dev)
           IN  /\ Sound(next, tokens) /\ next.cmd = 0 /\ next.stage = "sent"
               /\ t = "heartbeat" => next.kind = "heartbeat"
<1>1. TaskKind(t) \in {"register", "heartbeat", "fetch"}
    BY DEF TaskKind
<1>2. t = "heartbeat" => TaskKind(t) = "heartbeat"
    BY DEF TaskKind
<1>3. QED BY <1>1, <1>2, SentSound

LEMMA StartTaskKeeps ==
    ASSUME Inv, NEW t \in Thread, StartTask(t) PROVE Inv'
<1>. DEFINE next == IF deviceId = 0 THEN Sent("register", 0) ELSE Sent(TaskKind(t), deviceId)
<1>1. deviceId \in Nat /\ CallsSound
    BY DEF Inv, TypeOK
<1>2. /\ Sound(next, used) /\ next.cmd = 0 /\ next.stage = "sent"
      /\ t = "heartbeat" => next.kind \in {"register", "heartbeat"}
    BY <1>1, TaskSound, SentSound
<1>3. AgentMove(t, next)
    BY <1>1, <1>2 DEF StartTask, Does, AgentMove, CallsSound
<1>4. QED BY <1>3, MoveKeepsInv DEF StartTask, Inv, TypeOK, AckMeansSettled

LEMMA ContinueTaskKeeps ==
    ASSUME Inv, NEW t \in Thread, ContinueTask(t) PROVE Inv'
<1>. DEFINE next == IF waiting THEN Idle ELSE Sent(TaskKind(t), call[t].device)
<1>1. call[t].device \in Nat /\ CallsSound
    BY DEF Inv, TypeOK, Call
<1>2. /\ Sound(next, used) /\ next.cmd = 0 /\ next.stage # "answered"
      /\ t = "heartbeat" => next.kind \in {"register", "heartbeat"}
    BY <1>1, TaskSound, IdleSound DEF Idle
<1>3. AgentMove(t, next)
    BY <1>1, <1>2 DEF ContinueTask, Does, AgentMove, CallsSound
<1>4. QED BY <1>3, MoveKeepsInv DEF ContinueTask, Inv, TypeOK, AckMeansSettled

\* Dropping the call is always such a move.
LEMMA DropMove ==
    ASSUME CallsSound, NEW t \in Thread, Does(t, Idle), UNCHANGED <<hubVars, late>>
    PROVE  AgentMove(t, Idle)
BY IdleSound DEF Does, AgentMove, CallsSound, Idle

LEMMA ReceiveRegisterKeeps ==
    ASSUME Inv, NEW t \in Thread, call[t].stage = "answered", ReceiveRegister(t),
           UNCHANGED <<hubVars, late, faults, losses>>
    PROVE  Inv'
<1>. DEFINE next == IF started THEN [call[t] EXCEPT !.stage = "registered"] ELSE Idle
<1>1. call[t] \in Call /\ Sound(call[t], used) /\ call[t].kind = "register"
    BY DEF Inv, CallsSound, ReceiveRegister, TypeOK
<1>2. /\ Sound(next, used) /\ next.cmd = 0 /\ next.stage # "answered" /\ next.kind = "register"
    BY <1>1, IdleSound DEF Sound, Call, Stage, Idle
<1>3. AgentMove(t, next)
    BY <1>2 DEF ReceiveRegister, Does, AgentMove, Inv, CallsSound
<1>4. call[t].device \in Nat
    BY <1>1 DEF Call
<1>5. QED
    BY <1>3, <1>4, MoveKeepsInv DEF ReceiveRegister, Succeed, Inv, TypeOK, AckMeansSettled

LEMMA ReceiveHeartbeatKeeps ==
    ASSUME Inv, NEW t \in Thread, ReceiveHeartbeat(t),
           UNCHANGED <<hubVars, late, faults, losses>>
    PROVE  Inv'
<1>1. AgentMove(t, Idle)
    BY DropMove DEF ReceiveHeartbeat, Inv
<1>2. waiting' \in BOOLEAN
    BY DEF ReceiveHeartbeat, Succeed, Fail
<1>3. deviceId' \in Nat
    BY DEF ReceiveHeartbeat, Inv, TypeOK
<1>4. QED BY <1>1, <1>2, <1>3, MoveKeepsInv DEF ReceiveHeartbeat, Inv, TypeOK, AckMeansSettled

LEMMA ReceiveFetchKeeps ==
    ASSUME Inv, NEW t \in Thread, call[t].stage = "answered", ReceiveFetch(t),
           UNCHANGED <<hubVars, late, faults, losses>>
    PROVE  Inv'
<1>0. waiting' \in BOOLEAN
    BY DEF ReceiveFetch, Succeed, Fail
<1>1. CASE call[t].ok /\ call[t].cmd # 0 /\ call[t].cmd \notin completed
    <2>. DEFINE next == [call[t] EXCEPT !.stage = "executing"]
    <2>1. call[t] \in Call /\ Sound(call[t], used) /\ call[t].kind = "fetch" /\ t # "heartbeat"
        BY DEF Inv, CallsSound, ReceiveFetch, TypeOK
    <2>2. Sound(next, used) /\ Keeps(call[t], next) /\ next.stage # "answered"
        BY <1>1, <2>1 DEF Sound, Call, Stage, Keeps
    <2>3. AgentMove(t, next)
        BY <1>1, <2>1, <2>2 DEF ReceiveFetch, Does, AgentMove, Inv, CallsSound
    <2>4. runs' = [runs EXCEPT ![call[t].cmd] = @ + 1] /\ runs \in [Command -> Nat]
        BY <1>1 DEF ReceiveFetch, Inv, TypeOK
    <2>5. call[t].cmd \in Command
        BY <1>1, <2>1 DEF Call
    <2>6. runs' \in [Command -> Nat]
        BY <2>4, <2>5
    <2>7. QED BY <1>0, <2>3, <2>6, MoveKeepsInv DEF ReceiveFetch, Inv, TypeOK, AckMeansSettled
<1>2. CASE ~(call[t].ok /\ call[t].cmd # 0 /\ call[t].cmd \notin completed)
    <2>1. AgentMove(t, Idle)
        BY <1>2, DropMove DEF ReceiveFetch, Inv
    <2>2. QED BY <1>0, <1>2, <2>1, MoveKeepsInv DEF ReceiveFetch, Inv, TypeOK, AckMeansSettled
<1>3. QED BY <1>1, <1>2

LEMMA ReceiveCompleteKeeps ==
    ASSUME Inv, NEW t \in Thread, call[t].stage = "answered", ReceiveComplete(t),
           UNCHANGED <<hubVars, late, faults, losses>>
    PROVE  Inv'
<1>1. AgentMove(t, Idle)
    BY DropMove DEF ReceiveComplete, Inv
<1>2. /\ t = "poll" /\ Work.kind = "complete" /\ Work.stage = "answered"
      /\ Work.cmd \in Command
    BY DEF ReceiveComplete, Inv, CallsSound, Sound, Call, Work, Thread
<1>3. Work.ok => queue[Work.cmd].phase \in {"settled", "lost"}
    BY <1>2 DEF Inv, Hub, AnswersTrue
<1>4. /\ completed' \subseteq Command
      /\ \A c \in completed' : queue[c].phase \in {"settled", "lost"}
    BY <1>2, <1>3 DEF ReceiveComplete, Inv, TypeOK, AckMeansSettled, Work
<1>5. waiting' \in BOOLEAN
    BY DEF ReceiveComplete, Succeed, Fail
<1>6. QED BY <1>1, <1>4, <1>5, MoveKeepsInv DEF ReceiveComplete, Inv, TypeOK

LEMMA ReportResultKeeps ==
    ASSUME Inv, NEW t \in Thread, ReportResult(t) PROVE Inv'
<1>. DEFINE next == [call[t] EXCEPT !.stage = "sent", !.kind = "complete", !.ok = FALSE]
<1>1. /\ call[t] \in Call /\ Sound(call[t], used)
      /\ call[t].kind = "fetch" /\ call[t].cmd # 0 /\ t # "heartbeat"
    BY DEF Inv, CallsSound, ReportResult, Sound, TypeOK
<1>2. next \in Call /\ next.stage = "sent" /\ next.kind = "complete" /\ Keeps(call[t], next)
    BY <1>1 DEF Call, Stage, Kind, Keeps
<1>3. Sound(next, used)
    BY <1>1, <1>2 DEF Sound, Keeps
<1>4. AgentMove(t, next)
    BY <1>1, <1>2, <1>3 DEF ReportResult, Does, AgentMove, Inv, CallsSound
<1>5. QED BY <1>4, MoveKeepsInv DEF ReportResult, Inv, TypeOK, AckMeansSettled

LEMMA TimeOutKeeps ==
    ASSUME Inv, NEW t \in Thread, TimeOut(t) PROVE Inv'
<1>1. \A r \in late' : Sound(r, used) /\ r.stage = "sent"
    BY UnderWaySound DEF TimeOut, Inv
<1>2. AgentMove(t, Idle)
    BY <1>1, IdleSound DEF TimeOut, Does, AgentMove, Idle
<1>3. faults' \in 0..MaxFaults /\ waiting' \in BOOLEAN
    BY AgentAssumption DEF TimeOut, Fail, Inv, TypeOK
<1>4. QED BY <1>2, <1>3, MoveKeepsInv DEF TimeOut, Inv, TypeOK, AckMeansSettled

LEMMA BackoffElapsesKeeps ==
    ASSUME Inv, BackoffElapses PROVE Inv'
<1>1. TypeOK'
    BY DEF Inv, TypeOK, BackoffElapses, hubVars
<1>2. CallsSound' /\ Hub' /\ AckMeansSettled'
    BY DEF Inv, CallsSound, Hub, LeasesKnown, AttemptKnown, AnswersTrue, AckMeansSettled,
           Work, BackoffElapses, hubVars
<1>3. QED BY <1>1, <1>2 DEF Inv

LEMMA CrashKeeps ==
    ASSUME Inv, Crash PROVE Inv'
<1>1. /\ UNCHANGED <<device, lastDevice, queue, used, runs, losses>>
      /\ deviceId' = 0 /\ started' = FALSE /\ waiting' = FALSE /\ completed' = {}
      /\ call' = [t \in Thread |-> IF t = "poll" THEN Sent("register", 0) ELSE Idle]
    BY DEF Crash, hubVars
<1>2. \A t \in Thread : /\ Sound(call'[t], used) /\ call'[t].cmd = 0
                        /\ call'[t].kind = "register" /\ call'[t].stage # "answered"
    BY <1>1, IdleSound, SentSound DEF Idle
<1>3. \A r \in late' : Sound(r, used) /\ r.stage = "sent"
    BY UnderWaySound DEF Crash, Inv
<1>4. faults' \in 0..MaxFaults
    BY AgentAssumption DEF Crash, Inv, TypeOK
<1>5. call' \in [Thread -> Call] /\ \A r \in late' : r \in Call
    BY <1>1, <1>2, <1>3 DEF Sound
<1>6. TypeOK'
    BY <1>1, <1>4, <1>5 DEF Inv, TypeOK
<1>7. CallsSound'
    BY <1>1, <1>2, <1>3 DEF CallsSound, Thread
<1>8. Hub' /\ AckMeansSettled'
    BY <1>1, <1>2 DEF Inv, Hub, LeasesKnown, AttemptKnown, AnswersTrue, AckMeansSettled,
                      Work, Thread
<1>9. QED BY <1>6, <1>7, <1>8 DEF Inv
-----------------------------------------------------------------------------
(* The hub's steps.  Handling a request does one of three things to the    *)
(* queue, whoever waits for the answer.                                    *)
Leased(token) == [phase |-> "leased", token |-> token, expired |-> FALSE]

Grants(r, answer, c) ==
    /\ r.kind = "fetch" /\ r.device = device /\ Claimable(c)
    /\ queue' = [queue EXCEPT ![c] = Leased(NextToken)]
    /\ used' = used \cup {NextToken}
    /\ UNCHANGED device
    /\ answer.cmd = c /\ answer.token = NextToken /\ answer.device = device

Settles(r, answer) ==
    /\ r.kind = "complete" /\ Holds(r)
    /\ queue' = [queue EXCEPT ![r.cmd] = Settled(r.token)]
    /\ UNCHANGED <<used, device>>
    /\ Keeps(r, answer) /\ answer.ok

LeavesQueue(r, answer) ==
    /\ UNCHANGED <<queue, used>>
    /\ device # 0 => UNCHANGED device
    /\ answer.cmd = r.cmd /\ answer.token = r.token
    /\ r.kind # "register" => UNCHANGED device /\ Keeps(r, answer)
    /\ r.kind = "complete" => ~answer.ok /\ ~Holds(r)

Handled(r, answer) ==
    /\ Sound(answer, used') /\ answer.stage = "answered" /\ answer.kind = r.kind
    /\ \/ \E c \in Command : Grants(r, answer, c)
       \/ Settles(r, answer)
       \/ LeavesQueue(r, answer)

LEMMA AnsweredIs ==
    ASSUME NEW r \in Call, NEW ok \in BOOLEAN
    PROVE  /\ Answered(r, ok) \in Call /\ Keeps(r, Answered(r, ok))
           /\ Answered(r, ok).stage = "answered" /\ Answered(r, ok).kind = r.kind
           /\ Answered(r, ok).ok = ok
BY DEF Answered, Call, Stage, Keeps

LEMMA WithDevice ==
    ASSUME NEW a \in Call, NEW dev \in Nat
    PROVE  LET b == [a EXCEPT !.device = dev]
           IN  /\ b \in Call /\ b.device = dev /\ b.stage = a.stage /\ b.kind = a.kind
               /\ b.cmd = a.cmd /\ b.token = a.token /\ b.ok = a.ok
BY DEF Call

WithAttempt(a, c, token) == [a EXCEPT !.cmd = c, !.token = token]

LEMMA WithAttemptIs ==
    ASSUME NEW a \in Call, NEW c \in Command, NEW token \in Nat
    PROVE  LET b == WithAttempt(a, c, token)
           IN  /\ b \in Call /\ b.cmd = c /\ b.token = token /\ b.stage = a.stage
               /\ b.kind = a.kind /\ b.device = a.device /\ b.ok = a.ok
<1>1. PICK b : b = WithAttempt(a, c, token)
    OBVIOUS
<1>2. PICK b1 : b1 = [a EXCEPT !.cmd = c]
    OBVIOUS
<1>3. /\ b1 \in Call /\ b1.cmd = c /\ b1.token = a.token /\ b1.stage = a.stage
      /\ b1.kind = a.kind /\ b1.device = a.device /\ b1.ok = a.ok
    BY <1>2 DEF Call
<1>4. b = [b1 EXCEPT !.token = token]
    BY <1>1, <1>2 DEF WithAttempt
<1>5. QED BY <1>1, <1>3, <1>4 DEF Call

LEMMA NextTokenNew ==
    ASSUME Inv
    PROVE  /\ NextToken \in Nat \ {0} /\ NextToken \notin used
           /\ Cardinality(used) \in Nat
           /\ used' = used \cup {NextToken} =>
                 IsFiniteSet(used') /\ used' = 1..Cardinality(used')
                 /\ Cardinality(used') = NextToken
<1>1. IsFiniteSet(used) /\ used = 1..Cardinality(used)
    BY DEF Inv, Hub, LeasesKnown
<1>. DEFINE n == Cardinality(used)
<1>2. n \in Nat
    BY <1>1, FS_CardinalityType
<1>. HIDE DEF n
<1>3. NextToken = n + 1 /\ used = 1..n
    BY <1>1 DEF NextToken, n
<1>4. NextToken \in Nat \ {0} /\ NextToken \notin used
    BY <1>2, <1>3
<1>5. ASSUME used' = used \cup {NextToken}
      PROVE  IsFiniteSet(used') /\ used' = 1..Cardinality(used') /\ Cardinality(used') = NextToken
    <2>1. used' = 1..(n + 1)
        BY <1>2, <1>3, <1>5
    <2>2. IsFiniteSet(1..(n + 1)) /\ Cardinality(1..(n + 1)) = n + 1
        BY <1>2, FS_Interval
    <2>3. QED BY <1>3, <2>1, <2>2
<1>6. QED BY <1>2, <1>4, <1>5 DEF n

LEMMA HandleRegisterDoes ==
    ASSUME Inv, NEW t, NEW r, Sound(r, used), r.stage = "sent", HandleRegister(r, t)
    PROVE  /\ device' \in Nat /\ lastDevice' \in Nat
           /\ \E answer : Handled(r, answer) /\ Deliver(t, answer)
<1>1. device \in Nat /\ lastDevice \in Nat /\ r \in Call
    BY DEF Inv, TypeOK, Sound
<1>2. device' \in Nat /\ lastDevice' \in Nat
    BY <1>1 DEF HandleRegister
<1>. DEFINE answer == [Answered(r, TRUE) EXCEPT !.device = device']
<1>3. /\ answer \in Call /\ answer.cmd = r.cmd /\ answer.token = r.token
      /\ answer.stage = "answered" /\ answer.kind = "register" /\ r.kind = "register"
    <2>1. /\ Answered(r, TRUE) \in Call /\ Keeps(r, Answered(r, TRUE))
          /\ Answered(r, TRUE).stage = "answered" /\ Answered(r, TRUE).kind = r.kind
        BY <1>1, AnsweredIs
    <2>2. r.kind = "register"
        BY DEF HandleRegister
    <2>3. QED BY <1>2, <2>1, <2>2, WithDevice DEF Keeps
<1>4. UNCHANGED <<queue, used>> /\ (device # 0 => UNCHANGED device)
    BY DEF HandleRegister
<1>5. Sound(answer, used')
    BY <1>3, <1>4 DEF Sound
<1>6. LeavesQueue(r, answer)
    BY <1>3, <1>4 DEF LeavesQueue
<1>7. Handled(r, answer)
    BY <1>3, <1>5, <1>6 DEF Handled
<1>8. Deliver(t, answer)
    BY DEF HandleRegister
<1>. HIDE DEF answer
<1>9. QED BY <1>2, <1>7, <1>8

LEMMA HandleHeartbeatDoes ==
    ASSUME Inv, NEW t, NEW r, Sound(r, used), r.stage = "sent", HandleHeartbeat(r, t)
    PROVE  /\ device' \in Nat /\ lastDevice' \in Nat
           /\ \E answer : Handled(r, answer) /\ Deliver(t, answer)
<1>. DEFINE answer == Answered(r, r.device = device)
<1>1. r \in Call /\ r.kind = "heartbeat" /\ UNCHANGED <<device, lastDevice, queue, used>>
    BY DEF Sound, HandleHeartbeat, hubVars
<1>2. /\ answer \in Call /\ Keeps(r, answer) /\ answer.stage = "answered"
      /\ answer.kind = r.kind
    BY <1>1, AnsweredIs
<1>3. Sound(answer, used') /\ LeavesQueue(r, answer)
    BY <1>1, <1>2 DEF Sound, LeavesQueue, Keeps
<1>4. Handled(r, answer) /\ Deliver(t, answer)
    BY <1>2, <1>3 DEF Handled, HandleHeartbeat
<1>. HIDE DEF answer
<1>5. QED BY <1>1, <1>4 DEF Inv, TypeOK

LEMMA HandleFetchDoes ==
    ASSUME Inv, NEW t, NEW r, Sound(r, used), r.stage = "sent", HandleFetch(r, t)
    PROVE  /\ device' \in Nat /\ lastDevice' \in Nat
           /\ \E answer : Handled(r, answer) /\ Deliver(t, answer)
<1>1. r \in Call /\ r.kind = "fetch" /\ r.cmd = 0 /\ r.token = 0
    BY DEF Sound, HandleFetch
<1>2. ASSUME NEW ok \in BOOLEAN, Deliver(t, Answered(r, ok)), UNCHANGED hubVars
      PROVE  \E answer : Handled(r, answer) /\ Deliver(t, answer)
    <2>. DEFINE answer == Answered(r, ok)
    <2>1. /\ answer \in Call /\ Keeps(r, answer) /\ answer.stage = "answered"
          /\ answer.kind = r.kind
        BY <1>1, AnsweredIs
    <2>2. Sound(answer, used') /\ LeavesQueue(r, answer)
        BY <1>1, <1>2, <2>1 DEF Sound, LeavesQueue, Keeps, hubVars
    <2>3. Handled(r, answer) /\ Deliver(t, answer)
        BY <1>2, <2>1, <2>2 DEF Handled
    <2>. HIDE DEF answer
    <2>4. QED BY <2>3
<1>3. ASSUME NEW c \in Command, Claimable(c), r.device = device,
             queue' = [queue EXCEPT ![c] = [phase |-> "leased", token |-> NextToken,
                                            expired |-> FALSE]],
             used' = used \cup {NextToken}, UNCHANGED device,
             Deliver(t, WithAttempt(Answered(r, TRUE), c, NextToken))
      PROVE  \E answer : Handled(r, answer) /\ Deliver(t, answer)
    <2>. DEFINE answer == WithAttempt(Answered(r, TRUE), c, NextToken)
    <2>1. NextToken \in Nat \ {0} /\ c # 0
        BY NextTokenNew, AgentAssumption
    <2>2. /\ answer \in Call /\ answer.stage = "answered" /\ answer.kind = "fetch"
          /\ answer.cmd = c /\ answer.token = NextToken /\ answer.device = r.device
          /\ answer.ok = TRUE
        <3>1. /\ Answered(r, TRUE) \in Call /\ Keeps(r, Answered(r, TRUE))
              /\ Answered(r, TRUE).stage = "answered" /\ Answered(r, TRUE).kind = "fetch"
              /\ Answered(r, TRUE).ok = TRUE
            BY <1>1, AnsweredIs
        <3>2. QED BY <2>1, <3>1, WithAttemptIs DEF Keeps
    <2>3. Sound(answer, used')
        <3>1. NextToken \in used'
            BY <1>3
        <3>. HIDE DEF answer
        <3>2. QED BY <2>1, <2>2, <3>1 DEF Sound
    <2>4. Grants(r, answer, c)
        BY <1>1, <1>3, <2>2 DEF Grants, Leased
    <2>5. Handled(r, answer) /\ Deliver(t, answer)
        BY <1>1, <1>3, <2>2, <2>3, <2>4 DEF Handled
    <2>. HIDE DEF answer
    <2>6. QED BY <2>5
<1>4. UNCHANGED <<device, lastDevice>>
    BY DEF HandleFetch, hubVars
<1>5. QED BY <1>2, <1>3, <1>4 DEF HandleFetch, WithAttempt, Inv, TypeOK

LEMMA HandleCompleteDoes ==
    ASSUME Inv, NEW t, NEW r, Sound(r, used), r.stage = "sent", HandleComplete(r, t)
    PROVE  /\ device' \in Nat /\ lastDevice' \in Nat
           /\ \E answer : Handled(r, answer) /\ Deliver(t, answer)
<1>. DEFINE answer == Answered(r, Holds(r))
<1>1. r \in Call /\ r.kind = "complete" /\ UNCHANGED <<device, lastDevice, used>>
    BY DEF Sound, HandleComplete
<1>2. Holds(r) \in BOOLEAN
    BY DEF Holds
<1>3. /\ answer \in Call /\ Keeps(r, answer) /\ answer.stage = "answered"
      /\ answer.kind = r.kind /\ answer.ok = Holds(r)
    BY <1>1, <1>2, AnsweredIs
<1>4. Sound(answer, used')
    BY <1>1, <1>3 DEF Sound, Keeps
<1>5. Deliver(t, answer)
    BY DEF HandleComplete
<1>. HIDE DEF answer
<1>6. CASE Holds(r)
    <2>1. Settles(r, answer)
        BY <1>1, <1>3, <1>6 DEF Settles, HandleComplete
    <2>2. QED BY <1>1, <1>3, <1>4, <1>5, <2>1 DEF Handled, Inv, TypeOK
<1>7. CASE ~Holds(r)
    <2>1. LeavesQueue(r, answer)
        BY <1>1, <1>3, <1>7 DEF LeavesQueue, HandleComplete, Keeps
    <2>2. QED BY <1>1, <1>3, <1>4, <1>5, <2>1 DEF Handled, Inv, TypeOK
<1>8. QED BY <1>6, <1>7

\* Handling a request has one of the three effects, and gives one answer.
LEMMA HandleDoes ==
    ASSUME Inv, NEW t, NEW r, Sound(r, used), r.stage = "sent", Handle(r, t)
    PROVE  /\ device' \in Nat /\ lastDevice' \in Nat
           /\ \E answer : Handled(r, answer) /\ Deliver(t, answer)
BY HandleRegisterDoes, HandleHeartbeatDoes, HandleFetchDoes, HandleCompleteDoes DEF Handle

\* Whatever request is handled, leases stay as the invariant has them and a command that
\* is done with stays so.
LEMMA HandledKeepsLeases ==
    ASSUME Inv, NEW r, NEW answer, Sound(r, used), Handled(r, answer), device' \in Nat
    PROVE  /\ LeasesKnown'
           /\ queue' \in [Command -> [phase : Phase, token : Nat, expired : BOOLEAN]]
           /\ used \subseteq used' /\ used' \subseteq Nat
           /\ \A c \in Command : queue[c].phase \in {"settled", "lost"} =>
                                    queue'[c].phase \in {"settled", "lost"}
<1>0. /\ queue \in [Command -> [phase : Phase, token : Nat, expired : BOOLEAN]]
      /\ used \subseteq Nat /\ device \in Nat
    BY DEF Inv, TypeOK
<1>1. LeasesKnown
    BY DEF Inv, Hub
<1>3. CASE \E c \in Command : Grants(r, answer, c)
    <2>1. PICK c \in Command : Grants(r, answer, c)
        BY <1>3
    <2>2. /\ NextToken \in Nat \ {0} /\ used' = used \cup {NextToken}
          /\ IsFiniteSet(used') /\ used' = 1..Cardinality(used')
        BY <2>1, NextTokenNew DEF Grants
    <2>3. queue' = [queue EXCEPT ![c] = Leased(NextToken)] /\ device' = device /\ Claimable(c)
        BY <2>1 DEF Grants
    <2>4. Leased(NextToken) \in [phase : Phase, token : Nat, expired : BOOLEAN]
        BY <2>2 DEF Leased, Phase
    <2>5. \A b \in Command : queue'[b] = IF b = c THEN Leased(NextToken) ELSE queue[b]
        BY <1>0, <2>3
    <2>6. device = 0 => queue[c].phase \in {"none", "lost"}
        BY <1>1 DEF LeasesKnown
    <2>7. device # 0
        BY <2>3, <2>6 DEF Claimable
    <2>8. LeasesKnown'
        <3>1. \A b \in Command :
                 /\ queue'[b].token # 0 => queue'[b].token \in used'
                 /\ queue'[b].phase \in {"none", "waiting"} => queue'[b].token = 0
                 /\ queue'[b].phase = "leased" => queue'[b].token # 0
            BY <1>1, <2>2, <2>5 DEF LeasesKnown, Leased
        <3>2. device' # 0
            BY <2>3, <2>7
        <3>3. QED BY <2>2, <3>1, <3>2 DEF LeasesKnown
    <2>9. \A b \in Command : queue[b].phase \in {"settled", "lost"} =>
                                queue'[b].phase \in {"settled", "lost"}
        BY <2>3, <2>5 DEF Claimable
    <2>10. queue' \in [Command -> [phase : Phase, token : Nat, expired : BOOLEAN]]
        BY <1>0, <2>3, <2>4
    <2>11. QED BY <1>0, <2>2, <2>8, <2>9, <2>10
<1>4. CASE Settles(r, answer)
    <2>1. /\ queue' = [queue EXCEPT ![r.cmd] = Settled(r.token)] /\ used' = used
          /\ device' = device /\ Holds(r)
        BY <1>4 DEF Settles
    <2>2. r.cmd \in Command /\ r.token \in Nat
        BY <1>4 DEF Settles, Sound, Call
    <2>3. Settled(r.token) \in [phase : Phase, token : Nat, expired : BOOLEAN]
        BY <2>2 DEF Settled, Phase
    <2>4. \A b \in Command : queue'[b] = IF b = r.cmd THEN Settled(r.token) ELSE queue[b]
        BY <1>0, <2>1
    <2>5. queue[r.cmd].token = r.token /\ queue[r.cmd].phase = "leased"
        BY <2>1 DEF Holds
    <2>6. device # 0
        BY <1>1, <2>2, <2>5 DEF LeasesKnown
    <2>7. LeasesKnown'
        BY <1>1, <2>1, <2>4, <2>5, <2>6, <2>2 DEF LeasesKnown, Settled
    <2>8. \A b \in Command : queue[b].phase \in {"settled", "lost"} =>
                                queue'[b].phase \in {"settled", "lost"}
        BY <2>4 DEF Settled
    <2>9. QED BY <1>0, <2>1, <2>3, <2>7, <2>8
<1>5. CASE LeavesQueue(r, answer)
    <2>1. UNCHANGED <<queue, used>> /\ (device # 0 => device' = device)
        BY <1>5 DEF LeavesQueue
    <2>2. device' = 0 => device = 0
        BY <2>1
    <2>3. QED BY <1>0, <1>1, <2>1, <2>2 DEF LeasesKnown
<1>6. QED BY <1>3, <1>4, <1>5 DEF Handled

\* A request of somebody else, or one nobody waits for, leaves the poll thread's
\* attempt as the invariant has it.
LEMMA HandledKeepsAttempt ==
    ASSUME Inv, NEW r, NEW answer, Sound(r, used), Handled(r, answer), Work' = Work
    PROVE  AttemptKnown' /\ AnswersTrue'
<1>0. queue \in [Command -> [phase : Phase, token : Nat, expired : BOOLEAN]]
    BY DEF Inv, TypeOK
<1>1. LeasesKnown /\ AttemptKnown /\ AnswersTrue /\ Sound(Work, used)
    BY DEF Inv, Hub, CallsSound, Work, Thread
<1>2. Work.cmd \in Command \cup {0} /\ (Work.token # 0 => Work.token \in used)
    BY <1>1 DEF Sound, Call
<1>3. CASE \E c \in Command : Grants(r, answer, c)
    <2>1. PICK c \in Command : Grants(r, answer, c)
        BY <1>3
    <2>2. NextToken \in Nat \ {0} /\ NextToken \notin used
        BY NextTokenNew
    <2>3. queue' = [queue EXCEPT ![c] = Leased(NextToken)] /\ device' = device /\ Claimable(c)
        BY <2>1 DEF Grants
    <2>4. \A b \in Command : queue'[b] = IF b = c THEN Leased(NextToken) ELSE queue[b]
        BY <1>0, <2>3
    <2>5. Work.cmd # 0 => Work.token # NextToken /\ Work.token # 0
        BY <1>1, <1>2, <2>2 DEF Sound
    <2>6. AttemptKnown'
        BY <1>1, <1>2, <2>2, <2>3, <2>4, <2>5 DEF AttemptKnown, Leased, Claimable
    <2>7. Work.kind = "complete" => Work.cmd # 0
        BY <1>1 DEF Sound
    <2>8. AnswersTrue'
        BY <1>1, <1>2, <2>3, <2>4, <2>5, <2>7 DEF AnswersTrue, Leased, Claimable
    <2>9. QED BY <2>6, <2>8
<1>4. CASE Settles(r, answer)
    <2>1. /\ queue' = [queue EXCEPT ![r.cmd] = Settled(r.token)] /\ used' = used
          /\ device' = device /\ Holds(r)
        BY <1>4 DEF Settles
    <2>2. \A b \in Command : queue'[b] = IF b = r.cmd THEN Settled(r.token) ELSE queue[b]
        BY <1>0, <2>1
    <2>3. queue[r.cmd].token = r.token /\ queue[r.cmd].phase = "leased"
        BY <2>1 DEF Holds
    <2>4. AttemptKnown'
        BY <1>1, <1>2, <2>1, <2>2, <2>3 DEF AttemptKnown, Settled
    <2>5. Work.kind = "complete" => Work.cmd # 0
        BY <1>1 DEF Sound
    <2>6. AnswersTrue'
        BY <1>1, <1>2, <2>2, <2>3, <2>5 DEF AnswersTrue, Settled
    <2>7. QED BY <2>4, <2>6
<1>5. CASE LeavesQueue(r, answer)
    <2>1. UNCHANGED <<queue, used>> /\ (device # 0 => device' = device)
        BY <1>5 DEF LeavesQueue
    <2>2. Work.cmd # 0 /\ device = 0 => queue[Work.cmd].phase = "lost"
        BY <1>1, <1>2 DEF LeasesKnown, AttemptKnown
    <2>3. AttemptKnown'
        BY <1>1, <2>1, <2>2 DEF AttemptKnown
    <2>4. QED BY <1>1, <2>1, <2>3 DEF AnswersTrue
<1>6. QED BY <1>3, <1>4, <1>5 DEF Handled

\* The answer to the poll thread's own request.
LEMMA HandledAnswersPoll ==
    ASSUME Inv, NEW answer, Work.stage = "sent", Handled(Work, answer), Work' = answer
    PROVE  AttemptKnown' /\ AnswersTrue'
<1>0. queue \in [Command -> [phase : Phase, token : Nat, expired : BOOLEAN]]
    BY DEF Inv, TypeOK
<1>1. LeasesKnown /\ AttemptKnown /\ Sound(Work, used) /\ Sound(answer, used')
    BY DEF Inv, Hub, CallsSound, Work, Thread, Handled
<1>2. /\ Work.cmd \in Command \cup {0} /\ (Work.cmd # 0 => Work.kind = "complete")
      /\ answer.kind = Work.kind
    BY <1>1 DEF Sound, Call, Kind, Handled
<1>3. CASE \E c \in Command : Grants(Work, answer, c)
    <2>1. PICK c \in Command : Grants(Work, answer, c)
        BY <1>3
    <2>2. NextToken \in Nat \ {0} /\ NextToken \notin used
        BY NextTokenNew
    <2>3. /\ queue' = [queue EXCEPT ![c] = Leased(NextToken)] /\ device' = device
          /\ answer.cmd = c /\ answer.token = NextToken /\ answer.device = device
          /\ Work.kind = "fetch"
        BY <2>1 DEF Grants
    <2>4. \A b \in Command : queue'[b] = IF b = c THEN Leased(NextToken) ELSE queue[b]
        BY <1>0, <2>3
    <2>5. AttemptKnown'
        BY <1>1, <2>2, <2>3, <2>4 DEF AttemptKnown, Leased, LeasesKnown
    <2>6. AnswersTrue'
        BY <1>2, <2>3 DEF AnswersTrue
    <2>7. QED BY <2>5, <2>6
<1>4. CASE Settles(Work, answer)
    <2>1. /\ queue' = [queue EXCEPT ![Work.cmd] = Settled(Work.token)] /\ used' = used
          /\ device' = device /\ Holds(Work) /\ Keeps(Work, answer) /\ answer.ok
          /\ Work.cmd # 0
        BY <1>1, <1>4 DEF Settles, Sound
    <2>2. \A b \in Command :
             queue'[b] = IF b = Work.cmd THEN Settled(Work.token) ELSE queue[b]
        BY <1>0, <2>1
    <2>3. queue[Work.cmd].token = Work.token /\ queue[Work.cmd].phase = "leased"
        BY <2>1 DEF Holds
    <2>4. AttemptKnown'
        BY <1>1, <1>2, <2>1, <2>2, <2>3 DEF AttemptKnown, Settled, Keeps
    <2>5. AnswersTrue'
        BY <1>2, <2>1, <2>2 DEF AnswersTrue, Settled, Keeps
    <2>6. QED BY <2>4, <2>5
<1>5. CASE LeavesQueue(Work, answer)
    <2>1. /\ UNCHANGED <<queue, used>>
          /\ answer.cmd = Work.cmd /\ answer.token = Work.token
          /\ Work.kind = "complete" => /\ device' = device /\ Keeps(Work, answer)
                                       /\ ~answer.ok /\ ~Holds(Work)
        BY <1>5 DEF LeavesQueue
    <2>2. AttemptKnown'
        BY <1>1, <1>2, <2>1 DEF AttemptKnown, Keeps
    <2>3. Work.kind = "complete" => Work.cmd # 0
        BY <1>1 DEF Sound
    <2>4. AnswersTrue'
        BY <1>1, <1>2, <2>1, <2>3 DEF AnswersTrue, AttemptKnown, Holds, Keeps
    <2>5. QED BY <2>2, <2>4
<1>6. QED BY <1>3, <1>4, <1>5 DEF Handled

LEMMA SoundLater ==
    ASSUME NEW r, NEW tokens, NEW more, Sound(r, tokens), tokens \subseteq more
    PROVE  Sound(r, more)
BY DEF Sound

LEMMA HubAnswersKeeps ==
    ASSUME Inv, NEW t \in Thread, HubAnswers(t)
    PROVE  Inv'
<1>1. /\ Sound(call[t], used) /\ call[t].stage = "sent" /\ Handle(call[t], t)
      /\ UNCHANGED <<deviceId, started, waiting, completed, late, runs, faults, losses>>
    BY DEF HubAnswers, Inv, CallsSound
<1>2. device' \in Nat /\ lastDevice' \in Nat
    BY <1>1, HandleDoes
<1>3. PICK answer : Handled(call[t], answer) /\ Deliver(t, answer)
    BY <1>1, HandleDoes
<1>4. /\ Sound(answer, used') /\ answer.kind = call[t].kind /\ answer.stage = "answered"
      /\ call' = [call EXCEPT ![t] = answer] /\ call \in [Thread -> Call]
    BY <1>3 DEF Handled, Deliver, Does, Inv, TypeOK
<1>5. /\ LeasesKnown'
      /\ queue' \in [Command -> [phase : Phase, token : Nat, expired : BOOLEAN]]
      /\ used \subseteq used' /\ used' \subseteq Nat
      /\ \A c \in Command : queue[c].phase \in {"settled", "lost"} =>
                               queue'[c].phase \in {"settled", "lost"}
    BY <1>1, <1>2, <1>3, HandledKeepsLeases
<1>6. call' \in [Thread -> Call]
    BY <1>4 DEF Sound
<1>7. TypeOK'
    BY <1>1, <1>2, <1>5, <1>6 DEF Inv, TypeOK
<1>8. CallsSound'
    <2>1. \A u \in Thread : Sound(call'[u], used')
        BY <1>4, <1>5, SoundLater DEF Inv, CallsSound
    <2>2. call'["heartbeat"].kind \in {"register", "heartbeat"}
        BY <1>4 DEF Inv, CallsSound, Thread
    <2>3. \A r \in late' : Sound(r, used') /\ r.stage = "sent"
        BY <1>1, <1>5, SoundLater DEF Inv, CallsSound
    <2>4. QED BY <2>1, <2>2, <2>3 DEF CallsSound
<1>9. AttemptKnown' /\ AnswersTrue'
    <2>1. CASE t = "poll"
        <3>1. Work = call[t] /\ Work' = answer
            BY <1>4, <2>1 DEF Work, Thread
        <3>2. QED BY <1>1, <1>3, <3>1, HandledAnswersPoll
    <2>2. CASE t # "poll"
        <3>1. Work' = Work
            BY <1>4, <2>2 DEF Work, Thread
        <3>2. QED BY <1>1, <1>3, <3>1, HandledKeepsAttempt
    <2>3. QED BY <2>1, <2>2
<1>10. AckMeansSettled'
    BY <1>1, <1>5 DEF Inv, TypeOK, AckMeansSettled
<1>11. QED BY <1>5, <1>7, <1>8, <1>9, <1>10 DEF Inv, Hub

LEMMA HubHandlesLateKeeps ==
    ASSUME Inv, HubHandlesLate
    PROVE  Inv'
<1>1. PICK r \in late : Handle(r, "nobody") /\ late' = late \ {r}
    BY DEF HubHandlesLate
<1>2. UNCHANGED <<deviceId, started, waiting, completed, runs, faults, losses>>
    BY DEF HubHandlesLate
<1>3. Sound(r, used) /\ r.stage = "sent"
    BY DEF Inv, CallsSound
<1>4. device' \in Nat /\ lastDevice' \in Nat
    BY <1>1, <1>3, HandleDoes
<1>5. PICK answer : Handled(r, answer) /\ Deliver("nobody", answer)
    BY <1>1, <1>3, HandleDoes
<1>6. call' = call
    BY <1>5 DEF Deliver, Thread
<1>7. /\ LeasesKnown'
      /\ queue' \in [Command -> [phase : Phase, token : Nat, expired : BOOLEAN]]
      /\ used \subseteq used' /\ used' \subseteq Nat
      /\ \A c \in Command : queue[c].phase \in {"settled", "lost"} =>
                               queue'[c].phase \in {"settled", "lost"}
    BY <1>3, <1>4, <1>5, HandledKeepsLeases
<1>8. TypeOK'
    BY <1>1, <1>2, <1>4, <1>6, <1>7 DEF Inv, TypeOK
<1>9. CallsSound'
    BY <1>1, <1>6, <1>7, SoundLater DEF Inv, CallsSound
<1>10. AttemptKnown' /\ AnswersTrue'
    <2>1. Work' = Work
        BY <1>6 DEF Work
    <2>2. QED BY <1>3, <1>5, <2>1, HandledKeepsAttempt
<1>11. AckMeansSettled'
    BY <1>2, <1>7 DEF Inv, TypeOK, AckMeansSettled
<1>12. QED BY <1>7, <1>8, <1>9, <1>10, <1>11 DEF Inv, Hub

\* A step that changes the queue and leaves agent, device and tokens alone.
LEMMA QueueStepKeeps ==
    ASSUME Inv, UNCHANGED <<agentVars, lastDevice, used, late, runs>>,
           device' \in Nat, faults' \in 0..MaxFaults, losses' \in 0..MaxDataLosses,
           queue' \in [Command -> [phase : Phase, token : Nat, expired : BOOLEAN]],
           LeasesKnown', AttemptKnown', AnswersTrue',
           \A c \in Command : queue[c].phase \in {"settled", "lost"} =>
                                 queue'[c].phase \in {"settled", "lost"}
    PROVE  Inv'
<1>1. TypeOK'
    BY DEF Inv, TypeOK, agentVars
<1>2. CallsSound'
    BY DEF Inv, CallsSound, agentVars
<1>3. AckMeansSettled'
    BY DEF Inv, TypeOK, AckMeansSettled, agentVars
<1>4. QED BY <1>1, <1>2, <1>3 DEF Inv, Hub

LEMMA SubmitKeeps ==
    ASSUME Inv, NEW c \in Command, Submit(c) PROVE Inv'
<1>1. /\ device # 0 /\ queue[c].phase = "none"
      /\ queue' = [queue EXCEPT ![c].phase = "waiting"]
      /\ UNCHANGED <<agentVars, device, lastDevice, used, late, runs, faults, losses>>
    BY DEF Submit
<1>2. /\ queue \in [Command -> [phase : Phase, token : Nat, expired : BOOLEAN]]
      /\ device \in Nat /\ LeasesKnown /\ AttemptKnown /\ AnswersTrue
      /\ Sound(Work, used) /\ Work.cmd \in Command \cup {0}
      /\ faults \in 0..MaxFaults /\ losses \in 0..MaxDataLosses
    BY DEF Inv, TypeOK, Hub, CallsSound, Work, Thread, Sound, Call
<1>3. /\ queue'[c].phase = "waiting" /\ queue'[c].token = queue[c].token
      /\ queue'[c].expired = queue[c].expired
      /\ \A b \in Command : b # c => queue'[b] = queue[b]
    BY <1>1, <1>2
<1>4. queue' \in [Command -> [phase : Phase, token : Nat, expired : BOOLEAN]]
    BY <1>1, <1>2 DEF Phase
<1>5. LeasesKnown'
    BY <1>1, <1>2, <1>3 DEF LeasesKnown
<1>6. Work' = Work /\ (Work.cmd # 0 => Work.cmd # c)
    BY <1>1, <1>2 DEF Work, agentVars, AttemptKnown
<1>7. AttemptKnown'
    BY <1>1, <1>2, <1>3, <1>6 DEF AttemptKnown
<1>8. AnswersTrue'
    BY <1>1, <1>2, <1>3, <1>6 DEF AnswersTrue, Sound
<1>9. \A b \in Command : queue[b].phase \in {"settled", "lost"} =>
                            queue'[b].phase \in {"settled", "lost"}
    BY <1>1, <1>3
<1>10. QED BY <1>1, <1>2, <1>4, <1>5, <1>7, <1>8, <1>9, QueueStepKeeps

LEMMA LeaseRunsOutKeeps ==
    ASSUME Inv, NEW c \in Command, LeaseRunsOut(c) PROVE Inv'
<1>1. /\ queue[c].phase = "leased"
      /\ queue' = [queue EXCEPT ![c].expired = TRUE]
      /\ UNCHANGED <<agentVars, device, lastDevice, used, late, runs, losses>>
    BY DEF LeaseRunsOut
<1>2. /\ queue \in [Command -> [phase : Phase, token : Nat, expired : BOOLEAN]]
      /\ device \in Nat /\ LeasesKnown /\ AttemptKnown /\ AnswersTrue
      /\ Sound(Work, used) /\ Work.cmd \in Command \cup {0}
      /\ faults \in 0..MaxFaults /\ losses \in 0..MaxDataLosses
    BY DEF Inv, TypeOK, Hub, CallsSound, Work, Thread, Sound, Call
<1>3. /\ queue'[c].phase = "leased" /\ queue'[c].token = queue[c].token
      /\ queue'[c].expired
      /\ \A b \in Command : b # c => queue'[b] = queue[b]
    BY <1>1, <1>2
<1>4. queue' \in [Command -> [phase : Phase, token : Nat, expired : BOOLEAN]]
    BY <1>1, <1>2
<1>5. LeasesKnown'
    BY <1>1, <1>2, <1>3 DEF LeasesKnown
<1>6. Work' = Work
    BY <1>1 DEF Work, agentVars
<1>7. AttemptKnown'
    BY <1>1, <1>2, <1>3, <1>6 DEF AttemptKnown
<1>8. AnswersTrue'
    BY <1>1, <1>2, <1>3, <1>6 DEF AnswersTrue, Sound
<1>9. \A b \in Command : queue[b].phase \in {"settled", "lost"} =>
                            queue'[b].phase \in {"settled", "lost"}
    BY <1>1, <1>3
<1>10. faults' \in 0..MaxFaults
    BY <1>2, AgentAssumption DEF LeaseRunsOut
<1>11. QED BY <1>1, <1>2, <1>4, <1>5, <1>7, <1>8, <1>9, <1>10, QueueStepKeeps

LEMMA LoseDatabaseKeeps ==
    ASSUME Inv, LoseDatabase PROVE Inv'
<1>1. /\ losses < MaxDataLosses /\ losses' = losses + 1 /\ device' = 0
      /\ queue' = [c \in Command |->
                      IF queue[c].phase = "none" THEN queue[c]
                      ELSE [queue[c] EXCEPT !.phase = "lost"]]
      /\ UNCHANGED <<agentVars, lastDevice, used, late, runs, faults>>
    BY DEF LoseDatabase
<1>2. /\ queue \in [Command -> [phase : Phase, token : Nat, expired : BOOLEAN]]
      /\ LeasesKnown /\ AttemptKnown /\ AnswersTrue
      /\ Sound(Work, used) /\ Work.cmd \in Command \cup {0}
      /\ faults \in 0..MaxFaults /\ losses \in 0..MaxDataLosses
    BY DEF Inv, TypeOK, Hub, CallsSound, Work, Thread, Sound, Call
<1>3. \A c \in Command :
          /\ queue'[c].phase = IF queue[c].phase = "none" THEN "none" ELSE "lost"
          /\ queue'[c].token = queue[c].token
    BY <1>1, <1>2
<1>4. queue' \in [Command -> [phase : Phase, token : Nat, expired : BOOLEAN]]
    BY <1>1, <1>2 DEF Phase
<1>5. LeasesKnown'
    BY <1>1, <1>2, <1>3 DEF LeasesKnown
<1>6. Work' = Work
    BY <1>1 DEF Work, agentVars
<1>7. AttemptKnown'
    BY <1>1, <1>2, <1>3, <1>6 DEF AttemptKnown
<1>8. AnswersTrue'
    BY <1>1, <1>2, <1>3, <1>6 DEF AnswersTrue, Sound
<1>9. \A b \in Command : queue[b].phase \in {"settled", "lost"} =>
                            queue'[b].phase \in {"settled", "lost"}
    BY <1>3
<1>10. device' \in Nat /\ losses' \in 0..MaxDataLosses
    BY <1>1, <1>2, AgentAssumption
<1>11. QED BY <1>1, <1>2, <1>4, <1>5, <1>7, <1>8, <1>9, <1>10, QueueStepKeeps
-----------------------------------------------------------------------------
LEMMA InvInit == Init => Inv
<1>. SUFFICES ASSUME Init PROVE Inv
    OBVIOUS
<1>1. \A t \in Thread : /\ Sound(call[t], used) /\ call[t].cmd = 0
                        /\ call[t].kind = "register" /\ call[t].stage # "answered"
    BY IdleSound, SentSound DEF Init, Idle
<1>2. TypeOK
    <2>1. call \in [Thread -> Call]
        BY <1>1 DEF Init, Sound
    <2>2. Unsubmitted \in [phase : Phase, token : Nat, expired : BOOLEAN]
        BY DEF Unsubmitted, Phase
    <2>3. /\ queue \in [Command -> [phase : Phase, token : Nat, expired : BOOLEAN]]
          /\ runs \in [Command -> Nat]
        BY <2>2 DEF Init
    <2>4. faults \in 0..MaxFaults /\ losses \in 0..MaxDataLosses
        BY AgentAssumption DEF Init
    <2>5. /\ deviceId \in Nat /\ device \in Nat /\ lastDevice \in Nat
          /\ started \in BOOLEAN /\ waiting \in BOOLEAN /\ completed \subseteq Command
          /\ used \subseteq Nat /\ \A r \in late : r \in Call
        BY DEF Init
    <2>6. QED BY <2>1, <2>3, <2>4, <2>5 DEF TypeOK
<1>3. CallsSound
    BY <1>1 DEF Init, CallsSound, Thread
<1>4. used = {} /\ IsFiniteSet(used) /\ used = 1..Cardinality(used)
    <2>1. used = {} /\ IsFiniteSet({}) /\ Cardinality({}) = 0
        BY FS_EmptySet DEF Init
    <2>2. QED BY <2>1
<1>5. Hub
    BY <1>1, <1>4 DEF Init, Hub, LeasesKnown, AttemptKnown, AnswersTrue, Unsubmitted, Work,
                      Thread
<1>6. AckMeansSettled
    BY DEF Init, AckMeansSettled
<1>7. QED BY <1>2, <1>3, <1>5, <1>6 DEF Inv

LEMMA InvStep == Inv /\ [Next]_vars => Inv'
<1>. SUFFICES ASSUME Inv, [Next]_vars PROVE Inv'
    OBVIOUS
<1>1. ASSUME NEW t \in Thread, Receive(t) PROVE Inv'
    BY <1>1, ReceiveRegisterKeeps, ReceiveHeartbeatKeeps, ReceiveFetchKeeps,
       ReceiveCompleteKeeps DEF Receive
<1>2. ASSUME NEW t \in Thread,
             StartTask(t) \/ AgentStep(t) \/ TimeOut(t) \/ HubAnswers(t)
      PROVE  Inv'
    BY <1>1, <1>2, StartTaskKeeps, ContinueTaskKeeps, ReportResultKeeps, TimeOutKeeps,
       HubAnswersKeeps DEF AgentStep
<1>3. CASE UNCHANGED vars
    <2>1. UNCHANGED <<deviceId, started, waiting, completed, call, device, lastDevice,
                      queue, used, late, runs, faults, losses>>
        BY <1>3 DEF vars, agentVars, hubVars
    <2>2. TypeOK' /\ CallsSound'
        BY <2>1 DEF Inv, TypeOK, CallsSound
    <2>3. Hub' /\ AckMeansSettled'
        BY <2>1 DEF Inv, Hub, LeasesKnown, AttemptKnown, AnswersTrue, AckMeansSettled, Work
    <2>4. QED BY <2>2, <2>3 DEF Inv
<1>4. QED
    BY <1>2, <1>3, SubmitKeeps, LeaseRunsOutKeeps, BackoffElapsesKeeps, CrashKeeps,
       HubHandlesLateKeeps, LoseDatabaseKeeps DEF Next

LEMMA Invariance == Spec => []Inv
BY InvInit, InvStep, PTL DEF Spec

\* Every reachable state of agent and hub has its type.
THEOREM TypeCorrect == Spec => []TypeOK
BY Invariance, PTL DEF Inv

\* completedCommandIds is safe: what the agent would skip is settled at the hub or gone
\* with its database, through any timeouts, late requests, crashes and data losses.
THEOREM AckIsSettled == Spec => []AckMeansSettled
BY Invariance, PTL DEF Inv
-----------------------------------------------------------------------------
(* What a step may cost.  A command is open while the hub may still grant  *)
(* it without another fault, pending once a grant is answered and not yet  *)
(* run.                                                                    *)
Open(c) ==
    \/ queue[c].phase \in {"none", "waiting"}
    \/ queue[c].phase = "leased" /\ (queue[c].expired \/ ~Alive(queue[c].token))

Pending(c) == Work.stage = "answered" /\ Work.kind = "fetch" /\ Work.cmd = c

LateFetches == {r \in late : r.kind = "fetch"}

NothingOpens == \A c \in Command : Open(c)' => Open(c)
NothingPends == \A c \in Command : Pending(c)' => Pending(c)

\* The step grants, runs and fails nothing.
Quiet ==
    /\ UNCHANGED <<runs, used, faults>>
    /\ NothingOpens /\ NothingPends /\ LateFetches' \subseteq LateFetches

\* The agent starts to run a command it was granted.
RunsPending ==
    /\ UNCHANGED <<used, faults>>
    /\ NothingOpens /\ LateFetches' \subseteq LateFetches
    /\ \E c \in Command : /\ Pending(c) /\ runs' = [runs EXCEPT ![c] = @ + 1]
                          /\ \A b \in Command : ~Pending(b)'

\* A fault reopens one command or leaves one fetch behind, never both.
CostsFault ==
    /\ UNCHANGED <<runs, used>> /\ faults' = faults + 1
    /\ NothingPends
    /\ \/ /\ \E c \in Command : \A b \in Command : Open(b)' => Open(b) \/ b = c
          /\ LateFetches' \subseteq LateFetches
       \/ /\ NothingOpens
          /\ \E r : LateFetches' \subseteq LateFetches \cup {r}

\* A grant takes an open command; answered, the command is pending instead of open, and
\* otherwise a late fetch is used up.
GrantsOpen ==
    /\ UNCHANGED <<runs, faults>> /\ used' = used \cup {NextToken}
    /\ NothingOpens
    /\ \/ /\ \E c \in Command : /\ Open(c) /\ ~Open(c)'
                                /\ \A b \in Command : Pending(b)' => b = c
          /\ LateFetches' \subseteq LateFetches
       \/ /\ NothingPends /\ \E c \in Command : Open(c)
          /\ \E r \in LateFetches : LateFetches' \subseteq LateFetches \ {r}

\* A command opens under an agent step only if the poll thread gives up its attempt
\* while the lease still runs.
LEMMA OpensByGivingUp ==
    ASSUME Inv, NEW t \in Thread, NEW next, AgentMove(t, next),
           NEW c \in Command, Open(c)', ~Open(c)
    PROVE  /\ t = "poll" /\ next.cmd = 0 /\ c = Work.cmd
           /\ queue[c].phase = "leased" /\ ~queue[c].expired /\ queue[c].token = Work.token
<1>1. /\ queue' = queue /\ call' = [call EXCEPT ![t] = next] /\ call \in [Thread -> Call]
      /\ Sound(next, used) /\ (next.cmd = 0 \/ Keeps(call[t], next))
    BY DEF AgentMove, hubVars, Inv, TypeOK
<1>2. queue[c].phase = "leased" /\ ~queue[c].expired /\ Alive(queue[c].token)
    BY <1>1 DEF Open
<1>3. ~(\E u \in Thread : call'[u].token = queue[c].token)
    BY <1>1, <1>2 DEF Open, Alive
<1>4. PICK u \in Thread : call[u].token = queue[c].token
    BY <1>2 DEF Alive
<1>5. queue[c].token # 0
    BY <1>2 DEF Inv, Hub, LeasesKnown
<1>6. u = t
    BY <1>1, <1>3, <1>4
<1>7. t = "poll"
    BY <1>4, <1>5, <1>6 DEF Inv, CallsSound, Sound, Thread
<1>8. next.cmd = 0
    BY <1>1, <1>3, <1>4, <1>6 DEF Keeps
<1>9. Work.cmd # 0 /\ queue[c].token = Work.token
    BY <1>4, <1>5, <1>6, <1>7 DEF Work, Inv, CallsSound, Sound
<1>10. c = Work.cmd
    BY <1>9 DEF Inv, Hub, AttemptKnown
<1>11. QED BY <1>2, <1>7, <1>8, <1>9, <1>10

LEMMA MovePends ==
    ASSUME Inv, NEW t \in Thread, NEW next, AgentMove(t, next)
    PROVE  /\ NothingPends
           /\ t = "poll" => \A c \in Command : ~Pending(c)'
<1>1. /\ call' = [call EXCEPT ![t] = next] /\ call \in [Thread -> Call]
      /\ next.stage # "answered"
    BY DEF AgentMove, Inv, TypeOK
<1>2. Work' = IF t = "poll" THEN next ELSE Work
    BY <1>1 DEF Work, Thread
<1>3. QED BY <1>1, <1>2 DEF NothingPends, Pending

\* An agent step that gives up no live attempt is quiet.
LEMMA MoveIsQuiet ==
    ASSUME Inv, NEW t \in Thread, NEW next, AgentMove(t, next),
           UNCHANGED <<runs, faults, late>>,
           t = "poll" /\ next.cmd = 0 /\ Work.cmd # 0 =>
              ~(/\ queue[Work.cmd].phase = "leased" /\ ~queue[Work.cmd].expired
                /\ queue[Work.cmd].token = Work.token)
    PROVE  Quiet
<1>1. NothingOpens
    BY OpensByGivingUp, AgentAssumption DEF NothingOpens
<1>2. NothingPends
    BY MovePends
<1>3. used' = used /\ LateFetches' \subseteq LateFetches
    BY DEF AgentMove, hubVars, LateFetches
<1>4. QED BY <1>1, <1>2, <1>3 DEF Quiet

LEMMA StartTaskCosts == ASSUME Inv, NEW t \in Thread, StartTask(t) PROVE Quiet
<1>. DEFINE next == IF deviceId = 0 THEN Sent("register", 0) ELSE Sent(TaskKind(t), deviceId)
<1>1. deviceId \in Nat /\ CallsSound
    BY DEF Inv, TypeOK
<1>2. /\ Sound(next, used) /\ next.cmd = 0 /\ next.stage = "sent"
      /\ t = "heartbeat" => next.kind \in {"register", "heartbeat"}
    BY <1>1, TaskSound, SentSound
<1>3. AgentMove(t, next)
    BY <1>1, <1>2 DEF StartTask, Does, AgentMove, CallsSound
<1>4. t = "poll" => Work.cmd = 0
    BY <1>1 DEF StartTask, CallsSound, Sound, Work, Thread
<1>5. QED BY <1>3, <1>4, MoveIsQuiet DEF StartTask

LEMMA ContinueTaskCosts == ASSUME Inv, NEW t \in Thread, ContinueTask(t) PROVE Quiet
<1>. DEFINE next == IF waiting THEN Idle ELSE Sent(TaskKind(t), call[t].device)
<1>1. call[t].device \in Nat /\ CallsSound
    BY DEF Inv, TypeOK, Call
<1>2. /\ Sound(next, used) /\ next.cmd = 0 /\ next.stage # "answered"
      /\ t = "heartbeat" => next.kind \in {"register", "heartbeat"}
    BY <1>1, TaskSound, IdleSound DEF Idle
<1>3. AgentMove(t, next)
    BY <1>1, <1>2 DEF ContinueTask, Does, AgentMove, CallsSound
<1>4. t = "poll" => Work.cmd = 0
    BY <1>1 DEF ContinueTask, CallsSound, Sound, Work, Thread
<1>5. QED BY <1>3, <1>4, MoveIsQuiet DEF ContinueTask

\* Only the poll thread's command can be run, and one that was completed is not open.
LEMMA ReceiveCosts ==
    ASSUME Inv, NEW t \in Thread, Receive(t) PROVE Quiet \/ RunsPending
<1>1. /\ call[t].stage = "answered" /\ Sound(call[t], used)
      /\ UNCHANGED <<hubVars, late, faults, losses>> /\ CallsSound
    BY DEF Receive, Inv, CallsSound
<1>2. t = "poll" => call[t] = Work
    BY DEF Work
<1>3. CASE ReceiveRegister(t)
    <2>. DEFINE next == IF started THEN [call[t] EXCEPT !.stage = "registered"] ELSE Idle
    <2>1. call[t].kind = "register" /\ call[t].cmd = 0
        BY <1>1, <1>3 DEF Sound, ReceiveRegister
    <2>2. /\ Sound(next, used) /\ next.cmd = 0 /\ next.stage # "answered"
          /\ next.kind = "register"
        BY <1>1, <2>1, IdleSound DEF Sound, Call, Stage, Idle
    <2>3. AgentMove(t, next)
        BY <1>1, <1>3, <2>2 DEF ReceiveRegister, Does, AgentMove, CallsSound
    <2>4. UNCHANGED <<runs, faults, late>>
        BY <1>1, <1>3 DEF ReceiveRegister
    <2>5. QED BY <1>2, <2>1, <2>3, <2>4, MoveIsQuiet
<1>4. CASE ReceiveHeartbeat(t)
    <2>1. call[t].cmd = 0 /\ AgentMove(t, Idle)
        BY <1>1, <1>4, DropMove DEF Sound, ReceiveHeartbeat
    <2>2. UNCHANGED <<runs, faults, late>>
        BY <1>1, <1>4 DEF ReceiveHeartbeat
    <2>3. QED BY <1>2, <2>1, <2>2, MoveIsQuiet
<1>5. CASE ReceiveFetch(t)
    <2>0. t = "poll" /\ call[t].kind = "fetch"
        BY <1>1, <1>5 DEF ReceiveFetch, CallsSound, Thread
    <2>1. CASE call[t].ok /\ call[t].cmd # 0 /\ call[t].cmd \notin completed
        <3>. DEFINE next == [call[t] EXCEPT !.stage = "executing"]
        <3>1. /\ Sound(next, used) /\ Keeps(call[t], next) /\ next.stage # "answered"
            BY <1>1, <2>0, <2>1 DEF Sound, Call, Stage, Keeps
        <3>2. AgentMove(t, next)
            BY <1>1, <1>5, <2>0, <2>1, <3>1 DEF ReceiveFetch, Does, AgentMove, CallsSound
        <3>3. next.cmd # 0
            BY <2>1, <3>1 DEF Keeps
        <3>. HIDE DEF next
        <3>4. NothingOpens
            BY <3>2, <3>3, OpensByGivingUp DEF NothingOpens
        <3>5. \A b \in Command : ~Pending(b)'
            BY <2>0, <3>2, MovePends
        <3>6. Work.cmd \in Command /\ Pending(Work.cmd)
            BY <1>1, <1>2, <2>0, <2>1 DEF Pending, Sound, Call
        <3>7. runs' = [runs EXCEPT ![Work.cmd] = @ + 1]
            BY <1>2, <1>5, <2>0, <2>1 DEF ReceiveFetch
        <3>8. UNCHANGED <<used, faults>> /\ LateFetches' \subseteq LateFetches
            BY <1>1 DEF hubVars, LateFetches
        <3>9. QED BY <3>4, <3>5, <3>6, <3>7, <3>8 DEF RunsPending
    <2>2. CASE ~(call[t].ok /\ call[t].cmd # 0 /\ call[t].cmd \notin completed)
        <3>1. AgentMove(t, Idle) /\ UNCHANGED <<runs, faults, late>>
            BY <1>1, <1>5, <2>2, DropMove DEF ReceiveFetch
        <3>2. Work.cmd # 0 => Work.cmd \in completed
            BY <1>1, <1>2, <2>0, <2>2 DEF Sound
        <3>3. Work.cmd # 0 => queue[Work.cmd].phase \in {"settled", "lost"}
            BY <3>2 DEF Inv, AckMeansSettled
        <3>4. QED BY <3>1, <3>3, MoveIsQuiet
    <2>3. QED BY <2>1, <2>2
<1>6. CASE ReceiveComplete(t)
    <2>1. t = "poll" /\ Work.kind = "complete" /\ Work.stage = "answered"
        BY <1>1, <1>2, <1>6 DEF ReceiveComplete, CallsSound, Thread
    <2>2. AgentMove(t, Idle) /\ UNCHANGED <<runs, faults, late>>
        BY <1>1, <1>6, DropMove DEF ReceiveComplete
    <2>3. ~(/\ queue[Work.cmd].phase = "leased" /\ ~queue[Work.cmd].expired
            /\ queue[Work.cmd].token = Work.token)
        BY <2>1 DEF Inv, Hub, AnswersTrue
    <2>4. QED BY <2>2, <2>3, MoveIsQuiet
<1>7. QED BY <1>3, <1>4, <1>5, <1>6 DEF Receive

LEMMA ReportResultCosts == ASSUME Inv, NEW t \in Thread, ReportResult(t) PROVE Quiet
<1>. DEFINE next == [call[t] EXCEPT !.stage = "sent", !.kind = "complete", !.ok = FALSE]
<1>1. /\ call[t] \in Call /\ Sound(call[t], used)
      /\ call[t].kind = "fetch" /\ call[t].cmd # 0 /\ t # "heartbeat"
    BY DEF Inv, CallsSound, ReportResult, Sound, TypeOK
<1>2. next \in Call /\ next.stage = "sent" /\ next.kind = "complete" /\ Keeps(call[t], next)
    BY <1>1 DEF Call, Stage, Kind, Keeps
<1>3. Sound(next, used) /\ next.cmd # 0
    BY <1>1, <1>2 DEF Sound, Keeps
<1>4. AgentMove(t, next)
    BY <1>1, <1>2, <1>3 DEF ReportResult, Does, AgentMove, Inv, CallsSound
<1>5. UNCHANGED <<runs, faults, late>>
    BY DEF ReportResult
<1>. HIDE DEF next
<1>6. QED BY <1>3, <1>4, <1>5, MoveIsQuiet

LEMMA TimeOutCosts == ASSUME Inv, NEW t \in Thread, TimeOut(t) PROVE CostsFault
<1>1. \A r \in late' : Sound(r, used) /\ r.stage = "sent"
    BY UnderWaySound DEF TimeOut, Inv
<1>2. AgentMove(t, Idle)
    BY <1>1, IdleSound DEF TimeOut, Does, AgentMove, Idle
<1>3. UNCHANGED <<runs, used>> /\ faults' = faults + 1 /\ late' = late \cup UnderWay({t})
    BY DEF TimeOut, hubVars
<1>4. NothingPends
    BY <1>2, MovePends
<1>5. Sound(call[t], used) /\ (call[t].kind = "fetch" => t = "poll")
    BY DEF Inv, CallsSound, Thread
<1>6. CASE call[t].kind = "fetch" /\ call[t].stage = "sent"
    <2>1. Work.cmd = 0
        BY <1>5, <1>6 DEF Sound, Work
    <2>2. NothingOpens
        BY <1>2, <2>1, OpensByGivingUp, AgentAssumption DEF NothingOpens
    <2>3. LateFetches' \subseteq LateFetches \cup {call[t]}
        BY <1>3 DEF LateFetches, UnderWay
    <2>4. QED BY <1>3, <1>4, <2>2, <2>3 DEF CostsFault
<1>7. CASE ~(call[t].kind = "fetch" /\ call[t].stage = "sent")
    <2>1. LateFetches' \subseteq LateFetches
        BY <1>3, <1>7 DEF LateFetches, UnderWay
    <2>2. \A c \in Command : Open(c)' => Open(c) \/ c = Work.cmd
        BY <1>2, OpensByGivingUp
    <2>3. CASE Work.cmd \in Command
        BY <1>3, <1>4, <2>1, <2>2, <2>3 DEF CostsFault
    <2>4. CASE Work.cmd \notin Command
        <3>1. NothingOpens
            BY <2>2, <2>4 DEF NothingOpens
        <3>2. LateFetches' \subseteq LateFetches \cup {call[t]}
            BY <2>1
        <3>3. QED BY <1>3, <1>4, <3>1, <3>2 DEF CostsFault
    <2>5. QED BY <2>3, <2>4
<1>8. QED BY <1>6, <1>7

LEMMA CrashCosts == ASSUME Inv, Crash PROVE CostsFault
<1>1. /\ UNCHANGED <<queue, used, runs>> /\ faults' = faults + 1
      /\ late' = late \cup UnderWay(Thread)
      /\ call' = [t \in Thread |-> IF t = "poll" THEN Sent("register", 0) ELSE Idle]
    BY DEF Crash, hubVars
<1>2. Work'.stage = "sent"
    BY <1>1 DEF Work, Thread, Sent, Idle
<1>3. NothingPends
    BY <1>2 DEF NothingPends, Pending
<1>4. /\ \A t \in Thread : Sound(call[t], used)
      /\ call["heartbeat"].kind \in {"register", "heartbeat"}
    BY DEF Inv, CallsSound
<1>5. ASSUME NEW c \in Command, Open(c)', ~Open(c)
      PROVE  c = Work.cmd
    <2>1. queue[c].phase = "leased" /\ Alive(queue[c].token)
        BY <1>1, <1>5 DEF Open
    <2>2. PICK u \in Thread : call[u].token = queue[c].token
        BY <2>1 DEF Alive
    <2>3. queue[c].token # 0
        BY <2>1 DEF Inv, Hub, LeasesKnown
    <2>4. u = "poll"
        BY <1>4, <2>2, <2>3 DEF Sound, Thread
    <2>5. Work.cmd # 0 /\ queue[c].token = Work.token
        BY <1>4, <2>2, <2>3, <2>4 DEF Work, Sound
    <2>6. QED BY <2>5 DEF Inv, Hub, AttemptKnown
<1>6. LateFetches' \subseteq LateFetches \cup {Work}
    BY <1>1, <1>4 DEF LateFetches, UnderWay, Work, Thread
<1>7. CASE Work.kind = "fetch" /\ Work.stage = "sent"
    <2>1. Work.cmd = 0
        BY <1>4, <1>7 DEF Sound, Work, Thread
    <2>2. NothingOpens
        BY <1>5, <2>1, AgentAssumption DEF NothingOpens
    <2>3. QED BY <1>1, <1>3, <1>6, <2>2 DEF CostsFault
<1>8. CASE ~(Work.kind = "fetch" /\ Work.stage = "sent")
    <2>1. LateFetches' \subseteq LateFetches
        BY <1>1, <1>4, <1>8 DEF LateFetches, UnderWay, Work, Thread
    <2>2. CASE Work.cmd \in Command
        BY <1>1, <1>3, <1>5, <2>1, <2>2 DEF CostsFault
    <2>3. CASE Work.cmd \notin Command
        <3>1. NothingOpens
            BY <1>5, <2>3 DEF NothingOpens
        <3>2. QED BY <1>1, <1>3, <1>6, <3>1 DEF CostsFault
    <2>4. QED BY <2>2, <2>3
<1>9. QED BY <1>7, <1>8

\* A request that does not lead to a grant opens nothing, whoever gets the answer.
LEMMA NoGrantOpensNothing ==
    ASSUME Inv, NEW r, NEW answer, Sound(r, used),
           Settles(r, answer) \/ LeavesQueue(r, answer),
           \A u \in Thread : call'[u].token = call[u].token
    PROVE  NothingOpens /\ used' = used
<1>1. \A token : Alive(token)' <=> Alive(token)
    BY DEF Alive
<1>2. queue \in [Command -> [phase : Phase, token : Nat, expired : BOOLEAN]]
    BY DEF Inv, TypeOK
<1>3. CASE Settles(r, answer)
    <2>1. queue' = [queue EXCEPT ![r.cmd] = Settled(r.token)] /\ used' = used
        BY <1>3 DEF Settles
    <2>2. \A c \in Command : queue'[c] = queue[c] \/ queue'[c].phase = "settled"
        BY <1>2, <2>1 DEF Settled
    <2>3. QED BY <1>1, <2>1, <2>2 DEF NothingOpens, Open
<1>4. CASE LeavesQueue(r, answer)
    <2>1. queue' = queue /\ used' = used
        BY <1>4 DEF LeavesQueue
    <2>2. QED BY <1>1, <2>1 DEF NothingOpens, Open
<1>5. QED BY <1>3, <1>4

LEMMA HubAnswersCosts ==
    ASSUME Inv, NEW t \in Thread, HubAnswers(t) PROVE Quiet \/ GrantsOpen
<1>1. /\ Sound(call[t], used) /\ call[t].stage = "sent" /\ Handle(call[t], t)
      /\ UNCHANGED <<runs, faults, late>> /\ CallsSound /\ LeasesKnown
    BY DEF HubAnswers, Inv, CallsSound, Hub
<1>2. PICK answer : Handled(call[t], answer) /\ Deliver(t, answer)
    BY <1>1, HandleDoes
<1>3. /\ answer.kind = call[t].kind /\ answer.stage = "answered"
      /\ call' = [call EXCEPT ![t] = answer] /\ call \in [Thread -> Call]
      /\ queue \in [Command -> [phase : Phase, token : Nat, expired : BOOLEAN]]
    BY <1>2 DEF Handled, Deliver, Does, Inv, TypeOK
<1>4. LateFetches' \subseteq LateFetches
    BY <1>1 DEF LateFetches
<1>5. Work' = IF t = "poll" THEN answer ELSE Work
    BY <1>3 DEF Work, Thread
<1>6. CASE \E c \in Command : Grants(call[t], answer, c)
    <2>1. PICK c \in Command : Grants(call[t], answer, c)
        BY <1>6
    <2>2. /\ queue' = [queue EXCEPT ![c] = Leased(NextToken)] /\ Claimable(c)
          /\ used' = used \cup {NextToken}
          /\ answer.cmd = c /\ answer.token = NextToken
          /\ t = "poll" /\ call[t].token = 0
        BY <1>1, <2>1 DEF Grants, CallsSound, Sound, Thread
    <2>3. \A b \in Command : queue'[b] = IF b = c THEN Leased(NextToken) ELSE queue[b]
        BY <1>3, <2>2
    <2>4. Open(c) /\ ~Open(c)'
        <3>1. Open(c)
            BY <2>2 DEF Claimable, Open
        <3>2. call'[t].token = NextToken
            BY <1>3, <2>2
        <3>3. Alive(queue[c].token)'
            BY <2>3, <3>2 DEF Alive, Leased
        <3>4. QED BY <2>3, <3>1, <3>3 DEF Open, Leased
    <2>5. ASSUME NEW b \in Command, b # c, Open(b)' PROVE Open(b)
        <3>1. queue'[b] = queue[b]
            BY <2>3, <2>5
        <3>2. queue[b].phase = "leased" => queue[b].token # 0
            BY <1>1 DEF LeasesKnown
        <3>3. ASSUME NEW u \in Thread, call[u].token = queue[b].token, queue[b].token # 0
              PROVE  call'[u].token = queue[b].token
            BY <1>3, <2>2, <3>3
        <3>4. QED BY <2>5, <3>1, <3>2, <3>3 DEF Open, Alive
    <2>6. NothingOpens
        BY <2>4, <2>5 DEF NothingOpens
    <2>7. \A b \in Command : Pending(b)' => b = c
        BY <1>5, <2>2 DEF Pending
    <2>8. QED BY <1>1, <1>4, <2>2, <2>4, <2>6, <2>7 DEF GrantsOpen
<1>7. CASE Settles(call[t], answer) \/ LeavesQueue(call[t], answer)
    <2>1. answer.token = call[t].token /\ answer.cmd = call[t].cmd
        BY <1>7 DEF Settles, LeavesQueue, Keeps
    <2>2. \A u \in Thread : call'[u].token = call[u].token
        BY <1>3, <2>1
    <2>3. NothingOpens /\ used' = used
        BY <1>1, <1>7, <2>2, NoGrantOpensNothing
    <2>4. NothingPends
        BY <1>1, <1>3, <1>5, <2>1, AgentAssumption DEF NothingPends, Pending, Sound
    <2>5. QED BY <1>1, <1>4, <2>3, <2>4 DEF Quiet
<1>8. QED BY <1>2, <1>6, <1>7 DEF Handled

LEMMA HubHandlesLateCosts == ASSUME Inv, HubHandlesLate PROVE Quiet \/ GrantsOpen
<1>1. PICK r \in late : Handle(r, "nobody") /\ late' = late \ {r}
    BY DEF HubHandlesLate
<1>2. UNCHANGED <<runs, faults>> /\ Sound(r, used) /\ r.stage = "sent" /\ LeasesKnown
    BY DEF HubHandlesLate, Inv, CallsSound, Hub
<1>3. PICK answer : Handled(r, answer) /\ Deliver("nobody", answer)
    BY <1>1, <1>2, HandleDoes
<1>4. /\ call' = call
      /\ queue \in [Command -> [phase : Phase, token : Nat, expired : BOOLEAN]]
    BY <1>3 DEF Deliver, Thread, Inv, TypeOK
<1>5. NothingPends
    BY <1>4 DEF NothingPends, Pending, Work
<1>6. CASE \E c \in Command : Grants(r, answer, c)
    <2>1. PICK c \in Command : Grants(r, answer, c)
        BY <1>6
    <2>2. /\ queue' = [queue EXCEPT ![c] = Leased(NextToken)] /\ Claimable(c)
          /\ used' = used \cup {NextToken} /\ r.kind = "fetch"
        BY <2>1 DEF Grants
    <2>3. \A b \in Command : b # c => queue'[b] = queue[b]
        BY <1>4, <2>2
    <2>4. Open(c)
        BY <2>2 DEF Claimable, Open
    <2>5. NothingOpens
        BY <1>4, <2>3, <2>4 DEF NothingOpens, Open, Alive
    <2>6. r \in LateFetches /\ LateFetches' \subseteq LateFetches \ {r}
        BY <1>1, <2>2 DEF LateFetches
    <2>7. QED BY <1>2, <1>5, <2>2, <2>4, <2>5, <2>6 DEF GrantsOpen
<1>7. CASE Settles(r, answer) \/ LeavesQueue(r, answer)
    <2>1. NothingOpens /\ used' = used
        BY <1>2, <1>4, <1>7, NoGrantOpensNothing
    <2>2. LateFetches' \subseteq LateFetches
        BY <1>1 DEF LateFetches
    <2>3. QED BY <1>2, <1>5, <2>1, <2>2 DEF Quiet
<1>8. QED BY <1>3, <1>6, <1>7 DEF Handled

LEMMA SubmitCosts == ASSUME Inv, NEW c \in Command, Submit(c) PROVE Quiet
<1>1. /\ queue[c].phase = "none" /\ queue' = [queue EXCEPT ![c].phase = "waiting"]
      /\ UNCHANGED <<call, used, late, runs, faults>>
      /\ queue \in [Command -> [phase : Phase, token : Nat, expired : BOOLEAN]]
    BY DEF Submit, agentVars, Inv, TypeOK
<1>2. \A b \in Command : b # c => queue'[b] = queue[b]
    BY <1>1
<1>3. NothingOpens
    BY <1>1, <1>2 DEF NothingOpens, Open, Alive
<1>4. QED BY <1>1, <1>3 DEF Quiet, NothingPends, Pending, Work, LateFetches

LEMMA LeaseRunsOutCosts ==
    ASSUME Inv, NEW c \in Command, LeaseRunsOut(c) PROVE Quiet \/ CostsFault
<1>1. /\ queue[c].phase = "leased" /\ ~queue[c].expired
      /\ queue' = [queue EXCEPT ![c].expired = TRUE]
      /\ UNCHANGED <<call, used, late, runs>>
      /\ queue \in [Command -> [phase : Phase, token : Nat, expired : BOOLEAN]]
    BY DEF LeaseRunsOut, agentVars, Inv, TypeOK
<1>2. \A b \in Command : b # c => queue'[b] = queue[b]
    BY <1>1
<1>3. \A b \in Command : Open(b)' => Open(b) \/ b = c
    BY <1>1, <1>2 DEF Open, Alive
<1>4. NothingPends /\ LateFetches' \subseteq LateFetches
    BY <1>1 DEF NothingPends, Pending, Work, LateFetches
<1>5. CASE ~Alive(queue[c].token) /\ UNCHANGED faults
    <2>1. Open(c)
        BY <1>1, <1>5 DEF Open
    <2>2. NothingOpens
        BY <1>3, <2>1 DEF NothingOpens
    <2>3. QED BY <1>1, <1>4, <1>5, <2>2 DEF Quiet
<1>6. CASE faults' = faults + 1
    BY <1>1, <1>3, <1>4, <1>6 DEF CostsFault
<1>7. QED BY <1>5, <1>6 DEF LeaseRunsOut

LEMMA LoseDatabaseCosts == ASSUME Inv, LoseDatabase PROVE Quiet
<1>1. /\ queue' = [c \in Command |->
                      IF queue[c].phase = "none" THEN queue[c]
                      ELSE [queue[c] EXCEPT !.phase = "lost"]]
      /\ UNCHANGED <<call, used, late, runs, faults>>
      /\ queue \in [Command -> [phase : Phase, token : Nat, expired : BOOLEAN]]
    BY DEF LoseDatabase, agentVars, Inv, TypeOK
<1>2. \A c \in Command : queue'[c] = queue[c] \/ queue'[c].phase = "lost"
    BY <1>1
<1>3. NothingOpens
    BY <1>1, <1>2 DEF NothingOpens, Open, Alive
<1>4. QED BY <1>1, <1>3 DEF Quiet, NothingPends, Pending, Work, LateFetches

\* Every step is quiet, runs a pending command, grants an open one or costs a fault.
LEMMA StepCosts ==
    ASSUME Inv, [Next]_vars
    PROVE  Quiet \/ RunsPending \/ CostsFault \/ GrantsOpen
<1>1. ASSUME NEW t \in Thread,
             StartTask(t) \/ AgentStep(t) \/ TimeOut(t) \/ HubAnswers(t)
      PROVE  Quiet \/ RunsPending \/ CostsFault \/ GrantsOpen
    BY <1>1, StartTaskCosts, ContinueTaskCosts, ReceiveCosts, ReportResultCosts,
       TimeOutCosts, HubAnswersCosts DEF AgentStep
<1>2. ASSUME BackoffElapses \/ UNCHANGED vars
      PROVE  Quiet
    <2>1. UNCHANGED <<call, queue, used, late, runs, faults>>
        BY <1>2 DEF BackoffElapses, vars, agentVars, hubVars
    <2>2. QED
        BY <2>1 DEF Quiet, NothingOpens, NothingPends, Open, Alive, Pending, Work, LateFetches
<1>3. QED
    BY <1>1, <1>2, SubmitCosts, LeaseRunsOutCosts, CrashCosts, HubHandlesLateCosts,
       LoseDatabaseCosts DEF Next
-----------------------------------------------------------------------------
(* Reruns: of a command's runs, its pending grant and the grant it may     *)
(* still get without a fault, there is one to begin with and one more for  *)
(* each fault.                                                             *)
One(holds) == IF holds THEN 1 ELSE 0

RunsPaid ==
    \A c \in Command : runs[c] + One(Pending(c)) + One(Open(c)) <= 1 + faults

LEMMA RunsPaidStep ==
    ASSUME Inv, RunsPaid, [Next]_vars
    PROVE  RunsPaid'
<1>. SUFFICES ASSUME NEW c \in Command
              PROVE  (runs[c] + One(Pending(c)) + One(Open(c)) <= 1 + faults)'
    BY DEF RunsPaid
<1>1. /\ runs \in [Command -> Nat] /\ faults \in Nat
      /\ runs[c] + One(Pending(c)) + One(Open(c)) <= 1 + faults
    BY AgentAssumption DEF Inv, TypeOK, RunsPaid
<1>2. runs[c] \in Nat
    BY <1>1
<1>. DEFINE open == One(Open(c))  pending == One(Pending(c))
            openN == One(Open(c)')  pendingN == One(Pending(c)')
<1>3. /\ open \in {0, 1} /\ pending \in {0, 1} /\ openN \in {0, 1} /\ pendingN \in {0, 1}
      /\ (Open(c) <=> open = 1) /\ (Open(c)' <=> openN = 1)
      /\ (Pending(c) <=> pending = 1) /\ (Pending(c)' <=> pendingN = 1)
    BY DEF One
<1>4. One(Open(c))' = openN /\ One(Pending(c))' = pendingN
    BY DEF One
<1>. HIDE DEF open, pending, openN, pendingN
<1>5. runs[c] + pending + open <= 1 + faults
    BY <1>1 DEF open, pending
<1>6. SUFFICES runs'[c] + pendingN + openN <= 1 + faults'
    BY <1>4
<1>7. CASE Quiet
    <2>1. openN <= open /\ pendingN <= pending /\ runs'[c] = runs[c] /\ faults' = faults
        BY <1>3, <1>7 DEF Quiet, NothingOpens, NothingPends
    <2>2. QED BY <1>1, <1>2, <1>3, <1>5, <2>1
<1>8. CASE RunsPending
    <2>1. PICK b \in Command : /\ Pending(b) /\ runs' = [runs EXCEPT ![b] = @ + 1]
                               /\ \A d \in Command : ~Pending(d)'
        BY <1>8 DEF RunsPending
    <2>2. openN <= open /\ pendingN = 0 /\ faults' = faults
        BY <1>3, <1>8, <2>1 DEF RunsPending, NothingOpens
    <2>3. runs'[c] = runs[c] + pending
        <3>1. CASE c = b
            BY <1>1, <1>2, <1>3, <2>1, <3>1
        <3>2. CASE c # b
            <4>1. ~Pending(c)
                BY <2>1, <3>2 DEF Pending
            <4>2. QED BY <1>1, <1>2, <1>3, <2>1, <3>2, <4>1
        <3>3. QED BY <3>1, <3>2
    <2>4. QED BY <1>1, <1>2, <1>3, <1>5, <2>2, <2>3
<1>9. CASE CostsFault
    <2>1. pendingN <= pending /\ runs'[c] = runs[c] /\ faults' = faults + 1
        BY <1>3, <1>9 DEF CostsFault, NothingPends
    <2>2. QED BY <1>1, <1>2, <1>3, <1>5, <2>1
<1>10. CASE GrantsOpen
    <2>1. openN <= open /\ runs'[c] = runs[c] /\ faults' = faults
        BY <1>3, <1>10 DEF GrantsOpen, NothingOpens
    <2>2. pendingN + openN <= pending + open
        <3>1. CASE NothingPends
            BY <1>3, <2>1, <3>1 DEF NothingPends
        <3>2. CASE ~NothingPends
            <4>1. PICK b \in Command : /\ Open(b) /\ ~Open(b)'
                                       /\ \A d \in Command : Pending(d)' => d = b
                BY <1>10, <3>2 DEF GrantsOpen
            <4>2. CASE c = b
                BY <1>3, <4>1, <4>2
            <4>3. CASE c # b
                BY <1>3, <2>1, <4>1, <4>3
            <4>4. QED BY <4>2, <4>3
        <3>3. QED BY <3>1, <3>2
    <2>3. QED BY <1>1, <1>2, <1>3, <1>5, <2>1, <2>2
<1>11. QED BY <1>7, <1>8, <1>9, <1>10, StepCosts

LEMMA RunsPaidInit == Init => RunsPaid
<1>. SUFFICES ASSUME Init, NEW c \in Command
              PROVE  runs[c] + One(Pending(c)) + One(Open(c)) <= 1 + faults
    BY DEF RunsPaid
<1>1. runs[c] = 0 /\ faults = 0
    BY DEF Init
<1>2. Work.stage = "sent"
    BY DEF Init, Work, Thread, Sent, Idle
<1>3. One(Pending(c)) = 0
    BY <1>2 DEF One, Pending
<1>4. One(Open(c)) \in {0, 1}
    BY DEF One
<1>5. QED BY <1>1, <1>3, <1>4

\* A command is run again only because of a fault, for any number of commands, faults
\* and data losses: without faults no command is run twice.
THEOREM RerunsCostFaults == Spec => []RerunsNeedFaults
<1>1. Inv /\ RunsPaid => RerunsNeedFaults
    <2>. SUFFICES ASSUME Inv, RunsPaid, NEW c \in Command PROVE runs[c] <= 1 + faults
        BY DEF RerunsNeedFaults
    <2>1. runs[c] \in Nat /\ faults \in Nat
        BY AgentAssumption DEF Inv, TypeOK
    <2>2. One(Pending(c)) \in {0, 1} /\ One(Open(c)) \in {0, 1}
        BY DEF One
    <2>3. runs[c] + One(Pending(c)) + One(Open(c)) <= 1 + faults
        BY DEF RunsPaid
    <2>4. QED BY <2>1, <2>2, <2>3
<1>2. Inv /\ RunsPaid /\ [Next]_vars => RunsPaid'
    BY RunsPaidStep
<1>3. QED BY <1>1, <1>2, InvStep, InvInit, RunsPaidInit, PTL DEF Spec
-----------------------------------------------------------------------------
(* Tokens: of the tokens granted, the commands open and the fetches that   *)
(* may still come late, there are as many as commands to begin with and    *)
(* one more for each fault.  So the tokens of Queue's Attempt suffice.     *)
OpenCommands == {c \in Command : Open(c)}

TokensPaid ==
    /\ IsFiniteSet(LateFetches)
    /\ Cardinality(used) + Cardinality(OpenCommands) + Cardinality(LateFetches)
          <= Cardinality(Command) + faults

LEMMA Grown ==
    ASSUME NEW S, IsFiniteSet(S), NEW x, NEW T, T \subseteq S \cup {x}
    PROVE  /\ IsFiniteSet(T) /\ Cardinality(T) \in Nat /\ Cardinality(S) \in Nat
           /\ Cardinality(T) <= Cardinality(S) + 1
<1>1. IsFiniteSet(S \cup {x}) /\ Cardinality(S) \in Nat
    BY FS_AddElement, FS_CardinalityType
<1>2. Cardinality(S \cup {x}) <= Cardinality(S) + 1
    BY <1>1, FS_AddElement
<1>3. IsFiniteSet(T) /\ Cardinality(T) <= Cardinality(S \cup {x})
    BY <1>1, FS_Subset
<1>4. Cardinality(T) \in Nat /\ Cardinality(S \cup {x}) \in Nat
    BY <1>1, <1>3, FS_CardinalityType
<1>5. QED BY <1>1, <1>2, <1>3, <1>4

LEMMA Kept ==
    ASSUME NEW S, IsFiniteSet(S), NEW T, T \subseteq S
    PROVE  /\ IsFiniteSet(T) /\ Cardinality(T) \in Nat /\ Cardinality(S) \in Nat
           /\ Cardinality(T) <= Cardinality(S)
<1>1. IsFiniteSet(T) /\ Cardinality(T) <= Cardinality(S)
    BY FS_Subset
<1>2. QED BY <1>1, FS_CardinalityType

LEMMA Shrunk ==
    ASSUME NEW S, IsFiniteSet(S), NEW x \in S, NEW T, T \subseteq S \ {x}
    PROVE  /\ IsFiniteSet(T) /\ Cardinality(T) \in Nat /\ Cardinality(S) \in Nat
           /\ Cardinality(T) + 1 <= Cardinality(S)
<1>1. IsFiniteSet(S \ {x}) /\ Cardinality(S \ {x}) = Cardinality(S) - 1
    BY FS_RemoveElement
<1>2. IsFiniteSet(T) /\ Cardinality(T) <= Cardinality(S \ {x})
    BY <1>1, FS_Subset
<1>3. Cardinality(T) \in Nat /\ Cardinality(S) \in Nat
    BY <1>2, FS_CardinalityType
<1>4. QED BY <1>1, <1>2, <1>3

LEMMA TokensPaidStep ==
    ASSUME Inv, TokensPaid, [Next]_vars
    PROVE  TokensPaid'
<1>. DEFINE u == Cardinality(used)  o == Cardinality(OpenCommands)
            l == Cardinality(LateFetches)  n == Cardinality(Command)
            uN == Cardinality(used')  oN == Cardinality(OpenCommands')
            lN == Cardinality(LateFetches')
<1>1. IsFiniteSet(Command) /\ IsFiniteSet(OpenCommands) /\ IsFiniteSet(LateFetches)
    BY AgentAssumption, FS_Subset DEF OpenCommands, TokensPaid
<1>2. u \in Nat /\ o \in Nat /\ l \in Nat /\ n \in Nat /\ faults \in Nat
    BY <1>1, NextTokenNew, FS_CardinalityType, AgentAssumption DEF Inv, TypeOK
<1>3. u + o + l <= n + faults
    BY DEF TokensPaid
<1>4. NothingOpens => OpenCommands' \subseteq OpenCommands
    BY DEF NothingOpens, OpenCommands
<1>. HIDE DEF n
<1>5. SUFFICES /\ IsFiniteSet(LateFetches')
               /\ uN + oN + lN <= n + faults'
    BY DEF TokensPaid, n
<1>6. CASE Quiet \/ RunsPending
    <2>1. used' = used /\ faults' = faults /\ OpenCommands' \subseteq OpenCommands
          /\ LateFetches' \subseteq LateFetches
        BY <1>4, <1>6 DEF Quiet, RunsPending
    <2>2. oN \in Nat /\ oN <= o
        BY <1>1, <2>1, Kept
    <2>3. IsFiniteSet(LateFetches') /\ lN \in Nat /\ lN <= l
        BY <1>1, <2>1, Kept
    <2>4. uN = u
        BY <2>1
    <2>. HIDE DEF u, o, l, uN, oN, lN
    <2>5. QED BY <1>2, <1>3, <2>1, <2>2, <2>3, <2>4
<1>7. CASE CostsFault
    <2>1. used' = used /\ faults' = faults + 1
        BY <1>7 DEF CostsFault
    <2>2. uN = u
        BY <2>1
    <2>3. CASE /\ \E c \in Command : \A b \in Command : Open(b)' => Open(b) \/ b = c
               /\ LateFetches' \subseteq LateFetches
        <3>1. PICK c \in Command : OpenCommands' \subseteq OpenCommands \cup {c}
            BY <2>3 DEF OpenCommands
        <3>2. oN \in Nat /\ oN <= o + 1
            BY <1>1, <3>1, Grown
        <3>3. IsFiniteSet(LateFetches') /\ lN \in Nat /\ lN <= l
            BY <1>1, <2>3, Kept
        <3>. HIDE DEF u, o, l, uN, oN, lN
        <3>4. QED BY <1>2, <1>3, <2>1, <2>2, <3>2, <3>3
    <2>4. CASE NothingOpens /\ \E r : LateFetches' \subseteq LateFetches \cup {r}
        <3>1. PICK r : LateFetches' \subseteq LateFetches \cup {r}
            BY <2>4
        <3>2. oN \in Nat /\ oN <= o
            BY <1>1, <1>4, <2>4, Kept
        <3>3. IsFiniteSet(LateFetches') /\ lN \in Nat /\ lN <= l + 1
            BY <1>1, <3>1, Grown
        <3>. HIDE DEF u, o, l, uN, oN, lN
        <3>4. QED BY <1>2, <1>3, <2>1, <2>2, <3>2, <3>3
    <2>5. QED BY <1>7, <2>3, <2>4 DEF CostsFault
<1>8. CASE GrantsOpen
    <2>1. faults' = faults /\ used' = used \cup {NextToken} /\ NothingOpens
        BY <1>8 DEF GrantsOpen
    <2>2. uN = u + 1
        BY <2>1, NextTokenNew DEF NextToken
    <2>3. CASE /\ \E c \in Command : Open(c) /\ ~Open(c)'
               /\ LateFetches' \subseteq LateFetches
        <3>1. PICK c \in Command : Open(c) /\ ~Open(c)'
            BY <2>3
        <3>2. c \in OpenCommands /\ OpenCommands' \subseteq OpenCommands \ {c}
            BY <1>4, <2>1, <3>1 DEF OpenCommands
        <3>3. oN \in Nat /\ oN + 1 <= o
            BY <1>1, <3>2, Shrunk
        <3>4. IsFiniteSet(LateFetches') /\ lN \in Nat /\ lN <= l
            BY <1>1, <2>3, Kept
        <3>. HIDE DEF u, o, l, uN, oN, lN
        <3>5. QED BY <1>2, <1>3, <2>1, <2>2, <3>3, <3>4
    <2>4. CASE \E r \in LateFetches : LateFetches' \subseteq LateFetches \ {r}
        <3>1. PICK r \in LateFetches : LateFetches' \subseteq LateFetches \ {r}
            BY <2>4
        <3>2. oN \in Nat /\ oN <= o
            BY <1>1, <1>4, <2>1, Kept
        <3>3. IsFiniteSet(LateFetches') /\ lN \in Nat /\ lN + 1 <= l
            BY <1>1, <3>1, Shrunk
        <3>. HIDE DEF u, o, l, uN, oN, lN
        <3>4. QED BY <1>2, <1>3, <2>1, <2>2, <3>2, <3>3
    <2>5. QED BY <1>8, <2>3, <2>4 DEF GrantsOpen
<1>9. QED BY <1>6, <1>7, <1>8, StepCosts

LEMMA TokensPaidInit == Init => TokensPaid
<1>. SUFFICES ASSUME Init PROVE TokensPaid
    OBVIOUS
<1>1. used = {} /\ LateFetches = {} /\ faults = 0
    BY DEF Init, LateFetches
<1>2. IsFiniteSet({}) /\ Cardinality({}) = 0
    BY FS_EmptySet
<1>3. Cardinality(OpenCommands) <= Cardinality(Command)
      /\ Cardinality(OpenCommands) \in Nat /\ Cardinality(Command) \in Nat
    BY AgentAssumption, Kept DEF OpenCommands
<1>4. QED BY <1>1, <1>2, <1>3 DEF TokensPaid
-----------------------------------------------------------------------------
(* The refinement of CommandQueue.                                         *)
PhaseOf == [c \in Command |-> queue[c].phase]
HolderOf == [c \in Command |-> IF queue[c].token = 0 THEN {} ELSE {queue[c].token}]
Attempts == 1..(Cardinality(Command) + MaxFaults)

\* There is a token left for every grant.
LEMMA TokenLeft ==
    ASSUME Inv, TokensPaid, NEW c \in Command, Claimable(c)
    PROVE  NextToken \in Attempts
<1>1. c \in OpenCommands
    BY DEF Claimable, Open, OpenCommands
<1>2. IsFiniteSet(Command) /\ IsFiniteSet(OpenCommands) /\ IsFiniteSet(LateFetches)
    BY AgentAssumption, FS_Subset DEF OpenCommands, TokensPaid
<1>3. Cardinality(OpenCommands) \in Nat \ {0}
    BY <1>1, <1>2, FS_CardinalityType, FS_EmptySet
<1>4. Cardinality(LateFetches) \in Nat /\ Cardinality(Command) \in Nat
    BY <1>2, FS_CardinalityType
<1>5. Cardinality(used) \in Nat /\ faults \in 0..MaxFaults /\ MaxFaults \in Nat
    BY NextTokenNew, AgentAssumption DEF Inv, TypeOK
<1>6. Cardinality(used) + Cardinality(OpenCommands) + Cardinality(LateFetches)
         <= Cardinality(Command) + faults
    BY DEF TokensPaid
<1>7. QED BY <1>3, <1>4, <1>5, <1>6 DEF NextToken, Attempts

LEMMA QueueInit == Init => Queue!Init
BY DEF Init, Queue!Init, Unsubmitted

\* What the hub does with a request is the queue's Grant or Settle, or nothing to it.
LEMMA HandledIsQueueStep ==
    ASSUME Inv, TokensPaid, NEW r, NEW answer, Sound(r, used), Handled(r, answer)
    PROVE  [Queue!Next]_(Queue!vars)
<1>1. queue \in [Command -> [phase : Phase, token : Nat, expired : BOOLEAN]]
    BY DEF Inv, TypeOK
<1>2. CASE \E c \in Command : Grants(r, answer, c)
    <2>1. PICK c \in Command : Grants(r, answer, c)
        BY <1>2
    <2>2. /\ queue' = [queue EXCEPT ![c] = Leased(NextToken)] /\ Claimable(c)
          /\ used' = used \cup {NextToken}
        BY <2>1 DEF Grants
    <2>3. NextToken \in Attempts /\ NextToken \notin used /\ NextToken # 0
        BY <2>2, TokenLeft, NextTokenNew
    <2>4. PICK a : a = NextToken
        OBVIOUS
    <2>5. /\ PhaseOf[c] \in {"waiting", "leased"}
          /\ PhaseOf' = [PhaseOf EXCEPT ![c] = "leased"]
          /\ HolderOf' = [HolderOf EXCEPT ![c] = {a}]
        BY <1>1, <2>2, <2>3, <2>4 DEF PhaseOf, HolderOf, Leased, Claimable
    <2>6. Queue!Grant(c, a)
        BY <2>2, <2>3, <2>4, <2>5 DEF Queue!Grant, PhaseOf, HolderOf
    <2>7. QED BY <2>3, <2>4, <2>6 DEF Queue!Next, Attempts
<1>3. CASE Settles(r, answer)
    <2>1. /\ queue' = [queue EXCEPT ![r.cmd] = Settled(r.token)] /\ Holds(r)
          /\ used' = used /\ r.cmd \in Command
        BY <1>3, AgentAssumption DEF Settles, Sound, Call
    <2>2. /\ PhaseOf[r.cmd] = "leased"
          /\ PhaseOf' = [PhaseOf EXCEPT ![r.cmd] = "settled"]
          /\ HolderOf' = HolderOf
        BY <1>1, <2>1 DEF PhaseOf, HolderOf, Settled, Holds
    <2>3. Queue!Settle(r.cmd)
        BY <2>1, <2>2 DEF Queue!Settle, PhaseOf, HolderOf
    <2>4. QED BY <2>1, <2>3 DEF Queue!Next
<1>4. CASE LeavesQueue(r, answer)
    BY <1>4 DEF LeavesQueue, Queue!vars
<1>5. QED BY <1>2, <1>3, <1>4 DEF Handled

LEMMA QueueStep ==
    ASSUME Inv, TokensPaid, [Next]_vars, losses' = losses
    PROVE  [Queue!Next]_(Queue!vars)
<1>1. ASSUME UNCHANGED <<queue, used>>
      PROVE  [Queue!Next]_(Queue!vars)
    BY <1>1 DEF Queue!vars
<1>2. ASSUME NEW t \in Thread,
             StartTask(t) \/ AgentStep(t) \/ TimeOut(t)
      PROVE  UNCHANGED <<queue, used>>
    BY <1>2 DEF StartTask, AgentStep, ContinueTask, Receive, ReportResult, TimeOut, hubVars
<1>3. ASSUME NEW t \in Thread, HubAnswers(t)
      PROVE  [Queue!Next]_(Queue!vars)
    <2>1. Sound(call[t], used) /\ call[t].stage = "sent" /\ Handle(call[t], t)
        BY <1>3 DEF HubAnswers, Inv, CallsSound
    <2>2. QED BY <2>1, HandleDoes, HandledIsQueueStep
<1>4. ASSUME HubHandlesLate
      PROVE  [Queue!Next]_(Queue!vars)
    <2>1. PICK r \in late : Handle(r, "nobody")
        BY <1>4 DEF HubHandlesLate
    <2>2. Sound(r, used) /\ r.stage = "sent"
        BY DEF Inv, CallsSound
    <2>3. QED BY <2>1, <2>2, HandleDoes, HandledIsQueueStep
<1>5. queue \in [Command -> [phase : Phase, token : Nat, expired : BOOLEAN]]
    BY DEF Inv, TypeOK
<1>6. ASSUME NEW c \in Command, Submit(c)
      PROVE  [Queue!Next]_(Queue!vars)
    <2>1. /\ queue[c].phase = "none" /\ queue' = [queue EXCEPT ![c].phase = "waiting"]
          /\ used' = used
        BY <1>6 DEF Submit
    <2>2. /\ PhaseOf[c] = "none"
          /\ PhaseOf' = [PhaseOf EXCEPT ![c] = "waiting"]
          /\ HolderOf' = HolderOf
        BY <1>5, <2>1 DEF PhaseOf, HolderOf
    <2>3. Queue!Submit(c)
        BY <2>1, <2>2 DEF Queue!Submit, PhaseOf, HolderOf
    <2>4. QED BY <2>3 DEF Queue!Next
<1>7. ASSUME NEW c \in Command, LeaseRunsOut(c)
      PROVE  [Queue!Next]_(Queue!vars)
    <2>1. queue' = [queue EXCEPT ![c].expired = TRUE] /\ used' = used
        BY <1>7 DEF LeaseRunsOut
    <2>2. PhaseOf' = PhaseOf /\ HolderOf' = HolderOf
        BY <1>5, <2>1 DEF PhaseOf, HolderOf
    <2>3. QED BY <2>1, <2>2 DEF Queue!vars, PhaseOf, HolderOf
<1>8. ~LoseDatabase
    BY AgentAssumption DEF LoseDatabase, Inv, TypeOK
<1>9. ASSUME BackoffElapses \/ Crash \/ UNCHANGED vars
      PROVE  UNCHANGED <<queue, used>>
    BY <1>9 DEF BackoffElapses, Crash, vars, hubVars
<1>10. QED BY <1>1, <1>2, <1>3, <1>4, <1>6, <1>7, <1>8, <1>9 DEF Next

\* Behind the agent's retries, crashes and late requests the hub is CommandQueue: every
\* step submits, grants or settles as the queue does or leaves it alone, the loss of the
\* database excepted, and commands and faults bound the attempts that are ever needed.
THEOREM AgentHubIsQueue == Spec => ImplementsQueue
<1>1. Inv /\ TokensPaid /\ [Next]_vars => [losses' = losses => [Queue!Next]_(Queue!vars)]_vars
    BY QueueStep
<1>2. Inv /\ TokensPaid /\ [Next]_vars => TokensPaid'
    BY TokensPaidStep
<1>3. QED
    BY <1>1, <1>2, InvInit, InvStep, TokensPaidInit, QueueInit, PTL DEF Spec, ImplementsQueue
=============================================================================
