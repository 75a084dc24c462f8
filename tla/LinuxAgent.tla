----------------------------- MODULE LinuxAgent -----------------------------
(***************************************************************************)
(* The Linux agent and the hub it talks to over HTTP.  The agent has two   *)
(* scheduler threads, "heartbeat" and "poll", which share deviceId and one *)
(* HubBackoff.  A call may time out before the hub has seen it (the hub    *)
(* may then handle it late, with nobody listening) or after (the answer is *)
(* lost).  The agent may crash and restart; the hub may lose its database  *)
(* and with it the device and its commands.                                *)
(*                                                                         *)
(* The hub is the queue of module CommandQueue plus lease expiry, its      *)
(* requests taken as atomic: HubCommands justifies that.  Time appears     *)
(* only as two events, "the backoff has elapsed" and "a lease has run      *)
(* out"; the length of the backoff (HubBackoff.failureCount) is left out.  *)
(***************************************************************************)
EXTENDS Naturals, FiniteSets

CONSTANTS Command,       \* commands, numbered in the order in which they are created
          MaxFaults,     \* bound: timeouts, crashes and leases that run out under a live attempt
          MaxDataLosses  \* bound: how often the hub loses its database

ASSUME AgentAssumption ==
    /\ Command \subseteq Nat \ {0} /\ IsFiniteSet(Command)
    /\ MaxFaults \in Nat /\ MaxDataLosses \in Nat

Thread == {"heartbeat", "poll"}

VARIABLES deviceId,      \* LinuxAgent.deviceId, 0 for null
          started,       \* start() has made its first registration attempt
          waiting,       \* HubBackoff: nextAttemptAt lies in the future
          completed,     \* completedCommandIds
          call,          \* what each thread is doing
          device,        \* the hub's id for this agent, 0 if it has none
          lastDevice,    \* the newest device id the hub has given out
          queue,         \* the hub's commands
          used,          \* lease tokens granted
          late,          \* requests the agent gave up on and the hub has not seen
          runs,          \* history: how often the agent has run each command
          faults, losses

agentVars == <<deviceId, started, waiting, completed, call>>
hubVars == <<device, lastDevice, queue, used>>
vars == <<agentVars, hubVars, late, runs, faults, losses>>

Phase == {"none", "waiting", "leased", "settled", "lost"}
Kind == {"register", "heartbeat", "fetch", "complete"}
Stage == {"idle", "registered", "sent", "answered", "executing"}

\* A thread's call: its request, and the answer once there is one.  "device" is the
\* id the request carries or, for register, the id in the answer.
Call == [stage : Stage, kind : Kind, device : Nat, cmd : Command \cup {0},
         token : Nat, ok : BOOLEAN]

Idle == [stage |-> "idle", kind |-> "register", device |-> 0, cmd |-> 0,
         token |-> 0, ok |-> FALSE]

Sent(kind, dev) == [Idle EXCEPT !.stage = "sent", !.kind = kind, !.device = dev]

Unsubmitted == [phase |-> "none", token |-> 0, expired |-> FALSE]

Init ==
    /\ deviceId = 0 /\ started = FALSE /\ waiting = FALSE /\ completed = {}
    /\ call = [t \in Thread |-> IF t = "poll" THEN Sent("register", 0) ELSE Idle]
    /\ device = 0 /\ lastDevice = 0
    /\ queue = [c \in Command |-> Unsubmitted]
    /\ used = {}
    /\ late = {} /\ runs = [c \in Command |-> 0] /\ faults = 0 /\ losses = 0

Does(t, next) == call' = [call EXCEPT ![t] = next]
-----------------------------------------------------------------------------
(* The hub handles one request; its answer goes to thread t, or to nobody. *)
Answered(r, ok) == [r EXCEPT !.stage = "answered", !.ok = ok]

Deliver(t, answer) == IF t \in Thread THEN Does(t, answer) ELSE UNCHANGED call

\* register: an agent the hub knows keeps its id.
HandleRegister(r, t) ==
    /\ r.kind = "register"
    /\ device' = IF device # 0 THEN device ELSE lastDevice + 1
    /\ lastDevice' = IF device # 0 THEN lastDevice ELSE lastDevice + 1
    /\ Deliver(t, [Answered(r, TRUE) EXCEPT !.device = device'])
    /\ UNCHANGED <<queue, used>>

HandleHeartbeat(r, t) ==
    /\ r.kind = "heartbeat"
    /\ Deliver(t, Answered(r, r.device = device))
    /\ UNCHANGED hubVars

\* Plausible bug: a command whose lease ran out is not offered again.
Claimable_WaitingOnly(c) == queue[c].phase = "waiting"

Claimable(c) ==
    \/ queue[c].phase = "waiting"
    \/ queue[c].phase = "leased" /\ queue[c].expired

NextToken == Cardinality(used) + 1

\* commands/next: the oldest command nobody holds, or 204 (cmd = 0), or 404.
HandleFetch(r, t) ==
    /\ r.kind = "fetch"
    /\ \/ /\ r.device # device
          /\ Deliver(t, Answered(r, FALSE))
          /\ UNCHANGED hubVars
       \/ /\ r.device = device
          /\ \A c \in Command : ~Claimable(c)
          /\ Deliver(t, Answered(r, TRUE))
          /\ UNCHANGED hubVars
       \/ /\ r.device = device
          /\ \E c \in Command :
                /\ Claimable(c)
                /\ \A b \in Command : b < c => ~Claimable(b)
                /\ queue' = [queue EXCEPT ![c] = [phase |-> "leased", token |-> NextToken,
                                                  expired |-> FALSE]]
                /\ used' = used \cup {NextToken}
                /\ Deliver(t, [Answered(r, TRUE) EXCEPT !.cmd = c, !.token = NextToken])
          /\ UNCHANGED <<device, lastDevice>>

\* Plausible bug: any attempt may settle a leased command.
Holds_AnyToken(r) ==
    r.device = device /\ queue[r.cmd].phase = "leased" /\ ~queue[r.cmd].expired

\* Plausible bug: the comparison with the deadline is the wrong way round.
Holds_PastDeadline(r) ==
    /\ r.device = device
    /\ queue[r.cmd].phase = "leased"
    /\ queue[r.cmd].token = r.token
    /\ queue[r.cmd].expired

Holds(r) ==
    /\ r.device = device
    /\ queue[r.cmd].phase = "leased"
    /\ queue[r.cmd].token = r.token
    /\ ~queue[r.cmd].expired

\* The row keeps, as the author of its result, the token the result came with.
Settled(token) == [phase |-> "settled", token |-> token, expired |-> FALSE]

\* result: 2xx for the holder of a live lease, 404 or 409 otherwise.
HandleComplete(r, t) ==
    /\ r.kind = "complete"
    /\ Deliver(t, Answered(r, Holds(r)))
    /\ queue' = IF Holds(r) THEN [queue EXCEPT ![r.cmd] = Settled(r.token)] ELSE queue
    /\ UNCHANGED <<device, lastDevice, used>>

Handle(r, t) ==
    \/ HandleRegister(r, t)
    \/ HandleHeartbeat(r, t)
    \/ HandleFetch(r, t)
    \/ HandleComplete(r, t)

HubAnswers(t) ==
    /\ call[t].stage = "sent"
    /\ Handle(call[t], t)
    /\ UNCHANGED <<deviceId, started, waiting, completed, late, runs, faults, losses>>

\* A request that arrives after its thread gave up: the answer goes nowhere.
HubHandlesLate ==
    /\ \E r \in late :
          /\ Handle(r, "nobody")
          /\ late' = late \ {r}
    /\ UNCHANGED <<deviceId, started, waiting, completed, runs, faults, losses>>

Submit(c) ==
    /\ device # 0
    /\ queue[c].phase = "none"
    /\ \A b \in Command : b < c => queue[b].phase # "none"
    /\ queue' = [queue EXCEPT ![c].phase = "waiting"]
    /\ UNCHANGED <<agentVars, device, lastDevice, used, late, runs, faults, losses>>

\* An attempt the agent is still at: its lease is in an answer under way to a thread,
\* or the poll thread works on it or reports its result.
Alive(token) == \E t \in Thread : call[t].token = token

\* A lease runs out; under a live attempt that counts as a fault.
LeaseRunsOut(c) ==
    /\ queue[c].phase = "leased" /\ ~queue[c].expired
    /\ \/ ~Alive(queue[c].token) /\ UNCHANGED faults
       \/ Alive(queue[c].token) /\ faults < MaxFaults /\ faults' = faults + 1
    /\ queue' = [queue EXCEPT ![c].expired = TRUE]
    /\ UNCHANGED <<agentVars, device, lastDevice, used, late, runs, losses>>

LoseDatabase ==
    /\ device # 0
    /\ losses < MaxDataLosses
    /\ losses' = losses + 1
    /\ device' = 0
    /\ queue' = [c \in Command |->
                    IF queue[c].phase = "none" THEN queue[c]
                    ELSE [queue[c] EXCEPT !.phase = "lost"]]
    /\ UNCHANGED <<agentVars, lastDevice, used, late, runs, faults>>
-----------------------------------------------------------------------------
(* The agent.                                                              *)
TaskKind(t) == IF t = "heartbeat" THEN "heartbeat" ELSE "fetch"

\* heartbeatSafely and pollCommandSafely up to their first hub call.
StartTask(t) ==
    /\ started
    /\ call[t].stage = "idle"
    /\ ~waiting
    /\ Does(t, IF deviceId = 0 THEN Sent("register", 0) ELSE Sent(TaskKind(t), deviceId))
    /\ UNCHANGED <<deviceId, started, waiting, completed, hubVars, late, runs, faults, losses>>

\* registerIfNeeded returned an id: go on with the task unless the other thread
\* has started a backoff in between.
ContinueTask(t) ==
    /\ call[t].stage = "registered"
    /\ Does(t, IF waiting THEN Idle ELSE Sent(TaskKind(t), call[t].device))
    /\ UNCHANGED <<deviceId, started, waiting, completed, hubVars, late, runs, faults, losses>>

\* recordSuccess
Succeed == waiting' = FALSE

\* recordFailure
Fail == waiting' = TRUE

ReceiveRegister(t) ==
    /\ call[t].kind = "register"
    /\ deviceId' = call[t].device
    /\ Succeed
    /\ started' = TRUE
    /\ Does(t, IF started THEN [call[t] EXCEPT !.stage = "registered"] ELSE Idle)
    /\ UNCHANGED <<completed, runs>>

\* Plausible bug: a 404 is treated like any other failure.
ReceiveHeartbeat_KeepsId(t) ==
    /\ call[t].kind = "heartbeat"
    /\ IF call[t].ok THEN Succeed ELSE Fail
    /\ Does(t, Idle)
    /\ UNCHANGED <<deviceId, started, completed, runs>>

\* 404 forgets the device id, whichever id the heartbeat carried.
ReceiveHeartbeat(t) ==
    /\ call[t].kind = "heartbeat"
    /\ IF call[t].ok THEN Succeed /\ UNCHANGED deviceId
                     ELSE Fail /\ deviceId' = 0
    /\ Does(t, Idle)
    /\ UNCHANGED <<started, completed, runs>>

\* executeCommand skips a command this process has completed before.
ReceiveFetch(t) ==
    /\ call[t].kind = "fetch"
    /\ IF call[t].ok THEN Succeed ELSE Fail
    /\ IF call[t].ok /\ call[t].cmd # 0 /\ call[t].cmd \notin completed
       THEN /\ Does(t, [call[t] EXCEPT !.stage = "executing"])
            /\ runs' = [runs EXCEPT ![call[t].cmd] = @ + 1]
       ELSE Does(t, Idle) /\ UNCHANGED runs
    /\ UNCHANGED <<deviceId, started, completed>>

\* Plausible bug: the command is remembered as completed whatever the hub answered.
ReceiveComplete_Always(t) ==
    /\ call[t].kind = "complete"
    /\ IF call[t].ok THEN Succeed ELSE Fail
    /\ completed' = completed \cup {call[t].cmd}
    /\ Does(t, Idle)
    /\ UNCHANGED <<deviceId, started, runs>>

\* A refused result (404, 409) counts as a failed attempt, like a lost one.
ReceiveComplete(t) ==
    /\ call[t].kind = "complete"
    /\ IF call[t].ok THEN Succeed /\ completed' = completed \cup {call[t].cmd}
                     ELSE Fail /\ UNCHANGED completed
    /\ Does(t, Idle)
    /\ UNCHANGED <<deviceId, started, runs>>

Receive(t) ==
    /\ call[t].stage = "answered"
    /\ \/ ReceiveRegister(t)
       \/ ReceiveHeartbeat(t)
       \/ ReceiveFetch(t)
       \/ ReceiveComplete(t)
    /\ UNCHANGED <<hubVars, late, faults, losses>>

\* The handler has returned; the result is sent without asking the backoff.
ReportResult(t) ==
    /\ call[t].stage = "executing"
    /\ Does(t, [call[t] EXCEPT !.stage = "sent", !.kind = "complete", !.ok = FALSE])
    /\ UNCHANGED <<deviceId, started, waiting, completed, hubVars, late, runs, faults, losses>>

\* Requests the hub may still see when nobody waits for them any more.  A heartbeat
\* that comes late changes nothing this module has.
UnderWay(threads) ==
    {call[t] : t \in {u \in threads : call[u].stage = "sent" /\ call[u].kind # "heartbeat"}}

\* The call fails without an answer; the request itself may still be under way.
TimeOut(t) ==
    /\ call[t].stage \in {"sent", "answered"}
    /\ faults < MaxFaults
    /\ faults' = faults + 1
    /\ late' = late \cup UnderWay({t})
    /\ Fail
    /\ started' = TRUE
    /\ Does(t, Idle)
    /\ UNCHANGED <<deviceId, completed, hubVars, runs, losses>>

BackoffElapses ==
    /\ waiting
    /\ waiting' = FALSE
    /\ UNCHANGED <<deviceId, started, completed, call, hubVars, late, runs, faults, losses>>

\* The process dies and systemd starts it again; only the agent id survives.
Crash ==
    /\ faults < MaxFaults
    /\ faults' = faults + 1
    /\ deviceId' = 0 /\ started' = FALSE /\ waiting' = FALSE /\ completed' = {}
    /\ late' = late \cup UnderWay(Thread)
    /\ call' = [t \in Thread |-> IF t = "poll" THEN Sent("register", 0) ELSE Idle]
    /\ UNCHANGED <<hubVars, runs, losses>>

AgentStep(t) == ContinueTask(t) \/ Receive(t) \/ ReportResult(t)

Next ==
    \/ \E t \in Thread :
          StartTask(t) \/ AgentStep(t) \/ TimeOut(t) \/ HubAnswers(t)
    \/ \E c \in Command : Submit(c) \/ LeaseRunsOut(c)
    \/ BackoffElapses \/ Crash \/ HubHandlesLate \/ LoseDatabase

\* The threads keep running, every call ends, clocks advance.  An abandoned lease
\* runs out.  A heartbeat that is let through again and again is sent in the end:
\* with fixed delays of different lengths the two timers drift past each other, so
\* the poll cannot take every slot the backoff leaves.
Fairness ==
    /\ \A t \in Thread : WF_vars(StartTask(t)) /\ WF_vars(AgentStep(t)) /\ WF_vars(HubAnswers(t))
    /\ SF_vars(StartTask("heartbeat"))
    /\ WF_vars(BackoffElapses)
    /\ \A c \in Command : WF_vars(LeaseRunsOut(c) /\ faults' = faults)

Spec == Init /\ [][Next]_vars /\ Fairness
-----------------------------------------------------------------------------
TypeOK ==
    /\ deviceId \in Nat /\ device \in Nat /\ lastDevice \in Nat
    /\ started \in BOOLEAN /\ waiting \in BOOLEAN
    /\ completed \subseteq Command
    /\ call \in [Thread -> Call]
    /\ queue \in [Command -> [phase : Phase, token : Nat, expired : BOOLEAN]]
    /\ used \subseteq Nat
    /\ \A r \in late : r \in Call
    /\ runs \in [Command -> Nat]
    /\ faults \in 0..MaxFaults /\ losses \in 0..MaxDataLosses

\* completedCommandIds never makes the agent skip work the hub still waits for: what
\* the agent believes completed is settled at the hub, or gone with its database, and
\* so is never handed out again.
AckMeansSettled ==
    \A c \in completed : queue[c].phase \in {"settled", "lost"}

\* A command is run again only because of a fault: a lost answer, a crash, or a lease
\* that ran out under the attempt.  Without faults it is run at most once.
RerunsNeedFaults == \A c \in Command : runs[c] <= 1 + faults

\* Every command the hub accepts is settled in the end (or lost with the database),
\* however timeouts, late requests, crashes and expiring leases fall, once there are
\* no more of them.
CommandsSettle ==
    \A c \in Command :
        (queue[c].phase = "waiting") ~> (queue[c].phase \in {"settled", "lost"})

\* The agent ends up registered under the id the hub has for it, also when the hub
\* has lost it: the 404 to a heartbeat makes it register again.
EndsRegistered == <>[](deviceId # 0 /\ deviceId = device)
-----------------------------------------------------------------------------
(* The hub of this module is the abstract queue until it loses its data.   *)
Queue == INSTANCE CommandQueue
            WITH Attempt <- 1..(Cardinality(Command) + MaxFaults),
                 phase <- [c \in Command |-> queue[c].phase],
                 holder <- [c \in Command |->
                              IF queue[c].token = 0 THEN {} ELSE {queue[c].token}]

\* Through retries, crashes and late requests a command is settled at most once and
\* only by the attempt that holds it: every step is one of the queue's, the loss of
\* the database alone excepted.
ImplementsQueue ==
    /\ Queue!Init
    /\ [][losses' = losses => [Queue!Next]_(Queue!vars)]_vars
=============================================================================
