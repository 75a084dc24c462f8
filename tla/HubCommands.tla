---------------------------- MODULE HubCommands -----------------------------
(***************************************************************************)
(* The hub's command queue: CommandService on top of the device_commands   *)
(* table.  Requests run on concurrent threads.  Each reads the clock       *)
(* before its SQL statement, so the statement may run with an old reading; *)
(* a statement locks the row it will write and another statement sees the  *)
(* lock (claimNext skips the row, complete waits for it).  The hub may     *)
(* stop between any two steps: the threads are gone, the rows stay.        *)
(*                                                                         *)
(* A result or error text is represented by the lease token of the attempt *)
(* that sent it.  Lease tokens are random UUIDs in the code; here they are *)
(* numbered in the order in which claims take effect, 0 standing for NULL. *)
(* Requests refused with 404 or 400 change nothing and are left out.       *)
(***************************************************************************)
EXTENDS Naturals, FiniteSets

CONSTANTS Device,          \* the registered devices
          CommandId,       \* ids of commands; their order is the order of ids
          Thread,          \* the hub's request threads
          LeaseDuration,   \* r4.commands.lease-duration-ms, in clock ticks
          MaxClock,        \* bound: the last clock tick explored
          MaxGrants,       \* bound: the number of leases ever granted
          None             \* no device, no command

ASSUME HubAssumption ==
    /\ CommandId \subseteq Nat
    /\ LeaseDuration \in Nat \ {0}
    /\ MaxClock \in Nat
    /\ MaxGrants \in Nat
    /\ None \notin Device
    /\ None \notin CommandId

VARIABLES row,             \* device_commands, by id
          req,             \* what each request thread is doing
          now,             \* the hub's clock
          granted,         \* history: the leases granted so far
          lastToken        \* the newest lease token

vars == <<row, req, now, granted, lastToken>>

Terminal == {"SUCCEEDED", "FAILED"}
Status == {"ABSENT", "PENDING", "RUNNING"} \cup Terminal

Row == [status : Status, device : Device \cup {None}, createdAt : Nat,
        attempts : Nat, leaseToken : Nat, leaseExpiresAt : Nat,
        startedAt : Nat, completedAt : Nat, result : Nat]

NoRow == [status |-> "ABSENT", device |-> None, createdAt |-> 0,
          attempts |-> 0, leaseToken |-> 0, leaseExpiresAt |-> 0,
          startedAt |-> 0, completedAt |-> 0, result |-> 0]

Op == {"idle", "create", "claim", "claimLocked", "complete", "completeLocked"}

Request == [op : Op, device : Device \cup {None}, cmd : CommandId \cup {None},
            token : Nat, at : Nat, success : BOOLEAN]

NoRequest == [op |-> "idle", device |-> None, cmd |-> None,
              token |-> 0, at |-> 0, success |-> FALSE]

Lease == [cmd : CommandId, token : Nat, expires : Nat]

Init ==
    /\ row = [c \in CommandId |-> NoRow]
    /\ req = [t \in Thread |-> NoRequest]
    /\ now = 0
    /\ granted = {}
    /\ lastToken = 0

Finish(t) == req' = [req EXCEPT ![t] = NoRequest]

\* The rows some statement in progress has locked.
Locked(c) ==
    \E t \in Thread : req[t].op \in {"claimLocked", "completeLocked"} /\ req[t].cmd = c
-----------------------------------------------------------------------------
(* create: the device and its capability were found; read the clock.       *)
BeginCreate(t, c, d) ==
    /\ req[t].op = "idle"
    /\ row[c].status = "ABSENT"
    /\ \A u \in Thread : req[u].op = "create" => req[u].cmd # c
    /\ req' = [req EXCEPT ![t] = [NoRequest EXCEPT !.op = "create", !.device = d,
                                                   !.cmd = c, !.at = now]]
    /\ UNCHANGED <<row, now, granted, lastToken>>

Insert(t) ==
    /\ req[t].op = "create"
    /\ row' = [row EXCEPT ![req[t].cmd] =
                  [NoRow EXCEPT !.status = "PENDING", !.device = req[t].device,
                                !.createdAt = req[t].at]]
    /\ Finish(t)
    /\ UNCHANGED <<now, granted, lastToken>>
-----------------------------------------------------------------------------
(* claimNext: the clock is read before the statement runs.                 *)
BeginClaim(t, d) ==
    /\ req[t].op = "idle"
    /\ req' = [req EXCEPT ![t] = [NoRequest EXCEPT !.op = "claim", !.device = d,
                                                   !.at = now]]
    /\ UNCHANGED <<row, now, granted, lastToken>>

\* Plausible bug: the wrong timestamp column is compared with the clock.
Claimable_ByStart(c, d, at) ==
    /\ row[c].device = d
    /\ \/ row[c].status = "PENDING"
       \/ row[c].status = "RUNNING" /\ row[c].startedAt <= at

\* The WHERE clause of the candidate query, for a claim that read the clock at "at".
Claimable(c, d, at) ==
    /\ row[c].device = d
    /\ \/ row[c].status = "PENDING"
       \/ row[c].status = "RUNNING" /\ row[c].leaseExpiresAt <= at

\* ORDER BY created_at, id
Older(a, b) ==
    \/ row[a].createdAt < row[b].createdAt
    \/ row[a].createdAt = row[b].createdAt /\ a < b

\* FOR UPDATE SKIP LOCKED
Candidates(t) ==
    {c \in CommandId : Claimable(c, req[t].device, req[t].at) /\ ~Locked(c)}

LockCandidate(t) ==
    /\ req[t].op = "claim"
    /\ lastToken < MaxGrants
    /\ \E c \in Candidates(t) :
          /\ \A b \in Candidates(t) : ~Older(b, c)
          /\ req' = [req EXCEPT ![t].op = "claimLocked", ![t].cmd = c]
    /\ UNCHANGED <<row, now, granted, lastToken>>

FindNothing(t) ==
    /\ req[t].op = "claim"
    /\ Candidates(t) = {}
    /\ Finish(t)
    /\ UNCHANGED <<row, now, granted, lastToken>>

\* Plausible bug: a command that is claimed again keeps its old token.
Claimed_KeepToken(r, token, at) ==
    [r EXCEPT !.status = "RUNNING", !.result = 0, !.attempts = @ + 1,
              !.leaseExpiresAt = at + LeaseDuration,
              !.leaseToken = IF @ = 0 THEN token ELSE @,
              !.startedAt = at, !.completedAt = 0]

\* The row a claim leaves behind: every field of the SET list.
Claimed(r, token, at) ==
    [r EXCEPT !.status = "RUNNING", !.result = 0, !.attempts = @ + 1,
              !.leaseExpiresAt = at + LeaseDuration, !.leaseToken = token,
              !.startedAt = at, !.completedAt = 0]

CommitClaim(t) ==
    /\ req[t].op = "claimLocked"
    /\ lastToken < MaxGrants
    /\ LET c == req[t].cmd
       IN  /\ row' = [row EXCEPT ![c] = Claimed(row[c], lastToken + 1, req[t].at)]
           /\ granted' = granted \cup {[cmd |-> c, token |-> lastToken + 1,
                                        expires |-> req[t].at + LeaseDuration]}
    /\ lastToken' = lastToken + 1
    /\ Finish(t)
    /\ UNCHANGED now
-----------------------------------------------------------------------------
(* complete: an agent reports under a lease it was once granted, possibly  *)
(* late and possibly again.  The service first looks at the status, then   *)
(* reads the clock; the UPDATE tests everything once more.                 *)
BeginComplete(t, l, ok) ==
    /\ req[t].op = "idle"
    /\ row[l.cmd].status = "RUNNING"
    /\ req' = [req EXCEPT ![t] =
                  [op |-> "complete", device |-> row[l.cmd].device, cmd |-> l.cmd,
                   token |-> l.token, at |-> now, success |-> ok]]
    /\ UNCHANGED <<row, now, granted, lastToken>>

\* Plausible bug: the lease token is not compared.
Matches_AnyToken(r, q) ==
    r.device = q.device /\ r.status = "RUNNING" /\ r.leaseExpiresAt > q.at

\* Plausible bug: only the token is compared, the deadline is forgotten.
Matches_AnyTime(r, q) ==
    r.device = q.device /\ r.status = "RUNNING" /\ r.leaseToken = q.token

\* The WHERE clause of the UPDATE.
Matches(r, q) ==
    /\ r.device = q.device
    /\ r.status = "RUNNING"
    /\ r.leaseToken = q.token
    /\ r.leaseExpiresAt > q.at

LockCompletion(t) ==
    /\ req[t].op = "complete"
    /\ ~Locked(req[t].cmd)
    /\ Matches(row[req[t].cmd], req[t])
    /\ req' = [req EXCEPT ![t].op = "completeLocked"]
    /\ UNCHANGED <<row, now, granted, lastToken>>

\* No row matched: 409, the lease expired or belongs to a later attempt.
RejectCompletion(t) ==
    /\ req[t].op = "complete"
    /\ ~Matches(row[req[t].cmd], req[t])
    /\ Finish(t)
    /\ UNCHANGED <<row, now, granted, lastToken>>

Completed(r, q) ==
    [r EXCEPT !.status = IF q.success THEN "SUCCEEDED" ELSE "FAILED",
              !.result = q.token, !.completedAt = q.at,
              !.leaseExpiresAt = 0, !.leaseToken = 0]

CommitCompletion(t) ==
    /\ req[t].op = "completeLocked"
    /\ row' = [row EXCEPT ![req[t].cmd] = Completed(@, req[t])]
    /\ Finish(t)
    /\ UNCHANGED <<now, granted, lastToken>>
-----------------------------------------------------------------------------
\* The hub stops and starts again: requests in progress are lost with their
\* locks, committed rows are not.
Restart ==
    /\ req' = [t \in Thread |-> NoRequest]
    /\ UNCHANGED <<row, now, granted, lastToken>>

Tick ==
    /\ now < MaxClock
    /\ now' = now + 1
    /\ UNCHANGED <<row, req, granted, lastToken>>

Next ==
    \/ \E t \in Thread :
          \/ \E c \in CommandId, d \in Device : BeginCreate(t, c, d)
          \/ Insert(t)
          \/ \E d \in Device : BeginClaim(t, d)
          \/ LockCandidate(t)
          \/ FindNothing(t)
          \/ CommitClaim(t)
          \/ \E l \in granted, ok \in BOOLEAN : BeginComplete(t, l, ok)
          \/ LockCompletion(t)
          \/ RejectCompletion(t)
          \/ CommitCompletion(t)
    \/ Restart
    \/ Tick

Spec == Init /\ [][Next]_vars
-----------------------------------------------------------------------------
TypeOK ==
    /\ row \in [CommandId -> Row]
    /\ req \in [Thread -> Request]
    /\ now \in Nat
    /\ granted \in SUBSET Lease
    /\ lastToken \in Nat

LeasesOf(c) == {l \in granted : l.cmd = c}

\* A lease that no later lease of the same command has replaced.
IsLatest(c, token) == \A l \in LeasesOf(c) : l.token <= token

\* claimNext's token is the only key to a running command: the row carries the
\* latest lease granted for it, with that lease's deadline, so that the agent of
\* an earlier attempt can never finish it (the lease_token test of complete).
RunningUnderLatestLease ==
    \A c \in CommandId : row[c].status = "RUNNING" =>
        /\ [cmd |-> c, token |-> row[c].leaseToken,
            expires |-> row[c].leaseExpiresAt] \in granted
        /\ IsLatest(c, row[c].leaseToken)

\* The result of a finished command was sent by the attempt that held the latest
\* lease, and that attempt was on time by the clock complete() read.  An agent
\* that lost its lease and answers late never overwrites or pre-empts the result.
ResultFromLatestLease ==
    \A c \in CommandId : row[c].status \in Terminal =>
        \E l \in LeasesOf(c) :
            /\ l.token = row[c].result
            /\ IsLatest(c, l.token)
            /\ row[c].completedAt < l.expires

\* attempt_count is the number of leases ever granted for the command, whatever
\* the interleaving of claims, completions and restarts.
AttemptsCountLeases ==
    \A c \in CommandId : row[c].attempts = Cardinality(LeasesOf(c))

\* No command is stranded: a running command becomes claimable again within one
\* lease duration, also when the hub or the agent stopped half-way.
LeaseEndsInTime ==
    \A c \in CommandId : row[c].status = "RUNNING" =>
        row[c].leaseExpiresAt <= now + LeaseDuration

\* A finished command never changes again: no claim revives it, no second
\* completion replaces its result, although complete() tests the status in a read
\* of its own before the UPDATE.
TerminalIsFinal ==
    [][\A c \in CommandId : row[c].status \in Terminal => row'[c] = row[c]]_vars

\* A lease is honoured: the token of a running command goes away only because its
\* holder finished the command or because the lease has run out by the hub's clock
\* (claimNext compares with a reading of the clock that may be old, never young).
LeaseHonoured ==
    [][\A c \in CommandId :
          row[c].status = "RUNNING" /\ row'[c].leaseToken # row[c].leaseToken =>
              \/ row'[c].status \in Terminal /\ row'[c].result = row[c].leaseToken
              \/ row[c].leaseExpiresAt <= now]_vars
-----------------------------------------------------------------------------
(* The queue implements CommandQueue.                                      *)
PhaseOf(status) ==
    CASE status = "ABSENT"  -> "none"
      [] status = "PENDING" -> "waiting"
      [] status = "RUNNING" -> "leased"
      [] OTHER              -> "settled"

HolderOf(r) ==
    CASE r.status = "RUNNING"  -> {r.leaseToken}
      [] r.status \in Terminal -> {r.result}
      [] OTHER                 -> {}

AbsPhase == [c \in CommandId |-> PhaseOf(row[c].status)]
AbsHolder == [c \in CommandId |-> HolderOf(row[c])]

Queue == INSTANCE CommandQueue
            WITH Command <- CommandId, Attempt <- 1..MaxGrants,
                 phase <- AbsPhase, holder <- AbsHolder,
                 used <- {l.token : l \in granted}

\* Every behaviour of the hub's queue is one the abstract queue allows: commands
\* are settled once, by the attempt that holds them.
ImplementsQueue == Queue!Spec
=============================================================================
