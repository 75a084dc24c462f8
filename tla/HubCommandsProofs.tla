------------------------- MODULE HubCommandsProofs --------------------------
(***************************************************************************)
(* Proofs about HubCommands, for any sets of devices, commands and request *)
(* threads and any lease duration.                                         *)
(***************************************************************************)
EXTENDS HubCommands, FiniteSetTheorems, TLAPS

\* What the request threads know: a clock reading is never ahead of the clock, a
\* row that is locked is locked once and still satisfies the WHERE clause that
\* found it, and a row about to be inserted is absent and is inserted once.
ReadingsArePast == \A t \in Thread : req[t].at <= now

NamesACommand ==
    \A t \in Thread :
        req[t].op \in {"create", "claimLocked", "complete", "completeLocked"} =>
            req[t].cmd \in CommandId

LocksExclude ==
    \A t, u \in Thread :
        /\ req[t].op \in {"claimLocked", "completeLocked"}
        /\ req[u].op \in {"claimLocked", "completeLocked"}
        /\ req[t].cmd = req[u].cmd
        => t = u

LockedStillMatches ==
    \A t \in Thread :
        /\ req[t].op = "claimLocked" => Claimable(req[t].cmd, req[t].device, req[t].at)
        /\ req[t].op = "completeLocked" => Matches(row[req[t].cmd], req[t])

InsertsOnce ==
    \A t, u \in Thread :
        req[t].op = "create" =>
            /\ req[t].device \in Device
            /\ row[req[t].cmd].status = "ABSENT"
            /\ (req[u].op = "create" /\ req[u].cmd = req[t].cmd => t = u)

\* Tokens are handed out in order, to commands that exist.
TokensAreOld ==
    \A l \in granted : l.token \in 1..lastToken /\ row[l.cmd].status # "ABSENT"

TokensAreBounded == lastToken <= MaxGrants

\* The inductive invariant: the two properties about leases, what the threads
\* know, and what the tokens are.
IInv ==
    /\ TypeOK
    /\ ReadingsArePast
    /\ NamesACommand
    /\ LocksExclude
    /\ LockedStillMatches
    /\ InsertsOnce
    /\ TokensAreOld
    /\ TokensAreBounded
    /\ RunningUnderLatestLease
    /\ ResultFromLatestLease
    /\ LeaseEndsInTime

-----------------------------------------------------------------------------
LEMMA InitTypeOK == Init => TypeOK
  BY HubAssumption DEF Init, TypeOK, Row, NoRow, Status, Request, NoRequest, Op

\* The row a claim writes and the row a completion writes are rows.
LEMMA ClaimedType ==
  ASSUME NEW r \in Row, NEW token \in Nat, NEW at \in Nat
  PROVE  Claimed(r, token, at) \in Row
<1>1. at + LeaseDuration \in Nat /\ r.attempts + 1 \in Nat
  BY HubAssumption DEF Row
<1>. QED BY <1>1, HubAssumption DEF Claimed, Row, Status, Terminal

LEMMA CompletedType ==
  ASSUME NEW r \in Row, NEW q \in Request
  PROVE  Completed(r, q) \in Row
  BY DEF Completed, Row, Request, Status, Terminal

\* The step theorem of TypeOK needs to know that a thread that writes names a command.
LEMMA NextTypeOK ==
  ASSUME TypeOK, NamesACommand, InsertsOnce, [Next]_vars
  PROVE  TypeOK'
<1> USE DEF TypeOK
<1>1. ASSUME NEW t \in Thread, NEW c \in CommandId, NEW d \in Device, BeginCreate(t, c, d)
      PROVE  TypeOK'
  BY <1>1 DEF BeginCreate, Request, NoRequest, Op
<1>2. ASSUME NEW t \in Thread, Insert(t)
      PROVE  TypeOK'
  <2>1. req' \in [Thread -> Request]
    BY <1>2 DEF Insert, Finish, Request, NoRequest, Op
  <2>2. [NoRow EXCEPT !.status = "PENDING", !.device = req[t].device,
                      !.createdAt = req[t].at] \in Row
    BY <1>2 DEF Insert, InsertsOnce, NoRow, Row, Status, Request
  <2>. QED BY <1>2, <2>1, <2>2 DEF Insert, NamesACommand
<1>3. ASSUME NEW t \in Thread, NEW d \in Device, BeginClaim(t, d)
      PROVE  TypeOK'
  BY <1>3 DEF BeginClaim, Request, NoRequest, Op
<1>4. ASSUME NEW t \in Thread, LockCandidate(t)
      PROVE  TypeOK'
  <2>1. PICK c \in CommandId : req' = [req EXCEPT ![t].op = "claimLocked", ![t].cmd = c]
    BY <1>4 DEF LockCandidate, Candidates
  <2>2. [req[t] EXCEPT !.op = "claimLocked", !.cmd = c] \in Request
    BY DEF Request, Op
  <2>3. req' = [req EXCEPT ![t] = [req[t] EXCEPT !.op = "claimLocked", !.cmd = c]]
    BY <2>1
  <2>. QED BY <1>4, <2>2, <2>3 DEF LockCandidate
<1>5. ASSUME NEW t \in Thread, FindNothing(t)
      PROVE  TypeOK'
  BY <1>5 DEF FindNothing, Finish, Request, NoRequest, Op
<1>6. ASSUME NEW t \in Thread, CommitClaim(t)
      PROVE  TypeOK'
  <2>1. req' \in [Thread -> Request]
    BY <1>6 DEF CommitClaim, Finish, Request, NoRequest, Op
  <2>2. req[t].cmd \in CommandId /\ req[t].at \in Nat
    BY <1>6 DEF CommitClaim, NamesACommand, Request
  <2>3. row' \in [CommandId -> Row]
    BY <1>6, <2>2, ClaimedType DEF CommitClaim
  <2>4. granted' \in SUBSET Lease
    BY <1>6, <2>2, HubAssumption DEF CommitClaim, Lease
  <2>. QED BY <1>6, <2>1, <2>3, <2>4 DEF CommitClaim
<1>7. ASSUME NEW t \in Thread, NEW l \in granted, NEW ok \in BOOLEAN, BeginComplete(t, l, ok)
      PROVE  TypeOK'
  BY <1>7 DEF BeginComplete, Request, Op, Lease, Row
<1>8. ASSUME NEW t \in Thread, LockCompletion(t)
      PROVE  TypeOK'
  BY <1>8 DEF LockCompletion, Request, Op
<1>9. ASSUME NEW t \in Thread, RejectCompletion(t)
      PROVE  TypeOK'
  BY <1>9 DEF RejectCompletion, Finish, Request, NoRequest, Op
<1>10. ASSUME NEW t \in Thread, CommitCompletion(t)
      PROVE  TypeOK'
  <2>1. req' \in [Thread -> Request]
    BY <1>10 DEF CommitCompletion, Finish, Request, NoRequest, Op
  <2>2. req[t].cmd \in CommandId
    BY <1>10 DEF CommitCompletion, NamesACommand
  <2>3. row' \in [CommandId -> Row]
    BY <1>10, <2>2, CompletedType DEF CommitCompletion
  <2>. QED BY <1>10, <2>1, <2>3 DEF CommitCompletion
<1>11. ASSUME Restart PROVE TypeOK'
  BY <1>11 DEF Restart, Request, NoRequest, Op
<1>12. ASSUME Tick PROVE TypeOK'
  BY <1>12 DEF Tick
<1>13. CASE UNCHANGED vars
  BY <1>13 DEF vars
<1>. QED
  BY <1>1, <1>2, <1>3, <1>4, <1>5, <1>6, <1>7, <1>8, <1>9, <1>10, <1>11, <1>12, <1>13
  DEF Next

-----------------------------------------------------------------------------
LEMMA InitIInv == Init => IInv
<1> SUFFICES ASSUME Init PROVE IInv
  OBVIOUS
<1>1. TypeOK
  BY InitTypeOK
<1>2. ReadingsArePast /\ NamesACommand /\ LocksExclude /\ LockedStillMatches /\ InsertsOnce
  BY DEF Init, NoRequest, ReadingsArePast, NamesACommand, LocksExclude,
         LockedStillMatches, InsertsOnce
<1>3. TokensAreOld /\ TokensAreBounded
  BY HubAssumption DEF Init, TokensAreOld, TokensAreBounded
<1>4. RunningUnderLatestLease /\ ResultFromLatestLease /\ LeaseEndsInTime
  BY DEF Init, NoRow, Terminal, RunningUnderLatestLease, ResultFromLatestLease, LeaseEndsInTime
<1>. QED BY <1>1, <1>2, <1>3, <1>4 DEF IInv

\* What is said of rows and leases survives every step that only moves a thread.
LEMMA RowsUntouched ==
  ASSUME IInv, UNCHANGED <<row, granted, lastToken>>, now' \in Nat, now <= now'
  PROVE  /\ TokensAreOld' /\ TokensAreBounded'
         /\ RunningUnderLatestLease' /\ ResultFromLatestLease' /\ LeaseEndsInTime'
<1>1. TokensAreOld' /\ TokensAreBounded'
  BY DEF IInv, TokensAreOld, TokensAreBounded
<1>2. RunningUnderLatestLease' /\ ResultFromLatestLease'
  BY DEF IInv, RunningUnderLatestLease, ResultFromLatestLease, IsLatest, LeasesOf
<1>3. LeaseEndsInTime'
  BY HubAssumption DEF IInv, TypeOK, Row, LeaseEndsInTime
<1>. QED BY <1>1, <1>2, <1>3

\* What is said of the threads survives when one thread becomes idle and the row
\* it may have written was locked by it alone, or was absent.
LEMMA ThreadFinishes ==
  ASSUME IInv, NEW t \in Thread, Finish(t), UNCHANGED now,
         \A u \in Thread \ {t} :
            /\ req[u].op = "create" => row'[req[u].cmd] = row[req[u].cmd]
            /\ req[u].op \in {"claimLocked", "completeLocked"} =>
                  row'[req[u].cmd] = row[req[u].cmd]
  PROVE  /\ ReadingsArePast' /\ NamesACommand' /\ LocksExclude'
         /\ LockedStillMatches' /\ InsertsOnce'
<1>1. /\ req'[t].op = "idle" /\ req'[t].at = 0
      /\ \A u \in Thread \ {t} : req'[u] = req[u]
  BY DEF IInv, TypeOK, Finish, NoRequest
<1>2. ReadingsArePast'
  BY <1>1 DEF IInv, TypeOK, ReadingsArePast
<1>3. NamesACommand'
  BY <1>1 DEF IInv, NamesACommand
<1>4. LocksExclude'
  BY <1>1 DEF IInv, LocksExclude
<1>5. LockedStillMatches'
  BY <1>1 DEF IInv, LockedStillMatches, Claimable, Matches
<1>6. InsertsOnce'
  BY <1>1 DEF IInv, InsertsOnce
<1>. QED BY <1>2, <1>3, <1>4, <1>5, <1>6

\* Steps that only change one thread's request.
LEMMA BeginCreateIInv ==
  ASSUME IInv, NEW t \in Thread, NEW c \in CommandId, NEW d \in Device, BeginCreate(t, c, d)
  PROVE  /\ ReadingsArePast' /\ NamesACommand' /\ LocksExclude'
         /\ LockedStillMatches' /\ InsertsOnce'
<1>1. /\ req'[t].op = "create" /\ req'[t].cmd = c /\ req'[t].at = now /\ req'[t].device = d
      /\ \A u \in Thread \ {t} : req'[u] = req[u]
      /\ row' = row /\ now' = now
  BY DEF IInv, TypeOK, BeginCreate, NoRequest
<1>2. ReadingsArePast'
  BY <1>1 DEF IInv, TypeOK, ReadingsArePast
<1>3. NamesACommand' /\ LocksExclude'
  BY <1>1 DEF IInv, NamesACommand, LocksExclude
<1>4. LockedStillMatches'
  BY <1>1 DEF IInv, LockedStillMatches, Claimable, Matches
<1>5. InsertsOnce'
  BY <1>1 DEF IInv, InsertsOnce, BeginCreate
<1>. QED BY <1>2, <1>3, <1>4, <1>5

LEMMA BeginClaimIInv ==
  ASSUME IInv, NEW t \in Thread, NEW d \in Device, BeginClaim(t, d)
  PROVE  /\ ReadingsArePast' /\ NamesACommand' /\ LocksExclude'
         /\ LockedStillMatches' /\ InsertsOnce'
<1>1. /\ req'[t].op = "claim" /\ req'[t].at = now
      /\ \A u \in Thread \ {t} : req'[u] = req[u]
      /\ row' = row /\ now' = now
  BY DEF IInv, TypeOK, BeginClaim, NoRequest
<1>2. ReadingsArePast'
  BY <1>1 DEF IInv, TypeOK, ReadingsArePast
<1>3. NamesACommand' /\ LocksExclude'
  BY <1>1 DEF IInv, NamesACommand, LocksExclude
<1>4. LockedStillMatches' /\ InsertsOnce'
  BY <1>1 DEF IInv, LockedStillMatches, Claimable, Matches, InsertsOnce
<1>. QED BY <1>2, <1>3, <1>4

\* SKIP LOCKED is what keeps two claims off the same row.
LEMMA LockCandidateIInv ==
  ASSUME IInv, NEW t \in Thread, LockCandidate(t)
  PROVE  /\ ReadingsArePast' /\ NamesACommand' /\ LocksExclude'
         /\ LockedStillMatches' /\ InsertsOnce'
<1>1. PICK c \in Candidates(t) : req' = [req EXCEPT ![t].op = "claimLocked", ![t].cmd = c]
  BY DEF LockCandidate
<1>2. /\ req'[t].op = "claimLocked" /\ req'[t].cmd = c
      /\ req'[t].at = req[t].at /\ req'[t].device = req[t].device
      /\ \A u \in Thread \ {t} : req'[u] = req[u]
      /\ row' = row /\ now' = now
  BY <1>1 DEF IInv, TypeOK, Request, LockCandidate
<1>3. c \in CommandId /\ Claimable(c, req[t].device, req[t].at) /\ ~Locked(c)
  BY <1>1 DEF Candidates
<1>4. ReadingsArePast'
  BY <1>2 DEF IInv, ReadingsArePast
<1>5. NamesACommand'
  BY <1>2, <1>3 DEF IInv, NamesACommand
<1>6. LocksExclude'
  BY <1>2, <1>3 DEF IInv, LocksExclude, Locked
<1>7. LockedStillMatches'
  BY <1>2, <1>3 DEF IInv, LockedStillMatches, Claimable, Matches
<1>8. InsertsOnce'
  BY <1>2 DEF IInv, InsertsOnce
<1>. QED BY <1>4, <1>5, <1>6, <1>7, <1>8

LEMMA BeginCompleteIInv ==
  ASSUME IInv, NEW t \in Thread, NEW l \in granted, NEW ok \in BOOLEAN,
         BeginComplete(t, l, ok)
  PROVE  /\ ReadingsArePast' /\ NamesACommand' /\ LocksExclude'
         /\ LockedStillMatches' /\ InsertsOnce'
<1>1. /\ req'[t].op = "complete" /\ req'[t].at = now /\ req'[t].cmd = l.cmd
      /\ \A u \in Thread \ {t} : req'[u] = req[u]
      /\ row' = row /\ now' = now /\ l.cmd \in CommandId
  BY DEF IInv, TypeOK, BeginComplete, Lease
<1>2. ReadingsArePast'
  BY <1>1 DEF IInv, TypeOK, ReadingsArePast
<1>3. NamesACommand' /\ LocksExclude'
  BY <1>1 DEF IInv, NamesACommand, LocksExclude
<1>4. LockedStillMatches' /\ InsertsOnce'
  BY <1>1 DEF IInv, LockedStillMatches, Claimable, Matches, InsertsOnce
<1>. QED BY <1>2, <1>3, <1>4

LEMMA LockCompletionIInv ==
  ASSUME IInv, NEW t \in Thread, LockCompletion(t)
  PROVE  /\ ReadingsArePast' /\ NamesACommand' /\ LocksExclude'
         /\ LockedStillMatches' /\ InsertsOnce'
<1>1. /\ req' = [req EXCEPT ![t].op = "completeLocked"]
      /\ req[t].op = "complete" /\ ~Locked(req[t].cmd) /\ Matches(row[req[t].cmd], req[t])
      /\ row' = row /\ now' = now
  BY DEF LockCompletion
<1>2. /\ req'[t].op = "completeLocked" /\ req'[t].cmd = req[t].cmd
      /\ req'[t].at = req[t].at /\ req'[t].device = req[t].device
      /\ req'[t].token = req[t].token
      /\ \A u \in Thread \ {t} : req'[u] = req[u]
  BY <1>1 DEF IInv, TypeOK, Request
<1>3. ReadingsArePast' /\ NamesACommand'
  BY <1>1, <1>2 DEF IInv, ReadingsArePast, NamesACommand
<1>4. LocksExclude'
  BY <1>1, <1>2 DEF IInv, LocksExclude, Locked
<1>5. LockedStillMatches'
  BY <1>1, <1>2 DEF IInv, LockedStillMatches, Claimable, Matches
<1>6. InsertsOnce'
  BY <1>1, <1>2 DEF IInv, InsertsOnce
<1>. QED BY <1>3, <1>4, <1>5, <1>6
-----------------------------------------------------------------------------
\* The steps that write a row.
LEMMA InsertIInv ==
  ASSUME IInv, NEW t \in Thread, Insert(t)
  PROVE  IInv'
<1>1. /\ req[t].op = "create" /\ req[t].cmd \in CommandId
      /\ row[req[t].cmd].status = "ABSENT"
  BY DEF IInv, Insert, NamesACommand, InsertsOnce
<1>2. /\ row'[req[t].cmd].status = "PENDING"
      /\ \A c \in CommandId \ {req[t].cmd} : row'[c] = row[c]
      /\ UNCHANGED <<now, granted, lastToken>> /\ Finish(t)
  BY <1>1 DEF IInv, TypeOK, Insert, NoRow
<1>3. TypeOK'
  BY NextTypeOK DEF IInv, Next
<1>4. /\ ReadingsArePast' /\ NamesACommand' /\ LocksExclude'
      /\ LockedStillMatches' /\ InsertsOnce'
  <2>1. ASSUME NEW u \in Thread \ {t},
               req[u].op \in {"create", "claimLocked", "completeLocked"}
        PROVE  row'[req[u].cmd] = row[req[u].cmd]
    <3>1. req[u].cmd \in CommandId
      BY <2>1 DEF IInv, NamesACommand
    <3>2. req[u].cmd # req[t].cmd
      BY <1>1, <2>1 DEF IInv, InsertsOnce, LockedStillMatches, Claimable, Matches
    <3>. QED BY <1>2, <3>1, <3>2
  <2>. QED BY <1>2, <2>1, ThreadFinishes
<1>5. TokensAreOld'
  BY <1>1, <1>2 DEF IInv, TypeOK, Lease, TokensAreOld
<1>6. TokensAreBounded'
  BY <1>2 DEF IInv, TokensAreBounded
<1>7. RunningUnderLatestLease' /\ ResultFromLatestLease'
  BY <1>1, <1>2 DEF IInv, RunningUnderLatestLease, ResultFromLatestLease,
                    IsLatest, LeasesOf, Terminal
<1>8. LeaseEndsInTime'
  BY <1>1, <1>2 DEF IInv, LeaseEndsInTime
<1>. QED BY <1>3, <1>4, <1>5, <1>6, <1>7, <1>8 DEF IInv

\* The new token is larger than every token granted before, so the lease it names
\* is the latest of its command.
LEMMA CommitClaimIInv ==
  ASSUME IInv, NEW t \in Thread, CommitClaim(t)
  PROVE  IInv'
<1> DEFINE c == req[t].cmd
           lease == [cmd |-> c, token |-> lastToken + 1,
                     expires |-> req[t].at + LeaseDuration]
<1>1. /\ req[t].op = "claimLocked" /\ c \in CommandId
      /\ Claimable(c, req[t].device, req[t].at)
      /\ req[t].at \in Nat /\ req[t].at <= now /\ now \in Nat /\ lastToken \in Nat
  BY DEF IInv, TypeOK, Request, CommitClaim, NamesACommand, LockedStillMatches, ReadingsArePast
<1>2. /\ row'[c].status = "RUNNING"
      /\ row'[c].leaseToken = lastToken + 1
      /\ row'[c].leaseExpiresAt = req[t].at + LeaseDuration
      /\ \A b \in CommandId \ {c} : row'[b] = row[b]
  BY <1>1 DEF IInv, TypeOK, Row, CommitClaim, Claimed
<1>3. /\ granted' = granted \cup {lease}
      /\ lastToken' = lastToken + 1 /\ lastToken < MaxGrants
      /\ now' = now /\ Finish(t)
  BY DEF CommitClaim
<1>4. TypeOK'
  BY NextTypeOK DEF IInv, Next
<1>5. /\ ReadingsArePast' /\ NamesACommand' /\ LocksExclude'
      /\ LockedStillMatches' /\ InsertsOnce'
  <2>1. ASSUME NEW u \in Thread \ {t},
               req[u].op \in {"create", "claimLocked", "completeLocked"}
        PROVE  row'[req[u].cmd] = row[req[u].cmd]
    <3>1. req[u].cmd \in CommandId
      BY <2>1 DEF IInv, NamesACommand
    <3>2. req[u].cmd # c
      BY <1>1, <2>1 DEF IInv, InsertsOnce, LocksExclude, Claimable
    <3>. QED BY <1>2, <3>1, <3>2
  <2>. QED BY <1>3, <2>1, ThreadFinishes
<1>6. \A l \in granted : l.cmd \in CommandId /\ l.token \in Nat /\ l.token <= lastToken
  BY <1>1 DEF IInv, TypeOK, Lease, TokensAreOld
<1>7. TokensAreOld'
  <2>1. \A l \in granted' : l.token \in 1..(lastToken + 1)
    BY <1>1, <1>3 DEF IInv, TokensAreOld
  <2>2. \A l \in granted' : row'[l.cmd].status # "ABSENT"
    BY <1>1, <1>2, <1>3, <1>6 DEF IInv, TokensAreOld
  <2>. QED BY <1>3, <2>1, <2>2 DEF TokensAreOld
<1>8. TokensAreBounded'
  BY <1>1, <1>3, HubAssumption DEF IInv, TokensAreBounded
<1>9. RunningUnderLatestLease'
  <2>1. lease \in granted' /\ \A l \in granted' : l.token <= lastToken + 1
    BY <1>1, <1>3, <1>6
  <2>2. ASSUME NEW b \in CommandId \ {c}, row'[b].status = "RUNNING"
        PROVE  /\ [cmd |-> b, token |-> row'[b].leaseToken,
                   expires |-> row'[b].leaseExpiresAt] \in granted'
               /\ \A l \in granted' : l.cmd = b => l.token <= row'[b].leaseToken
    BY <1>2, <1>3, <2>2 DEF IInv, RunningUnderLatestLease, IsLatest, LeasesOf
  <2>. QED BY <1>1, <1>2, <2>1, <2>2 DEF RunningUnderLatestLease, IsLatest, LeasesOf
<1>10. ResultFromLatestLease'
  BY <1>1, <1>2, <1>3 DEF IInv, ResultFromLatestLease, IsLatest, LeasesOf, Terminal
<1>11. LeaseEndsInTime'
  BY <1>1, <1>2, <1>3, HubAssumption DEF IInv, LeaseEndsInTime
<1>. QED BY <1>4, <1>5, <1>7, <1>8, <1>9, <1>10, <1>11 DEF IInv

\* The row still matches the request that locked it, hence its token is the
\* request's and is the latest.
LEMMA CommitCompletionIInv ==
  ASSUME IInv, NEW t \in Thread, CommitCompletion(t)
  PROVE  IInv'
<1> DEFINE c == req[t].cmd
<1>1. /\ req[t].op = "completeLocked" /\ c \in CommandId
      /\ Matches(row[c], req[t])
  BY DEF IInv, CommitCompletion, NamesACommand, LockedStillMatches
<1>2. /\ row'[c].status \in Terminal
      /\ row'[c].result = req[t].token
      /\ row'[c].completedAt = req[t].at
      /\ \A b \in CommandId \ {c} : row'[b] = row[b]
  BY <1>1 DEF IInv, TypeOK, Row, CommitCompletion, Completed, Terminal
<1>3. UNCHANGED <<now, granted, lastToken>> /\ Finish(t)
  BY DEF CommitCompletion
<1>4. TypeOK'
  BY NextTypeOK DEF IInv, Next
<1>5. /\ ReadingsArePast' /\ NamesACommand' /\ LocksExclude'
      /\ LockedStillMatches' /\ InsertsOnce'
  <2>1. ASSUME NEW u \in Thread \ {t},
               req[u].op \in {"create", "claimLocked", "completeLocked"}
        PROVE  row'[req[u].cmd] = row[req[u].cmd]
    <3>1. req[u].cmd \in CommandId
      BY <2>1 DEF IInv, NamesACommand
    <3>2. req[u].cmd # c
      BY <1>1, <2>1 DEF IInv, InsertsOnce, LocksExclude, Matches
    <3>. QED BY <1>2, <3>1, <3>2
  <2>. QED BY <1>3, <2>1, ThreadFinishes
<1>6. TokensAreOld' /\ TokensAreBounded'
  BY <1>1, <1>2, <1>3 DEF IInv, TypeOK, Lease, TokensAreOld, TokensAreBounded, Terminal
<1>7. RunningUnderLatestLease' /\ LeaseEndsInTime'
  BY <1>1, <1>2, <1>3 DEF IInv, RunningUnderLatestLease, LeaseEndsInTime,
                          IsLatest, LeasesOf, Terminal
<1>8. ResultFromLatestLease'
  <2>1. /\ [cmd |-> c, token |-> req[t].token, expires |-> row[c].leaseExpiresAt] \in granted
        /\ IsLatest(c, req[t].token)
        /\ req[t].at < row[c].leaseExpiresAt
    BY <1>1 DEF IInv, TypeOK, Request, Row, RunningUnderLatestLease, Matches
  <2>2. \E l \in granted' : /\ l.cmd = c /\ l.token = row'[c].result
                            /\ \A k \in granted' : k.cmd = c => k.token <= l.token
                            /\ row'[c].completedAt < l.expires
    BY <1>2, <1>3, <2>1 DEF LeasesOf, IsLatest
  <2>3. ASSUME NEW b \in CommandId \ {c}, row'[b].status \in Terminal
        PROVE  \E l \in granted' : /\ l.cmd = b /\ l.token = row'[b].result
                                   /\ \A k \in granted' : k.cmd = b => k.token <= l.token
                                   /\ row'[b].completedAt < l.expires
    BY <1>2, <1>3, <2>3 DEF IInv, ResultFromLatestLease, LeasesOf, IsLatest
  <2>. QED BY <1>1, <2>2, <2>3 DEF ResultFromLatestLease, LeasesOf, IsLatest
<1>. QED BY <1>4, <1>5, <1>6, <1>7, <1>8 DEF IInv
-----------------------------------------------------------------------------
\* A step that leaves rows, leases and clock alone has only the threads to account for.
LEMMA ThreadStep ==
  ASSUME IInv, [Next]_vars, UNCHANGED <<row, granted, lastToken, now>>,
         ReadingsArePast', NamesACommand', LocksExclude', LockedStillMatches', InsertsOnce'
  PROVE  IInv'
<1>1. TypeOK'
  BY NextTypeOK DEF IInv
<1>2. now' \in Nat /\ now <= now'
  BY DEF IInv, TypeOK
<1>3. /\ TokensAreOld' /\ TokensAreBounded'
      /\ RunningUnderLatestLease' /\ ResultFromLatestLease' /\ LeaseEndsInTime'
  BY <1>2, RowsUntouched
<1>. QED BY <1>1, <1>3 DEF IInv

LEMMA NextIInv == IInv /\ [Next]_vars => IInv'
<1> SUFFICES ASSUME IInv, [Next]_vars PROVE IInv'
  OBVIOUS
<1>1. TypeOK' /\ now \in Nat /\ lastToken \in Nat
  BY NextTypeOK DEF IInv, TypeOK
<1>2. ASSUME NEW t \in Thread, NEW c \in CommandId, NEW d \in Device, BeginCreate(t, c, d)
      PROVE  IInv'
  BY <1>2, BeginCreateIInv, ThreadStep DEF BeginCreate
<1>3. ASSUME NEW t \in Thread, Insert(t) PROVE IInv'
  BY <1>3, InsertIInv
<1>4. ASSUME NEW t \in Thread, NEW d \in Device, BeginClaim(t, d) PROVE IInv'
  BY <1>4, BeginClaimIInv, ThreadStep DEF BeginClaim
<1>5. ASSUME NEW t \in Thread, LockCandidate(t) PROVE IInv'
  BY <1>5, LockCandidateIInv, ThreadStep DEF LockCandidate
<1>6. ASSUME NEW t \in Thread, FindNothing(t) PROVE IInv'
  BY <1>6, ThreadFinishes, ThreadStep DEF FindNothing
<1>7. ASSUME NEW t \in Thread, CommitClaim(t) PROVE IInv'
  BY <1>7, CommitClaimIInv
<1>8. ASSUME NEW t \in Thread, NEW l \in granted, NEW ok \in BOOLEAN, BeginComplete(t, l, ok)
      PROVE  IInv'
  BY <1>8, BeginCompleteIInv, ThreadStep DEF BeginComplete
<1>9. ASSUME NEW t \in Thread, LockCompletion(t) PROVE IInv'
  BY <1>9, LockCompletionIInv, ThreadStep DEF LockCompletion
<1>10. ASSUME NEW t \in Thread, RejectCompletion(t) PROVE IInv'
  BY <1>10, ThreadFinishes, ThreadStep DEF RejectCompletion
<1>11. ASSUME NEW t \in Thread, CommitCompletion(t) PROVE IInv'
  BY <1>11, CommitCompletionIInv
<1>12. CASE Restart
  <2>1. \A t \in Thread : req'[t].op = "idle" /\ req'[t].at = 0
    BY <1>12 DEF Restart, NoRequest
  <2>2. /\ ReadingsArePast' /\ NamesACommand' /\ LocksExclude'
        /\ LockedStillMatches' /\ InsertsOnce'
    BY <1>1, <1>12, <2>1 DEF Restart, ReadingsArePast, NamesACommand, LocksExclude,
                             LockedStillMatches, InsertsOnce
  <2>. QED BY <1>12, <2>2, ThreadStep DEF Restart
<1>13. CASE Tick
  <2>1. /\ ReadingsArePast' /\ NamesACommand' /\ LocksExclude'
        /\ LockedStillMatches' /\ InsertsOnce'
    BY <1>1, <1>13 DEF Tick, IInv, TypeOK, Request, ReadingsArePast, NamesACommand,
           LocksExclude, LockedStillMatches, InsertsOnce, Claimable, Matches
  <2>. QED BY <1>1, <1>13, <2>1, RowsUntouched DEF Tick, IInv
<1>14. CASE UNCHANGED vars
  <2>1. /\ ReadingsArePast' /\ NamesACommand' /\ LocksExclude'
        /\ LockedStillMatches' /\ InsertsOnce'
    BY <1>14 DEF vars, IInv, ReadingsArePast, NamesACommand,
           LocksExclude, LockedStillMatches, InsertsOnce, Claimable, Matches
  <2>. QED BY <1>14, <2>1, ThreadStep DEF vars
<1>. QED
  BY <1>2, <1>3, <1>4, <1>5, <1>6, <1>7, <1>8, <1>9, <1>10, <1>11, <1>12, <1>13, <1>14
  DEF Next

\* The inductive invariant holds throughout.
THEOREM IInvHolds == Spec => []IInv
  BY InitIInv, NextIInv, PTL DEF Spec

\* Every variable keeps its type.
THEOREM TypeCorrect == Spec => []TypeOK
  BY IInvHolds, PTL DEF IInv

\* A running command carries the latest lease granted for it.
THEOREM OneLiveLease == Spec => []RunningUnderLatestLease
  BY IInvHolds, PTL DEF IInv

\* The result of a finished command comes from the attempt that held the latest
\* lease, within that lease.
THEOREM LateAnswersLose == Spec => []ResultFromLatestLease
  BY IInvHolds, PTL DEF IInv

\* Whatever stopped half-way, a running command can be claimed again after one lease.
THEOREM NothingStranded == Spec => []LeaseEndsInTime
  BY IInvHolds, PTL DEF IInv
-----------------------------------------------------------------------------
\* Who writes a row: the thread that inserts it, that claims it or that completes
\* it, and each of them found the row in the state its statement asked for.
LEMMA WhoWrites ==
  ASSUME IInv, [Next]_vars, NEW c \in CommandId, row'[c] # row[c]
  PROVE  \/ /\ row[c].status = "ABSENT" /\ row'[c].status = "PENDING"
            /\ granted' = granted
            /\ \A b \in CommandId \ {c} : row'[b] = row[b]
         \/ /\ row[c].status \in {"PENDING", "RUNNING"}
            /\ row[c].status = "RUNNING" => row[c].leaseExpiresAt <= now
            /\ row'[c].status = "RUNNING" /\ row'[c].leaseToken = lastToken + 1
            /\ lastToken' = lastToken + 1 /\ lastToken < MaxGrants
            /\ granted' = granted \cup {[cmd |-> c, token |-> lastToken + 1,
                                         expires |-> row'[c].leaseExpiresAt]}
            /\ \A b \in CommandId \ {c} : row'[b] = row[b]
         \/ /\ row[c].status = "RUNNING" /\ row'[c].status \in Terminal
            /\ row'[c].result = row[c].leaseToken
            /\ granted' = granted
            /\ \A b \in CommandId \ {c} : row'[b] = row[b]
<1>1. ASSUME NEW t \in Thread, Insert(t)
      PROVE  /\ row[c].status = "ABSENT" /\ row'[c].status = "PENDING"
             /\ granted' = granted
             /\ \A b \in CommandId \ {c} : row'[b] = row[b]
  <2>1. c = req[t].cmd
    BY <1>1 DEF IInv, TypeOK, Insert
  <2>. QED BY <1>1, <2>1 DEF IInv, TypeOK, InsertsOnce, Insert, NoRow
<1>2. ASSUME NEW t \in Thread, CommitClaim(t)
      PROVE  /\ row[c].status \in {"PENDING", "RUNNING"}
             /\ row[c].status = "RUNNING" => row[c].leaseExpiresAt <= now
             /\ row'[c].status = "RUNNING" /\ row'[c].leaseToken = lastToken + 1
             /\ lastToken' = lastToken + 1 /\ lastToken < MaxGrants
             /\ granted' = granted \cup {[cmd |-> c, token |-> lastToken + 1,
                                          expires |-> row'[c].leaseExpiresAt]}
             /\ \A b \in CommandId \ {c} : row'[b] = row[b]
  <2>1. c = req[t].cmd /\ req[t].op = "claimLocked"
    BY <1>2 DEF IInv, TypeOK, CommitClaim
  <2>2. Claimable(c, req[t].device, req[t].at) /\ req[t].at <= now
    BY <2>1 DEF IInv, LockedStillMatches, ReadingsArePast
  <2>3. /\ row[c].status \in {"PENDING", "RUNNING"}
        /\ row[c].status = "RUNNING" => row[c].leaseExpiresAt <= now
    BY <2>1, <2>2 DEF IInv, TypeOK, Row, Request, Claimable
  <2>4. /\ row'[c].status = "RUNNING" /\ row'[c].leaseToken = lastToken + 1
        /\ row'[c].leaseExpiresAt = req[t].at + LeaseDuration
        /\ \A b \in CommandId \ {c} : row'[b] = row[b]
    BY <1>2, <2>1 DEF IInv, TypeOK, Row, CommitClaim, Claimed
  <2>. QED BY <1>2, <2>1, <2>3, <2>4 DEF CommitClaim
<1>3. ASSUME NEW t \in Thread, CommitCompletion(t)
      PROVE  /\ row[c].status = "RUNNING" /\ row'[c].status \in Terminal
             /\ row'[c].result = row[c].leaseToken
             /\ granted' = granted
             /\ \A b \in CommandId \ {c} : row'[b] = row[b]
  <2>1. c = req[t].cmd
    BY <1>3 DEF IInv, TypeOK, CommitCompletion
  <2>2. Matches(row[c], req[t])
    BY <1>3, <2>1 DEF CommitCompletion, IInv, LockedStillMatches
  <2>. QED BY <1>3, <2>1, <2>2 DEF IInv, TypeOK, Row, CommitCompletion, Completed,
                                   Matches, Terminal
<1>. QED
  BY <1>1, <1>2, <1>3 DEF Next, vars, BeginCreate, BeginClaim, LockCandidate, FindNothing,
     BeginComplete, LockCompletion, RejectCompletion, Restart, Tick

\* A finished command never changes again.
THEOREM FinishedForGood == Spec => TerminalIsFinal
<1>1. IInv /\ [Next]_vars =>
        [\A c \in CommandId : row[c].status \in Terminal => row'[c] = row[c]]_vars
  BY WhoWrites DEF Terminal
<1>. QED BY <1>1, IInvHolds, PTL DEF Spec, TerminalIsFinal

\* No lease is taken away before it has run out by the hub's clock.
THEOREM LeasesAreHonoured == Spec => LeaseHonoured
<1>1. IInv /\ [Next]_vars =>
        [\A c \in CommandId :
            row[c].status = "RUNNING" /\ row'[c].leaseToken # row[c].leaseToken =>
                \/ row'[c].status \in Terminal /\ row'[c].result = row[c].leaseToken
                \/ row[c].leaseExpiresAt <= now]_vars
  BY WhoWrites DEF Terminal
<1>. QED BY <1>1, IInvHolds, PTL DEF Spec, LeaseHonoured
-----------------------------------------------------------------------------
\* attempt_count needs an invariant of its own: the leases are finitely many, and a
\* command without a row has none.
CountInv == IsFiniteSet(granted) /\ AttemptsCountLeases

LEMMA AttemptsUnchanged ==
  ASSUME IInv, NEW t \in Thread, NEW c \in CommandId, CommitCompletion(t)
  PROVE  row'[c].attempts = row[c].attempts /\ granted' = granted
  BY DEF IInv, TypeOK, Row, CommitCompletion, Completed

LEMMA ClaimCounts ==
  ASSUME IInv, NEW t \in Thread, NEW c \in CommandId, CommitClaim(t)
  PROVE  row'[c].attempts = IF c = req[t].cmd THEN row[c].attempts + 1 ELSE row[c].attempts
<1>1. row[c] \in Row
  BY DEF IInv, TypeOK
<1>. QED BY <1>1 DEF IInv, TypeOK, Row, CommitClaim, Claimed

LEMMA NextCountInv ==
  ASSUME IInv, CountInv, [Next]_vars
  PROVE  CountInv'
<1>1. ASSUME NEW t \in Thread, CommitClaim(t)
      PROVE  CountInv'
  <2> DEFINE d == req[t].cmd
             lease == [cmd |-> d, token |-> lastToken + 1,
                       expires |-> req[t].at + LeaseDuration]
  <2>1. granted' = granted \cup {lease} /\ d \in CommandId
    BY <1>1 DEF CommitClaim, IInv, NamesACommand
  <2>2. lease \notin granted
    BY DEF IInv, TypeOK, TokensAreOld
  <2>3. IsFiniteSet(granted')
    BY <2>1, FS_AddElement DEF CountInv
  <2>4. ASSUME NEW c \in CommandId
        PROVE  row'[c].attempts = Cardinality(LeasesOf(c)')
    <3>1. IsFiniteSet(LeasesOf(c)) /\ row[c].attempts = Cardinality(LeasesOf(c))
      BY FS_Subset DEF CountInv, LeasesOf, AttemptsCountLeases
    <3>2. CASE c = d
      <4>1. LeasesOf(c)' = LeasesOf(c) \cup {lease} /\ lease \notin LeasesOf(c)
        BY <2>1, <2>2, <3>2 DEF LeasesOf
      <4>2. Cardinality(LeasesOf(c)') = Cardinality(LeasesOf(c)) + 1
        BY <3>1, <4>1, FS_AddElement
      <4>. QED BY <1>1, <3>1, <3>2, <4>2, ClaimCounts
    <3>3. CASE c # d
      <4>1. LeasesOf(c)' = LeasesOf(c)
        BY <2>1, <3>3 DEF LeasesOf
      <4>. QED BY <1>1, <3>1, <3>3, <4>1, ClaimCounts
    <3>. QED BY <3>2, <3>3
  <2>. QED BY <2>3, <2>4 DEF CountInv, AttemptsCountLeases
<1>2. ASSUME NEW t \in Thread, CommitCompletion(t)
      PROVE  CountInv'
  <2>1. granted' = granted
    BY <1>2 DEF CommitCompletion
  <2>2. ASSUME NEW c \in CommandId
        PROVE  row'[c].attempts = Cardinality(LeasesOf(c)')
    <3>1. row'[c].attempts = row[c].attempts
      BY <1>2, AttemptsUnchanged
    <3>. QED BY <2>1, <3>1 DEF CountInv, AttemptsCountLeases, LeasesOf
  <2>. QED BY <2>1, <2>2 DEF CountInv, AttemptsCountLeases
<1>3. ASSUME NEW t \in Thread, Insert(t)
      PROVE  CountInv'
  <2>1. granted' = granted
    BY <1>3 DEF Insert
  <2>2. ASSUME NEW c \in CommandId, c # req[t].cmd
        PROVE  row'[c].attempts = Cardinality(LeasesOf(c))
    BY <1>3, <2>2 DEF Insert, CountInv, AttemptsCountLeases, IInv, TypeOK
  <2>3. ASSUME NEW c \in CommandId, c = req[t].cmd
        PROVE  row'[c].attempts = Cardinality(LeasesOf(c))
    <3>1. LeasesOf(c) = {}
      BY <1>3, <2>3 DEF Insert, IInv, InsertsOnce, TokensAreOld, LeasesOf
    <3>2. row'[c].attempts = 0
      BY <1>3, <2>3 DEF Insert, NoRow, IInv, TypeOK
    <3>. QED BY <3>1, <3>2, FS_EmptySet
  <2>. QED BY <2>1, <2>2, <2>3 DEF CountInv, AttemptsCountLeases, LeasesOf
<1>4. CASE UNCHANGED <<row, granted>>
  BY <1>4 DEF CountInv, AttemptsCountLeases, LeasesOf
<1>. QED
  BY <1>1, <1>2, <1>3, <1>4 DEF Next, vars, BeginCreate, BeginClaim, LockCandidate,
     FindNothing, BeginComplete, LockCompletion, RejectCompletion, Restart, Tick

\* attempt_count is the number of leases granted for the command.
THEOREM AttemptCountIsExact == Spec => []AttemptsCountLeases
<1>1. Init => CountInv
  <2> SUFFICES ASSUME Init PROVE CountInv
    OBVIOUS
  <2>1. IsFiniteSet(granted) /\ \A c \in CommandId : LeasesOf(c) = {}
    BY FS_EmptySet DEF Init, LeasesOf
  <2>. QED BY <2>1, FS_EmptySet DEF Init, NoRow, CountInv, AttemptsCountLeases
<1>2. IInv /\ CountInv /\ [Next]_vars => CountInv'
  BY NextCountInv
<1>3. CountInv => AttemptsCountLeases
  BY DEF CountInv
<1>. QED BY <1>1, <1>2, <1>3, IInvHolds, PTL DEF Spec
-----------------------------------------------------------------------------
\* Refinement: the initial state maps to the abstract initial state, and every step
\* to an abstract step or to a stutter.
LEMMA PhaseValues ==
  /\ PhaseOf("ABSENT") = "none"
  /\ PhaseOf("PENDING") = "waiting"
  /\ PhaseOf("RUNNING") = "leased"
  /\ \A s \in Terminal : PhaseOf(s) = "settled"
  BY DEF PhaseOf, Terminal

LEMMA HolderValues ==
  ASSUME NEW r
  PROVE  /\ r.status \in {"ABSENT", "PENDING"} => HolderOf(r) = {}
         /\ r.status = "RUNNING" => HolderOf(r) = {r.leaseToken}
         /\ r.status \in Terminal => HolderOf(r) = {r.result}
  BY DEF HolderOf, Terminal

LEMMA RefineInit == Init => Queue!Init
  BY PhaseValues, HolderValues DEF Init, NoRow, Queue!Init, AbsPhase, AbsHolder

\* Leases and rows are written together.
LEMMA LeasesGrowWithRows ==
  ASSUME IInv, [Next]_vars, row' = row
  PROVE  granted' = granted
<1>1. ASSUME NEW t \in Thread, CommitClaim(t)
      PROVE  FALSE
  <2> DEFINE c == req[t].cmd
  <2>1. c \in CommandId /\ Claimable(c, req[t].device, req[t].at)
    BY <1>1 DEF CommitClaim, IInv, NamesACommand, LockedStillMatches
  <2>2. row'[c].status = "RUNNING" /\ row'[c].leaseToken = lastToken + 1
    BY <1>1, <2>1 DEF CommitClaim, Claimed, IInv, TypeOK, Row
  <2>3. [cmd |-> c, token |-> lastToken + 1, expires |-> row[c].leaseExpiresAt] \in granted
    BY <2>1, <2>2 DEF IInv, RunningUnderLatestLease
  <2>. QED BY <2>3 DEF IInv, TypeOK, TokensAreOld
<1>. QED
  BY <1>1 DEF Next, vars, Insert, BeginCreate, BeginClaim, LockCandidate, FindNothing,
     BeginComplete, LockCompletion, RejectCompletion, CommitCompletion, Restart, Tick

LEMMA RefineStep ==
  ASSUME IInv, [Next]_vars
  PROVE  [Queue!Next]_(Queue!vars)
<1>1. CASE row' = row
  BY <1>1, LeasesGrowWithRows DEF Queue!vars, AbsPhase, AbsHolder
<1>2. CASE row' # row
  <2>1. row \in [CommandId -> Row] /\ row' \in [CommandId -> Row]
    BY NextTypeOK DEF IInv, TypeOK
  <2>2. PICK c \in CommandId : row'[c] # row[c]
    BY <1>2, <2>1
  <2>3. row[c].status \in Status
    BY <2>1 DEF Row
  <2>4. CASE /\ row[c].status = "ABSENT" /\ row'[c].status = "PENDING"
             /\ granted' = granted
             /\ \A b \in CommandId \ {c} : row'[b] = row[b]
    <3>1. AbsPhase[c] = "none" /\ AbsPhase' = [AbsPhase EXCEPT ![c] = "waiting"]
      BY <2>4, PhaseValues DEF AbsPhase
    <3>2. AbsHolder' = AbsHolder
      BY <2>4, HolderValues DEF AbsHolder
    <3>3. Queue!Submit(c)
      BY <2>4, <3>1, <3>2 DEF Queue!Submit
    <3>. QED BY <3>3 DEF Queue!Next
  <2>5. CASE /\ row[c].status \in {"PENDING", "RUNNING"}
             /\ row'[c].status = "RUNNING" /\ row'[c].leaseToken = lastToken + 1
             /\ lastToken' = lastToken + 1 /\ lastToken < MaxGrants
             /\ granted' = granted \cup {[cmd |-> c, token |-> lastToken + 1,
                                          expires |-> row'[c].leaseExpiresAt]}
             /\ \A b \in CommandId \ {c} : row'[b] = row[b]
    <3>1. /\ AbsPhase[c] \in {"waiting", "leased"}
          /\ AbsPhase' = [AbsPhase EXCEPT ![c] = "leased"]
      BY <2>5, PhaseValues DEF AbsPhase
    <3>2. AbsHolder' = [AbsHolder EXCEPT ![c] = {lastToken + 1}]
      BY <2>5, HolderValues DEF AbsHolder
    <3>3. lastToken + 1 \in 1..MaxGrants
      BY <2>5, HubAssumption DEF IInv, TypeOK
    <3>4. lastToken + 1 \notin {l.token : l \in granted}
      BY DEF IInv, TypeOK, TokensAreOld
    <3>5. {l.token : l \in granted'} = {l.token : l \in granted} \cup {lastToken + 1}
      <4> DEFINE new == [cmd |-> c, token |-> lastToken + 1, expires |-> row'[c].leaseExpiresAt]
      <4>1. granted' = granted \cup {new} /\ new.token = lastToken + 1
        BY <2>5
      <4>. HIDE DEF new
      <4>. QED BY <4>1
    <3>6. PICK k \in 1..MaxGrants : k = lastToken + 1
      BY <3>3
    <3>7. Queue!Grant(c, k)
      BY <3>1, <3>2, <3>4, <3>5, <3>6 DEF Queue!Grant
    <3>. QED BY <3>7 DEF Queue!Next
  <2>6. CASE /\ row[c].status = "RUNNING" /\ row'[c].status \in Terminal
             /\ row'[c].result = row[c].leaseToken
             /\ granted' = granted
             /\ \A b \in CommandId \ {c} : row'[b] = row[b]
    <3>1. AbsPhase[c] = "leased" /\ AbsPhase' = [AbsPhase EXCEPT ![c] = "settled"]
      BY <2>6, PhaseValues DEF AbsPhase
    <3>2. AbsHolder' = AbsHolder
      BY <2>6, HolderValues DEF AbsHolder
    <3>3. Queue!Settle(c)
      BY <2>6, <3>1, <3>2 DEF Queue!Settle
    <3>. QED BY <3>3 DEF Queue!Next
  <2>. QED BY <2>2, <2>4, <2>5, <2>6, WhoWrites
<1>. QED BY <1>1, <1>2

\* The hub's queue implements the abstract queue.
THEOREM Refinement == Spec => ImplementsQueue
  BY RefineInit, RefineStep, IInvHolds, PTL DEF Spec, ImplementsQueue, Queue!Spec
=============================================================================
