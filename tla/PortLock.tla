------------------------------ MODULE PortLock ------------------------------
(***************************************************************************)
(* The lock of the controller's serial port: a directory that r4-ecctl     *)
(* makes (mkdir either makes it or fails) and writes its process number    *)
(* into.  A process that finds the directory and a number of no living     *)
(* process removes it, otherwise it waits; when it ends it removes what is *)
(* there (acquire_lock and cleanup in r4-ecctl).                           *)
(*                                                                         *)
(* A client runs one r4-ecctl process after the other.  A process number   *)
(* is the client while that process lives, and Dead from then on.          *)
(***************************************************************************)
EXTENDS Naturals, FiniteSets

CONSTANTS Client,
          Free, NoPid, Dead \* no directory; one without a number; one of no living process

ASSUME LockAssumption ==
    /\ Free \notin Client /\ NoPid \notin Client /\ Dead \notin Client
    /\ Free # NoPid /\ Free # Dead /\ NoPid # Dead

VARIABLES lock,             \* the directory: Free, NoPid, Dead or a client
          pc,               \* where each client's process is in r4-ecctl
          seen,             \* the number it has read from the directory
          raced             \* history: a lock changed hands before its removal, see RemoveStale

lockVars == <<lock, pc, seen, raced>>

LockInit == /\ lock = Free
            /\ pc = [c \in Client |-> "idle"]
            /\ seen = [c \in Client |-> Free]
            /\ raced = FALSE

Owns(c) == pc[c] \in {"made", "holding"}

Begin(c) == /\ pc[c] = "idle"
            /\ pc' = [pc EXCEPT ![c] = "locking"]
            /\ UNCHANGED <<lock, seen, raced>>

\* Plausible bug: the directory is made as mkdir -p would.
Makes_Always(c) == TRUE

Makes(c) == lock = Free

TryLock(c) ==
    /\ pc[c] = "locking"
    /\ IF Makes(c)
       THEN /\ lock' = NoPid
            /\ pc' = [pc EXCEPT ![c] = "made"]
            /\ UNCHANGED seen
       ELSE /\ seen' = [seen EXCEPT ![c] = lock]
            /\ pc' = [pc EXCEPT ![c] = "looking"]
            /\ UNCHANGED lock
    /\ UNCHANGED raced

\* Plausible bug: a directory whose owner has not written its number yet counts as dead.
Stale_Unnumbered(c) == seen[c] \in {Dead, NoPid}

\* Plausible bug: the answer of kill -0 is taken the wrong way round.
Stale_Inverted(c) == seen[c] \in Client

\* kill -0 after the number was read: its process may have ended in between.
Stale(c) == seen[c] = Dead

\* A client that finds the lock in use tries again a second later and gives up after
\* max_attempts: here, after any number of attempts.
Look(c) ==
    /\ pc[c] = "looking"
    /\ IF Stale(c)
       THEN pc' = [pc EXCEPT ![c] = "stale"] /\ UNCHANGED seen
       ELSE /\ seen' = [seen EXCEPT ![c] = Free]
            /\ \/ pc' = [pc EXCEPT ![c] = "locking"]
               \/ pc' = [pc EXCEPT ![c] = "idle"]
    /\ UNCHANGED <<lock, raced>>

\* The process it read of has ended, but by now the lock may be another one's.
LosesRace(c) == seen[c] = Dead /\ \E d \in Client : Owns(d)

RemoveStale(c) ==
    /\ pc[c] = "stale"
    /\ lock' = Free
    /\ pc' = [pc EXCEPT ![c] = "locking"]
    /\ seen' = [seen EXCEPT ![c] = Free]
    /\ raced' = (raced \/ LosesRace(c))

\* Without a directory the number is not written, and the process goes on all the same.
WritePid(c) ==
    /\ pc[c] = "made"
    /\ lock' = IF lock = Free THEN Free ELSE c
    /\ pc' = [pc EXCEPT ![c] = "holding"]
    /\ UNCHANGED <<seen, raced>>

\* The process is gone, and with it what others know it by.
Gone(c) == /\ pc' = [pc EXCEPT ![c] = "idle"]
           /\ seen' = [d \in Client |-> IF d = c THEN Free ELSE IF seen[d] = c THEN Dead ELSE seen[d]]
           /\ raced' = (raced /\ \E d \in Client \ {c} : Owns(d))

\* The holder removes whatever directory is there.
Release(c) == pc[c] = "holding" /\ lock' = Free /\ Gone(c)

\* SIGKILL at any point, or another signal before LOCK_HELD is set: nothing is removed.
KillClient(c) == /\ pc[c] # "idle"
                 /\ lock' = IF lock = c THEN Dead ELSE lock
                 /\ Gone(c)

LockStep(c) == TryLock(c) \/ Look(c) \/ RemoveStale(c) \/ WritePid(c)
-----------------------------------------------------------------------------
\* No two processes own the port, whoever is killed and however their attempts
\* interleave, except where a lock that was stale when it was looked at has a new
\* owner by the time it is removed.
PortIsExclusive == raced \/ Cardinality({c \in Client : Owns(c)}) <= 1

\* The lock of a process that died with its number in it does not stay: the next
\* attempts of the service remove it.
DeadLockIsRemoved == lock = Dead ~> lock # Dead
=============================================================================
