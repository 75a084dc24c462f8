------------------------------ MODULE GameCard ------------------------------
(***************************************************************************)
(* The Game Card and its users: r4-game-card's operations under their lock *)
(* directory, the service that scans once a second, a person who ejects,   *)
(* pulls and inserts cards, the game hook and the captures of r4-replay.   *)
(*                                                                         *)
(* A card that is put in gets a session of its own, its DISKSEQ.  The      *)
(* kernel does not give the device path of a mounted card to another, so   *)
(* that a session also stands for its path.  Who finds the lock held fails *)
(* at once: all operations are one step while nobody holds it, except for  *)
(* eject, whose steps are told apart because captures choose their         *)
(* directory, games run and cards are pulled without the lock.             *)
(*                                                                         *)
(* Every card is exFAT, and FUSE may have to be loaded for it; where it is *)
(* usable from the start, the cards may be of any kind.                    *)
(*                                                                         *)
(* Left out: notifications, and signals to an operation.                   *)
(***************************************************************************)
EXTENDS Naturals, FiniteSets, Sequences

CONSTANTS MaxSessions,      \* bound: how often a card is put in
          MaxFaults         \* bound: mounts, unmounts and module loads that fail, views that
                            \* are lost and cards that turn read-only, for no cause seen here

ASSUME CardAssumption == MaxSessions \in Nat \ {0} /\ MaxFaults \in Nat

VARIABLES inserted,         \* the sessions of the matching cards in the machine
          sessions,         \* how many there have been
          structured,       \* those whose card has its directories
          state, identity, present, ejected, \* the files of these names; no file is NoSession
          owners,           \* the files of busy.d
          private, view,    \* the session mounted at each of the mount points
          unfit,            \* those of the mount points whose options are not as wanted
          fuse,             \* FUSE is usable
          attempted,        \* the session for which loading it was tried last, or NoSession
          ejecting,         \* the next step of eject, or "no" when nobody holds the lock
          playing,          \* a game runs from the card
          capture,          \* where each capture is
          faults,
          parted            \* history: the sessions that were safely ejected

slot == <<inserted, sessions, structured>>
files == <<state, identity, present, ejected>>
mounts == <<private, view, unfit>>
support == <<fuse, attempted>>
users == <<playing, capture>>
vars == <<slot, files, owners, mounts, support, ejecting, users, faults, parted>>

NoSession == 0
Session == 1..MaxSessions

Views == <<"roms", "screenshots", "videos">>
View == {Views[i] : i \in DOMAIN Views}
MountPoint == View \cup {"private"}

Capture == {"capture-screenshot", "capture-clip"}
Owner == Capture \cup {"rom"}

\* Nothing is known at startup; a card may be in already.
Init ==
    /\ sessions \in {0, 1} /\ inserted = 1..sessions /\ structured \in SUBSET inserted
    /\ state = "EJECTED" /\ identity = NoSession /\ present = FALSE /\ ejected = NoSession
    /\ owners = {}
    /\ private = NoSession /\ view = [v \in View |-> NoSession] /\ unfit = {}
    /\ fuse \in BOOLEAN /\ attempted = NoSession
    /\ ejecting = "no"
    /\ playing = FALSE /\ capture = [c \in Capture |-> "idle"]
    /\ faults = 0 /\ parted = {}

Unlocked == ejecting = "no"

Fault == faults < MaxFaults /\ faults' = faults + 1

ViewsReady == \A v \in View : view[v] # NoSession /\ v \notin unfit

\* refresh_ready_state
Refreshed == IF owners = {} THEN "READY" ELSE "BUSY"
-----------------------------------------------------------------------------
\* Two cards with the configured label may be in at once.
Insert(withDirectories) ==
    /\ sessions < MaxSessions /\ Cardinality(inserted) < 2
    /\ sessions' = sessions + 1
    /\ inserted' = inserted \cup {sessions'}
    /\ structured' = IF withDirectories THEN structured \cup {sessions'} ELSE structured
    /\ UNCHANGED <<files, owners, mounts, support, ejecting, users, faults, parted>>

\* A card may be pulled at any time.  What is mounted of it stays mounted.
Pull(s) ==
    /\ s \in inserted
    /\ inserted' = inserted \ {s}
    /\ UNCHANGED <<sessions, structured, files, owners, mounts, support, ejecting, users, faults,
                   parted>>

\* Somebody else unmounts a view.
LoseView(v) ==
    /\ view[v] # NoSession /\ Fault
    /\ view' = [view EXCEPT ![v] = NoSession] /\ unfit' = unfit \ {v}
    /\ UNCHANGED <<slot, files, owners, private, support, ejecting, users, parted>>

\* After an input or output error the kernel lets nobody write to the card, through any of
\* its mount points.  The one view that is to be read-only is so now.
TurnReadOnly ==
    /\ private # NoSession /\ "private" \notin unfit /\ Fault
    /\ unfit' = {"private"} \cup {v \in View \ {"roms"} : view[v] # NoSession}
    /\ UNCHANGED <<slot, files, owners, private, view, support, ejecting, users, parted>>
-----------------------------------------------------------------------------
Record(s) == present' = TRUE /\ identity' = s

\* publish_view for the first n views: they are there afterwards.
Publish(s, n) ==
    /\ \A i \in 1..n : Views[i] \notin unfit
    /\ view' = [v \in View |-> IF view[v] = NoSession /\ \E i \in 1..n : Views[i] = v
                               THEN s ELSE view[v]]

\* Plausible bug: whatever is mounted at the private mount point is taken for the card.
Occupied_Never(s) == FALSE

Occupied(s) == private \notin {NoSession, s}

\* ensure_private_mount: something else is mounted there, or the mount fails, or the card
\* can only be read.
NotMounted(s) ==
    /\ \/ Occupied(s) /\ UNCHANGED faults
       \/ ~Occupied(s) /\ "private" \in unfit /\ UNCHANGED faults
       \/ ~Occupied(s) /\ private = NoSession /\ Fault
    /\ state' = "ERROR"
    /\ UNCHANGED mounts

Mounted(s) ==
    /\ ~Occupied(s) /\ "private" \notin unfit
    /\ private' = IF private = NoSession THEN s ELSE private

\* The first view that cannot be mounted, or is mounted with other options, ends the
\* operation.  The view of the ROMs may be left writable, when neither making it read-only
\* nor unmounting it again succeeds.
Published(ready) ==
    \/ Publish(private', Len(Views)) /\ state' = ready /\ UNCHANGED <<unfit, faults>>
    \/ \E n \in 0..2 :
          /\ Publish(private', n) /\ state' = "ERROR"
          /\ \/ Views[n + 1] \in unfit /\ UNCHANGED faults
             \/ view[Views[n + 1]] = NoSession /\ Fault
          /\ UNCHANGED unfit
    \/ /\ view["roms"] = NoSession /\ Publish(private', 1)
       /\ unfit' = unfit \cup {"roms"} /\ state' = "ERROR" /\ Fault

\* ensure_filesystem_support: loading FUSE is tried once for a session.
Supported(s) ==
    \/ fuse /\ UNCHANGED support
    \/ ~fuse /\ attempted # s /\ fuse' = TRUE /\ attempted' = NoSession

Unsupported(s) ==
    /\ ~fuse /\ state' = "ERROR" /\ attempted' = s
    /\ \/ attempted = s /\ UNCHANGED faults
       \/ attempted # s /\ Fault
    /\ UNCHANGED <<fuse, mounts>>

Stable(s) == present /\ identity = s

\* Plausible bug: a card that is known needs no further work, whatever its state.
Settled_Known(s) == Stable(s)

\* Nothing is to be done for the card.
Settled(s) == Stable(s) /\ state \in {"READY", "BUSY"} /\ ViewsReady

ScanNone ==
    /\ inserted = {}
    /\ present' = FALSE
    /\ identity' = IF present THEN NoSession ELSE identity
    /\ ejected' = IF present THEN NoSession ELSE ejected
    /\ state' = IF present /\ ejected = NoSession THEN "ERROR" ELSE state
    /\ UNCHANGED <<mounts, support, faults>>

ScanSeveral ==
    /\ Cardinality(inserted) > 1
    /\ state' = "ERROR"
    /\ UNCHANGED <<identity, present, ejected, mounts, support, faults>>

\* Plausible bug: the latch is not compared with the card that is found.
Latched_Never(s) == FALSE

Latched(s) == ejected # NoSession /\ ejected = s

ScanLatched(s) ==
    /\ Latched(s)
    /\ state' = "EJECTED"
    /\ UNCHANGED <<identity, present, ejected, mounts, support, faults>>

ScanOne(s) ==
    /\ ~Latched(s)
    /\ ejected' = NoSession
    /\ \/ /\ Settled(s)
          /\ UNCHANGED <<state, identity, present, mounts, support, faults>>
       \/ /\ ~Settled(s) /\ Stable(s) /\ state = "BUSY"
          /\ state' = "ERROR"
          /\ UNCHANGED <<identity, present, mounts, support, faults>>
       \/ /\ ~Settled(s) /\ ~(Stable(s) /\ state = "BUSY")
          /\ Unsupported(s)
          /\ UNCHANGED <<identity, present>>
       \/ /\ ~Settled(s) /\ ~(Stable(s) /\ state = "BUSY")
          /\ Supported(s) /\ Record(s)
          /\ \/ NotMounted(s)
             \/ /\ Mounted(s) /\ private' \notin structured
                /\ state' = "INSERTED"
                /\ UNCHANGED <<view, unfit, faults>>
             \/ /\ Mounted(s) /\ private' \in structured
                /\ Published(IF Stable(s) /\ state = "READY" THEN state ELSE Refreshed)

Scan ==
    /\ Unlocked
    /\ \/ ScanNone
       \/ ScanSeveral
       \/ \E s \in inserted : inserted = {s} /\ (ScanLatched(s) \/ ScanOne(s))
    /\ UNCHANGED <<slot, owners, ejecting, users, parted>>

\* init_card: several cards are an error; a latched card must be reconnected.
InitOne(s) ==
    /\ ~Latched(s)
    /\ ejected' = NoSession
    /\ \/ /\ Stable(s) /\ private \in structured /\ ViewsReady
          /\ state' = Refreshed
          /\ UNCHANGED <<structured, identity, present, mounts, support, faults>>
       \/ /\ ~(Stable(s) /\ private \in structured /\ ViewsReady)
          /\ Unsupported(s)
          /\ UNCHANGED <<structured, identity, present>>
       \/ /\ ~(Stable(s) /\ private \in structured /\ ViewsReady)
          /\ Supported(s) /\ Record(s)
          /\ \/ NotMounted(s) /\ UNCHANGED structured
             \/ /\ Mounted(s) /\ s \notin structured
                /\ state' = "ERROR" /\ Fault
                /\ UNCHANGED <<structured, view, unfit>>
             \/ /\ Mounted(s)
                /\ structured' = structured \cup {s}
                /\ Published(Refreshed)

InitCard ==
    /\ Unlocked
    /\ \/ ScanSeveral /\ UNCHANGED structured
       \/ \E s \in inserted : inserted = {s} /\ InitOne(s)
    /\ UNCHANGED <<inserted, sessions, owners, ejecting, users, parted>>

\* prepare_card, called when the service is started: it looks at no latch.
Prepare ==
    /\ Unlocked
    /\ \/ ScanSeveral
       \/ \E s \in inserted :
             /\ inserted = {s}
             /\ \/ Unsupported(s)
                \/ Supported(s) /\ UNCHANGED <<state, mounts, faults>>
             /\ UNCHANGED <<identity, present, ejected>>
    /\ UNCHANGED <<slot, owners, ejecting, users, parted>>
-----------------------------------------------------------------------------
\* What eject does after a step that has succeeded.
After(step) == CASE step = "videos"      -> "screenshots"
                 [] step = "screenshots" -> "roms"
                 [] step = "roms"        -> "private"
                 [] step = "private"     -> "latch"

Refuses == owners # {}

BeginEject ==
    /\ Unlocked /\ ~Refuses
    /\ ejecting' = "videos"
    /\ UNCHANGED <<slot, files, owners, mounts, support, users, faults, parted>>

FailEject ==
    /\ state' = "ERROR" /\ ejecting' = "no"
    /\ UNCHANGED <<slot, identity, present, ejected, owners, mounts, support, users, parted>>

UnmountView(v) ==
    /\ ejecting = v
    /\ view' = [view EXCEPT ![v] = NoSession] /\ unfit' = unfit \ {v}
    /\ ejecting' = After(v)
    /\ UNCHANGED <<slot, files, owners, private, support, users, faults, parted>>

UnmountPrivate ==
    /\ ejecting = "private"
    /\ private' = NoSession /\ unfit' = unfit \ {"private"}
    /\ ejecting' = After("private")
    /\ UNCHANGED <<slot, files, owners, view, support, users, faults, parted>>

\* A view in which a file is open cannot be unmounted; an emulator need not keep the
\* game's file open.
UnmountFails ==
    \/ /\ ejecting \in View /\ view[ejecting] # NoSession
       /\ \/ ejecting = "roms" /\ playing /\ UNCHANGED faults
          \/ Fault
       /\ FailEject
    \/ /\ ejecting = "private" /\ private # NoSession
       /\ Fault
       /\ FailEject

Latch ==
    /\ ejecting = "latch"
    /\ \/ identity = NoSession /\ UNCHANGED faults /\ FailEject
       \/ /\ identity # NoSession
          /\ ejected' = identity /\ state' = "EJECTED"
          /\ ejecting' = "no"
          /\ parted' = parted \cup {identity}
          /\ UNCHANGED <<slot, identity, present, owners, mounts, support, users, faults>>

EjectStep == (\E v \in View : UnmountView(v)) \/ UnmountPrivate \/ UnmountFails \/ Latch
-----------------------------------------------------------------------------
\* Plausible bug: owners are added without the lock.
Locks_Never == TRUE

Locks == Unlocked

AddOwner(o) ==
    /\ Locks
    /\ state \in {"READY", "BUSY"} /\ ViewsReady
    /\ owners' = owners \cup {o}
    /\ state' = "BUSY"

\* Plausible bug: the owners are counted before the file of the one that ends is removed.
Freed_Other(o) == IF state = "BUSY" /\ owners = {} THEN "READY" ELSE state

Freed(o) == IF state = "BUSY" /\ owners \ {o} = {} THEN "READY" ELSE state

RemoveOwner(o) ==
    /\ Unlocked
    /\ owners' = owners \ {o}
    /\ state' = Freed(o)

\* mark_operation_error
OperationError(o) ==
    /\ Unlocked
    /\ owners' = owners \ {o}
    /\ state' = "ERROR"

\* The lock was held by another operation, or the operation was refused.
NotDone == UNCHANGED <<owners, state>>

Otherwise ==
    UNCHANGED <<slot, identity, present, ejected, mounts, support, ejecting, faults, parted>>

\* The hook ignores whether its operation was done.
StartGame ==
    /\ ~playing /\ view["roms"] # NoSession
    /\ playing' = TRUE
    /\ AddOwner("rom") \/ NotDone
    /\ UNCHANGED capture
    /\ Otherwise

\* At the end of any game, whether it ran from the card or not.
StopGame ==
    /\ playing' = FALSE
    /\ RemoveOwner("rom") \/ NotDone
    /\ UNCHANGED capture
    /\ Otherwise

Goes(c, place) == capture' = [capture EXCEPT ![c] = place] /\ UNCHANGED playing

\* capture_dir looks at the views without the lock.
ChooseCard(c) ==
    /\ capture[c] = "idle" /\ ViewsReady
    /\ Goes(c, "chosen")
    /\ NotDone /\ Otherwise

\* A refused capture goes to the internal storage or fails.
BeginCapture(c) ==
    /\ capture[c] = "chosen"
    /\ \/ AddOwner(c) /\ Goes(c, "writing")
       \/ NotDone /\ Goes(c, "idle")
    /\ Otherwise

\* Ten attempts to give the card back may all find the lock held.
EndCapture(c) ==
    /\ capture[c] = "writing"
    /\ Goes(c, "idle")
    /\ RemoveOwner(c) \/ OperationError(c) \/ NotDone
    /\ Otherwise

Next ==
    \/ \E withDirectories \in BOOLEAN : Insert(withDirectories)
    \/ \E s \in Session : Pull(s)
    \/ (\E v \in View : LoseView(v)) \/ TurnReadOnly
    \/ Scan \/ InitCard \/ Prepare \/ BeginEject \/ EjectStep
    \/ StartGame \/ StopGame
    \/ \E c \in Capture : ChooseCard(c) \/ BeginCapture(c) \/ EndCapture(c)

\* The service scans every second; a scan that meets the lock fails, and it would have
\* to do so for ever.  An eject that has begun ends.
Fairness == SF_vars(Scan) /\ WF_vars(EjectStep)

Spec == Init /\ [][Next]_vars /\ Fairness
-----------------------------------------------------------------------------
TypeOK ==
    /\ sessions \in 0..MaxSessions /\ inserted \subseteq 1..sessions
    /\ structured \subseteq 1..sessions
    /\ state \in {"INSERTED", "READY", "BUSY", "EJECTED", "ERROR"}
    /\ identity \in 0..sessions /\ ejected \in 0..sessions /\ present \in BOOLEAN
    /\ owners \subseteq Owner
    /\ private \in 0..sessions /\ view \in [View -> 0..sessions] /\ unfit \subseteq MountPoint
    /\ fuse \in BOOLEAN /\ attempted \in 0..sessions
    /\ ejecting \in {"no", "private", "latch"} \cup View
    /\ playing \in BOOLEAN /\ capture \in [Capture -> {"idle", "chosen", "writing"}]
    /\ faults \in 0..MaxFaults /\ parted \subseteq 1..sessions

\* A card that says it can be removed can be: while the eject is latched nothing of any
\* card is mounted and nobody has announced to use it, and a session that was ejected
\* is not mounted again, whatever is scanned, initialized or inserted afterwards.
EjectedMeansFree ==
    /\ ejected # NoSession =>
          owners = {} /\ private = NoSession /\ \A v \in View : view[v] = NoSession
    /\ private \notin parted

ViewsOfCard == \A v \in View : view[v] \in {NoSession, private}

\* Eject takes no view from a registered owner, also not from one that registers while
\* the eject is under way, and takes the private mount last.
OwnersKeepViews ==
    /\ [][EjectStep /\ view' # view => owners = {}]_vars
    /\ []ViewsOfCard

\* READY says that nobody uses the card and BUSY that somebody does: overlapping owners
\* do not clear each other, through failures, removals and new cards.
StateTellsOwners ==
    /\ state = "READY" => owners = {}
    /\ state = "BUSY" => owners # {}

\* What a scan changes is true of the slot: READY or BUSY then stands for the one card
\* that is in, wholly mounted and as writable as it should be, never for an earlier one
\* whose removal nobody saw; and without a card the state is EJECTED or ERROR.  A scan that
\* changes nothing may find an earlier card's mounts declared READY: by InitOne, which does
\* not ask whose they are.
ScanTellsSlot ==
    [][Scan =>
          /\ state' \in {"READY", "BUSY"} =>
                inserted = {private'} /\ (\A v \in View : view'[v] = private') /\ unfit' = {}
          /\ inserted = {} => state' \in {"EJECTED", "ERROR"}]_vars

\* A card with its directories that finds the mount points free becomes usable, unless
\* it is ejected or the slot changes, through mounts that fail for a while.  What no scan
\* mends is excepted: FUSE could not be loaded for the session, or something of it is
\* mounted with other options than its own.
CardBecomesReady ==
    \A s \in Session :
        (/\ inserted = {s} /\ s \in structured /\ private \in {NoSession, s} /\ s \notin parted
         /\ attempted # s /\ unfit = {})
        ~> (\/ state \in {"READY", "BUSY"} \/ inserted # {s} \/ s \in parted
            \/ attempted = s \/ unfit # {})
=============================================================================
