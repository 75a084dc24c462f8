--------------------------- MODULE GameCardProofs ---------------------------
(***************************************************************************)
(* Proofs about GameCard, for any number of sessions and faults.           *)
(*                                                                         *)
(* IInv adds what the properties rest on.  Parting: while eject goes on    *)
(* nobody owns the card, and what its steps have unmounted stays           *)
(* unmounted.  Latch: the latch is of the recorded session, nothing is     *)
(* mounted and the state says so.  Gone: a session that was ejected is     *)
(* latched or has left the slot.  Known: a state that claims a card has    *)
(* one recorded.                                                           *)
(***************************************************************************)
EXTENDS GameCard, TLAPS

Unmounted(v) == view[v] = NoSession

Parting ==
    /\ ejecting # "no" => owners = {}
    /\ ejecting \notin {"no", "videos"} => Unmounted("videos")
    /\ ejecting \notin {"no", "videos", "screenshots"} => Unmounted("screenshots")
    /\ ejecting \in {"private", "latch"} => Unmounted("roms")
    /\ ejecting = "latch" => private = NoSession

LatchIsTrue ==
    ejected # NoSession =>
        /\ ejected = identity /\ state \in {"EJECTED", "ERROR"}
        /\ owners = {} /\ private = NoSession
        /\ \A v \in View : Unmounted(v)

Gone == private \notin parted /\ inserted \cap parted \subseteq {ejected}

Known == state \in {"INSERTED", "READY", "BUSY"} => present

IInv == TypeOK /\ ViewsOfCard /\ StateTellsOwners /\ Parting /\ LatchIsTrue /\ Gone /\ Known

State == {"INSERTED", "READY", "BUSY", "EJECTED", "ERROR"}

LEMMA ViewNames == View = {"roms", "screenshots", "videos"}
BY DEF View, Views

LEMMA AllViews == Len(Views) = 3 /\ \A v \in View : \E i \in 1..Len(Views) : Views[i] = v
BY DEF View, Views

LEMMA InitHolds == Init => IInv
<1> SUFFICES ASSUME Init PROVE IInv
    OBVIOUS
<1>1. sessions \in 0..MaxSessions /\ 0 \in 0..MaxFaults /\ 0 \in 0..sessions
    BY CardAssumption DEF Init
<1>2. inserted \subseteq 1..sessions /\ structured \subseteq 1..sessions
    BY DEF Init
<1>3. TypeOK
    BY <1>1, <1>2 DEF Init, TypeOK, NoSession
<1> QED BY <1>3, ViewNames
   DEF Init, IInv, ViewsOfCard, StateTellsOwners, Parting, LatchIsTrue, Gone, Known, NoSession

-----------------------------------------------------------------------------
(* What may become of a card that is found and looked after, by the scan   *)
(* or by init: the mounts are of one session, and the state tells them.    *)
Found(s) ==
    /\ ejected' = NoSession
    /\ private' = private \/ (private = NoSession /\ private' = s)
    /\ view' \in [View -> 0..sessions]
    /\ \A v \in View : view'[v] \in {NoSession, private'}
    /\ unfit' \subseteq MountPoint /\ fuse' \in BOOLEAN /\ attempted' \in 0..sessions
    /\ identity' \in 0..sessions /\ present' \in BOOLEAN /\ faults' \in 0..MaxFaults
    /\ state' \in State
    /\ state' = "READY" => owners = {}
    /\ state' = "BUSY" => owners # {}
    /\ state' \in {"INSERTED", "READY", "BUSY"} => present'

LEMMA FaultStep == ASSUME IInv, Fault PROVE faults' \in 0..MaxFaults
BY CardAssumption DEF Fault, IInv, TypeOK

(* publish_views mounts nothing but the card of the private mount.         *)
LEMMA PublishStep ==
    ASSUME IInv, NEW s \in Session, s \in 1..sessions, NEW n \in 0..3,
           Mounted(s), Publish(private', n)
    PROVE  /\ view' \in [View -> 0..sessions]
           /\ \A v \in View : view'[v] \in {NoSession, private'}
<1>1. view \in [View -> 0..sessions] /\ private \in 0..sessions /\ sessions \in Nat
    BY CardAssumption DEF IInv, TypeOK
<1>2. private' \in 0..sessions /\ (private' = private \/ private = NoSession)
    BY <1>1 DEF Mounted
<1>3. \A v \in View : view[v] \in {NoSession, private'}
    BY <1>2 DEF IInv, ViewsOfCard
<1>4. \A v \in View : view'[v] \in {view[v], private'}
    BY DEF Publish
<1>5. view' \in [View -> 0..sessions]
    BY <1>1, <1>2 DEF Publish
<1> QED BY <1>3, <1>4, <1>5

LEMMA PublishedStep ==
    ASSUME IInv, NEW s \in Session, s \in 1..sessions, Mounted(s), NEW ready \in State, Published(ready)
    PROVE  /\ view' \in [View -> 0..sessions]
           /\ \A v \in View : view'[v] \in {NoSession, private'}
           /\ state' \in {ready, "ERROR"} /\ faults' \in 0..MaxFaults
           /\ unfit' \subseteq MountPoint
<1>0. faults \in 0..MaxFaults /\ unfit \subseteq MountPoint /\ "roms" \in MountPoint
    BY ViewNames DEF IInv, TypeOK, MountPoint
<1>1. \E n \in 0..3 : Publish(private', n)
    BY AllViews DEF Published
<1>2. /\ view' \in [View -> 0..sessions]
      /\ \A v \in View : view'[v] \in {NoSession, private'}
    BY <1>1, PublishStep
<1>3. (UNCHANGED faults \/ Fault) /\ unfit' \in {unfit, unfit \cup {"roms"}} /\ state' \in {ready, "ERROR"}
    BY DEF Published
<1>4. faults' \in 0..MaxFaults
    BY <1>0, <1>3, FaultStep
<1>5. unfit' \subseteq MountPoint
    BY <1>0, <1>3
<1> QED BY <1>2, <1>3, <1>4, <1>5

(* Loading FUSE, for a card that is there, changes nothing but its own.    *)
LEMMA SupportStep ==
    ASSUME IInv, NEW s \in Session, s \in 1..sessions, Supported(s) \/ Unsupported(s)
    PROVE  fuse' \in BOOLEAN /\ attempted' \in 0..sessions
<1>1. fuse' = fuse \/ fuse' = TRUE
    BY Zenon DEF Supported, Unsupported, support
<1>2. attempted' \in {attempted, 0, s}
    BY DEF Supported, Unsupported, support, NoSession
<1>3. fuse \in BOOLEAN /\ attempted \in 0..sessions /\ sessions \in Nat
    BY CardAssumption DEF IInv, TypeOK
<1>4. attempted' \in 0..sessions
    BY <1>2, <1>3
<1> QED BY <1>1, <1>3, <1>4, Zenon

LEMMA FoundUnsupported ==
    ASSUME IInv, NEW s \in Session, s \in 1..sessions, Unsupported(s),
           UNCHANGED <<identity, present>>, ejected' = NoSession
    PROVE  Found(s)
<1>1. faults' \in 0..MaxFaults
    BY FaultStep DEF Unsupported, IInv, TypeOK
<1>2. fuse' \in BOOLEAN /\ attempted' \in 0..sessions
    BY SupportStep
<1> QED BY <1>1, <1>2 DEF Unsupported, Found, mounts, IInv, TypeOK, ViewsOfCard, State

LEMMA FoundUnmounted ==
    ASSUME IInv, NEW s \in Session, s \in 1..sessions, Supported(s), Record(s), NotMounted(s),
           ejected' = NoSession
    PROVE  Found(s)
<1>1. faults' \in 0..MaxFaults
    BY FaultStep DEF NotMounted, IInv, TypeOK
<1>2. fuse' \in BOOLEAN /\ attempted' \in 0..sessions
    BY SupportStep
<1> QED BY <1>1, <1>2, CardAssumption DEF Record, NotMounted, Found, mounts, IInv, TypeOK, ViewsOfCard, State

LEMMA FoundMounted ==
    ASSUME IInv, NEW s \in Session, s \in 1..sessions, Supported(s), Record(s), Mounted(s),
           ejected' = NoSession, NEW ready \in {"READY", "BUSY"}, Published(ready),
           ready = "READY" => owners = {}, ready = "BUSY" => owners # {}
    PROVE  Found(s)
<1>1. /\ view' \in [View -> 0..sessions]
      /\ \A v \in View : view'[v] \in {NoSession, private'}
      /\ state' \in {ready, "ERROR"} /\ faults' \in 0..MaxFaults
      /\ unfit' \subseteq MountPoint
    BY PublishedStep DEF State
<1>2. private' = s /\ (private' = private \/ private = NoSession)
    BY DEF Mounted, Occupied
<1>3. identity' = s /\ present' = TRUE /\ fuse' \in BOOLEAN /\ attempted' \in 0..sessions
    BY SupportStep DEF Record
<1> QED BY <1>1, <1>2, <1>3, CardAssumption DEF Found, State, IInv, TypeOK

LEMMA ScanFinds ==
    ASSUME IInv, NEW s \in Session, s \in 1..sessions, Unlocked, ScanOne(s)
    PROVE  Found(s)
<1>1. CASE Settled(s) /\ UNCHANGED <<state, identity, present, mounts, support, faults>>
    BY <1>1 DEF ScanOne, Found, Settled, Stable, mounts, support, Unlocked, IInv, TypeOK, ViewsOfCard,
                StateTellsOwners, Known, State
<1>2. CASE state' = "ERROR" /\ UNCHANGED <<identity, present, mounts, support, faults>>
    BY <1>2 DEF ScanOne, Found, mounts, support, IInv, TypeOK, ViewsOfCard, State
<1>6. CASE Unsupported(s) /\ UNCHANGED <<identity, present>>
    BY <1>6, FoundUnsupported DEF ScanOne
<1>3. CASE Supported(s) /\ Record(s) /\ NotMounted(s)
    BY <1>3, FoundUnmounted DEF ScanOne
<1>4. CASE /\ Supported(s) /\ Record(s) /\ Mounted(s) /\ state' = "INSERTED"
           /\ UNCHANGED <<view, unfit, faults>>
    BY <1>4, CardAssumption, SupportStep
       DEF ScanOne, Found, Record, Mounted, IInv, TypeOK, ViewsOfCard, State
<1>5. CASE Supported(s) /\ Record(s) /\ Mounted(s)
           /\ Published(IF Stable(s) /\ state = "READY" THEN state ELSE Refreshed)
    <2>1. PICK ready : ready = IF Stable(s) /\ state = "READY" THEN state ELSE Refreshed
        OBVIOUS
    <2>2. /\ ready \in {"READY", "BUSY"}
          /\ ready = "READY" => owners = {}
          /\ ready = "BUSY" => owners # {}
        BY <2>1 DEF Refreshed, IInv, StateTellsOwners
    <2> QED BY <1>5, <2>1, <2>2, FoundMounted DEF ScanOne
<1> QED BY <1>1, <1>2, <1>3, <1>4, <1>5, <1>6 DEF ScanOne

LEMMA InitFinds ==
    ASSUME IInv, NEW s \in Session, s \in 1..sessions, Unlocked, InitOne(s)
    PROVE  Found(s) /\ structured' \subseteq 1..sessions
<1>0. structured \subseteq 1..sessions
    BY DEF IInv, TypeOK
<1>1. CASE /\ Stable(s) /\ private \in structured /\ ViewsReady
           /\ state' = Refreshed
           /\ UNCHANGED <<structured, identity, present, mounts, support, faults>>
    <2>1. ejected' = NoSession
        BY DEF InitOne
    <2> QED BY <1>0, <1>1, <2>1 DEF Found, Refreshed, Stable, mounts, support, Unlocked, IInv, TypeOK, ViewsOfCard,
                StateTellsOwners, Known, State
<1>5. CASE Unsupported(s) /\ UNCHANGED <<structured, identity, present>>
    BY <1>0, <1>5, FoundUnsupported DEF InitOne
<1>2. CASE Supported(s) /\ Record(s) /\ NotMounted(s) /\ UNCHANGED structured
    BY <1>0, <1>2, FoundUnmounted DEF InitOne
<1>3. CASE /\ Supported(s) /\ Record(s) /\ Mounted(s) /\ state' = "ERROR" /\ Fault
           /\ UNCHANGED <<structured, view, unfit>>
    <2>1. faults' \in 0..MaxFaults /\ fuse' \in BOOLEAN /\ attempted' \in 0..sessions
        BY <1>3, FaultStep, SupportStep
    <2> QED BY <1>0, <1>3, <2>1, CardAssumption
       DEF InitOne, Found, Record, Mounted, IInv, TypeOK, ViewsOfCard, State
<1>4. CASE /\ Supported(s) /\ Record(s) /\ Mounted(s) /\ structured' = structured \cup {s}
           /\ Published(Refreshed)
    <2>1. PICK ready : ready = Refreshed
        OBVIOUS
    <2>2. /\ ready \in {"READY", "BUSY"}
          /\ ready = "READY" => owners = {}
          /\ ready = "BUSY" => owners # {}
        BY <2>1 DEF Refreshed
    <2>3. Found(s)
        BY <1>4, <2>1, <2>2, FoundMounted DEF InitOne
    <2> QED BY <1>0, <1>4, <2>3
<1> QED BY <1>1, <1>2, <1>3, <1>4, <1>5 DEF InitOne

(* Whatever is found, the invariant is kept: the card is not a parted one. *)
LEMMA FoundKeeps ==
    ASSUME IInv, NEW s \in Session, inserted = {s}, ~Latched(s), Found(s), Unlocked,
           structured' \subseteq 1..sessions,
           UNCHANGED <<inserted, sessions, owners, ejecting, users, parted>>
    PROVE  IInv'
<1>1. s \in 1..sessions
    BY DEF IInv, TypeOK
<1>2. TypeOK'
    BY <1>1 DEF IInv, TypeOK, Found, State, users, NoSession
<1>3. ViewsOfCard' /\ StateTellsOwners' /\ Known' /\ LatchIsTrue'
    BY DEF Found, ViewsOfCard, StateTellsOwners, Known, LatchIsTrue
<1>4. Parting'
    BY DEF Unlocked, Parting
<1>5. s \notin parted
    BY <1>1 DEF IInv, Gone, Latched, NoSession
<1>6. Gone'
    BY <1>5 DEF IInv, Gone, Found
<1> QED BY <1>2, <1>3, <1>4, <1>5, <1>6 DEF IInv

(* The steps that change nothing but the state.                            *)
LEMMA ErrorKeeps ==
    ASSUME IInv, state' = "ERROR",
           UNCHANGED <<slot, identity, present, ejected, owners, mounts, ejecting, users, parted>>,
           faults' \in 0..MaxFaults, fuse' \in BOOLEAN, attempted' \in 0..sessions
    PROVE  IInv'
BY DEF IInv, TypeOK, ViewsOfCard, StateTellsOwners, Parting, LatchIsTrue, Gone, Known, Unmounted,
       slot, mounts, users

LEMMA ScanHolds == ASSUME IInv, Scan PROVE IInv'
<1>1. CASE ScanNone
    <2>0. /\ identity' \in {identity, 0} /\ ejected' \in {ejected, 0} /\ present' \in BOOLEAN
          /\ state' \in {state, "ERROR"}
          /\ UNCHANGED <<inserted, sessions, structured, owners, private, view, unfit, fuse, attempted,
                         ejecting, playing, capture, faults, parted>>
        BY <1>1 DEF Scan, ScanNone, slot, mounts, support, users, NoSession
    <2>1. TypeOK'
        <3>1. identity' \in 0..sessions' /\ ejected' \in 0..sessions'
            BY <2>0, CardAssumption DEF IInv, TypeOK
        <3> QED BY <2>0, <3>1 DEF IInv, TypeOK
    <2>2. UNCHANGED <<ejecting, owners, private, view, parted, inserted>>
        BY <1>1 DEF Scan, ScanNone, slot, mounts
    <2>3. ViewsOfCard' /\ Parting'
        BY <2>2 DEF IInv, ViewsOfCard, Parting, Unmounted
    <2>4. state' = IF present /\ ejected = NoSession THEN "ERROR" ELSE state
        BY <1>1 DEF ScanNone
    <2>6. state \notin {"READY", "BUSY", "INSERTED"} \/ state' # state
        BY <2>4 DEF IInv, Known, LatchIsTrue
    <2>7. StateTellsOwners' /\ Known'
        BY <2>4, <2>6 DEF StateTellsOwners, Known
    <2>8. LatchIsTrue'
        BY <1>1, <2>2, <2>4 DEF ScanNone, IInv, LatchIsTrue, Unmounted, TypeOK, Known
    <2>5. Gone'
        BY <1>1, <2>2 DEF ScanNone, IInv, Gone
    <2> QED BY <2>1, <2>3, <2>7, <2>8, <2>5 DEF IInv
<1>2. CASE ScanSeveral
    BY <1>2, ErrorKeeps DEF Scan, ScanSeveral, support, IInv, TypeOK
<1>3. ASSUME NEW s \in inserted, inserted = {s}, ScanLatched(s)
      PROVE  IInv'
    <2>1. state' = "EJECTED"
          /\ UNCHANGED <<slot, identity, present, ejected, owners, mounts, support, ejecting, users,
                         faults, parted>>
        BY <1>3 DEF Scan, ScanLatched
    <2> QED BY <2>1 DEF IInv, TypeOK, ViewsOfCard, StateTellsOwners, Parting, LatchIsTrue, Gone,
                        Known, Unmounted, slot, mounts, support, users
<1>4. ASSUME NEW s \in inserted, inserted = {s}, ScanOne(s)
      PROVE  IInv'
    <2>1. s \in 1..sessions /\ s \in Session /\ structured \subseteq 1..sessions
        BY CardAssumption DEF IInv, TypeOK, Session
    <2>2. Found(s)
        BY <1>4, <2>1, ScanFinds DEF Scan
    <2> QED BY <1>4, <2>1, <2>2, FoundKeeps DEF Scan, ScanOne, slot
<1> QED BY <1>1, <1>2, <1>3, <1>4 DEF Scan

LEMMA InitCardHolds == ASSUME IInv, InitCard PROVE IInv'
<1>1. CASE ScanSeveral /\ UNCHANGED structured
    BY <1>1, ErrorKeeps DEF InitCard, ScanSeveral, slot, support, IInv, TypeOK
<1>2. ASSUME NEW s \in inserted, inserted = {s}, InitOne(s)
      PROVE  IInv'
    <2>1. s \in 1..sessions /\ s \in Session
        BY CardAssumption DEF IInv, TypeOK, Session
    <2>2. Found(s) /\ structured' \subseteq 1..sessions
        BY <1>2, <2>1, InitFinds DEF InitCard
    <2> QED BY <1>2, <2>1, <2>2, FoundKeeps DEF InitCard, InitOne
<1> QED BY <1>1, <1>2 DEF InitCard

LEMMA PrepareHolds == ASSUME IInv, Prepare PROVE IInv'
<1>0. faults \in 0..MaxFaults /\ state \in State
    BY DEF IInv, TypeOK, State
<1>1. CASE ScanSeveral
    BY <1>1, ErrorKeeps DEF Prepare, ScanSeveral, support, IInv, TypeOK
<1>2. ASSUME NEW s \in inserted, Supported(s) \/ Unsupported(s), UNCHANGED <<identity, present, ejected>>
      PROVE  fuse' \in BOOLEAN /\ attempted' \in 0..sessions
    <2>1. s \in 1..sessions /\ s \in Session
        BY CardAssumption DEF IInv, TypeOK, Session
    <2> QED BY <1>2, <2>1, SupportStep
<1>3. ASSUME NEW s \in inserted, Unsupported(s), UNCHANGED <<identity, present, ejected>>
      PROVE  IInv'
    <2>1. faults' \in 0..MaxFaults
        BY <1>0, <1>3, FaultStep DEF Unsupported
    <2> QED BY <1>2, <1>3, <2>1, ErrorKeeps DEF Prepare, Unsupported
<1>4. ASSUME NEW s \in inserted, Supported(s), UNCHANGED <<state, mounts, faults>>,
             UNCHANGED <<identity, present, ejected>>
      PROVE  IInv'
    <2>1. fuse' \in BOOLEAN /\ attempted' \in 0..sessions
        BY <1>2, <1>4
    <2>2. UNCHANGED <<slot, owners, ejecting, users, parted>>
        BY DEF Prepare
    <2> QED BY <1>4, <2>1, <2>2 DEF IInv, TypeOK, ViewsOfCard, StateTellsOwners, Parting,
               LatchIsTrue, Gone, Known, Unmounted, slot, mounts, users
<1> QED BY <1>1, <1>3, <1>4 DEF Prepare
-----------------------------------------------------------------------------
(* The slot.  A session that is put in is a new one, none that has parted. *)
LEMMA InsertHolds == ASSUME IInv, NEW d \in BOOLEAN, Insert(d) PROVE IInv'
<1>1. /\ sessions' = sessions + 1 /\ sessions' \in 0..MaxSessions
      /\ inserted' = inserted \cup {sessions + 1}
      /\ structured' \subseteq structured \cup {sessions + 1}
    BY CardAssumption DEF Insert, IInv, TypeOK
<1>2. UNCHANGED <<state, identity, present, ejected, owners, private, view, unfit, fuse, attempted,
                  ejecting, playing, capture, faults, parted>>
    BY DEF Insert, files, mounts, support, users
<1>3. sessions \in Nat /\ 1..sessions \subseteq 1..(sessions + 1) /\ 0..sessions \subseteq 0..(sessions + 1)
    BY CardAssumption DEF IInv, TypeOK
<1>4. view' \in [View -> 0..sessions']
    BY <1>1, <1>2, <1>3 DEF IInv, TypeOK
<1>5. TypeOK'
    BY <1>1, <1>2, <1>3, <1>4 DEF IInv, TypeOK
<1>6. sessions + 1 \notin parted
    BY <1>3 DEF IInv, TypeOK
<1>7. Gone'
    BY <1>1, <1>2, <1>6 DEF IInv, Gone
<1> QED BY <1>2, <1>5, <1>7
   DEF IInv, ViewsOfCard, StateTellsOwners, Parting, LatchIsTrue, Known, Unmounted

LEMMA PullHolds == ASSUME IInv, NEW s \in Session, Pull(s) PROVE IInv'
BY DEF Pull, IInv, TypeOK, ViewsOfCard, StateTellsOwners, Parting, LatchIsTrue, Gone, Known,
       Unmounted, files, mounts, support, users

(* A view that somebody else unmounts disturbs nothing that holds of views. *)
LEMMA LoseHolds == ASSUME IInv, NEW v \in View, LoseView(v) PROVE IInv'
<1>1. faults' \in 0..MaxFaults
    BY FaultStep DEF LoseView
<1>2. view' = [view EXCEPT ![v] = NoSession] /\ unfit' = unfit \ {v}
      /\ UNCHANGED <<slot, files, owners, private, support, ejecting, users, parted>>
    BY DEF LoseView
<1>3. view' \in [View -> 0..sessions] /\ \A u \in View : view'[u] \in {view[u], NoSession}
    BY <1>2, CardAssumption DEF IInv, TypeOK, NoSession
<1>4. TypeOK'
    BY <1>1, <1>2, <1>3 DEF IInv, TypeOK, slot, files, support, users
<1>5. Parting' /\ LatchIsTrue' /\ ViewsOfCard'
    BY <1>2, <1>3, ViewNames DEF IInv, Parting, LatchIsTrue, ViewsOfCard, Unmounted, files
<1> QED BY <1>2, <1>4, <1>5 DEF IInv, StateTellsOwners, Gone, Known, slot, files

LEMMA TurnReadOnlyHolds == ASSUME IInv, TurnReadOnly PROVE IInv'
<1>1. faults' \in 0..MaxFaults
    BY FaultStep DEF TurnReadOnly
<1>2. unfit' \subseteq MountPoint
    BY DEF TurnReadOnly, MountPoint
<1>3. UNCHANGED <<slot, files, owners, private, view, support, ejecting, users, parted>>
    BY DEF TurnReadOnly
<1> QED BY <1>1, <1>2, <1>3 DEF IInv, TypeOK, ViewsOfCard, StateTellsOwners, Parting, LatchIsTrue,
           Gone, Known, Unmounted, slot, files, support, users
-----------------------------------------------------------------------------
(* Eject, whose steps leave behind what Parting says.                      *)
LEMMA BeginEjectHolds == ASSUME IInv, BeginEject PROVE IInv'
BY ViewNames
   DEF BeginEject, Refuses, IInv, TypeOK, ViewsOfCard, StateTellsOwners, Parting, LatchIsTrue, Gone,
       Known, Unmounted, slot, files, mounts, support, users

LEMMA FailEjectHolds == ASSUME IInv, FailEject, faults' \in 0..MaxFaults PROVE IInv'
BY DEF FailEject, IInv, TypeOK, ViewsOfCard, StateTellsOwners, Parting, LatchIsTrue, Gone, Known,
       Unmounted, slot, mounts, support, users

LEMMA UnmountViewHolds == ASSUME IInv, NEW v \in View, UnmountView(v) PROVE IInv'
<1>1. view' = [view EXCEPT ![v] = NoSession] /\ unfit' = unfit \ {v}
      /\ ejecting = v /\ ejecting' = After(v)
      /\ UNCHANGED <<slot, files, owners, private, support, users, faults, parted>>
    BY DEF UnmountView
<1>2. view' \in [View -> 0..sessions] /\ \A u \in View : view'[u] = IF u = v THEN NoSession ELSE view[u]
    BY <1>1, CardAssumption DEF IInv, TypeOK, NoSession
<1>3. ejecting' = CASE v = "videos" -> "screenshots" [] v = "screenshots" -> "roms" [] v = "roms" -> "private"
    BY <1>1, ViewNames DEF After
<1>4. TypeOK'
    BY <1>1, <1>2, <1>3, ViewNames DEF IInv, TypeOK, slot, files, support, users
<1>5. LatchIsTrue' /\ ViewsOfCard'
    BY <1>1, <1>2 DEF IInv, LatchIsTrue, ViewsOfCard, Unmounted, files
<1>6. Parting'
    BY <1>1, <1>2, <1>3, ViewNames DEF IInv, Parting, Unmounted
<1> QED BY <1>1, <1>4, <1>5, <1>6 DEF IInv, StateTellsOwners, Gone, Known, slot, files

LEMMA UnmountPrivateHolds == ASSUME IInv, UnmountPrivate PROVE IInv'
<1>1. private' = NoSession /\ unfit' = unfit \ {"private"}
      /\ ejecting = "private" /\ ejecting' = "latch"
      /\ UNCHANGED <<slot, files, owners, view, support, users, faults, parted>>
    BY DEF UnmountPrivate, After
<1>2. \A v \in View : view[v] = NoSession
    BY <1>1, ViewNames DEF IInv, Parting, Unmounted
<1>3. TypeOK'
    BY <1>1, CardAssumption DEF IInv, TypeOK, slot, files, support, users, NoSession
<1>4. Gone'
    BY <1>1 DEF IInv, TypeOK, Gone, NoSession, slot, files
<1> QED BY <1>1, <1>2, <1>3, <1>4, ViewNames
   DEF IInv, ViewsOfCard, StateTellsOwners, Parting, LatchIsTrue, Known, Unmounted, files

LEMMA UnmountFailsHolds == ASSUME IInv, UnmountFails PROVE IInv'
<1>1. faults \in 0..MaxFaults
    BY DEF IInv, TypeOK
<1>2. FailEject /\ (UNCHANGED faults \/ Fault)
    BY DEF UnmountFails
<1> QED BY <1>1, <1>2, FaultStep, FailEjectHolds

LEMMA LatchHolds == ASSUME IInv, Latch PROVE IInv'
<1>1. CASE UNCHANGED faults /\ FailEject
    BY <1>1, FailEjectHolds DEF IInv, TypeOK
<1>2. CASE /\ identity # NoSession
           /\ ejected' = identity /\ state' = "EJECTED"
           /\ ejecting' = "no"
           /\ parted' = parted \cup {identity}
           /\ UNCHANGED <<slot, identity, present, owners, mounts, support, users, faults>>
    <2>1. private = NoSession /\ owners = {} /\ \A v \in View : view[v] = NoSession
        BY ViewNames DEF Latch, IInv, Parting, Unmounted
    <2>2. identity \in 1..sessions
        BY <1>2 DEF IInv, TypeOK, NoSession
    <2>3. TypeOK'
        BY <1>2, <2>2 DEF IInv, TypeOK, slot, mounts, support, users
    <2>4. Gone'
        BY <1>2, <2>1, <2>2 DEF IInv, TypeOK, Gone, LatchIsTrue, NoSession, slot, mounts
    <2> QED BY <1>2, <2>1, <2>3, <2>4
       DEF IInv, ViewsOfCard, StateTellsOwners, Parting, LatchIsTrue, Known, Unmounted, mounts
<1> QED BY <1>1, <1>2 DEF Latch
-----------------------------------------------------------------------------
(* The users.  None of them is let in while eject goes on or is latched.   *)
LEMMA OwnersHold ==
    ASSUME IInv, Otherwise, playing' \in BOOLEAN, capture' \in [Capture -> {"idle", "chosen", "writing"}],
           NEW o \in Owner, AddOwner(o) \/ RemoveOwner(o) \/ OperationError(o) \/ NotDone
    PROVE  IInv'
<1>1. UNCHANGED <<inserted, sessions, structured, identity, present, ejected, private, view, unfit,
                  fuse, attempted, ejecting, faults, parted>>
    BY DEF Otherwise, slot, mounts, support
<1>2. /\ owners' \subseteq Owner /\ state' \in State
      /\ state' = "READY" => owners' = {}
      /\ state' = "BUSY" => owners' # {}
      /\ state' \in {"READY", "BUSY"} => state \in {"READY", "BUSY"}
      /\ state' = "INSERTED" => state = "INSERTED"
    BY DEF AddOwner, RemoveOwner, Freed, OperationError, NotDone, IInv, TypeOK, StateTellsOwners, State
<1>3. ejecting # "no" => owners' \subseteq owners
    BY DEF AddOwner, Locks, Unlocked, RemoveOwner, OperationError, NotDone
<1>4. ejected # NoSession => owners' \subseteq owners
    BY DEF AddOwner, RemoveOwner, OperationError, NotDone, IInv, LatchIsTrue
<1>5. TypeOK'
    BY <1>1, <1>2 DEF IInv, TypeOK, State
<1>6. ViewsOfCard' /\ Gone' /\ StateTellsOwners' /\ Known'
    BY <1>1, <1>2 DEF IInv, ViewsOfCard, Gone, StateTellsOwners, Known
<1>7. Parting'
    BY <1>1, <1>3 DEF IInv, Parting, Unmounted
<1>8. LatchIsTrue'
    BY <1>1, <1>2, <1>4 DEF IInv, LatchIsTrue, Unmounted, State
<1> QED BY <1>5, <1>6, <1>7, <1>8 DEF IInv

LEMMA UsersHold ==
    ASSUME IInv, StartGame \/ StopGame \/ \E c \in Capture : ChooseCard(c) \/ BeginCapture(c) \/ EndCapture(c)
    PROVE  IInv'
<1>1. playing \in BOOLEAN /\ capture \in [Capture -> {"idle", "chosen", "writing"}]
    BY DEF IInv, TypeOK
<1>2. "rom" \in Owner /\ Capture \subseteq Owner
    BY DEF Owner
<1>3. CASE StartGame \/ StopGame
    BY <1>1, <1>2, <1>3, OwnersHold DEF StartGame, StopGame
<1>4. ASSUME NEW c \in Capture, ChooseCard(c) \/ BeginCapture(c) \/ EndCapture(c)
      PROVE  IInv'
    <2>1. capture' \in [Capture -> {"idle", "chosen", "writing"}] /\ playing' \in BOOLEAN /\ Otherwise
        BY <1>1, <1>4 DEF ChooseCard, BeginCapture, EndCapture, Goes
    <2>2. AddOwner(c) \/ RemoveOwner(c) \/ OperationError(c) \/ NotDone
        BY <1>4 DEF ChooseCard, BeginCapture, EndCapture
    <2> QED BY <1>2, <2>1, <2>2, OwnersHold
<1> QED BY <1>3, <1>4

LEMMA StutterHolds == ASSUME IInv, UNCHANGED vars PROVE IInv'
BY DEF vars, slot, files, mounts, support, users, IInv, TypeOK, ViewsOfCard, StateTellsOwners, Parting,
       LatchIsTrue, Gone, Known, Unmounted

LEMMA StepHolds == ASSUME IInv, [Next]_vars PROVE IInv'
BY ScanHolds, InitCardHolds, PrepareHolds, InsertHolds, PullHolds, LoseHolds, TurnReadOnlyHolds,
   BeginEjectHolds, UnmountViewHolds,
   UnmountPrivateHolds, UnmountFailsHolds, LatchHolds, UsersHold, StutterHolds
   DEF Next, EjectStep

LEMMA IInvHolds == Spec => []IInv
BY InitHolds, StepHolds, PTL DEF Spec

(* Every variable stays in the range its use in the code gives it.         *)
THEOREM TypeCorrect == Spec => []TypeOK
BY IInvHolds, PTL DEF IInv

(* READY and BUSY tell whether the card has owners, however they overlap,  *)
(* fail and are removed.                                                   *)
THEOREM TrueState == Spec => []StateTellsOwners
BY IInvHolds, PTL DEF IInv

(* A card that was safely ejected, and says so, is mounted nowhere and     *)
(* used by nobody, and is never mounted again.                             *)
THEOREM SafeEject == Spec => []EjectedMeansFree
<1>1. IInv => EjectedMeansFree
    BY DEF IInv, LatchIsTrue, Gone, EjectedMeansFree, Unmounted
<1> QED BY <1>1, IInvHolds, PTL

(* Eject takes no view from an owner, and the views before what they show. *)
THEOREM OwnersKeepTheirViews == Spec => OwnersKeepViews
<1>1. IInv /\ [Next]_vars => [EjectStep /\ view' # view => owners = {}]_vars
    <2> SUFFICES ASSUME IInv, EjectStep PROVE view' # view => owners = {}
        OBVIOUS
    <2>1. CASE \E v \in View : UnmountView(v)
        BY <2>1, ViewNames DEF UnmountView, IInv, Parting
    <2>2. CASE UnmountPrivate \/ UnmountFails \/ Latch
        BY <2>2 DEF UnmountPrivate, UnmountFails, FailEject, Latch, mounts
    <2> QED BY <2>1, <2>2 DEF EjectStep
<1>2. IInv => ViewsOfCard
    BY DEF IInv
<1> QED BY <1>1, <1>2, IInvHolds, PTL DEF Spec, OwnersKeepViews

(* The views are all of the private mount, with their options, once they   *)
(* have all been mounted.                                                  *)
LEMMA AllPublished ==
    ASSUME IInv, NEW s \in Session, s \in 1..sessions, Mounted(s), NEW ready \in State,
           Published(ready), state' \in {"READY", "BUSY"}
    PROVE  private' = s /\ (\A v \in View : view'[v] = s) /\ unfit' = {}
<1>1. private' = s /\ private \in {NoSession, s} /\ "private" \notin unfit
    BY DEF Mounted, Occupied
<1>2. Publish(private', Len(Views)) /\ unfit' = unfit
    BY DEF Published
<1>3. \A v \in View : view[v] \in {NoSession, s}
    BY <1>1 DEF IInv, ViewsOfCard
<1>4. \A v \in View : view'[v] = IF view[v] = NoSession THEN s ELSE view[v]
    BY <1>1, <1>2, AllViews DEF Publish
<1>5. \A v \in View : v \notin unfit
    BY <1>2, AllViews DEF Publish
<1>6. unfit = {}
    BY <1>1, <1>5 DEF IInv, TypeOK, MountPoint
<1> QED BY <1>1, <1>2, <1>3, <1>4, <1>6

(* The state a scan sets is true of the slot, whatever card was there      *)
(* before and whatever the scan, the mounts and the person left undone.    *)
THEOREM ScanIsTrue == Spec => ScanTellsSlot
<1> DEFINE True == /\ state' \in {"READY", "BUSY"} =>
                          /\ inserted = {private'} /\ \A v \in View : view'[v] = private'
                          /\ unfit' = {}
                   /\ inserted = {} => state' \in {"EJECTED", "ERROR"}
<1>1. ASSUME IInv, Scan, vars' # vars PROVE True
    <2>1. CASE ScanNone
        BY <1>1, <2>1 DEF ScanNone, IInv, TypeOK, Known, LatchIsTrue
    <2>2. CASE ScanSeveral
        BY <2>2 DEF ScanSeveral
    <2>3. ASSUME NEW s \in inserted, inserted = {s}, ScanLatched(s)
          PROVE  True
        BY <2>3 DEF ScanLatched
    <2>4. ASSUME NEW s \in inserted, inserted = {s}, ScanOne(s), state' \in {"READY", "BUSY"}
          PROVE  inserted = {private'} /\ (\A v \in View : view'[v] = private') /\ unfit' = {}
        <3>1. s \in 1..sessions /\ s \in Session
            BY <1>1, CardAssumption DEF IInv, TypeOK, Session
        <3>2. ~(Settled(s) /\ UNCHANGED <<state, identity, present, mounts, support, faults>>)
            <4> SUFFICES ASSUME Settled(s), UNCHANGED <<state, identity, present, mounts, support, faults>>
                         PROVE  FALSE
                OBVIOUS
            <4>1. ejected = NoSession
                BY <1>1 DEF Settled, IInv, LatchIsTrue
            <4>2. ejected' = ejected
                BY <2>4, <4>1 DEF ScanOne
            <4>3. UNCHANGED <<slot, owners, ejecting, users, parted>>
                BY <1>1 DEF Scan
            <4>4. UNCHANGED vars
                BY <4>2, <4>3 DEF vars, files
            <4> QED BY <1>1, <4>4
        <3>3. PICK ready : ready = IF Stable(s) /\ state = "READY" THEN state ELSE Refreshed
            OBVIOUS
        <3>4. Mounted(s) /\ Published(ready)
            BY <2>4, <3>2, <3>3 DEF ScanOne, NotMounted, Unsupported, Settled
        <3>5. ready \in State
            BY <3>3 DEF Refreshed, State
        <3>6. private' = s /\ (\A v \in View : view'[v] = s) /\ unfit' = {}
            BY <1>1, <2>4, <3>1, <3>4, <3>5, AllPublished
        <3> QED BY <2>4, <3>6
    <2> QED BY <1>1, <2>1, <2>2, <2>3, <2>4 DEF Scan
<1>2. IInv => [Scan => True]_vars
    BY <1>1
<1> QED BY <1>2, IInvHolds, PTL DEF ScanTellsSlot
=============================================================================
