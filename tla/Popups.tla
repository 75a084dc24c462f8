------------------------------- MODULE Popups -------------------------------
(***************************************************************************)
(* What the controller lays over its screen: the achievement popup, the    *)
(* notification popup that captures, clips, the Game Card and the update   *)
(* gate share, the replay marker and the card icon.  Popups hide at a      *)
(* deadline on the wrapping millisecond clock, looked at once a pass of    *)
(* the main loop.                                                          *)
(*                                                                         *)
(* ClockMod stands for 2^32 and MaxPass bounds a pass, as in HostScreen.   *)
(* A deadline is kept only while its popup is visible: the code reads it   *)
(* only then.                                                              *)
(***************************************************************************)
EXTENDS Naturals

CONSTANTS Hidden,           \* no popup: a value of its own
          AchievementTime, NotificationTime, MaxPass, ClockMod

ASSUME PopupTimes ==
    /\ AchievementTime \in Nat \ {0} /\ NotificationTime \in Nat \ {0} /\ MaxPass \in Nat \ {0}
    /\ ClockMod \in Nat /\ ClockMod % 2 = 0
    /\ 2 * AchievementTime <= ClockMod /\ 2 * NotificationTime <= ClockMod
    /\ 2 * MaxPass < ClockMod

Clock == 0..(ClockMod - 1)
CardStates == {"INSERTED", "READY", "BUSY", "EJECTED", "ERROR"}
Texts == CardStates \cup {"SAFE TO REMOVE", "CAPTURE", "CLIP", "UPDATE"}

ASSUME HiddenIsNone == Hidden \notin Clock /\ Hidden \notin [text : Texts, hideAt : Clock]

VARIABLES achievement,   \* Hidden, or the deadline of the popup
          notification,  \* Hidden, or its text and deadline
          card,          \* the card icon
          replay,        \* the RPL marker
          now, sinceTick,
          achievementAge, notificationAge   \* ghosts: how long each has been shown

popups == <<achievement, notification>>
ages == <<achievementAge, notificationAge>>
vars == <<achievement, notification, card, replay, now, sinceTick, ages>>

Longest == AchievementTime + NotificationTime + MaxPass

TypeOK == /\ achievement \in {Hidden} \cup Clock
          /\ notification = Hidden \/ notification \in [text : Texts, hideAt : Clock]
          /\ card \in [state : CardStates, present : BOOLEAN]
          /\ replay \in BOOLEAN
          /\ now \in Clock /\ sinceTick \in 0..MaxPass
          /\ achievementAge \in 0..Longest /\ notificationAge \in 0..Longest

Init == /\ achievement = Hidden /\ notification = Hidden
        /\ card = [state |-> "EJECTED", present |-> FALSE]
        /\ replay = FALSE /\ now = 0 /\ sinceTick = 0
        /\ achievementAge = 0 /\ notificationAge = 0

-----------------------------------------------------------------------------
Deadline(duration) == (now + duration) % ClockMod

ShowAchievement == /\ achievement' = Deadline(AchievementTime)
                   /\ achievementAge' = 0
                   /\ UNCHANGED <<notification, card, replay, now, sinceTick, notificationAge>>

Notify(text) == /\ notification' = [text |-> text, hideAt |-> Deadline(NotificationTime)]
                /\ notificationAge' = 0
                /\ UNCHANGED <<achievement, achievementAge, now, sinceTick>>

Screenshot == Notify("CAPTURE") /\ UNCHANGED <<card, replay>>

(* BUFFERING turns the marker on and shows nothing; a clip that failed or  *)
(* cannot be made turns it off.                                            *)
Clip(status) ==
    /\ UNCHANGED card
    /\ IF status = "BUFFERING"
       THEN replay' = TRUE /\ UNCHANGED <<popups, ages, now, sinceTick>>
       ELSE /\ Notify("CLIP")
            /\ replay' = IF status \in {"ERROR", "UNAVAILABLE"} THEN FALSE ELSE replay

ClipStatus == {"BUFFERING", "SAVING", "SAVED", "ERROR", "UNAVAILABLE"}

StartOrStopGame == replay' = FALSE /\ UNCHANGED <<popups, card, now, sinceTick, ages>>

CardChange(state) == /\ card' = [state |-> state, present |-> TRUE]
                     /\ Notify(state)
                     /\ UNCHANGED replay

SafeToRemove == /\ card' = [state |-> "EJECTED", present |-> TRUE]
                /\ Notify("SAFE TO REMOVE")
                /\ UNCHANGED replay

CardRemoved_KeepsPopup == /\ card' = [state |-> "EJECTED", present |-> FALSE]
                          /\ UNCHANGED <<popups, replay, now, sinceTick, ages>>

(* The card is gone: whatever notification is up goes with it.             *)
CardRemoved == /\ card' = [state |-> "EJECTED", present |-> FALSE]
               /\ notification' = Hidden
               /\ UNCHANGED <<achievement, replay, now, sinceTick, ages>>

(* UPDATE ARM and an accepted UPDATE CONFIRM.                              *)
UpdateNotice == Notify("UPDATE") /\ UNCHANGED <<card, replay>>

-----------------------------------------------------------------------------
Older(age, ms) == IF age + ms < Longest THEN age + ms ELSE Longest

Elapse(ms) == /\ sinceTick + ms <= MaxPass
              /\ now' = (now + ms) % ClockMod
              /\ sinceTick' = sinceTick + ms
              /\ achievementAge' = Older(achievementAge, ms)
              /\ notificationAge' = Older(notificationAge, ms)
              /\ UNCHANGED <<popups, card, replay>>

Passed_Unwrapped(deadline) == now >= deadline

Passed(deadline) == (now + ClockMod - deadline) % ClockMod < ClockMod \div 2

Tick == /\ achievement' = IF achievement # Hidden /\ Passed(achievement) THEN Hidden ELSE achievement
        /\ notification' = IF notification # Hidden /\ Passed(notification.hideAt)
                           THEN Hidden ELSE notification
        /\ sinceTick' = 0
        /\ UNCHANGED <<card, replay, now, ages>>

Next == \/ ShowAchievement \/ Screenshot \/ StartOrStopGame \/ SafeToRemove \/ CardRemoved
        \/ UpdateNotice \/ Tick
        \/ \E status \in ClipStatus : Clip(status)
        \/ \E state \in CardStates \ {"EJECTED"} : CardChange(state)
        \/ \E ms \in 1..MaxPass : Elapse(ms)

Spec == Init /\ [][Next]_vars

-----------------------------------------------------------------------------
(* A popup leaves the screen at most one pass of the main loop after its   *)
(* time, wherever on the clock it was shown.                               *)
HidesOnTime ==
    /\ achievement # Hidden => achievementAge < AchievementTime + MaxPass
    /\ notification # Hidden => notificationAge < NotificationTime + MaxPass

(* A popup keeps its time: it is gone one pass of the main loop after it,  *)
(* and stays for the whole of it unless the card is pulled out.            *)
PopupsKeepTime ==
    /\ []HidesOnTime
    /\ [][/\ achievement # Hidden /\ achievement' = Hidden =>
                 achievementAge >= AchievementTime
          /\ notification # Hidden /\ notification' = Hidden =>
                 notificationAge >= NotificationTime \/ ~card'.present]_vars

(* A popup about the card tells the state the icon shows: no sequence of   *)
(* captures, clips and card changes leaves SAFE TO REMOVE up for a card    *)
(* that is in use, or for one that is gone.                                *)
CardPopupIsCurrent ==
    notification # Hidden =>
        /\ notification.text = "SAFE TO REMOVE" => card.state = "EJECTED" /\ card.present
        /\ notification.text \in CardStates => card = [state |-> notification.text, present |-> TRUE]
=============================================================================
