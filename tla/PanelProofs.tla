---------------------------- MODULE PanelProofs ----------------------------
(***************************************************************************)
(* Proofs about Panel, for popup times, passes and sessions of any length  *)
(* on a clock of any width that its assumptions allow, and for any values  *)
(* the host reports.                                                       *)
(*                                                                         *)
(* All deadlines are read through Behind, how far the wrapping clock has   *)
(* come since an instant.  Timed ties it to the unwrapped age of a popup,  *)
(* on both sides of its deadline; Counted to the time played, up to the    *)
(* first wrap, and says how far the timer may lag.  Told relates each      *)
(* reading to what the host has reported of that field.                    *)
(***************************************************************************)
EXTENDS Panel, TLAPS

Behind(instant, at) == (at + ClockMod - instant) % ClockMod

\* A popup that has been up for age of its duration: where its deadline is on a clock
\* that shows at, and that it has not outlived it by more than the time waited since the
\* last tick.
Timed(hideAt, age, duration, at, waited) ==
    /\ Behind(hideAt, at) = IF age >= duration THEN age - duration ELSE ClockMod - (duration - age)
    /\ age < duration + waited

PopupsTimed ==
    /\ achievement # Hidden =>
           Timed(achievement, achievementAge, AchievementTime, now, sinceTick)
    /\ notification # Hidden =>
           Timed(notification.hideAt, notificationAge, NotificationTime, now, sinceTick)

Sessions == [running : BOOLEAN, startedAt : Clock, seconds : Nat]

SessionTyped == session \in Sessions /\ played \in 0..ClockMod

Counted ==
    session.running /\ played < ClockMod =>
        /\ Behind(session.startedAt, now) = played
        /\ session.seconds * SecondMs <= played
        /\ played < (session.seconds + 1) * SecondMs + sinceTick

Told ==
    /\ \A f \in Numeric : /\ Drawn(f) = reported[f]
                          /\ reading[f].available => reading[f].value \in Legal[f]
    /\ \A f \in Choice : reading[f] = reported[f]
    /\ reported["TIME_HEX"] \notin BrokenForms => reading["TIME_HEX"] = Whole(reported["TIME_HEX"])
-----------------------------------------------------------------------------
(* The clock.                                                              *)
LEMMA Durations ==
    /\ ClockMod \in Nat /\ ClockMod > 0 /\ ClockMod \div 2 \in Nat
    /\ (ClockMod \div 2) + (ClockMod \div 2) = ClockMod
    /\ MaxPass \in Nat /\ MaxPass > 0 /\ MaxPass < ClockMod \div 2
    /\ AchievementTime \in Nat /\ AchievementTime > 0 /\ AchievementTime <= ClockMod \div 2
    /\ NotificationTime \in Nat /\ NotificationTime > 0 /\ NotificationTime <= ClockMod \div 2
    /\ Longest = AchievementTime + NotificationTime + MaxPass
BY PopupTimes DEF Longest

(* A number below twice the modulus wraps at most once.                    *)
LEMMA WrapsOnce ==
    ASSUME NEW a \in Nat, a < 2 * ClockMod
    PROVE  a % ClockMod = IF a < ClockMod THEN a ELSE a - ClockMod
<1>0. ClockMod \in Nat /\ ClockMod > 0
    BY Durations
<1>1. CASE a < ClockMod
    BY <1>0, <1>1
<1>2. CASE a >= ClockMod
    BY <1>0, <1>2
<1>3. QED BY <1>0, <1>1, <1>2

LEMMA BehindValue ==
    ASSUME NEW instant \in Clock, NEW at \in Clock
    PROVE  /\ Behind(instant, at) = IF at >= instant THEN at - instant ELSE at + ClockMod - instant
           /\ Behind(instant, at) \in Clock
<1>0. ClockMod \in Nat /\ ClockMod > 0 /\ instant \in Nat /\ at \in Nat
      /\ instant < ClockMod /\ at < ClockMod
    BY Durations DEF Clock
<1>1. at + ClockMod - instant \in Nat /\ at + ClockMod - instant < 2 * ClockMod
    BY <1>0
<1>2. Behind(instant, at) = IF at >= instant THEN at - instant ELSE at + ClockMod - instant
    BY <1>0, <1>1, WrapsOnce DEF Behind
<1>3. QED BY <1>0, <1>2 DEF Clock

LEMMA Later ==
    ASSUME NEW at \in Clock, NEW ms \in Nat, ms < ClockMod
    PROVE  /\ (at + ms) % ClockMod \in Clock
           /\ (at + ms) % ClockMod = IF at + ms < ClockMod THEN at + ms ELSE at + ms - ClockMod
<1>0. ClockMod \in Nat /\ ClockMod > 0 /\ at \in Nat /\ at < ClockMod
    BY Durations DEF Clock
<1>1. (at + ms) % ClockMod = IF at + ms < ClockMod THEN at + ms ELSE at + ms - ClockMod
    BY <1>0, WrapsOnce
<1>2. QED BY <1>0, <1>1 DEF Clock

(* What an instant is behind grows with the clock, and wraps with it.      *)
LEMMA BehindLater ==
    ASSUME NEW instant \in Clock, NEW at \in Clock, NEW ms \in Nat, ms < ClockMod
    PROVE  Behind(instant, (at + ms) % ClockMod) =
               IF Behind(instant, at) + ms < ClockMod THEN Behind(instant, at) + ms
                                                      ELSE Behind(instant, at) + ms - ClockMod
<1>0. ClockMod \in Nat /\ instant \in Nat /\ at \in Nat /\ instant < ClockMod /\ at < ClockMod
    BY Durations DEF Clock
<1>1. PICK later \in Clock : later = (at + ms) % ClockMod
    BY Later
<1>2. later = IF at + ms < ClockMod THEN at + ms ELSE at + ms - ClockMod
    BY <1>1, Later
<1>3. Behind(instant, later) = IF later >= instant THEN later - instant
                                                   ELSE later + ClockMod - instant
    BY BehindValue
<1>4. Behind(instant, at) = IF at >= instant THEN at - instant ELSE at + ClockMod - instant
    BY BehindValue
<1>5. Behind(instant, later) = IF Behind(instant, at) + ms < ClockMod
                               THEN Behind(instant, at) + ms
                               ELSE Behind(instant, at) + ms - ClockMod
    BY <1>0, <1>2, <1>3, <1>4
<1>6. QED BY <1>1, <1>5

LEMMA BehindNow == ASSUME NEW at \in Clock PROVE Behind(at, at) = 0
BY BehindValue, Durations DEF Clock

(* A popup of any duration up to half the clock: shown, aged and looked at. *)
LEMMA ShownIsTimed ==
    ASSUME NEW at \in Clock, NEW duration \in Nat, duration > 0, duration <= ClockMod \div 2,
           NEW waited \in Nat
    PROVE  /\ (at + duration) % ClockMod \in Clock
           /\ Timed((at + duration) % ClockMod, 0, duration, at, waited)
<1>0. /\ ClockMod \in Nat /\ ClockMod > 0 /\ at \in Nat /\ at < ClockMod
      /\ ClockMod \div 2 \in Nat /\ (ClockMod \div 2) + (ClockMod \div 2) = ClockMod
    BY Durations DEF Clock
<1>1. duration < ClockMod
    BY <1>0
<1>2. PICK hideAt \in Clock : hideAt = (at + duration) % ClockMod
    BY <1>1, Later
<1>3. hideAt = IF at + duration < ClockMod THEN at + duration ELSE at + duration - ClockMod
    BY <1>1, <1>2, Later
<1>4. Behind(hideAt, at) = IF at >= hideAt THEN at - hideAt ELSE at + ClockMod - hideAt
    BY BehindValue
<1>5. Behind(hideAt, at) = ClockMod - (duration - 0)
    BY <1>0, <1>1, <1>3, <1>4
<1>6. QED BY <1>0, <1>2, <1>5 DEF Timed

LEMMA AgesTimed ==
    ASSUME NEW hideAt \in Clock, NEW at \in Clock, NEW ms \in Nat, NEW age \in Nat,
           NEW duration \in Nat, duration > 0, duration <= ClockMod \div 2,
           NEW waited \in Nat, waited + ms <= MaxPass,
           Timed(hideAt, age, duration, at, waited)
    PROVE  Timed(hideAt, age + ms, duration, (at + ms) % ClockMod, waited + ms)
<1>0. /\ ClockMod \in Nat /\ ClockMod > 0 /\ MaxPass \in Nat /\ MaxPass < ClockMod \div 2
      /\ ClockMod \div 2 \in Nat /\ (ClockMod \div 2) + (ClockMod \div 2) = ClockMod
    BY Durations
<1>1. ms < ClockMod
    BY <1>0
<1>2. PICK b : b = Behind(hideAt, at)
    OBVIOUS
<1>3. b = IF age >= duration THEN age - duration ELSE ClockMod - (duration - age)
    BY <1>2 DEF Timed
<1>4. age < duration + waited
    BY DEF Timed
<1>5. PICK c : c = Behind(hideAt, (at + ms) % ClockMod)
    OBVIOUS
<1>6. c = IF b + ms < ClockMod THEN b + ms ELSE b + ms - ClockMod
    BY <1>1, <1>2, <1>5, BehindLater
<1>7. c = IF age + ms >= duration THEN age + ms - duration ELSE ClockMod - (duration - (age + ms))
    BY <1>0, <1>1, <1>3, <1>4, <1>6
<1>8. QED BY <1>4, <1>5, <1>7, <1>0 DEF Timed

(* The tick finds a deadline passed exactly from its time on.              *)
LEMMA PassedIsOver ==
    ASSUME NEW hideAt \in Clock, now \in Clock, NEW age \in Nat,
           NEW duration \in Nat, duration > 0, duration <= ClockMod \div 2,
           NEW waited \in Nat, waited <= MaxPass,
           Timed(hideAt, age, duration, now, waited)
    PROVE  Passed(hideAt) <=> age >= duration
<1>0. /\ ClockMod \in Nat /\ ClockMod > 0 /\ MaxPass \in Nat /\ MaxPass < ClockMod \div 2
      /\ ClockMod \div 2 \in Nat /\ (ClockMod \div 2) + (ClockMod \div 2) = ClockMod
    BY Durations
<1>1. PICK b : b = Behind(hideAt, now)
    OBVIOUS
<1>2. b = IF age >= duration THEN age - duration ELSE ClockMod - (duration - age)
    BY <1>1 DEF Timed
<1>3. age < duration + waited
    BY DEF Timed
<1>4. Passed(hideAt) <=> b < ClockMod \div 2
    BY <1>1 DEF Passed, Behind
<1>5. b < ClockMod \div 2 <=> age >= duration
    BY <1>0, <1>2, <1>3
<1>6. QED BY <1>4, <1>5

LEMMA TickedTimed ==
    ASSUME NEW hideAt, NEW at, NEW age \in Nat, NEW duration \in Nat, NEW waited,
           Timed(hideAt, age, duration, at, waited), ~(age >= duration)
    PROVE  Timed(hideAt, age, duration, at, 0)
BY DEF Timed
-----------------------------------------------------------------------------
(* The popups, action by action.                                           *)
Notice == [text : Texts, hideAt : Clock]

LEMMA Kinds ==
    /\ Texts = {"INSERTED", "READY", "BUSY", "EJECTED", "ERROR",
                "SAFE TO REMOVE", "CAPTURE", "CLIP", "UPDATE"}
    /\ CardStates = {"INSERTED", "READY", "BUSY", "EJECTED", "ERROR"}
BY DEF Texts, CardStates

LEMMA AgesTyped ==
    ASSUME TypeOK
    PROVE  /\ achievementAge \in Nat /\ notificationAge \in Nat /\ sinceTick \in Nat
           /\ sinceTick <= MaxPass
BY Durations DEF TypeOK

LEMMA NotifyKeeps ==
    ASSUME TypeOK, PopupsTimed, NEW text \in Texts, Notify(text)
    PROVE  /\ notification' \in Notice /\ notification'.text = text
           /\ notificationAge' \in 0..Longest /\ PopupsTimed'
<1>0. now \in Clock /\ sinceTick \in Nat /\ notificationAge \in Nat /\ 0 \in 0..Longest
    BY AgesTyped, Durations DEF TypeOK
<1>1. PICK hideAt : hideAt = (now + NotificationTime) % ClockMod
    OBVIOUS
<1>2. hideAt \in Clock /\ Timed(hideAt, 0, NotificationTime, now, sinceTick)
    BY <1>0, <1>1, ShownIsTimed, Durations
<1>3. /\ notification' = [text |-> text, hideAt |-> hideAt] /\ notificationAge' = 0
      /\ UNCHANGED <<achievement, achievementAge, now, sinceTick>>
    BY <1>1 DEF Notify, Deadline
<1>4. notification' \in Notice /\ notification'.text = text /\ notification'.hideAt = hideAt
    BY <1>2, <1>3 DEF Notice
<1>5. QED BY <1>0, <1>2, <1>3, <1>4 DEF PopupsTimed

(* Every action that only notifies, whatever it does to the icon.          *)
LEMMA NotifyTyped ==
    ASSUME TypeOK, PopupsTimed, NEW text \in Texts, Notify(text),
           card' \in [state : CardStates, present : BOOLEAN], replay' \in BOOLEAN
    PROVE  TypeOK' /\ PopupsTimed'
<1>1. /\ notification' \in Notice /\ notificationAge' \in 0..Longest /\ PopupsTimed'
    BY NotifyKeeps
<1>2. UNCHANGED <<achievement, achievementAge, now, sinceTick>>
    BY DEF Notify
<1>3. QED BY <1>1, <1>2 DEF TypeOK, Notice

LEMMA CardAfter ==
    ASSUME NEW state \in CardStates, NEW present \in BOOLEAN,
           NEW c, c = [state |-> state, present |-> present]
    PROVE  c \in [state : CardStates, present : BOOLEAN] /\ c.state = state /\ c.present = present
OBVIOUS

PInv == TypeOK /\ PopupsTimed /\ CardPopupIsCurrent

LEMMA AchievementHolds == ASSUME PInv, ShowAchievement PROVE PInv'
<1>0. now \in Clock /\ sinceTick \in Nat /\ 0 \in 0..Longest
    BY AgesTyped, Durations DEF PInv, TypeOK
<1>1. PICK hideAt : hideAt = (now + AchievementTime) % ClockMod
    OBVIOUS
<1>2. hideAt \in Clock /\ Timed(hideAt, 0, AchievementTime, now, sinceTick)
    BY <1>0, <1>1, ShownIsTimed, Durations
<1>3. achievement' = hideAt /\ achievementAge' = 0
      /\ UNCHANGED <<notification, card, replay, now, sinceTick, notificationAge>>
    BY <1>1 DEF ShowAchievement, Deadline
<1>4. TypeOK'
    BY <1>0, <1>2, <1>3 DEF PInv, TypeOK
<1>5. PopupsTimed'
    BY <1>2, <1>3 DEF PInv, PopupsTimed
<1>6. QED BY <1>3, <1>4, <1>5 DEF PInv, CardPopupIsCurrent

(* Captures, clips and the update gate say nothing about the card.         *)
LEMMA OtherNoticeHolds ==
    ASSUME PInv, NEW text \in {"CAPTURE", "CLIP", "UPDATE"}, Notify(text), UNCHANGED card,
           replay' \in BOOLEAN
    PROVE  PInv'
<1>1. text \in Texts /\ text \notin CardStates /\ text # "SAFE TO REMOVE"
    BY Kinds
<1>2. TypeOK /\ PopupsTimed /\ card' \in [state : CardStates, present : BOOLEAN]
    BY DEF PInv, TypeOK
<1>3. TypeOK' /\ PopupsTimed' /\ notification'.text = text
    BY <1>1, <1>2, NotifyTyped, NotifyKeeps
<1>4. QED BY <1>1, <1>3 DEF PInv, CardPopupIsCurrent

LEMMA CardChangeHolds ==
    ASSUME PInv, NEW state \in CardStates, CardChange(state)
    PROVE  PInv'
<1>1. state \in Texts /\ state # "SAFE TO REMOVE"
    BY Kinds
<1>2. TypeOK /\ PopupsTimed /\ replay' \in BOOLEAN /\ Notify(state)
      /\ card' = [state |-> state, present |-> TRUE]
    BY DEF PInv, TypeOK, CardChange
<1>3. card' \in [state : CardStates, present : BOOLEAN]
    BY <1>2, CardAfter
<1>4. TypeOK' /\ PopupsTimed' /\ notification'.text = state
    BY <1>1, <1>2, <1>3, NotifyTyped, NotifyKeeps
<1>5. QED BY <1>1, <1>2, <1>4 DEF PInv, CardPopupIsCurrent

LEMMA SafeHolds == ASSUME PInv, SafeToRemove PROVE PInv'
<1>1. "SAFE TO REMOVE" \in Texts /\ "SAFE TO REMOVE" \notin CardStates /\ "EJECTED" \in CardStates
    BY Kinds
<1>2. TypeOK /\ PopupsTimed /\ replay' \in BOOLEAN /\ Notify("SAFE TO REMOVE")
      /\ card' = [state |-> "EJECTED", present |-> TRUE]
    BY DEF PInv, TypeOK, SafeToRemove
<1>3. card' \in [state : CardStates, present : BOOLEAN] /\ card'.state = "EJECTED" /\ card'.present
    BY <1>1, <1>2, CardAfter
<1>4. TypeOK' /\ PopupsTimed' /\ notification'.text = "SAFE TO REMOVE"
    BY <1>1, <1>2, <1>3, NotifyTyped, NotifyKeeps
<1>5. QED BY <1>1, <1>3, <1>4 DEF PInv, CardPopupIsCurrent

(* The popup goes with the card it may be about.                           *)
LEMMA RemovedHolds == ASSUME PInv, CardRemoved PROVE PInv'
<1>1. /\ notification' = Hidden /\ card' = [state |-> "EJECTED", present |-> FALSE]
      /\ UNCHANGED <<achievement, replay, now, sinceTick, achievementAge, notificationAge>>
    BY DEF CardRemoved, ages
<1>2. card' \in [state : CardStates, present : BOOLEAN]
    BY <1>1, CardAfter, Kinds
<1>3. QED BY <1>1, <1>2 DEF PInv, TypeOK, PopupsTimed, CardPopupIsCurrent

LEMMA MarkerHolds ==
    ASSUME PInv, UNCHANGED <<popups, card, now, sinceTick, ages>>, replay' \in BOOLEAN
    PROVE  PInv'
<1>1. UNCHANGED <<achievement, notification, card, now, sinceTick, achievementAge, notificationAge>>
    BY DEF popups, ages
<1>2. QED BY <1>1 DEF PInv, TypeOK, PopupsTimed, CardPopupIsCurrent

LEMMA ClipHolds == ASSUME PInv, NEW status \in ClipStatus, Clip(status) PROVE PInv'
<1>1. replay \in BOOLEAN
    BY DEF PInv, TypeOK
<1>2. CASE status = "BUFFERING"
    BY <1>1, <1>2, MarkerHolds DEF Clip
<1>3. CASE status # "BUFFERING"
    <2>1. replay' \in BOOLEAN /\ Notify("CLIP") /\ UNCHANGED card
        BY <1>1, <1>3 DEF Clip
    <2>2. QED BY <2>1, OtherNoticeHolds
<1>4. QED BY <1>2, <1>3

(* No popup grows older than the history counts.                           *)
LEMMA OlderAge ==
    ASSUME NEW age \in 0..Longest, NEW ms \in 1..MaxPass, NEW duration \in Nat,
           duration + MaxPass <= Longest, sinceTick \in Nat, sinceTick + ms <= MaxPass
    PROVE  /\ Older(age, ms) \in 0..Longest
           /\ age < duration + sinceTick => Older(age, ms) = age + ms
BY Durations DEF Older

LEMMA ElapseHolds == ASSUME PInv, NEW ms \in 1..MaxPass, Elapse(ms) PROVE PInv'
<1>0. /\ now \in Clock /\ sinceTick \in Nat /\ sinceTick + ms <= MaxPass /\ ms \in Nat
      /\ ms < ClockMod /\ Longest \in Nat
      /\ achievementAge \in 0..Longest /\ notificationAge \in 0..Longest
      /\ achievementAge \in Nat /\ notificationAge \in Nat
      /\ AchievementTime + MaxPass <= Longest /\ NotificationTime + MaxPass <= Longest
    BY AgesTyped, Durations DEF PInv, TypeOK, Elapse
<1>1. /\ now' = (now + ms) % ClockMod /\ sinceTick' = sinceTick + ms
      /\ achievementAge' = Older(achievementAge, ms) /\ notificationAge' = Older(notificationAge, ms)
      /\ UNCHANGED <<achievement, notification, card, replay>>
    BY DEF Elapse, popups
<1>2. TypeOK'
    <2>1. now' \in Clock /\ sinceTick' \in 0..MaxPass
        BY <1>0, <1>1, Later
    <2>2. achievementAge' \in 0..Longest /\ notificationAge' \in 0..Longest
        BY <1>0, <1>1, OlderAge, Durations
    <2>3. QED BY <1>1, <2>1, <2>2 DEF PInv, TypeOK
<1>3. ASSUME achievement # Hidden
      PROVE  Timed(achievement, achievementAge', AchievementTime, now', sinceTick')
    <2>1. achievement \in Clock /\ Timed(achievement, achievementAge, AchievementTime, now, sinceTick)
        BY <1>3 DEF PInv, TypeOK, PopupsTimed
    <2>2. achievementAge' = achievementAge + ms
        BY <1>0, <1>1, <2>1, OlderAge, Durations DEF Timed
    <2>3. QED BY <1>0, <1>1, <2>1, <2>2, AgesTimed, Durations
<1>4. ASSUME notification # Hidden
      PROVE  Timed(notification.hideAt, notificationAge', NotificationTime, now', sinceTick')
    <2>1. notification.hideAt \in Clock
          /\ Timed(notification.hideAt, notificationAge, NotificationTime, now, sinceTick)
        BY <1>4 DEF PInv, TypeOK, PopupsTimed
    <2>2. notificationAge' = notificationAge + ms
        BY <1>0, <1>1, <2>1, OlderAge, Durations DEF Timed
    <2>3. QED BY <1>0, <1>1, <2>1, <2>2, AgesTimed, Durations
<1>5. PopupsTimed'
    BY <1>1, <1>3, <1>4 DEF PopupsTimed
<1>6. QED BY <1>1, <1>2, <1>5 DEF PInv, CardPopupIsCurrent

(* What the tick hides has had its time, and what it leaves has not.       *)
LEMMA TickHides ==
    ASSUME PInv
    PROVE  /\ achievement # Hidden => (Passed(achievement) <=> achievementAge >= AchievementTime)
           /\ notification # Hidden =>
                  (Passed(notification.hideAt) <=> notificationAge >= NotificationTime)
<1>0. /\ now \in Clock /\ sinceTick \in Nat /\ sinceTick <= MaxPass
      /\ achievementAge \in Nat /\ notificationAge \in Nat
    BY AgesTyped DEF PInv, TypeOK
<1>1. ASSUME achievement # Hidden
      PROVE  Passed(achievement) <=> achievementAge >= AchievementTime
    <2>1. achievement \in Clock /\ Timed(achievement, achievementAge, AchievementTime, now, sinceTick)
        BY <1>1 DEF PInv, TypeOK, PopupsTimed
    <2>2. QED BY <1>0, <2>1, PassedIsOver, Durations
<1>2. ASSUME notification # Hidden
      PROVE  Passed(notification.hideAt) <=> notificationAge >= NotificationTime
    <2>1. notification.hideAt \in Clock
          /\ Timed(notification.hideAt, notificationAge, NotificationTime, now, sinceTick)
        BY <1>2 DEF PInv, TypeOK, PopupsTimed
    <2>2. QED BY <1>0, <2>1, PassedIsOver, Durations
<1>3. QED BY <1>1, <1>2

LEMMA TickHolds == ASSUME PInv, Tick PROVE PInv'
<1>0. /\ achievementAge \in Nat /\ notificationAge \in Nat
      /\ AchievementTime \in Nat /\ NotificationTime \in Nat /\ 0 \in 0..MaxPass
    BY AgesTyped, Durations DEF PInv, TypeOK
<1>1. /\ sinceTick' = 0 /\ UNCHANGED <<card, replay, now, achievementAge, notificationAge>>
      /\ achievement' \in {achievement, Hidden} /\ notification' \in {notification, Hidden}
    BY DEF Tick, ages
<1>2. ASSUME achievement' # Hidden
      PROVE  Timed(achievement', achievementAge, AchievementTime, now, 0)
    <2>1. achievement' = achievement /\ achievement # Hidden /\ ~Passed(achievement)
        BY <1>2 DEF Tick
    <2>2. Timed(achievement, achievementAge, AchievementTime, now, sinceTick)
        BY <2>1 DEF PInv, PopupsTimed
    <2>3. QED BY <1>0, <2>1, <2>2, TickHides, TickedTimed
<1>3. ASSUME notification' # Hidden
      PROVE  Timed(notification'.hideAt, notificationAge, NotificationTime, now, 0)
    <2>1. notification' = notification /\ notification # Hidden /\ ~Passed(notification.hideAt)
        BY <1>3 DEF Tick
    <2>2. Timed(notification.hideAt, notificationAge, NotificationTime, now, sinceTick)
        BY <2>1 DEF PInv, PopupsTimed
    <2>3. QED BY <1>0, <2>1, <2>2, TickHides, TickedTimed
<1>4. PopupsTimed'
    BY <1>1, <1>2, <1>3 DEF PopupsTimed
<1>5. TypeOK'
    BY <1>0, <1>1 DEF PInv, TypeOK
<1>6. QED BY <1>1, <1>4, <1>5 DEF PInv, CardPopupIsCurrent

LEMMA PopupsStep == ASSUME PInv, [Next]_vars PROVE PInv'
<1>1. replay \in BOOLEAN
    BY DEF PInv, TypeOK
<1>2. CASE Screenshot \/ UpdateNotice
    BY <1>1, <1>2, OtherNoticeHolds DEF Screenshot, UpdateNotice
<1>3. CASE StartOrStopGame
    BY <1>3, MarkerHolds DEF StartOrStopGame
<1>4. CASE UNCHANGED vars
    BY <1>1, <1>4, MarkerHolds DEF vars, popups, ages
<1>5. QED
    BY <1>2, <1>3, <1>4, AchievementHolds, SafeHolds, RemovedHolds, TickHolds, ClipHolds,
       CardChangeHolds, ElapseHolds DEF Next

LEMMA PopupsInit == Init => PInv
<1>. SUFFICES ASSUME Init PROVE PInv
    OBVIOUS
<1>1. /\ achievement = Hidden /\ notification = Hidden /\ replay = FALSE
      /\ card = [state |-> "EJECTED", present |-> FALSE]
      /\ now = 0 /\ sinceTick = 0 /\ achievementAge = 0 /\ notificationAge = 0
    BY DEF Init
<1>2. card \in [state : CardStates, present : BOOLEAN]
    BY <1>1, CardAfter, Kinds
<1>3. 0 \in Clock /\ 0 \in 0..MaxPass /\ 0 \in 0..Longest
    BY Durations DEF Clock
<1>4. QED BY <1>1, <1>2, <1>3 DEF PInv, TypeOK, PopupsTimed, CardPopupIsCurrent
-----------------------------------------------------------------------------
(* The popups are Popups, whatever the readings and the timer do.          *)
LEMMA PanelStepIsPopups == [PanelNext]_panelVars => [Next]_vars
<1>1. TickPanel => Next
    BY DEF TickPanel, Next
<1>2. StartGame \/ StopGame => Next
    BY DEF StartGame, StopGame, Next
<1>3. Other => Next
    BY DEF Other, Next
<1>4. (\E ms \in 1..MaxPass : ElapsePanel(ms)) => Next
    BY DEF ElapsePanel, Next
<1>5. (\E line \in Lines : Report(line)) => UNCHANGED vars
    BY DEF Report
<1>6. QED BY <1>1, <1>2, <1>3, <1>4, <1>5 DEF PanelNext, panelVars

\* Panel's popups behave as Popups says: neither the session timer nor the telemetry
\* disturbs them.
THEOREM PanelKeepsPopups == PanelSpec => Spec
<1>1. PanelInit => Init
    BY DEF PanelInit
<1>2. QED BY <1>1, PanelStepIsPopups, PTL DEF PanelSpec, Spec

THEOREM PopupsInvariant == Spec => []PInv
BY PopupsInit, PopupsStep, PTL DEF Spec

\* Popups, icon, marker and clock stay within their types.
THEOREM TypeCorrect == PanelSpec => []TypeOK
<1>1. PInv => TypeOK
    BY DEF PInv
<1>2. QED BY <1>1, PanelKeepsPopups, PopupsInvariant, PTL

\* A popup about the card tells the state the icon shows, after any captures, clips and
\* card changes: SAFE TO REMOVE never stays up for a card in use or gone.
THEOREM CardPopupTrue == PanelSpec => []CardPopupIsCurrent
<1>1. PInv => CardPopupIsCurrent
    BY DEF PInv
<1>2. QED BY <1>1, PanelKeepsPopups, PopupsInvariant, PTL

\* Only the tick takes an achievement down.
LEMMA AchievementTaken ==
    ASSUME PInv, Next, achievement # Hidden, achievement' = Hidden
    PROVE  achievementAge >= AchievementTime
<1>1. CASE Tick
    BY <1>1, TickHides DEF Tick
<1>2. CASE ShowAchievement
    <2>1. now \in Clock /\ AchievementTime \in Nat /\ AchievementTime < ClockMod
        BY Durations DEF PInv, TypeOK
    <2>2. achievement' \in Clock
        BY <1>2, <2>1, Later DEF ShowAchievement, Deadline
    <2>3. QED BY <2>2, HiddenIsNone
<1>3. QED
    BY <1>1, <1>2 DEF Next, Screenshot, StartOrStopGame, SafeToRemove, CardRemoved, UpdateNotice,
       Clip, CardChange, Elapse, Notify, popups

\* Only the tick and the card's removal take a notification down.
LEMMA NotificationTaken ==
    ASSUME PInv, Next, notification # Hidden, notification' = Hidden
    PROVE  notificationAge >= NotificationTime \/ ~card'.present
<1>1. CASE Tick
    BY <1>1, TickHides DEF Tick
<1>2. ASSUME NEW text \in Texts, Notify(text) PROVE FALSE
    <2>1. notification' \in Notice
        BY <1>2, NotifyKeeps DEF PInv
    <2>2. QED BY <2>1, HiddenIsNone DEF Notice
<1>3. /\ ~Screenshot /\ ~SafeToRemove /\ ~UpdateNotice
      /\ \A state \in CardStates : ~CardChange(state)
      /\ \A status \in ClipStatus : ~Clip(status)
    BY <1>2, Kinds DEF Screenshot, SafeToRemove, UpdateNotice, CardChange, Clip, popups
<1>4. CASE CardRemoved
    BY <1>4, CardAfter, Kinds DEF CardRemoved
<1>5. QED
    BY <1>1, <1>3, <1>4 DEF Next, ShowAchievement, StartOrStopGame, Elapse, popups

\* A popup is gone one pass of the main loop after its time, wherever on the wrapping
\* clock it was shown, and stays for the whole of it unless the card is pulled out.
THEOREM PopupsAreTimed == PanelSpec => PopupsKeepTime
<1>1. PInv => HidesOnTime
    <2>. SUFFICES ASSUME PInv PROVE HidesOnTime
        OBVIOUS
    <2>1. /\ achievementAge \in Nat /\ notificationAge \in Nat /\ sinceTick \in Nat
          /\ sinceTick <= MaxPass /\ AchievementTime \in Nat /\ NotificationTime \in Nat
          /\ MaxPass \in Nat
        BY AgesTyped, Durations DEF PInv
    <2>2. achievement # Hidden => achievementAge < AchievementTime + sinceTick
        BY DEF PInv, PopupsTimed, Timed
    <2>3. notification # Hidden => notificationAge < NotificationTime + sinceTick
        BY DEF PInv, PopupsTimed, Timed
    <2>4. QED BY <2>1, <2>2, <2>3 DEF HidesOnTime
<1>2. PInv /\ [Next]_vars =>
          [/\ achievement # Hidden /\ achievement' = Hidden => achievementAge >= AchievementTime
           /\ notification # Hidden /\ notification' = Hidden =>
                  notificationAge >= NotificationTime \/ ~card'.present]_vars
    BY AchievementTaken, NotificationTaken
<1>3. QED
    BY <1>1, <1>2, PanelKeepsPopups, PopupsInvariant, PTL DEF Spec, PopupsKeepTime
-----------------------------------------------------------------------------
(* The session timer.                                                      *)
LEMMA Division ==
    ASSUME NEW n \in Nat, NEW k \in Nat, k > 0
    PROVE  \E q, r \in Nat : q = n \div k /\ r = n % k /\ r < k /\ n = q * k + r
<1>1. PICK q \in Nat, r \in Nat : q = n \div k /\ r = n % k /\ r < k
    <2>1. n \div k \in Nat /\ n % k \in Nat /\ n % k < k
        OBVIOUS
    <2>2. QED BY <2>1
<1>2. n = q * k + r
    BY <1>1
<1>3. QED BY <1>1, <1>2

LEMMA Products ==
    ASSUME NEW a \in Nat, NEW b \in Nat
    PROVE  /\ a * b \in Nat /\ (a + 1) * b = a * b + b
           /\ b > 0 => a <= a * b
<1>1. a * b \in Nat /\ (a + 1) * b = a * b + b
    OBVIOUS
<1>2. ASSUME b > 0 PROVE a <= a * b
    <2>1. PICK c \in Nat : b = c + 1
        <3>1. b - 1 \in Nat /\ b = (b - 1) + 1
            BY <1>2
        <3>2. QED BY <3>1
    <2>2. a * b = a * c + a /\ a * c \in Nat
        BY <2>1
    <2>3. QED BY <2>2
<1>3. QED BY <1>1, <1>2

LEMMA Units ==
    /\ SecondMs \in Nat /\ SecondMs > 0 /\ MinuteLength \in Nat /\ MinuteLength > 0
    /\ HourLength \in Nat /\ HourLength > 0 /\ HourLimit \in Nat
    /\ HoursLater(HourLimit + 1) < ClockMod
BY SessionAssumption

SInv == TypeOK /\ SessionTyped /\ Counted

LEMMA SessionFields ==
    ASSUME SInv
    PROVE  /\ session.running \in BOOLEAN /\ session.startedAt \in Clock /\ session.seconds \in Nat
           /\ now \in Clock /\ played \in 0..ClockMod /\ played \in Nat /\ sinceTick \in Nat
           /\ sinceTick <= MaxPass
BY AgesTyped, Durations DEF SInv, SessionTyped, Sessions, TypeOK

(* A session that starts has been played for no time, and one that has     *)
(* stopped is not timed.                                                   *)
LEMMA StartCounts == ASSUME SInv, StartGame PROVE SessionTyped' /\ Counted'
<1>1. /\ session' = [running |-> TRUE, startedAt |-> now, seconds |-> 0] /\ played' = 0
      /\ UNCHANGED <<now, sinceTick>> /\ now \in Clock /\ sinceTick \in Nat
    BY SessionFields DEF StartGame, Started, StartOrStopGame
<1>2. /\ session' \in Sessions /\ session'.running = TRUE /\ session'.startedAt = now
      /\ session'.seconds = 0
    BY <1>1 DEF Sessions
<1>3. 0 * SecondMs = 0 /\ (0 + 1) * SecondMs = SecondMs /\ 0 \in 0..ClockMod
    BY Units, Durations
<1>4. Behind(now, now) = 0
    BY <1>1, BehindNow
<1>5. SessionTyped'
    BY <1>1, <1>2, <1>3 DEF SessionTyped
<1>6. Counted'
    BY <1>1, <1>2, <1>3, <1>4, Units DEF Counted
<1>7. QED BY <1>5, <1>6

LEMMA StopCounts == ASSUME SInv, StopGame PROVE SessionTyped' /\ Counted'
<1>1. session' = [running |-> FALSE, startedAt |-> 0, seconds |-> 0] /\ played' = 0
    BY DEF StopGame, NoSession
<1>2. session' \in Sessions /\ session'.running = FALSE /\ 0 \in 0..ClockMod
    BY <1>1, Durations DEF Sessions, Clock
<1>3. QED BY <1>1, <1>2 DEF SessionTyped, Counted

LEMMA ElapseCounts ==
    ASSUME SInv, NEW ms \in 1..MaxPass, ElapsePanel(ms)
    PROVE  SessionTyped' /\ Counted'
<1>0. /\ session.running \in BOOLEAN /\ session.startedAt \in Clock /\ session.seconds \in Nat
      /\ now \in Clock /\ played \in 0..ClockMod /\ played \in Nat /\ sinceTick \in Nat
      /\ ms \in Nat /\ ms < ClockMod /\ ClockMod \in Nat
    BY SessionFields, Durations
<1>1. /\ now' = (now + ms) % ClockMod /\ sinceTick' = sinceTick + ms /\ session' = session
      /\ played' = CASE ~session.running -> 0
                     [] session.running /\ played + ms <= ClockMod -> played + ms
                     [] OTHER -> ClockMod
    BY DEF ElapsePanel, Elapse
<1>2. played' \in 0..ClockMod
    BY <1>0, <1>1
<1>3. ASSUME session.running, played' < ClockMod
      PROVE  /\ Behind(session.startedAt, now') = played'
             /\ session.seconds * SecondMs <= played'
             /\ played' < (session.seconds + 1) * SecondMs + sinceTick'
    <2>1. played' = played + ms /\ played < ClockMod /\ played + ms < ClockMod
        BY <1>0, <1>1, <1>3
    <2>2. /\ Behind(session.startedAt, now) = played
          /\ session.seconds * SecondMs <= played
          /\ played < (session.seconds + 1) * SecondMs + sinceTick
        BY <1>3, <2>1 DEF SInv, Counted
    <2>3. Behind(session.startedAt, now') = played + ms
        BY <1>0, <1>1, <2>1, <2>2, BehindLater
    <2>4. session.seconds * SecondMs \in Nat /\ (session.seconds + 1) * SecondMs \in Nat
        BY <1>0, Units, Products
    <2>5. QED BY <1>0, <1>1, <2>1, <2>2, <2>3, <2>4
<1>4. SessionTyped'
    BY <1>1, <1>2 DEF SInv, SessionTyped
<1>5. Counted'
    BY <1>1, <1>3 DEF Counted
<1>6. QED BY <1>4, <1>5

(* The tick brings the timer up to date.                                   *)
LEMMA TickCounts == ASSUME SInv, TickPanel PROVE SessionTyped' /\ Counted'
<1>0. /\ session.running \in BOOLEAN /\ session.startedAt \in Clock /\ session.seconds \in Nat
      /\ now \in Clock /\ played \in 0..ClockMod /\ played \in Nat
    BY SessionFields
<1>1. /\ session' = IF session.running THEN [session EXCEPT !.seconds = Seconds] ELSE session
      /\ played' = played /\ now' = now /\ sinceTick' = 0
    BY DEF TickPanel, Tick
<1>2. PICK b : b = Behind(session.startedAt, now)
    OBVIOUS
<1>3. Seconds = b \div SecondMs /\ b \in Nat
    <2>1. b \in Clock
        BY <1>0, <1>2, BehindValue
    <2>2. b \in Nat
        BY <2>1, Durations DEF Clock
    <2>3. QED BY <1>2, <2>2 DEF Seconds, Behind
<1>4. PICK s \in Nat : s = Seconds /\ s * SecondMs <= b /\ b < (s + 1) * SecondMs
    <2>1. PICK s \in Nat, r \in Nat : s = b \div SecondMs /\ r < SecondMs /\ b = s * SecondMs + r
        BY <1>3, Units, Division
    <2>3. s * SecondMs \in Nat /\ (s + 1) * SecondMs = s * SecondMs + SecondMs
        BY Units, Products
    <2>4. s * SecondMs <= b /\ b < (s + 1) * SecondMs
        BY <1>3, <2>1, <2>3, Units
    <2>5. QED BY <1>3, <2>1, <2>4
<1>5. CASE session.running
    <2>1. session' = [session EXCEPT !.seconds = s] /\ session \in Sessions
        BY <1>1, <1>4, <1>5 DEF SInv, SessionTyped
    <2>2. /\ session' \in Sessions /\ session'.startedAt = session.startedAt
          /\ session'.running = session.running /\ session'.seconds = s
        BY <1>4, <2>1 DEF Sessions
    <2>3. played < ClockMod => b = played
        BY <1>2, <1>5 DEF SInv, Counted
    <2>4. (s + 1) * SecondMs \in Nat
        BY <1>4, Units
    <2>5. Counted'
        <3>1. ASSUME played < ClockMod
              PROVE  /\ s * SecondMs <= played
                     /\ played < (s + 1) * SecondMs + 0
            BY <1>0, <1>4, <2>3, <2>4, <3>1
        <3>2. QED BY <1>1, <1>2, <2>2, <2>3, <3>1 DEF Counted
    <2>6. QED BY <1>1, <2>2, <2>5 DEF SInv, SessionTyped
<1>6. CASE ~session.running
    BY <1>1, <1>6 DEF SInv, SessionTyped, Counted
<1>7. QED BY <1>0, <1>5, <1>6

LEMMA OthersCount ==
    ASSUME SInv, UNCHANGED <<session, played, now, sinceTick>>
    PROVE  SessionTyped' /\ Counted'
BY DEF SInv, SessionTyped, Counted

LEMMA SessionStep ==
    ASSUME SInv, [PanelNext]_panelVars
    PROVE  SessionTyped' /\ Counted'
<1>1. Other => UNCHANGED <<session, played, now, sinceTick>>
    BY DEF Other, ShowAchievement, Screenshot, SafeToRemove, CardRemoved, UpdateNotice, Clip,
           CardChange, Notify
<1>2. (\E line \in Lines : Report(line)) => UNCHANGED <<session, played, now, sinceTick>>
    BY DEF Report, vars
<1>3. UNCHANGED panelVars => UNCHANGED <<session, played, now, sinceTick>>
    BY DEF panelVars, vars
<1>4. QED
    BY <1>1, <1>2, <1>3, StartCounts, StopCounts, ElapseCounts, TickCounts, OthersCount DEF PanelNext

LEMMA SessionInit == PanelInit => SessionTyped /\ Counted
<1>. SUFFICES ASSUME PanelInit PROVE SessionTyped /\ Counted
    OBVIOUS
<1>1. session = [running |-> FALSE, startedAt |-> 0, seconds |-> 0] /\ played = 0
    BY DEF PanelInit, NoSession
<1>2. session \in Sessions /\ session.running = FALSE /\ 0 \in 0..ClockMod
    BY <1>1, Durations DEF Sessions, Clock
<1>3. QED BY <1>1, <1>2 DEF SessionTyped, Counted

\* Session and time played are typed, and the timer is at most a pass behind.
LEMMA SessionInvariant == PanelSpec => []SInv
<1>1. PanelInit => SessionTyped /\ Counted
    BY SessionInit
<1>2. TypeOK /\ SessionTyped /\ Counted /\ [PanelNext]_panelVars => SessionTyped' /\ Counted'
    BY SessionStep DEF SInv
<1>3. QED BY <1>1, <1>2, TypeCorrect, PTL DEF PanelSpec, SInv

(* What render_game_status makes of a number of seconds.                   *)
Minutes == session.seconds \div MinuteLength
Hours == Minutes \div HourLength

LEMMA TimerValue ==
    ASSUME session.seconds \in Nat
    PROVE  /\ Hours > 0 /\ Hours <= HourLimit =>
                 /\ Claimed = HoursLater(Hours) + (Minutes % HourLength) * MinuteLength * SecondMs
                 /\ Unit = MinuteLength * SecondMs
           /\ ~(Hours > 0) =>
                 /\ Claimed = (Minutes * MinuteLength + (session.seconds % MinuteLength)) * SecondMs
                 /\ Unit = SecondMs
<1>1. Minutes \in Nat /\ Hours \in Nat
    BY Units, Division DEF Minutes, Hours
<1>2. CASE Hours > 0 /\ Hours <= HourLimit
    <2>1. Timer = [hours |-> Hours, minutes |-> Minutes % HourLength]
        BY <1>1, <1>2, Units DEF Timer, Minutes, Hours
    <2>2. "hours" \in DOMAIN Timer /\ Timer.hours = Hours /\ Timer.minutes = Minutes % HourLength
        BY <2>1
    <2>3. /\ Claimed = HoursLater(Hours) + (Minutes % HourLength) * MinuteLength * SecondMs
          /\ Unit = MinuteLength * SecondMs
        BY <2>2 DEF Claimed, Unit
    <2>4. QED BY <1>2, <2>3
<1>3. CASE ~(Hours > 0)
    <2>1. Timer = [minutes |-> Minutes, seconds |-> session.seconds % MinuteLength]
        BY <1>3 DEF Timer, Minutes, Hours
    <2>2. "hours" \notin DOMAIN Timer /\ Timer.minutes = Minutes
          /\ Timer.seconds = session.seconds % MinuteLength
        BY <2>1
    <2>3. Claimed = (Timer.minutes * MinuteLength + Timer.seconds) * SecondMs
        BY <2>2 DEF Claimed
    <2>4. Unit = SecondMs
        BY <2>2 DEF Unit
    <2>5. Claimed = (Minutes * MinuteLength + (session.seconds % MinuteLength)) * SecondMs
        BY <2>2, <2>3
    <2>6. QED BY <1>3, <2>4, <2>5
<1>4. QED BY <1>2, <1>3

LEMMA Grows ==
    ASSUME NEW a \in Nat, NEW b \in Nat, NEW c \in Nat, a <= b
    PROVE  a * c \in Nat /\ b * c \in Nat /\ a * c <= b * c
<1>1. PICK d \in Nat : b = a + d
    <2>1. b - a \in Nat /\ b = a + (b - a)
        OBVIOUS
    <2>2. QED BY <2>1
<1>2. a * c \in Nat /\ d * c \in Nat /\ b * c = a * c + d * c
    BY <1>1
<1>3. QED BY <1>2

\* While a game runs the timer shows the time since the latest START, rounded down to the
\* unit it shows and at most a pass of the main loop behind, wherever on the wrapping
\* clock the game began, up to the hours it has room for.
THEOREM TimerIsTrue == PanelSpec => []TimerTellsSession
<1>1. SInv => TimerTellsSession
    <2>. SUFFICES ASSUME SInv, session.running, played < HoursLater(HourLimit + 1)
                  PROVE  Claimed <= played /\ played < Claimed + Unit + MaxPass
        BY DEF TimerTellsSession
    <2>. DEFINE s == session.seconds
                perMinute == MinuteLength * SecondMs
    <2>0. /\ s \in Nat /\ played \in Nat /\ sinceTick \in Nat /\ sinceTick <= MaxPass
          /\ perMinute \in Nat /\ ClockMod \in Nat /\ MaxPass \in Nat
        BY SessionFields, Units, Durations, Products
    <2>1. played < ClockMod
        <3>1. HoursLater(HourLimit + 1) \in Nat
            BY Units DEF HoursLater
        <3>2. QED BY <2>0, <3>1, Units
    <2>2. /\ s * SecondMs <= played /\ played < s * SecondMs + SecondMs + sinceTick
          /\ s * SecondMs \in Nat
        <3>1. s * SecondMs \in Nat /\ (s + 1) * SecondMs = s * SecondMs + SecondMs
            BY <2>0, Units, Products
        <3>2. QED BY <2>1, <3>1 DEF SInv, Counted
    <2>3. PICK m \in Nat, x \in Nat : /\ m = Minutes /\ x = s % MinuteLength
                                      /\ x < MinuteLength /\ s = m * MinuteLength + x
        BY <2>0, Units, Division DEF Minutes
    <2>4. PICK h \in Nat, y \in Nat : /\ h = Hours /\ y = m % HourLength
                                      /\ y < HourLength /\ m = h * HourLength + y
        BY <2>3, Units, Division DEF Hours
    <2>5. CASE ~(h > 0)
        <3>1. Claimed = s * SecondMs /\ Unit = SecondMs
            <4>1. /\ Claimed = (Minutes * MinuteLength + (s % MinuteLength)) * SecondMs
                  /\ Unit = SecondMs
                BY <2>0, <2>4, <2>5, TimerValue
            <4>2. QED BY <2>3, <4>1
        <3>2. QED BY <2>0, <2>2, <3>1, Units
    <2>6. CASE h > 0
        <3>1. m * perMinute \in Nat /\ m * perMinute = (m * MinuteLength) * SecondMs
            BY <2>0, Units
        <3>2. m * perMinute <= s * SecondMs
            <4>1. m * MinuteLength \in Nat /\ m * MinuteLength <= s
                BY <2>3, Units, Products
            <4>2. QED BY <2>0, <3>1, <4>1, Units, Grows
        <3>3. s * SecondMs + SecondMs <= m * perMinute + perMinute
            <4>1. m * MinuteLength \in Nat /\ s + 1 <= m * MinuteLength + MinuteLength
                BY <2>3, Units, Products
            <4>2. (s + 1) * SecondMs <= (m * MinuteLength + MinuteLength) * SecondMs
                BY <2>0, <4>1, Units, Grows
            <4>3. (m * MinuteLength + MinuteLength) * SecondMs = m * perMinute + perMinute
                BY <4>1, <3>1, Units
            <4>4. QED BY <2>0, <4>2, <4>3, Units, Products
        <3>4. h <= HourLimit
            <4>1. SUFFICES ASSUME HourLimit + 1 <= h PROVE FALSE
                BY Units
            <4>2. (HourLimit + 1) * HourLength <= m
                <5>1. /\ (HourLimit + 1) * HourLength \in Nat /\ h * HourLength \in Nat
                      /\ (HourLimit + 1) * HourLength <= h * HourLength
                    BY <4>1, Units, Grows
                <5>2. QED BY <2>4, <5>1
            <4>3. /\ ((HourLimit + 1) * HourLength) * perMinute \in Nat
                  /\ ((HourLimit + 1) * HourLength) * perMinute <= m * perMinute
                BY <2>0, <4>2, Units, Products, Grows
            <4>4. HoursLater(HourLimit + 1) = ((HourLimit + 1) * HourLength) * perMinute
                BY Units DEF HoursLater
            <4>5. QED BY <2>0, <2>2, <3>1, <3>2, <4>3, <4>4
        <3>5. Claimed = m * perMinute /\ Unit = perMinute
            <4>1. /\ Claimed = HoursLater(h) + y * MinuteLength * SecondMs
                  /\ Unit = perMinute
                BY <2>0, <2>3, <2>4, <2>6, <3>4, TimerValue
            <4>2. HoursLater(h) = (h * HourLength) * perMinute
                BY Units DEF HoursLater
            <4>3. y * MinuteLength * SecondMs = y * perMinute
                BY Units
            <4>4. (h * HourLength + y) * perMinute = (h * HourLength) * perMinute + y * perMinute
                BY <2>0, Units
            <4>5. QED BY <2>4, <4>1, <4>2, <4>3, <4>4
        <3>6. QED BY <2>0, <2>2, <3>1, <3>2, <3>3, <3>5, Units
    <2>7. QED BY <2>5, <2>6
<1>2. QED BY <1>1, SessionInvariant, PTL
-----------------------------------------------------------------------------
(* The readings.                                                           *)
Fields7 == {"BATTERY", "RUNTIME_MIN", "VOLUME", "POWER", "NETWORK", "TEMP_MILLIC", "TIME_HEX"}

LEMMA FieldsAre == /\ Len(Order) = 7 /\ DOMAIN Order = 1..7 /\ Field = Fields7
                   /\ Field = Numeric \cup Choice \cup {"TIME_HEX"}
<1>1. Len(Order) = 7 /\ DOMAIN Order = 1..7
    BY DEF Order
<1>2. Field = {Order[i] : i \in {1, 2, 3, 4, 5, 6, 7}}
    <2>1. 1..7 = {1, 2, 3, 4, 5, 6, 7}
        OBVIOUS
    <2>2. QED BY <1>1, <2>1 DEF Field
<1>3. /\ Order[1] = "BATTERY" /\ Order[2] = "RUNTIME_MIN" /\ Order[3] = "VOLUME" /\ Order[4] = "POWER"
      /\ Order[5] = "NETWORK" /\ Order[6] = "TEMP_MILLIC" /\ Order[7] = "TIME_HEX"
    BY DEF Order
<1>4. Field = Fields7
    BY <1>2, <1>3 DEF Fields7
<1>5. QED BY <1>1, <1>4 DEF Fields7, Numeric, Choice

(* Every field has one place in the order, and no field is called OK.      *)
LEMMA Places ==
    ASSUME NEW i \in 1..7
    PROVE  Order[i] \in Field /\ Order[i] # "OK" /\ Position(Order[i]) = i
<1>1. DOMAIN Order = 1..7
    BY FieldsAre
<1>2. \A j \in 1..7 : Order[j] = Order[i] => j = i
    BY DEF Order
<1>3. Order[i] # "OK"
    BY DEF Order
<1>4. QED BY <1>1, <1>2, <1>3 DEF Position, Field

LEMMA FirstOf ==
    ASSUME NEW S \in SUBSET (1..7), S # {}
    PROVE  \E i \in S : \A j \in S : i <= j
<1>1. CASE 1 \in S
    BY <1>1
<1>2. CASE 1 \notin S /\ 2 \in S
    BY <1>2
<1>3. CASE 1 \notin S /\ 2 \notin S /\ 3 \in S
    BY <1>3
<1>4. CASE 1 \notin S /\ 2 \notin S /\ 3 \notin S /\ 4 \in S
    BY <1>4
<1>5. CASE 1 \notin S /\ 2 \notin S /\ 3 \notin S /\ 4 \notin S /\ 5 \in S
    BY <1>5
<1>6. CASE 1 \notin S /\ 2 \notin S /\ 3 \notin S /\ 4 \notin S /\ 5 \notin S /\ 6 \in S
    BY <1>6
<1>7. CASE 1 \notin S /\ 2 \notin S /\ 3 \notin S /\ 4 \notin S /\ 5 \notin S /\ 6 \notin S
    <2>1. \A j \in S : j = 7
        BY <1>7
    <2>2. PICK k \in S : TRUE
        OBVIOUS
    <2>3. QED BY <2>1, <2>2
<1>8. QED BY <1>1, <1>2, <1>3, <1>4, <1>5, <1>6, <1>7

(* The handler stops at the first field that it refuses, or past the last. *)
LEMMA Stops ==
    ASSUME NEW line
    PROVE  /\ Stop(line) \in 1..8
           /\ \A i \in 1..7 : Refuses(Order[i], line[Order[i]]) => Stop(line) <= i
<1>1. PICK R : R = {i \in DOMAIN Order : Refuses(Order[i], line[Order[i]])}
    OBVIOUS
<1>2. R \in SUBSET (1..7) /\ \A i \in 1..7 : Refuses(Order[i], line[Order[i]]) => i \in R
    BY <1>1, FieldsAre
<1>3. Stop(line) = IF R = {} THEN 8 ELSE CHOOSE i \in R : \A j \in R : i <= j
    BY <1>1, FieldsAre DEF Stop
<1>4. CASE R = {}
    BY <1>2, <1>3, <1>4
<1>5. CASE R # {}
    <2>1. \E i \in R : \A j \in R : i <= j
        BY <1>2, <1>5, FirstOf
    <2>2. Stop(line) \in R /\ \A j \in R : Stop(line) <= j
        BY <1>3, <1>5, <2>1
    <2>3. Stop(line) \in 1..7
        BY <1>2, <2>2
    <2>4. QED BY <1>2, <2>2, <2>3
<1>6. QED BY <1>4, <1>5

(* A host that reads the answer knows which fields were taken.             *)
LEMMA TakenIsConfirmed ==
    ASSUME NEW line, answer' = Answer(line), NEW f \in Field
    PROVE  /\ f \in Takes(line) <=> Confirmed(f)
           /\ f \in Takes(line) => ~Refuses(f, line[f])
<1>1. PICK i \in 1..7 : f = Order[i]
    BY FieldsAre DEF Field
<1>2. Position(f) = i
    BY <1>1, Places
<1>3. PICK stop \in 1..8 : stop = Stop(line)
    BY Stops
<1>4. f \in Takes(line) <=> i < stop
    <2>1. Takes(line) = {Order[j] : j \in 1..(stop - 1)}
        BY <1>3 DEF Takes
    <2>2. i < stop => f \in Takes(line)
        BY <1>1, <2>1
    <2>3. ASSUME f \in Takes(line) PROVE i < stop
        <3>1. PICK j \in 1..(stop - 1) : f = Order[j]
            BY <2>1, <2>3
        <3>2. j \in 1..7 /\ Position(f) = j
            BY <3>1, Places
        <3>3. QED BY <1>2, <3>2
    <2>4. QED BY <2>2, <2>3
<1>5. Confirmed(f) <=> i < stop
    <2>1. CASE stop = 8
        <3>1. answer' = "OK"
            BY <1>3, <2>1, FieldsAre DEF Answer
        <3>2. QED BY <2>1, <3>1 DEF Confirmed
    <2>2. CASE stop \in 1..7
        <3>1. answer' = Order[stop]
            BY <1>3, <2>2, FieldsAre DEF Answer
        <3>2. answer' # "OK" /\ Position(answer') = stop
            BY <2>2, <3>1, Places
        <3>3. QED BY <1>2, <3>2 DEF Confirmed
    <2>3. QED BY <2>1, <2>2
<1>6. i < stop => ~Refuses(f, line[f])
    BY <1>1, <1>3, Stops
<1>7. QED BY <1>4, <1>5, <1>6

(* A line gives every field one of its forms.                              *)
LEMMA OneMoreForms ==
    ASSUME NEW lines,
           \A line \in lines : DOMAIN line = Field /\ \A f \in Field : line[f] \in Forms(f),
           NEW line \in OneMore(lines)
    PROVE  DOMAIN line = Field /\ \A f \in Field : line[f] \in Forms(f)
<1>1. PICK old \in lines, g \in Sent :
          line \in {[old EXCEPT ![g] = form] : form \in Forms(g)}
    BY DEF OneMore
<1>2. PICK form \in Forms(g) : line = [old EXCEPT ![g] = form]
    BY <1>1
<1>3. QED BY <1>2

LEMMA LineForms ==
    ASSUME NEW line \in Lines
    PROVE  \A f \in Field : line[f] \in Forms(f)
<1>1. \A l \in {[f \in Field |-> Absent]} : DOMAIN l = Field /\ \A f \in Field : l[f] \in Forms(f)
    BY DEF Forms
<1>2. \A l \in OneMore({[f \in Field |-> Absent]}) :
          DOMAIN l = Field /\ \A f \in Field : l[f] \in Forms(f)
    BY <1>1, OneMoreForms
<1>3. QED BY <1>2, OneMoreForms DEF Lines

\* The readings: numbers with a flag, and all that Told says of them.
TInv ==
    /\ \A f \in Numeric : /\ DOMAIN reading[f] = {"value", "available"}
                          /\ reading[f] = [value |-> reading[f].value, available |-> reading[f].available]
    /\ Told

(* What one field's form does to the reading and to the report.            *)
LEMMA FieldTold ==
    ASSUME TInv, NEW line \in Lines, HostTelemetry(line), NEW f \in Field
    PROVE  \/ reading'[f] = reading[f] /\ reported'[f] = reported[f]
           \/ /\ reading'[f] = Stored(f, line[f]) /\ ~Refuses(f, line[f])
              /\ reported'[f] = IF line[f] \notin {Absent, Bad} THEN line[f] ELSE reported[f]
<1>1. /\ reading' = [g \in Field |-> IF g \in Takes(line) THEN Stored(g, line[g]) ELSE reading[g]]
      /\ answer' = Answer(line) /\ reported' = Reported(line)
    BY DEF HostTelemetry
<1>2. reading'[f] = IF f \in Takes(line) THEN Stored(f, line[f]) ELSE reading[f]
    BY <1>1
<1>3. reported'[f] = IF Confirmed(f) /\ line[f] \notin {Absent, Bad} THEN line[f] ELSE reported[f]
    BY <1>1 DEF Reported
<1>4. /\ f \in Takes(line) <=> Confirmed(f)
      /\ f \in Takes(line) => ~Refuses(f, line[f])
    BY <1>1, TakenIsConfirmed
<1>5. QED BY <1>2, <1>3, <1>4

LEMMA NumericTold ==
    ASSUME TInv, NEW line \in Lines, HostTelemetry(line), NEW f \in Numeric
    PROVE  /\ DOMAIN reading'[f] = {"value", "available"}
           /\ reading'[f] = [value |-> reading'[f].value, available |-> reading'[f].available]
           /\ Drawn(f)' = reported'[f]
           /\ reading'[f].available => reading'[f].value \in Legal[f]
<1>0. f \in Field /\ f # "TIME_HEX" /\ f \notin Choice
    BY FieldsAre DEF Numeric, Choice, Fields7
<1>1. PICK r : r = reading[f]
    OBVIOUS
<1>2. /\ DOMAIN r = {"value", "available"} /\ r = [value |-> r.value, available |-> r.available]
      /\ (IF r.available THEN r.value ELSE NA) = reported[f]
      /\ r.available => r.value \in Legal[f]
    BY <1>1 DEF TInv, Told, Drawn
<1>3. CASE reading'[f] = reading[f] /\ reported'[f] = reported[f]
    BY <1>1, <1>2, <1>3 DEF Drawn
<1>4. CASE /\ reading'[f] = Stored(f, line[f]) /\ ~Refuses(f, line[f])
           /\ reported'[f] = IF line[f] \notin {Absent, Bad} THEN line[f] ELSE reported[f]
    <2>1. line[f] # Bad /\ line[f] \in {Absent, Bad, NA} \cup Legal[f]
        BY <1>0, <1>4, LineForms DEF Refuses, Forms
    <2>2. CASE line[f] = Absent
        <3>1. reading'[f] = r /\ reported'[f] = reported[f]
            BY <1>1, <1>4, <2>2, FormsDiffer DEF Stored
        <3>2. QED BY <1>2, <3>1 DEF Drawn
    <2>3. CASE line[f] # Absent /\ line[f] = NA
        <3>1. reading'[f] = [r EXCEPT !.available = FALSE] /\ reported'[f] = NA
            BY <1>0, <1>1, <1>4, <2>1, <2>3, FormsDiffer DEF Stored
        <3>2. reading'[f] = [value |-> r.value, available |-> FALSE]
            BY <1>2, <3>1
        <3>3. QED BY <3>1, <3>2 DEF Drawn
    <2>4. CASE line[f] \notin {Absent, NA}
        <3>1. reading'[f] = [value |-> line[f], available |-> TRUE] /\ reported'[f] = line[f]
              /\ line[f] \in Legal[f]
            BY <1>0, <1>4, <2>1, <2>4 DEF Stored
        <3>2. QED BY <3>1 DEF Drawn
    <2>5. QED BY <2>2, <2>3, <2>4
<1>5. QED BY <1>0, <1>3, <1>4, FieldTold

LEMMA ChoiceTold ==
    ASSUME TInv, NEW line \in Lines, HostTelemetry(line), NEW f \in Choice
    PROVE  reading'[f] = reported'[f]
<1>0. f \in Field /\ f # "TIME_HEX" /\ f \notin Numeric /\ reading[f] = reported[f]
    BY FieldsAre DEF Numeric, Choice, Fields7, TInv, Told
<1>1. CASE /\ reading'[f] = Stored(f, line[f]) /\ ~Refuses(f, line[f])
           /\ reported'[f] = IF line[f] \notin {Absent, Bad} THEN line[f] ELSE reported[f]
    <2>1. line[f] # Bad
        BY <1>0, <1>1 DEF Refuses
    <2>2. Stored(f, line[f]) = IF line[f] = Absent THEN reading[f] ELSE line[f]
        BY <1>0, FormsDiffer DEF Stored
    <2>3. QED BY <1>0, <1>1, <2>1, <2>2
<1>2. QED BY <1>0, <1>1, FieldTold

LEMMA TimeTold ==
    ASSUME TInv, NEW line \in Lines, HostTelemetry(line), reported'["TIME_HEX"] \notin BrokenForms
    PROVE  reading'["TIME_HEX"] = Whole(reported'["TIME_HEX"])
<1>. DEFINE f == "TIME_HEX"
<1>0. f \in Field /\ (reported[f] \notin BrokenForms => reading[f] = Whole(reported[f]))
    BY FieldsAre DEF Fields7, TInv, Told
<1>1. CASE /\ reading'[f] = Stored(f, line[f])
           /\ reported'[f] = IF line[f] \notin {Absent, Bad} THEN line[f] ELSE reported[f]
    <2>1. CASE line[f] \in {Absent, Bad}
        <3>1. Stored(f, line[f]) = reading[f]
            BY <2>1, FormsDiffer DEF Stored, Decoded, Choice, Numeric
        <3>2. QED BY <1>0, <1>1, <2>1, <3>1
    <2>2. CASE line[f] \notin {Absent, Bad}
        <3>1. line[f] \notin BrokenForms /\ reported'[f] = line[f]
            BY <1>1, <2>2
        <3>2. Stored(f, line[f]) = Whole(line[f])
            BY <2>2, <3>1 DEF Stored, Decoded, Choice, Numeric
        <3>3. QED BY <1>1, <3>1, <3>2
    <2>3. QED BY <2>1, <2>2
<1>2. QED BY <1>0, <1>1, FieldTold

LEMMA TelemetryStep == ASSUME TInv, [PanelNext]_panelVars PROVE TInv'
<1>1. ASSUME NEW line \in Lines, HostTelemetry(line) PROVE TInv'
    BY <1>1, NumericTold, ChoiceTold, TimeTold DEF TInv, Told
<1>2. ASSUME UNCHANGED telemetry PROVE TInv'
    BY <1>2 DEF telemetry, TInv, Told, Drawn
<1>3. QED
    BY <1>1, <1>2 DEF PanelNext, panelVars, StartGame, StopGame, TickPanel, Other, ElapsePanel, Report

LEMMA TelemetryInitTold == TelemetryInit => TInv
<1>. SUFFICES ASSUME TelemetryInit PROVE TInv
    OBVIOUS
<1>1. reading = NothingRead /\ reported = NothingReported
    BY DEF TelemetryInit
<1>2. ASSUME NEW f \in Numeric
      PROVE  reading[f] = [value |-> 0, available |-> FALSE] /\ reported[f] = NA
    <2>1. f \in Field /\ f # "POWER" /\ f # "NETWORK" /\ f # "TIME_HEX" /\ f \notin Choice
        BY FieldsAre DEF Numeric, Choice
    <2>2. QED BY <1>1, <2>1 DEF NothingRead, NothingReported
<1>3. ASSUME NEW f \in Choice PROVE reading[f] = reported[f]
    BY <1>1, <1>3, FieldsAre DEF NothingReported, Choice, Numeric
<1>4. reading["TIME_HEX"] = Whole(Empty) /\ reported["TIME_HEX"] = Empty
    BY <1>1, FieldsAre DEF NothingRead, NothingReported, Choice, Numeric
<1>5. QED BY <1>2, <1>3, <1>4 DEF TInv, Told, Drawn

\* What is on the panel is what the host has reported and not withdrawn, field by field,
\* after any lines, those that were refused halfway included.
THEOREM PanelIsTold == PanelSpec => []PanelShowsReports
<1>1. PanelInit => TInv
    BY TelemetryInitTold DEF PanelInit
<1>2. TInv => PanelShowsReports
    <2>. SUFFICES ASSUME TInv PROVE PanelShowsReports
        OBVIOUS
    <2>1. /\ Drawn("BATTERY") = reported["BATTERY"] /\ Drawn("VOLUME") = reported["VOLUME"]
          /\ Drawn("TEMP_MILLIC") = reported["TEMP_MILLIC"]
          /\ Drawn("RUNTIME_MIN") = reported["RUNTIME_MIN"]
          /\ reading["POWER"] = reported["POWER"]
          /\ reported["TIME_HEX"] \notin BrokenForms =>
                 reading["TIME_HEX"] = Whole(reported["TIME_HEX"])
        BY DEF TInv, Told, Numeric, Choice
    <2>2. ASSUME Drawn("RUNTIME_MIN") # NA
          PROVE  Drawn("RUNTIME_MIN") \in Nat
        <3>1. reading["RUNTIME_MIN"].available
              /\ Drawn("RUNTIME_MIN") = reading["RUNTIME_MIN"].value
            BY <2>2 DEF Drawn
        <3>2. reading["RUNTIME_MIN"].value \in Legal["RUNTIME_MIN"]
            BY <3>1 DEF TInv, Told, Numeric
        <3>3. Legal["RUNTIME_MIN"] \subseteq 0..5999
            BY TelemetryAssumption
        <3>4. PICK n : n = reading["RUNTIME_MIN"].value
            OBVIOUS
        <3>5. n \in 0..5999
            BY <3>2, <3>3, <3>4
        <3>6. n \in Nat
            BY <3>5
        <3>7. QED BY <3>1, <3>4, <3>6
    <2>3. /\ Panel.battery = Drawn("BATTERY") /\ Panel.power = IF External THEN "EXT" ELSE "BAT"
          /\ Panel.runtime = DrawnRuntime /\ Panel.volume = DrawnVolume
          /\ Panel.temperature = DrawnTemperature /\ Panel.clock = reading["TIME_HEX"]
        BY DEF Panel
    <2>4. /\ DrawnTemperature = IF reported["TEMP_MILLIC"] = NA THEN NA
                                ELSE reported["TEMP_MILLIC"] \div 1000
          /\ DrawnVolume = IF reported["VOLUME"] = 0 THEN "MUTE" ELSE reported["VOLUME"]
          /\ External <=> reported["POWER"] = "EXTERNAL"
        BY <2>1 DEF DrawnTemperature, DrawnVolume, External
    <2>5. CASE reported["POWER"] = "EXTERNAL"
        <3>1. DrawnRuntime = "POWER"
            BY <2>4, <2>5 DEF DrawnRuntime
        <3>2. QED BY <2>1, <2>3, <2>4, <2>5, <3>1 DEF PanelShowsReports
    <2>6. CASE reported["POWER"] # "EXTERNAL" /\ reported["RUNTIME_MIN"] = NA
        <3>1. DrawnRuntime = NA
            BY <2>1, <2>4, <2>6 DEF DrawnRuntime
        <3>2. QED BY <2>1, <2>3, <2>4, <2>6, <3>1 DEF PanelShowsReports
    <2>7. CASE reported["POWER"] # "EXTERNAL" /\ reported["RUNTIME_MIN"] # NA
        <3>1. PICK m \in Nat : m = reported["RUNTIME_MIN"]
            BY <2>1, <2>2, <2>7
        <3>2. DrawnRuntime = <<m \div 60, m % 60>>
            BY <2>1, <2>4, <2>7, <3>1 DEF DrawnRuntime
        <3>3. DrawnRuntime[1] * 60 + DrawnRuntime[2] = m
            BY <3>2
        <3>4. QED BY <2>1, <2>3, <2>4, <2>7, <3>1, <3>3 DEF PanelShowsReports
    <2>8. QED BY <2>5, <2>6, <2>7
<1>3. QED BY <1>1, <1>2, TelemetryStep, PTL DEF PanelSpec
=============================================================================
