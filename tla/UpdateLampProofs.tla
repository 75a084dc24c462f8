-------------------------- MODULE UpdateLampProofs --------------------------
(***************************************************************************)
(* Proofs about modules UpdateGate and UpdateLamp.                         *)
(*                                                                         *)
(* The lamp does not disturb the gate: every behaviour of the two is one   *)
(* of the gate alone, so what is proved of the gate holds of both.  That a *)
(* token opens the gate once needs no assumption; what is said of times    *)
(* holds as long as the 32-bit clock has not wrapped, that is for the      *)
(* first 49 days of uptime, and not after that (~ClockWraps).              *)
(***************************************************************************)
EXTENDS UpdateLamp, TLAPS

-----------------------------------------------------------------------------
(* The gate.                                                               *)
\* While armed, the deadline and the age of the token tell the same time.
ArmedSince ==
    gate.armed =>
        /\ arms > 0
        /\ TokenTtl <= gate.expiresAt /\ gate.expiresAt <= now + TokenTtl
        /\ age = AtMost((now + TokenTtl) - gate.expiresAt, Oldest)

Gate == [armed : BOOLEAN, token : Token \cup {0}, expiresAt : Nat,
         hasUsedToken : BOOLEAN, lastUsedToken : Token \cup {0}]

\* The gate after ARM, CONFIRM and STATUS, field by field.
LEMMA ArmedGate ==
    ASSUME gate \in Gate, now \in Nat, NEW t \in Token, Arm(t)
    PROVE  /\ gate' \in Gate /\ gate'.armed = TRUE /\ gate'.token = t
           /\ gate'.expiresAt = now + TokenTtl
<1>1. gate' = [gate EXCEPT !.token = t, !.expiresAt = now + TokenTtl, !.armed = TRUE]
    BY DEF Arm
<1>2. PICK g1 : g1 = [gate EXCEPT !.token = t]
    OBVIOUS
<1>3. PICK g2 : g2 = [g1 EXCEPT !.expiresAt = now + TokenTtl]
    OBVIOUS
<1>4. gate' = [g2 EXCEPT !.armed = TRUE]
    BY <1>1, <1>2, <1>3
<1>5. g1 \in Gate /\ g1.token = t
    BY <1>2 DEF Gate
<1>6. g2 \in Gate /\ g2.token = t /\ g2.expiresAt = now + TokenTtl
    BY <1>3, <1>5, GateAssumption DEF Gate
<1>7. QED BY <1>4, <1>6 DEF Gate

LEMMA ConfirmedGate ==
    ASSUME gate \in Gate, NEW t \in Token
    PROVE  /\ Confirmed(t) \in Gate /\ Confirmed(t).armed = FALSE
           /\ Confirmed(t).expiresAt = gate.expiresAt
<1>1. PICK g : g = Confirmed(t)
    OBVIOUS
<1>2. PICK g1 : g1 = [gate EXCEPT !.armed = FALSE]
    OBVIOUS
<1>3. PICK g2 : g2 = [g1 EXCEPT !.hasUsedToken = TRUE]
    OBVIOUS
<1>4. g = [g2 EXCEPT !.lastUsedToken = t]
    BY <1>1, <1>2, <1>3 DEF Confirmed
<1>5. g1 \in Gate /\ g1.armed = FALSE /\ g1.expiresAt = gate.expiresAt
    BY <1>2 DEF Gate
<1>6. g2 \in Gate /\ g2.armed = FALSE /\ g2.expiresAt = gate.expiresAt
    BY <1>3, <1>5 DEF Gate
<1>7. QED BY <1>1, <1>4, <1>6 DEF Gate

LEMMA StatusGate ==
    ASSUME gate \in Gate, Status
    PROVE  /\ gate' \in Gate /\ gate'.armed = (gate.armed /\ ~Expired)
           /\ gate'.expiresAt = gate.expiresAt
BY DEF Status, Gate, Expired

\* What CONFIRM answers, and what it takes to be accepted.
LEMMA ConfirmCases ==
    ASSUME gate \in Gate, NEW t \in Token
    PROVE  /\ ConfirmResult(t) \in {"OK", "NOT_ARMED", "EXPIRED", "MISMATCH", "USED"}
           /\ ConfirmResult(t) = "OK" => gate.armed /\ ~Expired /\ t = gate.token
           /\ ConfirmResult(t) = "EXPIRED" => gate.armed /\ Expired
BY DEF ConfirmResult, Gate

\* What any step of the gate does to the gate, its clock and its history.
LEMMA PassDoes ==
    ASSUME TypeOK, NEW d \in 1..MaxStep, Pass(d)
    PROVE  /\ now' \in 0..(ClockPeriod - 1) /\ (~ClockWraps => now' = now + d)
           /\ rebootIn' \in 0..RebootDelay /\ age' \in 0..Oldest
           /\ age' = AtMost(age + d, Oldest)
           /\ rebootIn' = IF d <= rebootIn THEN rebootIn - d ELSE 0
<1>1. /\ now \in Nat /\ now < ClockPeriod /\ rebootIn \in 0..RebootDelay
      /\ age \in 0..Oldest /\ d \in Nat /\ ClockPeriod \in Nat \ {0}
      /\ Oldest \in Nat /\ RebootDelay \in Nat
    BY GateAssumption DEF TypeOK, Oldest
<1>2. now' = (now + d) % ClockPeriod /\ (ClockWraps \/ now + d < ClockPeriod)
    BY DEF Pass
<1>3. PICK n \in Nat : n = now + d
    BY <1>1
<1>4. n % ClockPeriod \in 0..(ClockPeriod - 1) /\ (n < ClockPeriod => n % ClockPeriod = n)
    BY <1>1
<1>5. now' \in 0..(ClockPeriod - 1) /\ (~ClockWraps => now' = now + d)
    BY <1>2, <1>3, <1>4
<1>6. rebootIn' \in 0..RebootDelay /\ age' \in 0..Oldest
    BY <1>1 DEF Pass, AtMost
<1>7. QED BY <1>5, <1>6 DEF Pass

LEMMA TypeStep == TypeOK /\ [Next]_vars => TypeOK'
<1>. SUFFICES ASSUME TypeOK, [Next]_vars PROVE TypeOK'
    OBVIOUS
<1>0. /\ gate \in Gate /\ now \in Nat /\ NoToken \in Gate /\ 0 \in 0..Oldest
      /\ RebootDelay \in 0..RebootDelay /\ 0 \in 0..RebootDelay
      /\ 0 \in 0..(ClockPeriod - 1)
    BY GateAssumption DEF TypeOK, Gate, NoToken, Oldest
<1>1. ASSUME NEW t \in Token, Arm(t) PROVE TypeOK'
    <2>1. gate' \in Gate
        BY <1>0, <1>1, ArmedGate
    <2>2. answer' \in Response
        BY <1>1 DEF Arm, Reply, Response
    <2>3. QED BY <1>0, <1>1, <2>1, <2>2 DEF Arm, TypeOK, Gate, reboot
<1>2. ASSUME NEW t \in Token, Confirm(t) PROVE TypeOK'
    <2>1. answer' \in Response
        BY <1>0, <1>2, ConfirmCases DEF Confirm, Reply, Response
    <2>2. gate' \in Gate
        <3>1. [gate EXCEPT !.armed = FALSE] \in Gate
            BY <1>0 DEF Gate
        <3>2. QED BY <1>0, <1>2, <3>1, ConfirmedGate DEF Confirm
    <2>3. rebootPending' \in BOOLEAN /\ rebootIn' \in 0..RebootDelay /\ resets' \in Nat
        <3>1. \/ rebootPending' = TRUE /\ rebootIn' = RebootDelay /\ resets' = resets + 1
              \/ UNCHANGED <<rebootPending, rebootIn, resets>>
            BY <1>2 DEF Confirm, reboot
        <3>2. rebootPending \in BOOLEAN /\ rebootIn \in 0..RebootDelay /\ resets \in Nat
            BY DEF TypeOK
        <3>3. rebootPending' \in BOOLEAN
            BY <3>1, <3>2
        <3>4. QED BY <1>0, <3>1, <3>2, <3>3
    <2>4. QED BY <1>2, <2>1, <2>2, <2>3 DEF Confirm, TypeOK, Gate
<1>3. ASSUME Status PROVE TypeOK'
    <2>1. gate' \in Gate
        BY <1>0, <1>3, StatusGate
    <2>2. answer' \in Response
        BY <1>3 DEF Status, Reply, Response
    <2>3. QED BY <1>3, <2>1, <2>2 DEF Status, TypeOK, Gate, reboot
<1>4. ASSUME NEW d \in 1..MaxStep, Pass(d) PROVE TypeOK'
    <2>1. now' \in 0..(ClockPeriod - 1) /\ rebootIn' \in 0..RebootDelay /\ age' \in 0..Oldest
        BY <1>4, PassDoes
    <2>2. QED BY <1>4, <2>1 DEF Pass, TypeOK
<1>5. ASSUME Reset PROVE TypeOK'
    BY <1>5 DEF Reset, TypeOK, reboot
<1>6. ASSUME PowerOn PROVE TypeOK'
    BY <1>0, <1>6 DEF PowerOn, TypeOK, Gate, NoAnswer, Response
<1>7. CASE UNCHANGED vars
    BY <1>7 DEF vars, reboot, TypeOK
<1>8. QED BY <1>1, <1>2, <1>3, <1>4, <1>5, <1>6, <1>7 DEF Next

LEMMA TypeInit == Init => TypeOK
<1>1. NoToken \in Gate /\ NoAnswer \in Response
    BY DEF NoToken, Gate, NoAnswer, Response
<1>2. 0 \in 0..Oldest /\ 0 \in 0..RebootDelay /\ 0 \in 0..(ClockPeriod - 1)
    BY GateAssumption DEF Oldest
<1>3. ASSUME Init PROVE TypeOK
    <2>1. gate \in Gate /\ answer \in Response /\ rebootPending \in BOOLEAN
        BY <1>1, <1>3 DEF Init
    <2>2. /\ mode \in {"firmware", "bootloader"} /\ rebootIn \in 0..RebootDelay
          /\ now \in 0..(ClockPeriod - 1) /\ arms \in Nat /\ resets \in Nat
          /\ age \in 0..Oldest
        BY <1>2, <1>3 DEF Init
    <2>3. QED BY <2>1, <2>2 DEF TypeOK, Gate
<1>4. QED BY <1>3

\* The gate's state has its type in every reachable state, wrapped clock or not.
THEOREM TypeCorrect == Spec => []TypeOK
BY TypeInit, TypeStep, PTL DEF Spec

LEMMA OneResetStep == TypeOK /\ OneResetPerArm /\ [Next]_vars => OneResetPerArm'
<1>. SUFFICES ASSUME TypeOK, OneResetPerArm, [Next]_vars PROVE OneResetPerArm'
    OBVIOUS
<1>. DEFINE open == IF gate.armed THEN 1 ELSE 0
            openN == IF gate'.armed THEN 1 ELSE 0
<1>0. /\ gate \in Gate /\ now \in Nat /\ arms \in Nat /\ resets \in Nat
      /\ resets + open <= arms /\ open \in {0, 1} /\ openN \in {0, 1}
    BY DEF TypeOK, Gate, OneResetPerArm
<1>1. SUFFICES resets' + openN <= arms'
    BY DEF OneResetPerArm
<1>2. ASSUME NEW t \in Token, Arm(t) PROVE resets' + openN <= arms'
    <2>1. arms' = arms + 1 /\ resets' = resets
        BY <1>2 DEF Arm
    <2>. HIDE DEF open, openN
    <2>2. QED BY <1>0, <2>1
<1>3. ASSUME NEW t \in Token, Confirm(t) PROVE resets' + openN <= arms'
    <2>1. arms' = arms
        BY <1>3 DEF Confirm
    <2>2. CASE ConfirmResult(t) = "OK"
        <3>1. gate.armed /\ gate' = Confirmed(t) /\ resets' = resets + 1
            BY <1>0, <1>3, <2>2, ConfirmCases DEF Confirm
        <3>2. open = 1 /\ openN = 0
            BY <1>0, <3>1, ConfirmedGate
        <3>. HIDE DEF open, openN
        <3>3. QED BY <1>0, <2>1, <3>1, <3>2
    <2>3. CASE ConfirmResult(t) # "OK"
        <3>1. resets' = resets /\ (gate' = gate \/ gate' = [gate EXCEPT !.armed = FALSE])
            BY <1>3, <2>3 DEF Confirm
        <3>2. openN <= open
            BY <1>0, <3>1 DEF Gate
        <3>. HIDE DEF open, openN
        <3>3. QED BY <1>0, <2>1, <3>1, <3>2
    <2>4. QED BY <2>2, <2>3
<1>4. ASSUME Status PROVE resets' + openN <= arms'
    <2>1. gate'.armed = (gate.armed /\ ~Expired) /\ arms' = arms /\ resets' = resets
        BY <1>0, <1>4, StatusGate DEF Status
    <2>2. openN <= open
        <3>1. CASE gate'.armed
            <4>1. gate.armed
                BY <2>1, <3>1
            <4>2. QED BY <3>1, <4>1
        <3>2. CASE ~gate'.armed
            BY <1>0, <3>2
        <3>3. QED BY <3>1, <3>2
    <2>. HIDE DEF open, openN
    <2>3. QED BY <1>0, <2>1, <2>2
<1>5. ASSUME (\E d \in 1..MaxStep : Pass(d)) \/ Reset \/ UNCHANGED vars
      PROVE  resets' + openN <= arms'
    <2>1. UNCHANGED <<gate, arms, resets>>
        BY <1>5 DEF Pass, Reset, vars
    <2>2. QED BY <1>0, <2>1
<1>6. ASSUME PowerOn PROVE resets' + openN <= arms'
    BY <1>6 DEF PowerOn, NoToken
<1>7. QED BY <1>2, <1>3, <1>4, <1>5, <1>6 DEF Next

LEMMA OneResetInit == Init => OneResetPerArm
BY DEF Init, OneResetPerArm, NoToken

\* A token opens the gate once, whatever the order of ARM, CONFIRM and STATUS and even
\* when the clock wraps: no more tokens are accepted than were handed out.
THEOREM TokenOpensOnce == Spec => []OneResetPerArm
BY TypeInit, TypeStep, OneResetInit, OneResetStep, PTL DEF Spec

LEMMA ArmedSinceStep ==
    ASSUME ~ClockWraps, TypeOK, ArmedSince, [Next]_vars
    PROVE  ArmedSince'
<1>0. /\ gate \in Gate /\ now \in Nat /\ arms \in Nat /\ gate.expiresAt \in Nat
      /\ TokenTtl \in Nat \ {0} /\ MaxStep \in Nat \ {0} /\ Oldest = TokenTtl + MaxStep
    BY GateAssumption DEF TypeOK, Gate, Oldest
<1>1. ASSUME NEW t \in Token, Arm(t) PROVE ArmedSince'
    <2>1. /\ gate'.expiresAt = now + TokenTtl
          /\ arms' = arms + 1 /\ age' = 0 /\ now' = now
        BY <1>0, <1>1, ArmedGate DEF Arm
    <2>2. (now' + TokenTtl) - gate'.expiresAt = 0
        BY <1>0, <2>1
    <2>3. AtMost((now' + TokenTtl) - gate'.expiresAt, Oldest) = 0
        BY <1>0, <2>2 DEF AtMost
    <2>4. QED BY <1>0, <2>1, <2>3 DEF ArmedSince
<1>2. ASSUME UNCHANGED <<now, arms, age>>, gate'.expiresAt = gate.expiresAt,
             gate'.armed => gate.armed
      PROVE  ArmedSince'
    BY <1>2 DEF ArmedSince
<1>3. ASSUME NEW t \in Token, Confirm(t) PROVE ArmedSince'
    <2>1. gate' = gate \/ gate' = Confirmed(t) \/ gate' = [gate EXCEPT !.armed = FALSE]
        BY <1>3 DEF Confirm
    <2>2. gate'.expiresAt = gate.expiresAt /\ (gate'.armed => gate.armed)
        BY <1>0, <2>1, ConfirmedGate DEF Gate
    <2>3. QED BY <1>2, <1>3, <2>2 DEF Confirm
<1>4. ASSUME Status PROVE ArmedSince'
    BY <1>0, <1>2, <1>4, StatusGate DEF Status
<1>5. ASSUME NEW d \in 1..MaxStep, Pass(d) PROVE ArmedSince'
    <2>1. /\ now' = now + d /\ age' = AtMost(age + d, Oldest)
          /\ UNCHANGED <<gate, arms>> /\ d \in Nat
        BY <1>0, <1>5, PassDoes DEF Pass
    <2>2. CASE gate.armed
        <3>1. /\ arms > 0 /\ TokenTtl <= gate.expiresAt /\ gate.expiresAt <= now + TokenTtl
              /\ age = AtMost((now + TokenTtl) - gate.expiresAt, Oldest)
            BY <2>2 DEF ArmedSince
        <3>2. age' = AtMost((now' + TokenTtl) - gate.expiresAt, Oldest)
            BY <1>0, <2>1, <3>1 DEF AtMost
        <3>3. QED BY <1>0, <2>1, <3>1, <3>2 DEF ArmedSince
    <2>3. CASE ~gate.armed
        BY <2>1, <2>3 DEF ArmedSince
    <2>4. QED BY <2>2, <2>3
<1>6. ASSUME Reset \/ UNCHANGED vars PROVE ArmedSince'
    BY <1>6 DEF Reset, vars, ArmedSince
<1>7. ASSUME PowerOn PROVE ArmedSince'
    BY <1>7 DEF PowerOn, NoToken, ArmedSince
<1>8. QED BY <1>1, <1>3, <1>4, <1>5, <1>6, <1>7 DEF Next

LEMMA ArmedSinceInit == Init => ArmedSince
BY DEF Init, ArmedSince, NoToken

\* The deadline of an armed gate is past exactly when its token is TokenTtl old.
LEMMA ExpiredIsOld ==
    ASSUME TypeOK, ArmedSince, gate.armed
    PROVE  Expired <=> age >= TokenTtl
<1>1. /\ now \in Nat /\ gate.expiresAt \in Nat
      /\ TokenTtl \in Nat \ {0} /\ MaxStep \in Nat \ {0} /\ Oldest = TokenTtl + MaxStep
    BY GateAssumption DEF TypeOK, Oldest
<1>2. /\ gate.expiresAt <= now + TokenTtl
      /\ age = AtMost((now + TokenTtl) - gate.expiresAt, Oldest)
    BY DEF ArmedSince
<1>3. QED BY <1>1, <1>2 DEF Expired, AtMost

\* A token is accepted only if it is the one the last ARM handed out, less than TokenTtl
\* ago, for every time to live and every clock that has not wrapped.
THEOREM AcceptedIsFresh ==
    ASSUME ~ClockWraps
    PROVE  Spec => ResetNeedsFreshToken
<1>1. TypeOK /\ ArmedSince /\ [Next]_vars => ArmedSince'
    BY ArmedSinceStep
<1>2. ASSUME TypeOK, ArmedSince, [Next]_vars, resets' = resets + 1
      PROVE  answer'.token = gate.token /\ arms > 0 /\ age < TokenTtl
    <2>1. /\ resets \in Nat /\ gate \in Gate /\ age \in Nat /\ TokenTtl \in Nat
        BY <1>2, GateAssumption DEF TypeOK, Gate, Oldest
    <2>2. resets' # resets /\ resets' # 0
        BY <1>2, <2>1
    <2>3. ~PowerOn /\ ~Status /\ ~Reset /\ ~UNCHANGED vars
          /\ (\A t \in Token : ~Arm(t)) /\ (\A d \in 1..MaxStep : ~Pass(d))
        BY <2>2 DEF PowerOn, Status, Reset, vars, Arm, Pass
    <2>4. PICK t \in Token : Confirm(t)
        BY <1>2, <2>3 DEF Next
    <2>5. ConfirmResult(t) = "OK"
        BY <2>2, <2>4 DEF Confirm
    <2>6. gate.armed /\ ~Expired /\ t = gate.token
        BY <2>1, <2>5, ConfirmCases
    <2>7. answer'.token = t
        BY <2>4 DEF Confirm, Reply
    <2>8. arms > 0 /\ age < TokenTtl
        BY <1>2, <2>1, <2>6, ExpiredIsOld DEF ArmedSince
    <2>9. QED BY <2>6, <2>7, <2>8
<1>3. TypeOK /\ ArmedSince /\ [Next]_vars =>
         [resets' = resets + 1 => /\ answer'.token = gate.token
                                  /\ arms > 0 /\ age < TokenTtl]_vars
    BY <1>2
<1>4. QED
    BY <1>1, <1>3, TypeInit, TypeStep, ArmedSinceInit, PTL DEF Spec, ResetNeedsFreshToken
-----------------------------------------------------------------------------
(* The lamp beside the gate.                                               *)
LEMMA LampStepIsGateStep == [LampNext]_lampVars => [Next]_vars
<1>. SUFFICES ASSUME [LampNext]_lampVars PROVE [Next]_vars
    OBVIOUS
<1>1. CASE UNCHANGED lampVars
    BY <1>1 DEF lampVars
<1>2. CASE LampNext
    BY <1>2 DEF LampNext, ArmShown, ConfirmShown, Led, LedFlash, LedOff, Wait, StatusShown,
                ResetShown, Tasks, PowerOnShown, Next
<1>3. QED BY <1>1, <1>2

\* Whatever the lamp is asked to show, the gate behaves as it does without it: every
\* behaviour of gate and lamp is one of the gate.
THEOREM LampKeepsGate == LampSpec => Spec
BY LampStepIsGateStep, PTL DEF LampSpec, LampInit, Spec

LEMMA Times ==
    /\ TokenTtl \in 1..LongestFlash /\ PurpleTime \in 1..LongestFlash
    /\ FlashTime \subseteq 1..LongestFlash /\ LongestFlash \in Nat
    /\ MaxStep \in Nat \ {0} /\ Longest = LongestFlash + MaxStep
    /\ Oldest = TokenTtl + MaxStep /\ RebootDelay \in Nat \ {0}
    /\ RebootDelay + MaxStep <= PurpleTime /\ RebootDelay + MaxStep <= TokenTtl
BY GateAssumption, LampAssumption DEF Longest, Oldest

-----------------------------------------------------------------------------
(* The flash keeps its time.                                               *)
LampTypes ==
    /\ base \in Colour /\ output \in Colour \cup {Amber, Purple}
    /\ flash \in [active : BOOLEAN, left : Nat]
    /\ tasksDue \in BOOLEAN /\ taken \in BOOLEAN
    /\ lit \in Nat /\ length \in 0..LongestFlash

\* A flash has the rest of its time left, or is over and led_task is about to end it.
FlashTimed ==
    flash.active =>
        /\ flash.left > 0 => lit + flash.left = length
        /\ flash.left = 0 => /\ length <= lit /\ lit < length + MaxStep
                             /\ mode = "firmware" => tasksDue

\* Without a flash the lamp shows its base colour.
BaseShown == ~flash.active => output = base

LampTimed == LampTypes /\ FlashTimed /\ BaseShown

\* A flash that starts is timed.
LEMMA StartFlashTimed ==
    ASSUME LampTimed, NEW colour \in Colour \cup {Amber, Purple},
           NEW ms \in 1..LongestFlash, NEW spent \in 0..(ms - 1), StartFlash(colour, ms, spent),
           tasksDue' \in BOOLEAN, taken' \in BOOLEAN
    PROVE  LampTimed'
<1>1. /\ flash' = [active |-> TRUE, left |-> ms - spent] /\ output' = colour /\ base' = base
      /\ lit' = spent /\ length' = ms /\ ms \in Nat /\ spent \in Nat /\ ms - spent > 0
      /\ ms - spent \in Nat
    BY Times DEF StartFlash
<1>2. LampTypes'
    BY <1>1 DEF LampTimed, LampTypes
<1>3. FlashTimed'
    BY <1>1 DEF FlashTimed
<1>4. BaseShown'
    BY <1>1 DEF BaseShown
<1>5. QED BY <1>2, <1>3, <1>4 DEF LampTimed

\* The passing of time, and the led_task that follows it.
LEMMA WaitTimed ==
    ASSUME LampTimed, TypeOK, NEW d \in 1..MaxStep, Wait(d)
    PROVE  LampTimed' /\ (flash.active => lit' = lit + d)
<1>0. /\ flash \in [active : BOOLEAN, left : Nat] /\ lit \in Nat /\ length \in Nat
      /\ d \in Nat /\ length <= LongestFlash /\ LongestFlash \in Nat
      /\ MaxStep \in Nat \ {0} /\ Longest = LongestFlash + MaxStep /\ d <= MaxStep
    BY Times DEF LampTimed, LampTypes
<1>1. /\ flash' = [flash EXCEPT !.left = IF d <= @ THEN @ - d ELSE 0]
      /\ lit' = AtMost(lit + d, Longest) /\ tasksDue = FALSE /\ tasksDue' = TRUE
      /\ UNCHANGED <<base, output, length, taken>> /\ mode = "firmware"
    BY DEF Wait, Pass, LampTimed, LampTypes
<1>2. /\ flash'.active = flash.active
      /\ flash'.left = IF d <= flash.left THEN flash.left - d ELSE 0
      /\ flash' \in [active : BOOLEAN, left : Nat] /\ flash.left \in Nat
    BY <1>0, <1>1
<1>3. CASE flash.active
    <2>1. flash.left # 0
        BY <1>1, <1>3 DEF LampTimed, FlashTimed
    <2>2. lit + flash.left = length
        BY <1>2, <1>3, <2>1 DEF LampTimed, FlashTimed
    <2>3. lit' = lit + d
        BY <1>0, <1>1, <1>2, <2>1, <2>2 DEF AtMost
    <2>4. /\ flash'.left > 0 => lit' + flash'.left = length
          /\ flash'.left = 0 => length <= lit' /\ lit' < length + MaxStep
        BY <1>0, <1>2, <2>1, <2>2, <2>3
    <2>5. FlashTimed'
        BY <1>1, <2>4 DEF FlashTimed
    <2>6. LampTypes'
        BY <1>0, <1>1, <1>2, <2>3 DEF LampTimed, LampTypes
    <2>7. BaseShown'
        BY <1>2, <1>3 DEF BaseShown
    <2>8. QED BY <2>3, <2>5, <2>6, <2>7 DEF LampTimed
<1>4. CASE ~flash.active
    <2>1. lit' \in Nat
        BY <1>0, <1>1 DEF AtMost
    <2>2. LampTypes'
        BY <1>0, <1>1, <1>2, <2>1 DEF LampTimed, LampTypes
    <2>3. BaseShown'
        BY <1>1, <1>4 DEF LampTimed, BaseShown
    <2>4. FlashTimed'
        BY <1>2, <1>4 DEF FlashTimed
    <2>5. QED BY <1>4, <2>2, <2>3, <2>4 DEF LampTimed
<1>5. QED BY <1>3, <1>4

LEMMA TasksTimed ==
    ASSUME LampTimed, Tasks
    PROVE  LampTimed'
<1>1. UNCHANGED <<mode, base, lit, length, taken>> /\ tasksDue' = FALSE
    BY DEF Tasks, vars
<1>2. CASE flash.active /\ flash.left = 0
    <2>1. flash' = NoFlash /\ output' = base
        BY <1>2 DEF Tasks, LedTask
    <2>2. QED
        BY <1>1, <2>1 DEF LampTimed, LampTypes, FlashTimed, BaseShown, NoFlash
<1>3. CASE ~(flash.active /\ flash.left = 0)
    <2>1. flash' = flash /\ output' = output
        BY <1>3 DEF Tasks, LedTask
    <2>2. LampTypes' /\ BaseShown'
        BY <1>1, <2>1 DEF LampTimed, LampTypes, BaseShown
    <2>3. FlashTimed'
        BY <1>1, <1>3, <2>1 DEF LampTimed, FlashTimed
    <2>4. QED BY <2>2, <2>3 DEF LampTimed
<1>4. QED BY <1>2, <1>3

LEMMA LampTimedStep ==
    ASSUME TypeOK, LampTimed, [LampNext]_lampVars
    PROVE  LampTimed'
<1>0. tasksDue \in BOOLEAN /\ taken \in BOOLEAN
    BY DEF LampTimed, LampTypes
<1>1. ASSUME NEW t \in Token, ArmShown(t) PROVE LampTimed'
    <2>1. TokenTtl \in 1..LongestFlash /\ 0 \in 0..(TokenTtl - 1)
        BY Times
    <2>2. QED BY <1>0, <1>1, <2>1, StartFlashTimed DEF ArmShown
<1>2. ASSUME UNCHANGED <<base, output, flash, lit, length, taken, tasksDue>>,
             UNCHANGED mode \/ mode' # "firmware"
      PROVE  LampTimed'
    BY <1>2 DEF LampTimed, LampTypes, FlashTimed, BaseShown
<1>3. ASSUME NEW t \in Token, ConfirmShown(t) PROVE LampTimed'
    <2>1. CASE ConfirmResult(t) = "OK"
        <3>1. PICK spent \in 0..MaxStep : StartFlash(Purple, PurpleTime, spent)
            BY <1>3, <2>1 DEF ConfirmShown
        <3>2. spent \in 0..(PurpleTime - 1) /\ PurpleTime \in 1..LongestFlash
            BY Times
        <3>3. tasksDue' \in BOOLEAN /\ taken' \in BOOLEAN
            BY <1>3, <2>1 DEF ConfirmShown
        <3>4. QED BY <3>1, <3>2, <3>3, StartFlashTimed
    <2>2. CASE ConfirmResult(t) # "OK"
        BY <1>2, <1>3, <2>2 DEF ConfirmShown, Confirm, lamp
    <2>3. QED BY <2>1, <2>2
<1>4. ASSUME NEW colour \in Colour, Led(colour) PROVE LampTimed'
    <2>1. /\ base' = colour /\ output' = (IF flash.active THEN output ELSE colour)
          /\ UNCHANGED <<mode, flash, lit, length, taken, tasksDue>>
        BY <1>4 DEF Led, SetBase, vars
    <2>2. LampTypes'
        BY <2>1 DEF LampTimed, LampTypes
    <2>3. QED BY <2>1, <2>2 DEF LampTimed, FlashTimed, BaseShown
<1>5. ASSUME NEW colour \in Colour, NEW ms \in FlashTime, LedFlash(colour, ms)
      PROVE  LampTimed'
    <2>1. ms \in 1..LongestFlash /\ 0 \in 0..(ms - 1)
        BY Times
    <2>2. QED BY <1>0, <1>5, <2>1, StartFlashTimed DEF LedFlash
<1>6. ASSUME LedOff \/ PowerOnShown PROVE LampTimed'
    <2>1. /\ base' = Off /\ output' = Off /\ flash' = NoFlash /\ lit' \in Nat
          /\ tasksDue' \in BOOLEAN /\ taken' \in BOOLEAN /\ length' \in 0..LongestFlash
        <3>1. lit \in Nat /\ length \in 0..LongestFlash /\ 0 \in 0..LongestFlash
            BY Times DEF LampTimed, LampTypes
        <3>2. CASE LedOff
            BY <1>0, <3>1, <3>2 DEF LedOff
        <3>3. CASE PowerOnShown
            BY <3>1, <3>3 DEF PowerOnShown
        <3>4. QED BY <1>6, <3>2, <3>3
    <2>2. QED
        BY <2>1, LampAssumption DEF LampTimed, LampTypes, FlashTimed, BaseShown, NoFlash
<1>7. ASSUME StatusShown PROVE LampTimed'
    BY <1>2, <1>7 DEF StatusShown, Status, lamp
<1>8. ASSUME ResetShown PROVE LampTimed'
    <2>1. /\ UNCHANGED <<base, output, flash, lit, length, taken>> /\ tasksDue' = FALSE
          /\ mode' = "bootloader"
        BY <1>8 DEF ResetShown, Reset, lamp
    <2>2. QED BY <2>1 DEF LampTimed, LampTypes, FlashTimed, BaseShown
<1>9. CASE UNCHANGED lampVars
    BY <1>2, <1>9 DEF lampVars, lamp, vars
<1>10. QED
    BY <1>1, <1>3, <1>4, <1>5, <1>6, <1>7, <1>8, <1>9, WaitTimed, TasksTimed DEF LampNext

LEMMA LampTimedInit == LampInit => LampTimed
<1>. SUFFICES ASSUME LampInit PROVE LampTimed
    OBVIOUS
<1>1. /\ base = Off /\ output = Off /\ flash = NoFlash /\ Off \in Colour
      /\ tasksDue = FALSE /\ lit = 0 /\ length = 0 /\ taken = FALSE /\ 0 \in 0..LongestFlash
    BY Times, LampAssumption DEF LampInit
<1>2. LampTypes
    BY <1>1 DEF LampTypes, NoFlash
<1>3. QED BY <1>1, <1>2 DEF LampTimed, FlashTimed, BaseShown, NoFlash

\* A flash of any length and origin ends within a pass of the main loop after its time,
\* gives way to the base colour asked for last, and only LED OFF, another flash or a
\* restart cuts it short.
THEOREM FlashIsTimed == LampSpec => FlashKeepsTime
<1>1. LampTimed => /\ flash.active => lit < length + MaxStep
                   /\ ~flash.active => output = base
    <2>1. LampTimed /\ flash.active => lit < length + MaxStep
        BY Times DEF LampTimed, LampTypes, FlashTimed
    <2>2. QED BY <2>1 DEF LampTimed, BaseShown
<1>2. ASSUME LampTimed, LampNext, flash.active, ~flash'.active
      PROVE  lit >= length \/ LedOff \/ mode' # mode
    <2>1. CASE Tasks
        <3>1. flash.left = 0
            BY <1>2, <2>1 DEF Tasks, LedTask
        <3>2. QED BY <1>2, <3>1 DEF LampTimed, LampTypes, FlashTimed
    <2>2. CASE PowerOnShown
        BY <2>2 DEF PowerOnShown, PowerOn
    <2>3. ASSUME NEW d \in 1..MaxStep, Wait(d) PROVE FALSE
        BY <1>2, <2>3 DEF Wait, LampTimed, LampTypes
    <2>4. ASSUME NEW colour, NEW ms, NEW spent, StartFlash(colour, ms, spent) PROVE FALSE
        BY <1>2, <2>4 DEF StartFlash
    <2>5. QED
        BY <1>2, <2>1, <2>2, <2>3, <2>4 DEF LampNext, ArmShown, ConfirmShown, Led, LedFlash,
           StatusShown, ResetShown, lamp
<1>3. LampTimed /\ [LampNext]_lampVars =>
         [flash.active /\ ~flash'.active => lit >= length \/ LedOff \/ mode' # mode]_lampVars
    BY <1>2
<1>4. TypeOK /\ LampTimed /\ [LampNext]_lampVars => LampTimed'
    BY LampTimedStep
<1>5. LampSpec => []TypeOK
    BY TypeCorrect, LampKeepsGate, PTL
<1>6. QED
    BY <1>1, <1>3, <1>4, <1>5, LampTimedInit, PTL DEF LampSpec, FlashKeepsTime
-----------------------------------------------------------------------------
(* The lamp tells the gate.                                                *)
\* Amber is the flash of the last ARM, and runs with its token.
AmberIsArm ==
    output = Amber => flash.active /\ length = TokenTtl /\ arms > 0 /\ age = lit

\* A reset to be made "delay" ms after something that was "since" ms ago, with "left" ms to
\* go, is not overdue: it is at most waiting for its pass of the main loop.
Soon(delay, since, left, due) ==
    IF left > 0 THEN since + left <= delay
                ELSE due /\ since < delay + MaxStep

\* The reset is scheduled when the answer has been written, the flash began before that.
FromFlash == RebootDelay + MaxStep

\* A gate that was armed again while a reset is due is younger than that reset.
ResetOnTime ==
    mode = "firmware" /\ rebootPending =>
        /\ Soon(RebootDelay, 0, rebootIn, tasksDue)
        /\ gate.armed => Soon(RebootDelay, age, rebootIn, tasksDue)

AmberWhileArmed ==
    mode = "firmware" /\ ~taken /\ gate.armed /\ ~Expired => output = Amber

PurpleUntilReset ==
    mode = "firmware" /\ ~taken /\ rebootPending /\ ~gate.armed =>
        /\ output = Purple /\ flash.active /\ length = PurpleTime
        /\ Soon(FromFlash, lit, rebootIn, tasksDue)

Signals == AmberIsArm /\ ResetOnTime /\ AmberWhileArmed /\ PurpleUntilReset

Known == TypeOK /\ ArmedSince /\ LampTimed

LEMMA SoonAfterWait ==
    ASSUME NEW delay \in Nat, NEW since \in Nat, NEW left \in Nat, Soon(delay, since, left, FALSE),
           NEW d \in 1..MaxStep, NEW later \in Nat, later <= since + d,
           NEW leftN, leftN = IF d <= left THEN left - d ELSE 0
    PROVE  Soon(delay, later, leftN, TRUE)
<1>1. MaxStep \in Nat /\ d \in Nat /\ d <= MaxStep /\ d > 0
    BY Times
<1>2. left > 0 /\ since + left <= delay
    BY DEF Soon
<1>3. QED BY <1>1, <1>2 DEF Soon

\* A gate with a reset due is not expired, and so not disarmed but by another CONFIRM.
LEMMA ArmedNotExpired ==
    ASSUME Known, Signals, mode = "firmware", rebootPending, gate.armed
    PROVE  ~Expired
<1>1. age \in Nat /\ rebootIn \in Nat
    BY Times DEF Known, TypeOK
<1>2. Soon(RebootDelay, age, rebootIn, tasksDue)
    BY DEF Signals, ResetOnTime
<1>3. age < TokenTtl
    BY <1>1, <1>2, Times DEF Soon
<1>4. QED BY <1>1, <1>3, ExpiredIsOld, Times DEF Known

LEMMA ArmSignals ==
    ASSUME Known, Signals, NEW t \in Token, ArmShown(t)
    PROVE  Signals'
<1>1. /\ flash'.active /\ output' = Amber /\ lit' = 0
      /\ length' = TokenTtl /\ taken' = FALSE /\ tasksDue' = tasksDue
      /\ arms' = arms + 1 /\ age' = 0 /\ mode' = mode
      /\ UNCHANGED <<rebootPending, rebootIn>>
    BY DEF ArmShown, Arm, StartFlash, reboot
<1>2. gate'.armed = TRUE /\ arms \in Nat
    <2>1. gate \in Gate /\ now \in Nat /\ arms \in Nat
        BY Times DEF Known, TypeOK, Gate
    <2>2. QED BY <2>1, ArmedGate DEF ArmShown
<1>3. AmberIsArm' /\ AmberWhileArmed'
    BY <1>1, <1>2 DEF AmberIsArm, AmberWhileArmed
<1>4. ResetOnTime'
    BY <1>1 DEF Signals, ResetOnTime
<1>5. PurpleUntilReset'
    BY <1>2 DEF PurpleUntilReset
<1>6. QED BY <1>3, <1>4, <1>5 DEF Signals

LEMMA ConfirmSignals ==
    ASSUME Known, Signals, NEW t \in Token, ConfirmShown(t)
    PROVE  Signals'
<1>0. gate \in Gate /\ Confirm(t) /\ mode = "firmware"
    BY DEF Known, TypeOK, Gate, ConfirmShown, Confirm
<1>1. UNCHANGED <<mode, now, arms, age>>
    BY DEF ConfirmShown, Confirm
<1>2. CASE ConfirmResult(t) = "OK"
    <2>0. PICK spent \in 0..MaxStep : StartFlash(Purple, PurpleTime, spent)
        BY <1>2 DEF ConfirmShown
    <2>1. /\ output' = Purple /\ flash'.active /\ lit' \in 0..MaxStep
          /\ length' = PurpleTime /\ taken' = FALSE
        BY <1>2, <2>0 DEF ConfirmShown, StartFlash
    <2>2. rebootIn' = RebootDelay /\ ~gate'.armed
        BY <1>0, <1>2, ConfirmedGate DEF Confirm
    <2>3. Soon(RebootDelay, 0, rebootIn', tasksDue') /\ Soon(FromFlash, lit', rebootIn', tasksDue')
        <3>0. RebootDelay \in Nat /\ RebootDelay > 0 /\ MaxStep \in Nat
            BY Times
        <3>1. PICK written \in Nat : lit' = written /\ written <= MaxStep
            BY <2>1, <3>0
        <3>2. rebootIn' > 0 /\ 0 + rebootIn' <= RebootDelay /\ lit' + rebootIn' <= FromFlash
            <4>1. rebootIn' = RebootDelay /\ FromFlash = RebootDelay + MaxStep
                BY <2>2 DEF FromFlash
            <4>2. rebootIn' > 0 /\ 0 + rebootIn' <= RebootDelay
                BY <3>0, <4>1
            <4>3. lit' + rebootIn' <= FromFlash
                BY <3>0, <3>1, <4>1
            <4>4. QED BY <4>2, <4>3
        <3>3. Soon(RebootDelay, 0, rebootIn', tasksDue')
            BY <3>2 DEF Soon
        <3>4. Soon(FromFlash, lit', rebootIn', tasksDue')
            BY <3>2 DEF Soon
        <3>5. QED BY <3>3, <3>4
    <2>4. Purple # Amber
        BY LampAssumption
    <2>5. AmberIsArm' /\ AmberWhileArmed'
        BY <2>1, <2>2, <2>4 DEF AmberIsArm, AmberWhileArmed
    <2>6. ResetOnTime' /\ PurpleUntilReset'
        BY <2>1, <2>2, <2>3 DEF ResetOnTime, PurpleUntilReset
    <2>7. QED BY <2>5, <2>6 DEF Signals
<1>3. CASE ConfirmResult(t) # "OK"
    <2>1. UNCHANGED <<base, output, flash, lit, length, taken, tasksDue, rebootPending, rebootIn>>
        BY <1>0, <1>3 DEF ConfirmShown, Confirm, lamp, reboot
    <2>2. gate' = gate \/ (gate.armed /\ Expired /\ gate' = [gate EXCEPT !.armed = FALSE])
        BY <1>0, <1>3, ConfirmCases DEF Confirm
    <2>3. CASE gate' = gate
        BY <1>1, <2>1, <2>3 DEF Signals, AmberIsArm, ResetOnTime, AmberWhileArmed,
                                PurpleUntilReset, Expired
    <2>4. CASE gate.armed /\ Expired /\ gate' = [gate EXCEPT !.armed = FALSE]
        <3>1. ~gate'.armed /\ ~rebootPending
            BY <1>0, <2>4, ArmedNotExpired DEF Gate
        <3>2. QED BY <1>1, <2>1, <3>1 DEF Signals, AmberIsArm, ResetOnTime,
                                          AmberWhileArmed, PurpleUntilReset
    <2>5. QED BY <2>2, <2>3, <2>4
<1>4. QED BY <1>2, <1>3

LEMMA StatusSignals ==
    ASSUME Known, Signals, StatusShown
    PROVE  Signals'
<1>1. /\ UNCHANGED <<mode, now, arms, age, tasksDue, base, output, flash, lit, length, taken,
                     rebootPending, rebootIn>>
      /\ mode = "firmware"
    BY DEF StatusShown, Status, lamp, reboot
<1>2. gate'.armed = (gate.armed /\ ~Expired) /\ gate'.expiresAt = gate.expiresAt
    BY StatusGate DEF StatusShown, Known, TypeOK, Gate
<1>3. Expired' <=> Expired
    BY <1>1, <1>2 DEF Expired
<1>4. AmberIsArm' /\ AmberWhileArmed'
    BY <1>1, <1>2, <1>3 DEF Signals, AmberIsArm, AmberWhileArmed
<1>5. rebootPending => (gate'.armed <=> gate.armed)
    BY <1>1, <1>2, ArmedNotExpired
<1>6. ResetOnTime' /\ PurpleUntilReset'
    BY <1>1, <1>5 DEF Signals, ResetOnTime, PurpleUntilReset
<1>7. QED BY <1>4, <1>6 DEF Signals

LEMMA LedSignals ==
    ASSUME Known, Signals, UNCHANGED <<vars, tasksDue>>,
           \/ \E colour \in Colour : Led(colour)
           \/ \E colour \in Colour, ms \in FlashTime : LedFlash(colour, ms)
           \/ LedOff
    PROVE  Signals'
<1>1. UNCHANGED <<mode, gate, rebootPending, rebootIn, now, arms, age, tasksDue>>
    BY DEF vars, reboot
<1>2. ResetOnTime'
    BY <1>1 DEF Signals, ResetOnTime
<1>3. CASE \E colour \in Colour : Led(colour)
    <2>1. PICK colour \in Colour : Led(colour)
        BY <1>3
    <2>2. /\ UNCHANGED <<flash, lit, length, taken>>
          /\ output' = IF flash.active THEN output ELSE colour
        BY <2>1 DEF Led, SetBase
    <2>3. Amber # colour
        BY LampAssumption
    <2>4. AmberIsArm' /\ PurpleUntilReset'
        BY <1>1, <2>2, <2>3 DEF Signals, AmberIsArm, PurpleUntilReset
    <2>5. AmberWhileArmed'
        BY <1>1, <2>2 DEF Signals, AmberIsArm, AmberWhileArmed, Expired
    <2>6. QED BY <1>2, <2>4, <2>5 DEF Signals
<1>4. CASE ~(\E colour \in Colour : Led(colour))
    <2>1. taken' = TRUE /\ output' \in Colour
        BY <1>4, LampAssumption DEF LedFlash, LedOff, StartFlash
    <2>2. output' # Amber
        BY <2>1, LampAssumption
    <2>3. QED
        BY <1>2, <2>1, <2>2 DEF Signals, AmberIsArm, AmberWhileArmed, PurpleUntilReset
<1>5. QED BY <1>3, <1>4

LEMMA WaitSignals ==
    ASSUME Known, Signals, ~ClockWraps, NEW d \in 1..MaxStep, Wait(d)
    PROVE  Signals'
<1>0. /\ age \in Nat /\ lit \in Nat /\ rebootIn \in Nat /\ now \in Nat /\ d \in Nat
      /\ gate.expiresAt \in Nat /\ length \in Nat /\ flash.left \in Nat /\ d <= MaxStep
    BY Times DEF Known, TypeOK, LampTimed, LampTypes
<1>1. /\ now' = now + d /\ age' = AtMost(age + d, Oldest)
      /\ rebootIn' = IF d <= rebootIn THEN rebootIn - d ELSE 0
      /\ flash.active => lit' = lit + d
    BY WaitTimed, PassDoes DEF Known, Wait
<1>2. /\ UNCHANGED <<mode, gate, rebootPending, arms, base, output, length, taken>>
      /\ flash'.active = flash.active /\ ~tasksDue /\ tasksDue' = TRUE /\ mode = "firmware"
    BY DEF Wait, Pass, Known, LampTimed, LampTypes
<1>3. AmberIsArm'
    <2>1. CASE output = Amber
        <3>1. flash.active /\ length = TokenTtl /\ arms > 0 /\ age = lit
            BY <2>1 DEF Signals, AmberIsArm
        <3>2. flash.left # 0 /\ lit + flash.left = TokenTtl
            BY <1>0, <1>2, <3>1 DEF Known, LampTimed, FlashTimed
        <3>3. age' = age + d
            BY <1>0, <1>1, <3>1, <3>2, Times DEF AtMost
        <3>4. QED BY <1>1, <1>2, <3>1, <3>3 DEF AmberIsArm
    <2>2. CASE output # Amber
        BY <1>2, <2>2 DEF AmberIsArm
    <2>3. QED BY <2>1, <2>2
<1>4. age' \in Nat /\ age' <= age + d
    BY <1>0, <1>1, Times DEF AtMost
<1>5. ResetOnTime'
    <2>1. CASE rebootPending
        <3>1. /\ Soon(RebootDelay, 0, rebootIn, FALSE)
              /\ gate.armed => Soon(RebootDelay, age, rebootIn, FALSE)
            BY <1>2, <2>1 DEF Signals, ResetOnTime, Soon
        <3>2. Soon(RebootDelay, 0, rebootIn', TRUE)
            <4>1. 0 \in Nat /\ 0 <= 0 + d /\ RebootDelay \in Nat
                BY <1>0, Times
            <4>2. QED BY <1>0, <1>1, <3>1, <4>1, SoonAfterWait
        <3>3. gate.armed => Soon(RebootDelay, age', rebootIn', TRUE)
            <4>1. RebootDelay \in Nat
                BY Times
            <4>2. QED BY <1>0, <1>1, <1>4, <3>1, <4>1, SoonAfterWait
        <3>4. QED BY <1>2, <3>2, <3>3 DEF ResetOnTime
    <2>2. CASE ~rebootPending
        BY <1>2, <2>2 DEF ResetOnTime
    <2>3. QED BY <2>1, <2>2
<1>6. AmberWhileArmed'
    <2>1. ~Expired' => ~Expired
        BY <1>0, <1>1, <1>2 DEF Expired
    <2>2. QED BY <1>2, <2>1 DEF Signals, AmberWhileArmed
<1>7. PurpleUntilReset'
    <2>1. CASE ~taken /\ rebootPending /\ ~gate.armed
        <3>1. /\ output = Purple /\ flash.active /\ length = PurpleTime
              /\ Soon(FromFlash, lit, rebootIn, FALSE)
            BY <1>2, <2>1 DEF Signals, PurpleUntilReset, Soon
        <3>2. Soon(FromFlash, lit', rebootIn', TRUE)
            <4>1. lit' \in Nat /\ lit' <= lit + d /\ FromFlash \in Nat
                BY <1>0, <1>1, <3>1, Times DEF FromFlash
            <4>2. QED BY <1>0, <1>1, <3>1, <4>1, SoonAfterWait
        <3>3. QED BY <1>2, <3>1, <3>2 DEF PurpleUntilReset
    <2>2. CASE ~(~taken /\ rebootPending /\ ~gate.armed)
        BY <1>2, <2>2 DEF PurpleUntilReset
    <2>3. QED BY <2>1, <2>2
<1>8. QED BY <1>3, <1>5, <1>6, <1>7 DEF Signals

\* led_task ends no flash the gate still needs.
LEMMA TasksSignals ==
    ASSUME Known, Signals, Tasks
    PROVE  Signals'
<1>0. /\ age \in Nat /\ lit \in Nat /\ rebootIn \in Nat
      /\ length \in Nat /\ base \in Colour
    BY Times DEF Known, TypeOK, LampTimed, LampTypes
<1>1. /\ UNCHANGED <<mode, gate, rebootPending, rebootIn, now, arms, age, base, lit, length,
                     taken>>
      /\ tasksDue' = FALSE /\ mode = "firmware" /\ ~ResetDue
    BY DEF Tasks, vars, reboot
<1>2. rebootPending => rebootIn > 0
    BY <1>0, <1>1 DEF ResetDue
<1>3. ResetOnTime'
    BY <1>1, <1>2 DEF Signals, ResetOnTime, Soon
<1>4. CASE flash.active /\ flash.left = 0
    <2>1. length <= lit
        BY <1>4 DEF Known, LampTimed, FlashTimed
    <2>2. output' = base /\ output' # Amber
        BY <1>0, <1>4, LampAssumption DEF Tasks, LedTask
    <2>3. AmberIsArm'
        BY <2>2 DEF AmberIsArm
    <2>4. AmberWhileArmed'
        <3>1. SUFFICES ASSUME ~taken, gate.armed, ~Expired PROVE FALSE
            BY <1>1 DEF AmberWhileArmed, Expired
        <3>2. length = TokenTtl /\ age = lit
            BY <1>1, <3>1 DEF Signals, AmberWhileArmed, AmberIsArm
        <3>3. age < TokenTtl
            BY <1>0, <3>1, ExpiredIsOld, Times DEF Known
        <3>4. QED BY <1>0, <2>1, <3>2, <3>3, Times
    <2>5. PurpleUntilReset'
        <3>1. SUFFICES ASSUME ~taken, rebootPending, ~gate.armed PROVE FALSE
            BY <1>1 DEF PurpleUntilReset
        <3>2. length = PurpleTime /\ Soon(FromFlash, lit, rebootIn, tasksDue)
            BY <1>1, <3>1 DEF Signals, PurpleUntilReset
        <3>3. lit < PurpleTime
            BY <1>0, <1>2, <3>1, <3>2, Times DEF Soon, FromFlash
        <3>4. QED BY <1>0, <2>1, <3>2, <3>3, Times
    <2>6. QED BY <1>3, <2>3, <2>4, <2>5 DEF Signals
<1>5. CASE ~(flash.active /\ flash.left = 0)
    <2>1. flash' = flash /\ output' = output
        BY <1>5 DEF Tasks, LedTask
    <2>2. AmberIsArm' /\ AmberWhileArmed'
        BY <1>1, <2>1 DEF Signals, AmberIsArm, AmberWhileArmed, Expired
    <2>3. PurpleUntilReset'
        BY <1>1, <1>2, <2>1 DEF Signals, PurpleUntilReset, Soon
    <2>4. QED BY <1>3, <2>2, <2>3 DEF Signals
<1>6. QED BY <1>4, <1>5

LEMMA RestartSignals ==
    ASSUME Known, Signals, ResetShown \/ PowerOnShown
    PROVE  Signals'
<1>1. CASE ResetShown
    <2>1. mode' = "bootloader" /\ UNCHANGED <<output, flash, length, arms, lit, age>>
        BY <1>1 DEF ResetShown, Reset, lamp
    <2>2. QED
        BY <2>1 DEF Signals, AmberIsArm, ResetOnTime, AmberWhileArmed, PurpleUntilReset
<1>2. CASE PowerOnShown
    <2>1. ~rebootPending' /\ ~gate'.armed /\ output' # Amber
        BY <1>2, LampAssumption DEF PowerOnShown, PowerOn, NoToken
    <2>2. QED
        BY <2>1 DEF Signals, AmberIsArm, ResetOnTime, AmberWhileArmed, PurpleUntilReset
<1>3. QED BY <1>1, <1>2

LEMMA SignalsStep ==
    ASSUME ~ClockWraps, Known, Signals, [LampNext]_lampVars
    PROVE  Signals'
<1>1. CASE UNCHANGED lampVars
    BY <1>1 DEF lampVars, lamp, vars, reboot, Signals, AmberIsArm, ResetOnTime,
                AmberWhileArmed, PurpleUntilReset, Expired
<1>2. CASE \/ \E colour \in Colour : Led(colour)
           \/ \E colour \in Colour, ms \in FlashTime : LedFlash(colour, ms)
           \/ LedOff
    BY <1>2, LedSignals DEF Led, LedFlash, LedOff
<1>3. QED
    BY <1>1, <1>2, ArmSignals, ConfirmSignals, StatusSignals, WaitSignals, TasksSignals,
       RestartSignals DEF LampNext

LEMMA SignalsInit == LampInit => Signals
BY LampAssumption DEF LampInit, Init, Signals, AmberIsArm, ResetOnTime, AmberWhileArmed,
                      PurpleUntilReset, NoToken

\* "Amber while armed and purple while transitioning", for every duration the code could
\* be built with and any interleaving of UPDATE and LED commands, as long as the clock
\* has not wrapped.
THEOREM LampTells ==
    ASSUME ~ClockWraps
    PROVE  LampSpec => []LampTellsGate
<1>1. ASSUME Known, Signals PROVE LampTellsGate
    <2>1. gate.armed /\ ~Expired /\ ~taken /\ mode = "firmware" => output = Amber
        BY <1>1 DEF Signals, AmberWhileArmed
    <2>2. rebootPending /\ ~gate.armed /\ ~taken /\ mode = "firmware" => output = Purple
        BY <1>1 DEF Signals, PurpleUntilReset
    <2>3. output = Amber => arms > 0 /\ age < TokenTtl + MaxStep
        <3>1. SUFFICES ASSUME output = Amber PROVE arms > 0 /\ age < TokenTtl + MaxStep
            OBVIOUS
        <3>2. flash.active /\ length = TokenTtl /\ arms > 0 /\ age = lit
            BY <1>1, <3>1 DEF Signals, AmberIsArm
        <3>3. lit < length + MaxStep
            BY <1>1, <3>2, Times DEF Known, LampTimed, LampTypes, FlashTimed
        <3>4. QED BY <3>2, <3>3
    <2>4. QED BY <2>1, <2>2, <2>3 DEF LampTellsGate
<1>2. Known /\ Signals /\ [LampNext]_lampVars => Known' /\ Signals'
    <2>1. Known /\ [LampNext]_lampVars => Known'
        BY LampStepIsGateStep, TypeStep, ArmedSinceStep, LampTimedStep DEF Known
    <2>2. QED BY <2>1, SignalsStep
<1>3. LampInit => Known /\ Signals
    BY TypeInit, ArmedSinceInit, LampTimedInit, SignalsInit DEF Known, LampInit
<1>4. Known /\ Signals => LampTellsGate
    BY <1>1
<1>5. QED BY <1>2, <1>3, <1>4, PTL DEF LampSpec
=============================================================================
