----------------------------- MODULE UpdateLamp -----------------------------
(***************************************************************************)
(* The update gate together with the RGB lamp it signals on: ARM shows     *)
(* amber for the token's time to live, an accepted CONFIRM shows purple    *)
(* until the reset.  LED, LED FLASH and LED OFF use the same lamp at any   *)
(* time; flashes end in led_task, once a pass of the main loop, after      *)
(* update_reboot_task.  The flash's deadline is a 64-bit absolute time,    *)
(* kept here as the milliseconds left of it.                               *)
(***************************************************************************)
EXTENDS UpdateGate

CONSTANTS Colour,           \* the colours LED and LED FLASH ask for
          Off, Amber, Purple,
          FlashTime,        \* the durations LED FLASH asks for
          LongestFlash,     \* LED FLASH refuses to last longer, and nothing else does
          PurpleTime        \* how long an accepted CONFIRM flashes

ASSUME LampAssumption ==
    /\ Off \in Colour /\ Amber \notin Colour /\ Purple \notin Colour /\ Amber # Purple
    /\ LongestFlash \in Nat /\ FlashTime \subseteq 1..LongestFlash
    /\ PurpleTime \in 1..LongestFlash /\ TokenTtl <= LongestFlash
    /\ PurpleTime >= RebootDelay + MaxStep
    /\ TokenTtl >= RebootDelay + MaxStep

VARIABLES base, output,     \* led_base_*, led_output_*
          flash,            \* led_flash_active and the time left of it
          tasksDue,         \* whether time has passed since the tasks last ran
          lit,              \* history: ms since the flash began, up to Longest
          length,           \* history: how long that flash was to be
          taken             \* history: LED FLASH or OFF since the gate last signalled

lamp == <<base, output, flash, lit, length, taken>>
lampVars == <<vars, lamp, tasksDue>>

\* Bound: a flash older than this is over.
Longest == LongestFlash + MaxStep

NoFlash == [active |-> FALSE, left |-> 0]

LampInit ==
    /\ Init
    /\ base = Off /\ output = Off /\ flash = NoFlash
    /\ tasksDue = FALSE /\ lit = 0 /\ length = 0 /\ taken = FALSE
-----------------------------------------------------------------------------
\* start_led_flash, as it is "spent" ms later.
StartFlash(colour, ms, spent) ==
    /\ flash' = [active |-> TRUE, left |-> ms - spent]
    /\ output' = colour
    /\ lit' = spent /\ length' = ms
    /\ UNCHANGED base

\* Plausible bug: LED shows its colour at once, over a flash.
SetBase_AtOnce(colour) == base' = colour /\ output' = colour

SetBase(colour) ==
    /\ base' = colour
    /\ output' = IF flash.active THEN output ELSE colour

Led(colour) ==
    /\ mode = "firmware"
    /\ SetBase(colour)
    /\ UNCHANGED <<vars, flash, lit, length, taken, tasksDue>>

LedFlash(colour, ms) ==
    /\ mode = "firmware"
    /\ StartFlash(colour, ms, 0)
    /\ taken' = TRUE
    /\ UNCHANGED <<vars, tasksDue>>

\* LED OFF ends a flash as well.
LedOff ==
    /\ mode = "firmware"
    /\ base' = Off /\ output' = Off /\ flash' = NoFlash
    /\ taken' = TRUE
    /\ UNCHANGED <<vars, lit, length, tasksDue>>

ArmShown(t) ==
    /\ Arm(t)
    /\ StartFlash(Amber, TokenTtl, 0)
    /\ taken' = FALSE
    /\ UNCHANGED tasksDue

\* Only an accepted token turns the lamp purple.  The answer is written after that and
\* before the reset is scheduled, which may take its time; the gate has no deadline then.
ConfirmShown(t) ==
    /\ Confirm(t)
    /\ \/ /\ ConfirmResult(t) = "OK"
          /\ \E spent \in 0..MaxStep : StartFlash(Purple, PurpleTime, spent)
          /\ taken' = FALSE
          /\ tasksDue' = TRUE
       \/ /\ ConfirmResult(t) # "OK"
          /\ UNCHANGED <<lamp, tasksDue>>

StatusShown == Status /\ UNCHANGED <<lamp, tasksDue>>

\* Time passes: up to one pass of the main loop, its commands' writes included.
Wait(d) ==
    /\ ~tasksDue
    /\ Pass(d)
    /\ flash' = [flash EXCEPT !.left = IF d <= @ THEN @ - d ELSE 0]
    /\ lit' = AtMost(lit + d, Longest)
    /\ tasksDue' = TRUE
    /\ UNCHANGED <<base, output, length, taken>>

ResetDue == rebootPending /\ rebootIn = 0

\* Plausible bug: the flash is over but its colour stays.
LedTask_KeepsColour ==
    /\ flash' = IF flash.active /\ flash.left = 0 THEN NoFlash ELSE flash
    /\ UNCHANGED output

LedTask ==
    IF flash.active /\ flash.left = 0
    THEN flash' = NoFlash /\ output' = base
    ELSE UNCHANGED <<flash, output>>

\* update_reboot_task, which does not return when the reset is due, then led_task.
ResetShown == Reset /\ tasksDue' = FALSE /\ UNCHANGED lamp

Tasks ==
    /\ mode = "firmware" /\ ~ResetDue /\ tasksDue
    /\ LedTask
    /\ tasksDue' = FALSE
    /\ UNCHANGED <<vars, base, lit, length, taken>>

PowerOnShown ==
    /\ PowerOn
    /\ base' = Off /\ output' = Off /\ flash' = NoFlash
    /\ tasksDue' = FALSE /\ lit' = 0 /\ length' = 0 /\ taken' = FALSE

LampNext ==
    \/ \E t \in Token : ArmShown(t) \/ ConfirmShown(t)
    \/ \E colour \in Colour : Led(colour)
    \/ \E colour \in Colour, ms \in FlashTime : LedFlash(colour, ms)
    \/ \E d \in 1..MaxStep : Wait(d)
    \/ StatusShown \/ LedOff \/ ResetShown \/ Tasks \/ PowerOnShown

LampSpec == LampInit /\ [][LampNext]_lampVars
-----------------------------------------------------------------------------
\* "Amber while armed and purple while transitioning": unless a flash or LED OFF has
\* taken the lamp since, it is amber as long as the token would be accepted, and purple
\* from the accepted token until the reset; and amber is gone at most one pass of the
\* main loop after the token's time, whatever the gate was asked meanwhile.
LampTellsGate ==
    mode = "firmware" /\ ~taken =>
        /\ gate.armed /\ ~Expired => output = Amber
        /\ rebootPending /\ ~gate.armed => output = Purple
        /\ output = Amber => arms > 0 /\ age < TokenTtl + MaxStep

\* A flash of any origin keeps its time: it ends within a pass of the main loop after
\* it, gives way to the base colour asked for last, and only LED OFF or another flash
\* cuts it short.
FlashKeepsTime ==
    /\ [](flash.active => lit < length + MaxStep)
    /\ [](~flash.active => output = base)
    /\ [][flash.active /\ ~flash'.active =>
             lit >= length \/ LedOff \/ mode' # mode]_lampVars
=============================================================================
