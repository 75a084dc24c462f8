----------------------------- MODULE Telemetry -----------------------------
(***************************************************************************)
(* HOST TELEMETRY and the readings it puts on the panel: the status bar,   *)
(* the sound level in the footer and the temperature of the diagnostic     *)
(* screen (process_host_telemetry, r4_protocol_find_field and _decode_hex, *)
(* render_status_bar, render_footer).                                      *)
(*                                                                         *)
(* A line gives each field a form: Absent, when r4_protocol_find_field     *)
(* does not deliver it (the key is missing, its value is empty or longer   *)
(* than the handler's buffer); NA; Bad, a text the handler does not take;  *)
(* or a legal value.  TIME_HEX is hexadecimal text, see Decoded.           *)
(***************************************************************************)
EXTENDS Naturals, Sequences

CONSTANTS Absent, NA, Bad,  \* the forms that carry no value
          Empty,            \* the text of no characters
          Legal,            \* the legal values of each field
          Sent              \* bound: the fields that lines carry

\* The order in which the handler looks for its fields.
Order == <<"BATTERY", "RUNTIME_MIN", "VOLUME", "POWER", "NETWORK", "TEMP_MILLIC", "TIME_HEX">>
Field == {Order[i] : i \in DOMAIN Order}
Numeric == {"BATTERY", "RUNTIME_MIN", "VOLUME", "TEMP_MILLIC"}
Choice == {"POWER", "NETWORK"}

ASSUME TelemetryAssumption ==
    /\ DOMAIN Legal = Field /\ Sent \subseteq Field
    /\ Legal["POWER"] = {"BATTERY", "EXTERNAL"} /\ Legal["NETWORK"] = {"DOWN", "UP"}
    /\ Legal["BATTERY"] \subseteq 0..100 /\ Legal["VOLUME"] \subseteq 0..100
    /\ Legal["RUNTIME_MIN"] \subseteq 0..5999

VARIABLES reading,          \* the readings of r4_display_model_t
          answer,           \* the answer to the latest HOST TELEMETRY
          reported          \* history: what the host has reported, see Reported

telemetry == <<reading, answer, reported>>

\* A text that is written over in place: the characters of one and the rest of another.
Text(start, rest) == [start |-> start, rest |-> rest]
Whole(t) == Text(t, t)

Broken(t) == [broken |-> t]     \* a digit that is not hexadecimal after t's first characters
BrokenForms == {Broken(t) : t \in Legal["TIME_HEX"]}

ASSUME FormsDiffer == Absent # NA /\ {Absent, Bad} \cap BrokenForms = {}

NothingRead ==
    [f \in Field |->
        CASE f \in Numeric    -> [value |-> 0, available |-> FALSE]
          [] f = "POWER"      -> "BATTERY"
          [] f = "NETWORK"    -> "DOWN"
          [] f = "TIME_HEX"   -> Whole(Empty)]

NothingReported ==
    [f \in Field |->
        CASE f \in Numeric    -> NA
          [] f = "TIME_HEX"   -> Empty
          [] f \in Choice     -> NothingRead[f]]

TelemetryInit == reading = NothingRead /\ answer = "OK" /\ reported = NothingReported

Forms(f) == {Absent, Bad} \cup Legal[f] \cup (IF f = "TIME_HEX" THEN BrokenForms ELSE {NA})

\* Bound: a line carries at most two fields; which two is arbitrary.
OneMore(lines) == UNION {{[line EXCEPT ![f] = form] : form \in Forms(f)} : line \in lines, f \in Sent}

Lines == OneMore(OneMore({[f \in Field |-> Absent]}))
-----------------------------------------------------------------------------
\* A text of an odd number of digits or too long for its place (Bad) leaves the old one;
\* a bad digit is noticed only when the characters before it have been written.
Decoded(old, form) ==
    CASE form \in {Absent, Bad} -> old
      [] form \in BrokenForms   -> Text(form.broken, old.rest)
      [] OTHER                  -> Whole(form)

Refuses(f, form) == f # "TIME_HEX" /\ (form = Bad \/ (form = NA /\ f \in Choice))

Stored(f, form) ==
    CASE form = Absent                   -> reading[f]
      [] form # Absent /\ f = "TIME_HEX" -> Decoded(reading[f], form)
      [] form # Absent /\ f \in Choice   -> form
      [] form = NA /\ f \in Numeric      -> [reading[f] EXCEPT !.available = FALSE]
      [] form \notin {Absent, NA} /\ f \in Numeric -> [value |-> form, available |-> TRUE]

\* The handler returns at the first field it refuses: the ones before it are taken.
Stop(line) ==
    LET refused == {i \in DOMAIN Order : Refuses(Order[i], line[Order[i]])}
    IN  IF refused = {} THEN Len(Order) + 1 ELSE CHOOSE i \in refused : \A j \in refused : i <= j

\* Plausible bug: a refused field does not end the line.
Takes_PastRefusal(line) == {f \in Field : ~Refuses(f, line[f])}

Takes(line) == {Order[i] : i \in 1..(Stop(line) - 1)}

Answer(line) == IF Stop(line) > Len(Order) THEN "OK" ELSE Order[Stop(line)]

Position(f) == CHOOSE i \in DOMAIN Order : Order[i] = f

\* What a host concludes from its line and the answer to it: what comes before the
\* field that an error names was taken.  A text it cannot decode is no report.
Confirmed(f) == answer' = "OK" \/ Position(f) < Position(answer')

Reported(line) ==
    [f \in Field |-> IF Confirmed(f) /\ line[f] \notin {Absent, Bad} THEN line[f] ELSE reported[f]]

HostTelemetry(line) ==
    /\ reading' = [f \in Field |-> IF f \in Takes(line) THEN Stored(f, line[f]) ELSE reading[f]]
    /\ answer' = Answer(line)
    /\ reported' = Reported(line)

-----------------------------------------------------------------------------
External == reading["POWER"] = "EXTERNAL"

Drawn(f) == IF reading[f].available THEN reading[f].value ELSE NA

\* On external power the place of the runtime says POWER; from an hour on it is H:MM.
DrawnRuntime ==
    IF External THEN "POWER"
    ELSE LET minutes == Drawn("RUNTIME_MIN")
         IN  IF minutes = NA THEN NA ELSE <<minutes \div 60, minutes % 60>>

\* Whole degrees of a temperature above zero.
DrawnTemperature ==
    IF Drawn("TEMP_MILLIC") = NA THEN NA ELSE Drawn("TEMP_MILLIC") \div 1000

DrawnVolume == IF Drawn("VOLUME") = 0 THEN "MUTE" ELSE Drawn("VOLUME")

\* render_status_bar, render_footer and the diagnostic screen.
Panel == [battery |-> Drawn("BATTERY"), power |-> IF External THEN "EXT" ELSE "BAT",
          runtime |-> DrawnRuntime, volume |-> DrawnVolume,
          temperature |-> DrawnTemperature, clock |-> reading["TIME_HEX"]]

\* The panel shows what the host has reported and no reading it has withdrawn: a host
\* that reads its answers knows what is on the glass, after any lines, also those that
\* were refused halfway.  A clock text with a bad digit is mixed with an older one
\* until the next whole text.
PanelShowsReports ==
    /\ Panel.battery = reported["BATTERY"]
    /\ Panel.temperature =
          IF reported["TEMP_MILLIC"] = NA THEN NA ELSE reported["TEMP_MILLIC"] \div 1000
    /\ Panel.power = IF reported["POWER"] = "EXTERNAL" THEN "EXT" ELSE "BAT"
    /\ Panel.volume = IF reported["VOLUME"] = 0 THEN "MUTE" ELSE reported["VOLUME"]
    /\ CASE reported["POWER"] = "EXTERNAL"      -> Panel.runtime = "POWER"
         [] reported["POWER"] # "EXTERNAL" /\ reported["RUNTIME_MIN"] = NA -> Panel.runtime = NA
         [] OTHER -> Panel.runtime[1] * 60 + Panel.runtime[2] = reported["RUNTIME_MIN"]
    /\ reported["TIME_HEX"] \notin BrokenForms => Panel.clock = Whole(reported["TIME_HEX"])
=============================================================================
