------------------------------ MODULE CdcLine ------------------------------
(***************************************************************************)
(* The line editor and dispatcher of the controller's USB serial port:     *)
(* bytes are gathered in a fixed buffer until a line end, then parsed and  *)
(* answered with one line.                                                 *)
(*                                                                         *)
(* A line is a sequence of Letters.  Commands are the lines the parser     *)
(* accepts; Usages are the prefixes with an error answer of their own      *)
(* (LED, UPDATE, HOST CARD ...).  The buffer is an array that is never     *)
(* cleared and has no terminator, so cells past the line's length keep     *)
(* what earlier lines left there.                                          *)
(***************************************************************************)
EXTENDS Naturals, SequencesExt

CONSTANTS Letters,    \* the characters of commands
          Backspace,
          Nul,        \* what the cells hold before the first line
          Commands, Usages, Capacity,
          MaxText     \* bound: how long a line the host may type

ASSUME LineAssumption ==
    Backspace \notin Letters /\ <<>> \notin Commands /\ Capacity \in Nat \ {0} /\ MaxText \in Nat

VARIABLES buffer,      \* cdc_command_buffer
          length,      \* cdc_command_length
          discarding,  \* cdc_discarding_line
          text,        \* ghost: what the host has typed since the last line end, as an
                       \* editor without a limit on the line's length would have it
          fits,        \* ghost: it never had more characters than the buffer
          answers,     \* ghost: the answers given since then
          last         \* ghost: the line just finished and its answers

lineVars == <<buffer, length, discarding, text, fits, answers, last>>

TooLong == [kind |-> "TOO_LONG", line |-> <<>>]
Ok(line) == [kind |-> "OK", line |-> line]
Usage(prefix) == [kind |-> "USAGE", line |-> prefix]
Unknown == [kind |-> "UNKNOWN", line |-> <<>>]
Answer == {TooLong, Unknown} \cup {Ok(c) : c \in Commands} \cup {Usage(u) : u \in Usages}

NoLine == [text |-> <<>>, fits |-> TRUE, answers |-> <<>>]

LineTypeOK ==
    /\ buffer \in [1..Capacity -> Letters \cup {Nul}]
    /\ length \in 0..Capacity
    /\ discarding \in BOOLEAN
    /\ text \in Seq(Letters) /\ fits \in BOOLEAN
    /\ answers \in Seq(Answer)
    /\ last \in [text : Seq(Letters), fits : BOOLEAN, answers : Seq(Answer)]

LineInit ==
    /\ buffer = [i \in 1..Capacity |-> Nul]
    /\ length = 0 /\ discarding = FALSE
    /\ text = <<>> /\ fits = TRUE /\ answers = <<>>
    /\ last = NoLine

-----------------------------------------------------------------------------
Line == SubSeq(buffer, 1, length)

(* The prefixes are compared with the buffer, whatever the line's length.  *)
Matches(prefix) == \A i \in DOMAIN prefix : buffer[i] = prefix[i]

Reply == IF Line \in Commands THEN Ok(Line)
         ELSE IF \E u \in Usages : Matches(u)
              THEN Usage(CHOOSE u \in Usages : Matches(u))
              ELSE Unknown

(* A finished line, with whatever was answered to it.                      *)
Finished(given) ==
    /\ length' = 0
    /\ last' = [text |-> text, fits |-> fits, answers |-> given]
    /\ text' = <<>> /\ fits' = TRUE /\ answers' = <<>>
    /\ UNCHANGED buffer

EndLine_KeepsDiscarding ==
    /\ Finished(IF discarding \/ length = 0 THEN answers ELSE Append(answers, Reply))
    /\ UNCHANGED discarding

EndLine_AnswersEmpty ==
    /\ Finished(IF discarding THEN answers ELSE Append(answers, Reply))
    /\ discarding' = FALSE

EndLine == /\ Finished(IF discarding \/ length = 0 THEN answers ELSE Append(answers, Reply))
           /\ discarding' = FALSE

Erase == /\ length' = IF length > 0 THEN length - 1 ELSE 0
         /\ UNCHANGED <<buffer, discarding, answers>>

Room == length < Capacity

Store(c) == /\ Room
            /\ buffer' = [buffer EXCEPT ![length + 1] = c]
            /\ length' = length + 1
            /\ UNCHANGED <<discarding, answers>>

(* The line is answered at once and its remaining bytes are skipped.       *)
Overflow == /\ ~Room
            /\ length' = 0 /\ discarding' = TRUE
            /\ answers' = Append(answers, TooLong)
            /\ UNCHANGED buffer

Skip == UNCHANGED <<buffer, length, discarding, answers>>

(* The ghosts: the line the host means.                                    *)
Typed(c) == IF c # Backspace THEN Append(text, c)
            ELSE IF text = <<>> THEN <<>> ELSE Front(text)

Meant(c) == /\ text' = Typed(c)
            /\ fits' = (fits /\ Len(text') <= Capacity)

Receive(c) ==
    /\ c = Backspace \/ Len(text) < MaxText
    /\ Meant(c)
    /\ last' = NoLine
    /\ IF discarding THEN Skip
       ELSE IF c = Backspace THEN Erase
       ELSE Store(c) \/ Overflow

LineNext == EndLine \/ \E c \in Letters \cup {Backspace} : Receive(c)

LineSpec == LineInit /\ [][LineNext]_lineVars

-----------------------------------------------------------------------------
(* Every line gets exactly one answer, an empty one none and one that      *)
(* outgrew the buffer LINE_TOO_LONG: hosts read one line per command, and  *)
(* an answer more or less shifts every later one by one.                   *)
OneAnswerPerLine ==
    Len(last.answers) = (IF last.fits /\ last.text = <<>> THEN 0 ELSE 1)

(* A command is run when the host has sent that line, and only then: no    *)
(* leftover of an earlier line and no tail of one that was too long runs.  *)
RunsWhatWasSent ==
    LET answer == IF last.answers = <<>> THEN Unknown ELSE last.answers[1]
    IN  (answer.kind = "OK") <=> (last.fits /\ last.text \in Commands)
=============================================================================
