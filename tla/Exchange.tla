------------------------------ MODULE Exchange ------------------------------
(***************************************************************************)
(* Commands and answers on the serial port, from the ring of service       *)
(* events to their dispatch: r4-ecctl's exchange of a line for a line, the *)
(* firmware's answer with its limited patience for a host that does not    *)
(* read (cdc_write_line), and the loop of the R4Controller service, which  *)
(* checks the controller, reports to it and fetches one event a round.     *)
(*                                                                         *)
(* Service is the service's client; the others are helpers that use the    *)
(* port directly, while no service runs or to update the firmware.  Broker *)
(* requests and what the dispatch of an event sends are exchanges of the   *)
(* service like its HOST lines.  Answers are told apart by their command;  *)
(* a fetched event is known by its sequence number.  Restarts of the       *)
(* controller are left out.                                                *)
(***************************************************************************)
EXTENDS PortLock, ServiceEvents, SequencesExt

CONSTANTS Service, Checks,  \* the service's client, and the commands whose answers it checks
          MaxFaults         \* bound: processes killed, answers cut and late answers

Silent == "none"            \* no command
Report == "HOST"            \* the commands of a round after its checks
NextEvent == "EVENT NEXT"

ASSUME ExchangeAssumption ==
    /\ Service \in Client /\ MaxFaults \in Nat
    /\ Checks \in Seq(STRING) /\ Len(Checks) > 0
    /\ \A i \in DOMAIN Checks : Checks[i] \notin {Report, NextEvent, Silent}

\* The round of run_watchdog.
Round == Checks \o <<Report, NextEvent>>

VARIABLES asked,            \* the command each client waits to be answered, or Silent
          turn,             \* the service's place in its round
          requests,         \* lines on their way to the controller
          lines,            \* answers on their way to the host
          dispatched,       \* history: the events the service acted on
          dirty,            \* history: whether a client found the line in use, see Ask
          faults, spoilt    \* history: faults so far, and whether anything went wrong

ring == <<events, head, count, nextSequence, droppedEvents, reply>>
port == <<requests, lines>>
exchangeVars == <<lockVars, ring, port, asked, turn, dispatched, dirty, faults, spoilt>>

ExchangeInit ==
    /\ LockInit /\ Init
    /\ asked = [c \in Client |-> Silent]
    /\ turn = 1
    /\ requests = <<>> /\ lines = <<>>
    /\ dispatched = <<>>
    /\ dirty = [c \in Client |-> FALSE]
    /\ faults = 0 /\ spoilt = FALSE

Fault == faults < MaxFaults /\ faults' = faults + 1 /\ spoilt' = TRUE
NoFault == UNCHANGED <<faults, spoilt>>

From(s, k) == SubSeq(s, k, Len(s))

Command(c) == IF c = Service THEN Round[turn] ELSE Report
-----------------------------------------------------------------------------
\* What EVENT NEXT tells: the oldest event, which leaves the ring before it is written.
Fetched == IF count = 0 THEN {} ELSE {events[head].sequence}

\* Plausible bug: the event stays in the ring until the next one is asked for.
Answered_Kept(request) == UNCHANGED ring

Answered(request) ==
    IF request.command = NextEvent /\ count > 0 THEN Pop ELSE UNCHANGED ring

Answer(request) == [by |-> request.by, command |-> request.command, glued |-> FALSE, ended |-> TRUE,
                    events |-> IF request.command = NextEvent THEN Fetched ELSE {}]

\* An answer without its line ending becomes the start of the next one.  Read as an
\* event, such a line may show the fields of either, if it begins as an event.
Glued(start, line) ==
    [line EXCEPT !.glued = TRUE, !.events = IF start.events = {} THEN {} ELSE start.events \cup @]

Written(line) ==
    IF lines # <<>> /\ ~Last(lines).ended THEN Append(Front(lines), Glued(Last(lines), line))
                                          ELSE Append(lines, line)

\* cdc_service_task runs the lines in order.  While nobody reads, the device's buffer
\* may stay full for CDC_WRITE_TIMEOUT_MS: nothing or a part of the answer is written.
Serve ==
    /\ requests # <<>>
    /\ requests' = Tail(requests)
    /\ Answered(Head(requests))
    /\ \/ lines' = Written(Answer(Head(requests))) /\ NoFault
       \/ /\ \A c \in Client : asked[c] = Silent
          /\ lines' \in {lines, Written([Answer(Head(requests)) EXCEPT !.ended = FALSE])}
          /\ Fault
    /\ UNCHANGED <<lockVars, asked, turn, dispatched, dirty>>

Emit == /\ DropEvent \/ \E p \in Payload : EmitEvent(p)
        /\ UNCHANGED <<lockVars, port, asked, turn, dispatched, dirty, faults, spoilt>>
-----------------------------------------------------------------------------
BeginExchange(c) ==
    /\ Begin(c)
    /\ UNCHANGED <<ring, port, asked, turn, dispatched, dirty, faults, spoilt>>

\* The service compares the answers to its checks with the texts it expects.
Accepts(line, command) == line.command = command /\ ~line.glued

Dispatches(events_) == \E e \in events_ : dispatched' = Append(dispatched, e)

\* controller_command returns to the service's round, without a line when it failed.
Failed ==
    /\ turn' = IF Round[turn] = Report THEN turn + 1 ELSE 1
    /\ UNCHANGED dispatched

Proceeds(line) ==
    CASE turn <= Len(Checks) ->
            turn' = (IF Accepts(line, Round[turn]) THEN turn + 1 ELSE 1) /\ UNCHANGED dispatched
      [] Round[turn] = Report -> turn' = turn + 1 /\ UNCHANGED dispatched
      [] Round[turn] = NextEvent ->
            /\ turn' = 1
            /\ \/ Dispatches(line.events)
               \/ (line.events = {} \/ line.glued) /\ UNCHANGED dispatched

\* Five attempts were in vain: the service's command has failed.
LockExchange(c) ==
    /\ LockStep(c)
    /\ spoilt' = (spoilt \/ raced')
    /\ IF c = Service /\ pc'[c] = "idle" THEN Failed ELSE UNCHANGED <<turn, dispatched>>
    /\ UNCHANGED <<ring, port, asked, dirty, faults>>

\* Opening the port, by stty and then for use, may lose what has come before.
Ask(c) ==
    /\ pc[c] = "holding" /\ asked[c] = Silent
    /\ \E k \in 1..(Len(lines) + 1) : lines' = From(lines, k)
    /\ dirty' = [dirty EXCEPT ![c] = requests # <<>> \/ lines' # <<>>]
    /\ requests' = Append(requests, [by |-> c, command |-> Command(c)])
    /\ asked' = [asked EXCEPT ![c] = Command(c)]
    /\ UNCHANGED <<lockVars, ring, turn, dispatched, faults, spoilt>>

Quits(c) == /\ asked' = [asked EXCEPT ![c] = Silent]
            /\ dirty' = [dirty EXCEPT ![c] = FALSE]

\* No port is found, or it cannot be opened.
NoPort(c) ==
    /\ pc[c] = "holding" /\ asked[c] = Silent
    /\ Release(c)
    /\ IF c = Service THEN Failed ELSE UNCHANGED <<turn, dispatched>>
    /\ UNCHANGED <<ring, port, asked, dirty, faults, spoilt>>

\* head reads a line and may read more than it needs; closing the port loses the rest
\* of what has come.
Read(c) ==
    /\ asked[c] # Silent
    /\ lines # <<>> /\ Head(lines).ended
    /\ \E k \in 2..(Len(lines) + 1) : lines' = From(lines, k)
    /\ Release(c) /\ Quits(c)
    /\ IF c = Service THEN Proceeds(Head(lines)) ELSE UNCHANGED <<turn, dispatched>>
    /\ UNCHANGED <<ring, requests, faults, spoilt>>

Hopeless == requests = <<>> /\ (lines = <<>> \/ ~Head(lines).ended)

\* Two seconds without a line; it is a fault when one is on its way.
TimeOut(c) ==
    /\ asked[c] # Silent
    /\ IF Hopeless THEN NoFault ELSE Fault
    /\ \E k \in 1..(Len(lines) + 1) : lines' = From(lines, k)
    /\ Release(c) /\ Quits(c)
    /\ IF c = Service THEN Failed ELSE UNCHANGED <<turn, dispatched>>
    /\ UNCHANGED <<ring, requests>>

Kill(c) ==
    /\ KillClient(c) /\ Quits(c)
    /\ Fault
    /\ \E k \in 1..(Len(lines) + 1) : lines' = From(lines, k)
    /\ IF c = Service THEN Failed ELSE UNCHANGED <<turn, dispatched>>
    /\ UNCHANGED <<ring, requests>>

Step(c) == BeginExchange(c) \/ LockExchange(c) \/ Ask(c) \/ NoPort(c) \/ Read(c) \/ TimeOut(c)

ExchangeNext == Emit \/ Serve \/ \E c \in Client : Step(c) \/ Kill(c)

\* The service loops for ever and its commands end after two seconds at the latest; the
\* controller's main loop answers.  Nothing is assumed of helpers.
ExchangeFairness == WF_exchangeVars(Step(Service)) /\ WF_exchangeVars(Serve)

ExchangeSpec == ExchangeInit /\ [][ExchangeNext]_exchangeVars /\ ExchangeFairness
-----------------------------------------------------------------------------
\* A client that found nothing outstanding when it asked reads the answer to its own
\* command: exchanges do not mix, whatever was abandoned before; unless a race for the
\* lock put two clients on the port at once.
AnswersBelong ==
    [][\A c \in Client :
          Read(c) /\ ~dirty[c] /\ ~raced =>
              Head(lines).by = c /\ Head(lines).command = asked[c]]_exchangeVars

InFlight == UNION {lines[i].events : i \in DOMAIN lines}

\* The service acts on each event once at most and in the order of the button, through
\* late, cut and foreign answers; and as long as no exchange went wrong no fetched event
\* is lost on the way: it was acted on or is in an answer that is still to be read.
EventsReachService ==
    /\ \A i, j \in DOMAIN dispatched : i < j => dispatched[i] < dispatched[j]
    /\ ~spoilt => 1..(nextSequence - count) =
                     {dispatched[i] : i \in DOMAIN dispatched} \cup InFlight
=============================================================================
