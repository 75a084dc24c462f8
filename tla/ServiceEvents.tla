---------------------------- MODULE ServiceEvents ----------------------------
(***************************************************************************)
(* The ring of service events between the gesture recognizer and the host  *)
(* (emit_event and r4_service_buttons_pop in core/r4_service_buttons.c).   *)
(* The recognizer appends, the host's EVENT NEXT removes; an event that    *)
(* finds the ring full is dropped.  What an event says (button, action,    *)
(* time) is one value of Payload.  The ring is an array, the index of the  *)
(* oldest event and a count; it is shown to implement BoundedFifo.         *)
(***************************************************************************)
EXTENDS Naturals, Sequences

CONSTANTS Payload,          \* what events may say
          Capacity,         \* R4_SERVICE_EVENT_QUEUE_CAPACITY
          MaxEvents         \* bound: how many events are ever emitted

ASSUME RingAssumption == Capacity \in Nat \ {0} /\ MaxEvents \in Nat /\ Payload # {}

VARIABLES events,           \* the array
          head, count,      \* event_head, event_count
          nextSequence, droppedEvents,
          reply             \* what EVENT NEXT last returned, <<>> before the first event

vars == <<events, head, count, nextSequence, droppedEvents, reply>>

Event == [payload : Payload, sequence : Nat]
Index == 0..(Capacity - 1)

Init ==
    /\ \E p \in Payload : events = [k \in Index |-> [payload |-> p, sequence |-> 0]]
    /\ head = 0 /\ count = 0
    /\ nextSequence = 0 /\ droppedEvents = 0
    /\ reply = <<>>

\* Plausible bug: the head is forgotten when the free slot is computed.
FreeSlot_FromZero == count % Capacity

FreeSlot == (head + count) % Capacity

\* emit_event, when the ring is full ...
DropEvent ==
    /\ count >= Capacity
    /\ nextSequence + droppedEvents < MaxEvents
    /\ droppedEvents' = droppedEvents + 1
    /\ UNCHANGED <<events, head, count, nextSequence, reply>>

\* ... and when it is not.
EmitEvent(p) ==
    /\ count < Capacity
    /\ nextSequence + droppedEvents < MaxEvents
    /\ nextSequence' = nextSequence + 1
    /\ events' = [events EXCEPT ![FreeSlot] = [payload |-> p, sequence |-> nextSequence']]
    /\ count' = count + 1
    /\ UNCHANGED <<head, droppedEvents, reply>>

NextHead == (head + 1) % Capacity

\* EVENT NEXT with an event waiting; EVENT NONE changes nothing.
Pop ==
    /\ count > 0
    /\ reply' = <<events[head]>>
    /\ head' = NextHead
    /\ count' = count - 1
    /\ UNCHANGED <<events, nextSequence, droppedEvents>>

Next == DropEvent \/ Pop \/ \E p \in Payload : EmitEvent(p)

Spec == Init /\ [][Next]_vars
-----------------------------------------------------------------------------
TypeOK ==
    /\ events \in [Index -> Event]
    /\ head \in Index
    /\ count \in 0..Capacity
    /\ nextSequence \in Nat
    /\ droppedEvents \in Nat
    /\ reply = <<>> \/ reply \in [{1} -> Event]

\* The events in the ring, oldest first.
Content == [i \in 1..count |-> events[(head + i - 1) % Capacity]]

Fifo == INSTANCE BoundedFifo WITH queue <- Content, sequence <- nextSequence

\* The host fetches every accepted event once, in order and unchanged, under gapless
\* sequence numbers, wherever in the array the ring's two ends are.
ImplementsFifo == Fifo!Spec
=============================================================================
