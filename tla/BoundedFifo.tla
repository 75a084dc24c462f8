---------------------------- MODULE BoundedFifo -----------------------------
(***************************************************************************)
(* What the service-event ring promises the host: events are fetched in    *)
(* the order in which they were accepted, each once and unchanged, and     *)
(* their sequence numbers have no gaps.  An event that finds Capacity      *)
(* others waiting is not accepted and gets no number.                      *)
(***************************************************************************)
EXTENDS Naturals, Sequences

CONSTANTS Payload, Capacity

VARIABLES queue,        \* the events waiting, oldest first
          sequence,     \* the number of the last event accepted
          reply         \* the last event the host fetched, in a sequence; <<>> at first

vars == <<queue, sequence, reply>>

Init ==
    /\ queue = <<>>
    /\ sequence = 0
    /\ reply = <<>>

Put(p) ==
    /\ Len(queue) < Capacity
    /\ sequence' = sequence + 1
    /\ queue' = Append(queue, [payload |-> p, sequence |-> sequence'])
    /\ UNCHANGED reply

Get ==
    /\ queue # <<>>
    /\ reply' = <<Head(queue)>>
    /\ queue' = Tail(queue)
    /\ UNCHANGED sequence

Next == Get \/ \E p \in Payload : Put(p)

Spec == Init /\ [][Next]_vars
=============================================================================
