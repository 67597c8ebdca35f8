---------------------------- MODULE BoundedFIFO ----------------------------
(***************************************************************************)
(* What the ring buffer shared by the kernel and a process promises: a     *)
(* first-in first-out queue of at most Limit elements with one producer    *)
(* and one consumer.  Every operation takes effect in one step.            *)
(***************************************************************************)
EXTENDS Naturals, Sequences

CONSTANTS Elements,  \* what the producer may append
          Nothing,   \* what the consumer is told when the queue is empty
          Limit      \* the number of elements the queue can hold

VARIABLES queue,     \* the elements appended and not yet removed
          accepted,  \* the answer to the producer's last append
          received   \* the consumer's last look at the first element

fifoVars == <<queue, accepted, received>>

FifoInit ==
    /\ queue = << >>
    /\ accepted = FALSE
    /\ received = Nothing

(* The producer appends an element, or is told that there is no room.      *)
Put(e) ==
    /\ Len(queue) < Limit
    /\ queue' = Append(queue, e)
    /\ accepted' = TRUE
    /\ UNCHANGED received

Refuse ==
    /\ Len(queue) = Limit
    /\ accepted' = FALSE
    /\ UNCHANGED <<queue, received>>

(* The consumer looks at the first element, finds the queue empty, or      *)
(* removes the element it has looked at.                                   *)
Peek ==
    /\ queue # << >>
    /\ received' = Head(queue)
    /\ UNCHANGED <<queue, accepted>>

PeekNothing ==
    /\ queue = << >>
    /\ received' = Nothing
    /\ UNCHANGED <<queue, accepted>>

Remove ==
    /\ queue # << >>
    /\ received = Head(queue)
    /\ queue' = Tail(queue)
    /\ UNCHANGED <<accepted, received>>

FifoNext ==
    \/ \E e \in Elements : Put(e)
    \/ Refuse
    \/ Peek
    \/ PeekNothing
    \/ Remove

FifoSpec == FifoInit /\ [][FifoNext]_fifoVars
=============================================================================
