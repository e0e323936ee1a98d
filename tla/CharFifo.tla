------------------------------ MODULE CharFifo ------------------------------
(***************************************************************************)
(* What the keyboard buffer promises: a first-in first-out queue of at     *)
(* most Capacity characters.  A character typed into a full queue is       *)
(* dropped; every other one is delivered once, in the order typed.         *)
(***************************************************************************)
EXTENDS Naturals, Sequences

CONSTANTS Char, Capacity

VARIABLES
  queue,  \* characters typed and not yet read
  last    \* sequence of at most one character: the one read last

FifoInit == queue = << >> /\ last = << >>

Put(c) ==
  /\ Len(queue) < Capacity
  /\ queue' = Append(queue, c)
  /\ UNCHANGED last

Get ==
  /\ queue # << >>
  /\ last' = <<Head(queue)>>
  /\ queue' = Tail(queue)

FifoNext == Get \/ \E c \in Char : Put(c)

FifoSpec == FifoInit /\ [][FifoNext]_<<queue, last>>

=============================================================================
