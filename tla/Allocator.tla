------------------------------ MODULE Allocator ------------------------------
(***************************************************************************)
(* What malloc and free promise: in each address space, the bytes of a     *)
(* block belong to no other block from malloc to free.  A new process has  *)
(* the blocks of its parent, a new program has none.                       *)
(***************************************************************************)
EXTENDS Integers

CONSTANTS
  Space,    \* address spaces
  Memory,   \* addresses are below it
  Sizes     \* bytes programs ask for

VARIABLE held   \* in each space the blocks, <<first byte, byte after the last>>

Apart(a, b) == a[2] <= b[1] \/ b[2] <= a[1]

AllocInit == held = [s \in Space |-> {}]

\* The new block is as large as was asked for and apart from the others.
Malloc(s) ==
  \E b \in held'[s] \ held[s] :
    /\ b[1] >= 0 /\ b[2] <= Memory /\ b[2] - b[1] \in Sizes
    /\ \A c \in held[s] : Apart(b, c)
    /\ held' = [held EXCEPT ![s] = @ \cup {b}]

Free(s) == \E b \in held[s] : held' = [held EXCEPT ![s] = @ \ {b}]

Fork(s, c) == held' = [held EXCEPT ![c] = held[s]]
Exec(s) == held' = [held EXCEPT ![s] = {}]

AllocNext ==
  \E s \in Space :
    \/ Malloc(s) \/ Free(s) \/ Exec(s)
    \/ \E c \in Space : Fork(s, c)

AllocSpec == AllocInit /\ [][AllocNext]_held
=============================================================================
