------------------------------ MODULE MCFiles -------------------------------
EXTENDS Files, TLC

CONSTANTS shell, p1, n1, n2

Symmetry == Permutations({n1, n2})

\* Bound: once a fork has shared a file and another one was opened since, no
\* step is taken from a state with a file that has been
\* appended to.
SmallOnceShared == after = 0 => \A a \in INode : inode[a].secs <= 2
=============================================================================
