------------------------- MODULE MCBoundedWorkerPool -------------------------
(* TLC instances of BoundedWorkerPool.                                     *)
EXTENDS BoundedWorkerPool, TLC

\* Threads and tasks are interchangeable; used by the safety runs only.
Symmetry == Permutations(Workers) \cup Permutations(Clients)
              \cup Permutations(Closers) \cup Permutations(Tasks)
==============================================================================
