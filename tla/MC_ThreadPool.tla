----------------------------- MODULE MC_ThreadPool -----------------------------
(* Small instances of the thread pool for TLC.                                *)
EXTENDS ThreadPool, TLC

\* Threads and operations are interchangeable: sound for the safety run only.
Symmetry == Permutations(Workers) \cup Permutations(Ops)
===============================================================================
