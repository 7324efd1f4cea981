------------------------------- MODULE MCMpmc -------------------------------
(* TLC instance of MpmcCorrect: threads and objects are model values.       *)
EXTENDS MpmcCorrect, TLC

\* Threads of one side are interchangeable, and so are the objects.  Used by
\* the runs that check no liveness.
Symmetry ==
    Permutations(Producers) \cup Permutations(Consumers) \cup Permutations(Values)
=============================================================================
