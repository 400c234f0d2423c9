---------------------------- MODULE MCScheduler -----------------------------
(* Three processes, two priorities, rings of three entries: every head      *)
(* position with every fill, so each operation also happens across the end. *)
EXTENDS Scheduler, TLC

\* No operation depends on the order of process ids.
ProcessSymmetry == Permutations(Process)

\* The multiplication and the table find the best priority of any mask: its
\* lowest bit.  All masks of up to three bits; isolating the lowest does not
\* depend on those above it.
ASSUME FindsTheLowest ==
  \A a \in 0 .. 31 : \A b \in a .. 31 : \A c \in b .. 31 : Lowest({a, b, c}) = a
=============================================================================
