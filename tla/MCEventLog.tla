------------------------------ MODULE MCEventLog ------------------------------
(* Two producers, two engines, three events; the clock passes from one second   *)
(* to the next, with a fraction in each.                                        *)
EXTENDS EventLog, TLC

Symmetry == Permutations(Event) \union Permutations(Producer) \union Permutations(Engine)
==============================================================================
