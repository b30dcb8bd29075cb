--------------------------- MODULE MCCronRunQueue ---------------------------
EXTENDS CronRunQueue, TLC

CONSTANTS A, B, s1, s2

OnePerSpec == [s \in Specs |-> 1]
NoTimeout == [s \in Specs |-> 0]
ShortTimeout == [s \in Specs |-> 1]
RunnerSymmetry == Permutations(Runners)
SpecSymmetry == Permutations(Specs)
=============================================================================
