------------------------ MODULE MCExperienceMemory ------------------------
(* Small instances of ExperienceMemory for TLC.                            *)
EXTENDS ExperienceMemory, TLC

CONSTANTS h1, h2, h3, a, b

Symmetry == Permutations(Handler) \cup Permutations(Id)
=============================================================================
