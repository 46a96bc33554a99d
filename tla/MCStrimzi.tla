------------------------------ MODULE MCStrimzi ------------------------------
EXTENDS StrimziResolution, TLC

\* Listener names are only compared for equality.
NameSymmetry == Permutations(Names)
=============================================================================
