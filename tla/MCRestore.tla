------------------------------ MODULE MCRestore ------------------------------
EXTENDS RestoreRefinement
=============================================================================
