----------------------------- MODULE MCRetention -----------------------------
EXTENDS Retention
=============================================================================
