------------------------------- MODULE MCDag -------------------------------
\* Both graph algorithms on every graph over three tasks and one unknown name.
EXTENDS GraphChecks

CONSTANTS t1, t2, t3, u1

MCTask == {t1, t2, t3}
MCUnknown == {u1}
=============================================================================
