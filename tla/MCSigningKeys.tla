---------------------------- MODULE MCSigningKeys ----------------------------
\* The instance of SigningKeys that is model-checked.
EXTENDS SigningKeys, TLC

CONSTANTS p1, p2, r1

Processes == {p1, p2}
OneRotator == {p1}
OnePrinciple == {r1}
==============================================================================
