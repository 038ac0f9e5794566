---------------------------- MODULE MCConfigPair ----------------------------
EXTENDS ConfigPair, TLC

\* The editors are alike.

Anybody == Permutations(Editors)
=============================================================================
