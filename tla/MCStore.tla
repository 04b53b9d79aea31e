------------------------------ MODULE MCStore ------------------------------
\* Instances of Store for TLC.  Sources are interchangeable: no definition
\* orders them or singles one out.
EXTENDS Store

SourceSymmetry == Permutations(Sources)
=============================================================================
