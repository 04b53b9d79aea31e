---------------------------- MODULE MCPolicyPin ----------------------------
(* PolicyPin on a small instance.                                          *)
EXTENDS PolicyPin

\* Floors and seal intervals on both sides of what NewPolicy accepts.
SmallPolicies == [floor : {6, 7, 8, 9}, hotMax : {2, 3, 4}, seal : {1, 2}]

SoundAndNot == {{"crash"}, FailureKinds}
=============================================================================
