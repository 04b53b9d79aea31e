---------------------------- MODULE MCHotMargin -----------------------------
(* Instances of HotMargin for TLC. *)
EXTENDS HotMargin

\* Every policy that NewPolicy accepts with a ceiling of at most 5, and every
\* tick interval up to 4: those on both sides of MarginSuffices.
MCPolicies == [hotMax : 0..5, seal : 0..5, tick : 0..4]

MCEnvironments ==
  { {}, {"rotateFails"}, {"sealFails", "rotateFails", "removeFails"},
    {"emitFails", "rotateFails"}, FaultKinds }
=============================================================================
