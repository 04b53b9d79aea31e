----------------------------- MODULE MCEdgeTail -----------------------------
(* Instances of EdgeTail for TLC. *)
EXTENDS EdgeTail

MCWidth == [good |-> 2, poison |-> 1, deny |-> 1]

MCEnvironments ==
  { {},
    {"crash", "persistFault", "refused", "lostAnswer", "rotate"},
    {"crash", "persistFault", "lostCursor", "lostAnswer"},
    {"crash", "anchored", "refused"},
    {"crash", "preAuth", "lostAnswer", "rotate"},
    {"crash", "persistFault", "lostAnswer", "rotateUnread"},
    FaultKinds }

\* A deny before authentication, and nothing else goes wrong.
MCDeny == { {"preAuth"} }
=============================================================================
