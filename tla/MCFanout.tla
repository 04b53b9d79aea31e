------------------------------ MODULE MCFanout ------------------------------
\* Instances of Fanout for TLC: the environments its runs choose from.
EXTENDS Fanout

\* Half-written lines alone; every fault that leaves lines whole; all of them
\* that leave the cursor intact; and all in which every gap is evidenced and
\* every delivery remembered.
WholeLines == FaultKinds \ {"tornLine"}
Mixed ==
  {{"tornLine"},
   WholeLines,
   WholeLines \ {"cursorFault", "lostCursor"},
   WholeLines \ {"lostCursor", "emitFault", "evidenceCrash", "deliveryCrash"}}
=============================================================================
