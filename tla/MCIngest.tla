------------------------------ MODULE MCIngest ------------------------------
\* Instances of Ingest for TLC: the environments its runs choose from.
EXTENDS Ingest

\* Everything but the steps of the clock; everything but the orders of steps in
\* which a report or a record gets lost; and boots that forget.
Mixed == {FaultKinds \ {"clockStep", "forgetful"},
          FaultKinds \ {"overtaken", "emitRace", "forgetful"},
          {"commitFault", "lostAnswer", "restart", "forgetful"}}
=============================================================================
