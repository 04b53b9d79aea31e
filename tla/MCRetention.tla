---------------------------- MODULE MCRetention ----------------------------
\* Instances of Retention for TLC: the environments its runs choose from.
EXTENDS Retention

Failures      == {"sealFault", "copyFault", "checkpointFault", "removeFault"}
WindowCrashes == {"sealCrash", "resumeCrash", "rollbackCrash"}

\* Everything may fail but the reading of a sealed segment, and the process may
\* die outside the three windows; everything may fail, and it may die anywhere.
SoundAndNot == {Failures \cup {"crash"},
                Failures \cup {"crash", "inventoryFault"} \cup WindowCrashes}

\* Nothing fails, or the operations of a rotation do.
RetriesNeeded == {{}, Failures \ {"sealFault"}}

OnlySealCrash == {{"sealCrash"}}
=============================================================================
