----------------------------- MODULE DurableLog -----------------------------
(***************************************************************************)
(* What the audit store promises: one append-only log in which every       *)
(* source's records are chained, in which stamps do not regress, and a set *)
(* of acknowledgements, each for a record of the log, none ever withdrawn. *)
(* There are no processes, files, caches or crashes here.                  *)
(***************************************************************************)
EXTENDS HashChain

CONSTANT Sources

VARIABLES log,    \* committed records, in commit order
          acked   \* (source, sequence) keys that were acknowledged

Init == log = << >> /\ acked = {}

\* One record joins the end of the log; its source may learn of it at once.
Commit ==
  /\ Len(log') = Len(log) + 1
  /\ SubSeq(log', 1, Len(log)) = log
  /\ LET rec == log'[Len(log')]
     IN  /\ rec.source \in Sources
         /\ Extends(TipAt(log, Len(log), rec.source, Genesis(Sources)), rec)
         /\ \A t \in TimesOf(log) : t <= rec.time
         /\ acked' \in {acked, acked \cup {<<rec.source, rec.seq>>}}

\* A replay of a committed event is acknowledged.
Acknowledge ==
  /\ \E key \in KeysOf(log) : acked' = acked \cup {key}
  /\ UNCHANGED log

Next == Commit \/ Acknowledge

Spec == Init /\ [][Next]_<<log, acked>>
=============================================================================
