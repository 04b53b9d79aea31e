------------------------------ MODULE EdgeTail ------------------------------
(***************************************************************************)
(* The edge tailer (internal/edgetail, cmd/ocu-audit-edgetail) with the    *)
(* publish client it delivers through (pkg/publish) and what the ingest    *)
(* makes of its requests.  It follows the access log of the edge by byte   *)
(* offset, publishes each complete line under the next sequence number,    *)
(* and records {offset, sequence} after each.  The log is written a piece  *)
(* at a time and is rotated; the tailer crashes, its cursor write fails,   *)
(* requests are refused and answers lost; the ingest daemon restarts.      *)
(*                                                                         *)
(* A line is its number in the order of writing; the log is a sequence of  *)
(* cells <<line, place>>, a few per line, the last of which holds the      *)
(* newline.  What a line says is reduced to its kind:                      *)
(*   good   - the ingest accepts it                                        *)
(*   poison - Convert fails                                                *)
(*   deny   - a deny before authentication: Convert passes the empty       *)
(*            session on, and PublishEnvelope.validate refuses it (400)    *)
(***************************************************************************)
EXTENDS Integers, Sequences

CONSTANTS Width,         \* the cells of a line of each kind
          Environments,  \* sets of faults; a behaviour has one of them
          MaxLines,      \* bound: lines the edge writes
          MaxRotations,  \* bound: rotations of the log
          MaxRestarts    \* bound: restarts of the tailer

Kinds == {"good", "poison", "deny"}

\* A restart of the tailer at any point; a cursor write that fails; a cursor
\* that is gone at a restart; a request refused with 429, 503 or in transport;
\* an answer that is lost; an anchored boot of the ingest; denies in the log;
\* a rotation once the log is read; one at any time; and a new log that has
\* outgrown the offset when the tailer first sees it.
FaultKinds == {"crash", "persistFault", "lostCursor", "refused", "lostAnswer",
               "anchored", "preAuth", "rotate", "rotateUnread", "regrow"}

ASSUME EdgeTailAssumption ==
  /\ Width \in [Kinds -> Nat \ {0}]
  /\ Environments \subseteq SUBSET FaultKinds
  /\ MaxLines \in Nat /\ MaxRotations \in Nat /\ MaxRestarts \in Nat

VARIABLES
  faults,     \* what can go wrong; never changes
  \* the edge
  kind,       \* the kinds of the lines begun so far
  log,        \* the cells of the file at logPath
  \* the tailer
  cur,        \* Tailer.cur
  cursor,     \* the file at cursorPath
  pc,         \* where RunOnce is: "idle" (not running), "read", "publish", "advance"
  old,        \* the file RunOnce has open, when it is not the one at logPath
  detached,   \* that is so
  line,       \* the line it publishes
  next,       \* the offset after that line
  \* the ingest
  chain,      \* the records of the egress-edge channel: [seq, line]
  forgotten,  \* how many of them are not in the store's dedupe set
  \* history
  stale,      \* which of cur and cursor is an offset of an earlier log
  rotations,
  restarts

edge    == <<kind, log>>
run     == <<pc, old, detached, line, next>>
ingest  == <<chain, forgotten>>
history == <<stale, rotations, restarts>>
vars    == <<faults, edge, cur, cursor, run, ingest, history>>

Genesis == [offset |-> 0, sequence |-> 0]
NoLine  == 0

Newline(cell) == cell[2] = Width[kind[cell[1]]]

-----------------------------------------------------------------------------
(* The edge writes its access log. *)

Unfinished == Len(log) > 0 /\ ~Newline(log[Len(log)])

\* The log stays shorter than an offset that a rotation made stale.
StaysShort ==
  /\ "cur" \in stale => Len(log) + 1 < cur.offset
  /\ "cursor" \in stale => Len(log) + 1 < cursor.offset

BeginsLine(k) ==
  /\ Len(kind) < MaxLines /\ ~Unfinished
  /\ k = "deny" => "preAuth" \in faults
  /\ StaysShort \/ "regrow" \in faults
  /\ kind' = Append(kind, k)
  /\ log' = Append(log, <<Len(kind) + 1, 1>>)
  /\ UNCHANGED <<faults, cur, cursor, run, ingest, history>>

ContinuesLine ==
  /\ Unfinished
  /\ StaysShort \/ "regrow" \in faults
  /\ log' = Append(log, <<log[Len(log)][1], log[Len(log)][2] + 1>>)
  /\ UNCHANGED <<faults, kind, cur, cursor, run, ingest, history>>

\* The tailer has read the log and recorded that it has.
Drained == cur.offset = Len(log) /\ cursor.offset = Len(log) /\ pc \in {"idle", "read"}

\* The log is moved away, and a RunOnce that has it open goes on in it; or it
\* is truncated under its reader.  The edge writes a line to one file.
Rotates ==
  /\ rotations < MaxRotations /\ Len(log) > 0 /\ ~Unfinished
  /\ "rotateUnread" \in faults \/ ("rotate" \in faults /\ stale = {} /\ Drained)
  /\ \/ pc # "idle" /\ ~detached /\ detached' = TRUE /\ old' = log
     \/ UNCHANGED <<old, detached>>
  /\ log' = <<>>
  /\ stale' = {x \in {"cur", "cursor"} :
                 IF x = "cur" THEN cur.offset > 0 \/ pc # "idle" ELSE cursor.offset > 0}
  /\ rotations' = rotations + 1
  /\ UNCHANGED <<faults, kind, cur, cursor, pc, line, next, ingest, restarts>>

-----------------------------------------------------------------------------
(* RunOnce. *)

\* persist: temp file and rename, so that the cursor is the old or the new one.
Persisted ==
  /\ cursor' = cur'
  /\ stale' = IF "cur" \in stale THEN {"cur", "cursor"} ELSE {}

PersistFails == "persistFault" \in faults /\ UNCHANGED cursor

\* Run returns, and the file is closed.
Returns ==
  /\ pc' = "idle" /\ old' = <<>> /\ detached' = FALSE
  /\ line' = NoLine /\ next' = 0

\* Seeded fault: a rotation is not looked for.
OpensAnything ==
  /\ pc = "idle"
  /\ pc' = "read"
  /\ UNCHANGED <<cur, cursor>> /\ stale' = stale \ {"cur"}
  /\ UNCHANGED <<faults, edge, old, detached, line, next, ingest, rotations, restarts>>

\* Open, Stat and Seek: a file shorter than the offset was rotated.
Opens ==
  /\ pc = "idle"
  /\ pc' = "read"
  /\ IF Len(log) < cur.offset
     THEN /\ cur' = [cur EXCEPT !.offset = 0]
          /\ \/ cursor' = cur' /\ stale' = {}
             \/ PersistFails /\ stale' = stale \ {"cur"}
     ELSE UNCHANGED <<cur, cursor>> /\ stale' = stale \ {"cur"}
  /\ UNCHANGED <<faults, edge, old, detached, line, next, ingest, rotations, restarts>>

File == IF detached THEN old ELSE log

\* The offsets after the lines that can be read from the current one on.
LineEnds == {i \in (cur.offset + 1)..Len(File) : Newline(File[i])}

NextEnd == CHOOSE i \in LineEnds : \A j \in LineEnds : i <= j

\* Convert: a fragment of a line does not decode.
Converts(first, last) ==
  /\ File[first][2] = 1
  /\ kind[File[first][1]] # "poison"

\* End of file, or a torn line at it: wait for the writer.
ReadsNothing ==
  /\ pc = "read" /\ LineEnds = {}
  /\ Returns
  /\ UNCHANGED <<faults, edge, cur, cursor, ingest, history>>

SkipsLine ==
  /\ pc = "read" /\ LineEnds # {} /\ ~Converts(cur.offset + 1, NextEnd)
  /\ cur' = [cur EXCEPT !.offset = NextEnd]
  /\ Persisted \/ (PersistFails /\ UNCHANGED stale)
  /\ UNCHANGED <<faults, edge, run, ingest, rotations, restarts>>

\* Seeded fault: the cursor is written before the line is published.
ReadsLineAhead ==
  /\ pc = "read" /\ LineEnds # {} /\ Converts(cur.offset + 1, NextEnd)
  /\ pc' = "publish" /\ line' = File[cur.offset + 1][1] /\ next' = NextEnd
  /\ cursor' = [cur EXCEPT !.offset = NextEnd]
  /\ UNCHANGED <<faults, edge, cur, old, detached, ingest, history>>

ReadsLine ==
  /\ pc = "read" /\ LineEnds # {} /\ Converts(cur.offset + 1, NextEnd)
  /\ pc' = "publish" /\ line' = File[cur.offset + 1][1] /\ next' = NextEnd
  /\ UNCHANGED <<faults, edge, cur, cursor, old, detached, ingest, history>>

-----------------------------------------------------------------------------
(* Publish: nil on a 200 only. *)

Last == IF chain = <<>> THEN 0 ELSE chain[Len(chain)].seq

\* In the dedupe set of the store.
Seen(s) == \E i \in (forgotten + 1)..Len(chain) : chain[i].seq = s

Minted == cur.sequence + 1

\* Seeded fault: the sequence of a refused request is not used again.
RefusedForGood ==
  /\ pc = "publish"
  /\ \/ "refused" \in faults
     \/ kind[line] = "deny"
     \/ ~Seen(Minted) /\ Minted <= Last
  /\ cur' = [cur EXCEPT !.sequence = @ + 1]
  /\ Returns
  /\ UNCHANGED <<faults, edge, cursor, ingest, history>>

\* A refusal of whatever status, or no answer: RunOnce returns, and the next
\* one publishes the line again under the same sequence.
Refused ==
  /\ pc = "publish"
  /\ \/ "refused" \in faults                \* 429, 503, transport
     \/ kind[line] = "deny"                 \* 400
     \/ ~Seen(Minted) /\ Minted <= Last     \* 409
  /\ Returns
  /\ UNCHANGED <<faults, edge, cur, cursor, ingest, history>>

\* Store.Admit: a sequence it has seen is acknowledged without a second record.
Admits ==
  /\ kind[line] # "deny"
  /\ \/ Seen(Minted) /\ UNCHANGED chain
     \/ Minted > Last /\ chain' = Append(chain, [seq |-> Minted, line |-> line])
  /\ UNCHANGED forgotten

Acknowledged ==
  /\ pc = "publish"
  /\ Admits
  /\ pc' = "advance"
  /\ UNCHANGED <<faults, edge, cur, cursor, old, detached, line, next, history>>

\* Seeded fault: a line that was not acknowledged takes a new sequence.
AnswerLostForGood ==
  /\ "lostAnswer" \in faults /\ pc = "publish"
  /\ Admits
  /\ cur' = [cur EXCEPT !.sequence = @ + 1]
  /\ Returns
  /\ UNCHANGED <<faults, edge, cursor, history>>

AnswerLost ==
  /\ "lostAnswer" \in faults /\ pc = "publish"
  /\ Admits
  /\ Returns
  /\ UNCHANGED <<faults, edge, cur, cursor, history>>

\* The line is behind the tailer.  If the cursor cannot be written the run ends.
Advances ==
  /\ pc = "advance"
  /\ cur' = [offset |-> next, sequence |-> cur.sequence + 1]
  /\ \/ /\ Persisted
        /\ pc' = "read" /\ line' = NoLine /\ next' = 0
        /\ UNCHANGED <<old, detached>>
     \/ PersistFails /\ Returns /\ UNCHANGED stale
  /\ UNCHANGED <<faults, edge, ingest, rotations, restarts>>

-----------------------------------------------------------------------------
(* Restarts. *)

\* The tailer stops at any point; NewTailer loads the cursor.
Restarts ==
  /\ "crash" \in faults /\ restarts < MaxRestarts
  /\ \/ UNCHANGED cursor /\ stale' = IF "cursor" \in stale THEN {"cur", "cursor"} ELSE {}
     \/ "lostCursor" \in faults /\ cursor' = Genesis /\ stale' = {}
  /\ cur' = cursor'
  /\ Returns
  /\ restarts' = restarts + 1
  /\ UNCHANGED <<faults, edge, ingest, rotations>>

\* RecoverAnchored replays the segments of the hot tier: the dedupe set does
\* not have the sequences of the others, the last sequence is that of the log.
IngestForgets ==
  /\ "anchored" \in faults
  /\ \E n \in (forgotten + 1)..Len(chain) : forgotten' = n
  /\ UNCHANGED <<faults, edge, cur, cursor, run, chain, history>>

-----------------------------------------------------------------------------
Init ==
  /\ faults \in Environments
  /\ kind = <<>> /\ log = <<>>
  /\ cur = Genesis /\ cursor = Genesis
  /\ pc = "idle" /\ old = <<>> /\ detached = FALSE /\ line = NoLine /\ next = 0
  /\ chain = <<>> /\ forgotten = 0
  /\ stale = {} /\ rotations = 0 /\ restarts = 0

Edge    == (\E k \in Kinds : BeginsLine(k)) \/ ContinuesLine \/ Rotates
RunOnce == Opens \/ ReadsNothing \/ SkipsLine \/ ReadsLine \/ Advances
Publish == Refused \/ Acknowledged \/ AnswerLost

Next == Edge \/ RunOnce \/ Publish \/ Restarts \/ IngestForgets

Spec == Init /\ [][Next]_vars

-----------------------------------------------------------------------------
Cells(s) == \A i \in 1..Len(s) : s[i][1] \in 1..Len(kind) /\ s[i][2] \in 1..Width[kind[s[i][1]]]

TypeOK ==
  /\ faults \in Environments
  /\ kind \in Seq(Kinds) /\ Len(kind) <= MaxLines
  /\ Cells(log) /\ Cells(old)
  /\ cur \in [offset : Nat, sequence : 0..MaxLines]
  /\ cursor \in [offset : Nat, sequence : 0..MaxLines]
  /\ pc \in {"idle", "read", "publish", "advance"}
  /\ detached \in BOOLEAN /\ stale \subseteq {"cur", "cursor"}
  /\ line \in 0..Len(kind) /\ next \in Nat
  /\ chain \in Seq([seq : 1..MaxLines, line : 1..Len(kind)])
  /\ forgotten \in 0..Len(chain)
  /\ rotations \in 0..MaxRotations /\ restarts \in 0..MaxRestarts

Without(kinds) == faults \cap kinds = {}

\* No lines are lost to the rotations themselves, nor is the sequence.
Lossless ==
  /\ Without({"rotateUnread", "regrow"})
  /\ Without({"rotate"}) \/ Without({"lostCursor"})

Committed(l) == \E i \in 1..Len(chain) : chain[i].line = l

\* The durable cursor is past line l.  A run over a log that is shorter than
\* the cursor's offset starts at its beginning.
Behind(l) ==
  \A i \in 1..Len(log) : log[i][1] = l => i <= cursor.offset /\ cursor.offset <= Len(log)

Finished(l) == (l = Len(kind)) => ~Unfinished

\* tail.go:53-56: at least once.  A line that the durable cursor has passed is
\* committed unless it was malformed: across restarts, failed cursor writes,
\* lost answers, a lost cursor, and rotations that find the log read.
LinesAccountedFor ==
  Lossless => \A l \in 1..Len(kind) :
    Finished(l) /\ Behind(l) => kind[l] = "poison" \/ Committed(l)

\* tail.go:84-86, publish.go:129-130: a line is published again under the same
\* sequence, and the ingest tells the repetition from a new event.  Whatever
\* goes wrong, the channel's sequence has no gap; and unless a rotation passes
\* unnoticed, the lines were committed in the order of writing, none twice.
CommittedOnceInOrder ==
  \A i \in 1..Len(chain) :
    /\ chain[i].seq = i
    /\ Without({"regrow"}) => \A j \in 1..(i - 1) : chain[j].line < chain[i].line

(***************************************************************************)
(* Progress.  The ticker calls RunOnce again and again, its steps are      *)
(* taken, and requests are not refused for ever.                           *)
(***************************************************************************)
Fairness ==
  /\ WF_vars(RunOnce)
  /\ WF_vars(Publish)
  /\ SF_vars(Acknowledged)

FairSpec == Spec /\ Fairness

\* The ingest can tell a repetition for as long as it takes.
Remembers == Without({"anchored"}) \/ Without({"crash", "lostAnswer"})

Bridged == \A l \in 1..Len(kind) : Finished(l) => kind[l] = "poison" \/ Committed(l)

\* tail.go:77-79: the bridge does not wedge: it catches up with the log.
EverythingBridged == Lossless /\ Remembers /\ Without({"preAuth"}) => []<>Bridged

\* tail.go:94-95, tail_test.go:176-178: a line that cannot be delivered does not
\* hold up the bridge.  (It does: MCEdgeTail_deny.cfg.)
NothingHoldsUpBridge ==
  []<>(\A l \in 1..Len(kind) : Finished(l) /\ kind[l] = "good" => Committed(l))
=============================================================================
