--------------------------- MODULE RuntimePublication ---------------------------
(***************************************************************************)
(* scripts/production_run.py and scripts/runtime_generation.py: one run of *)
(* the production runner executes a cycle, which writes order intents to   *)
(* performance.json, reads the broker once more, and replaces              *)
(* performance.json, positions.json and production/last_run.json, in that  *)
(* order, by a new generation.  A reader believes the three files only     *)
(* when the last one commits the exact bytes of the other two.  Any step   *)
(* may raise, the process may be killed between any two of them, and the   *)
(* next run finds whatever files were left.                                *)
(*                                                                         *)
(* The SHA-256 digest of a file is the file itself, and generation IDs are *)
(* numbered in the order they are drawn (UUIDs do not repeat; 0 is none).  *)
(***************************************************************************)
EXTENDS Naturals

CONSTANTS MaxRuns, MaxIntents, MaxFaults    \* bounds of the runs TLC explores

ASSUME BoundsAssumption == MaxRuns \in Nat /\ MaxIntents \in Nat /\ MaxFaults \in Nat

VARIABLES
  perf,      \* performance.json: its generation, the intents reserved in it,
             \* and the run whose broker snapshot it shows
  positions, \* positions.json
  lastRun,   \* production/last_run.json
  pc, run,   \* the runner and its locals
  issued,    \* generation IDs drawn so far
  reserved,  \* intents ever written to disk
  returned,  \* runs whose execution ended without an exception
  faults, raised   \* failures so far, and calls that raised in this run

files == <<perf, positions, lastRun>>
ghosts == <<reserved, returned>>
bounds == <<faults, raised>>
vars == <<files, pc, run, issued, ghosts, bounds>>

Statuses == {"PASS", "DEGRADED", "FAIL"}
Performance == [gen : Nat, intents : Nat, snapshot : Nat]
Positions == [gen : Nat, snapshot : Nat]
Records == [gen : Nat, run : Nat, status : Statuses, snapshotStatus : {"fresh", "recovery"},
            performance : Performance, positions : Positions]
Locals == [id : 0 .. MaxRuns, broker : BOOLEAN, status : Statuses,
           snapshotStatus : {"fresh", "recovery"}, gen : Nat,
           performance : Performance, positions : Positions, retry : BOOLEAN]
NoFile == [gen |-> 0, intents |-> 0, snapshot |-> 0]

(***************************************************************************)
(* What a reader accepts.                                                  *)
(***************************************************************************)
\* The three files as they are read.
Bundle == [performance |-> perf, positions |-> positions, lastRun |-> lastRun]

\* (mutant) the generation IDs are compared, the digests are not
IdsOnly(f) ==
  /\ f.lastRun.gen # 0
  /\ f.performance.gen = f.lastRun.gen /\ f.positions.gen = f.lastRun.gen
  /\ f.lastRun.snapshotStatus = "recovery" => f.lastRun.status = "FAIL"
  /\ f.lastRun.snapshotStatus = "fresh" => f.performance.snapshot = f.positions.snapshot

\* validate_runtime_generation with require_generation
ValidGeneration(f) ==
  /\ f.lastRun.gen # 0
  /\ f.performance.gen = f.lastRun.gen /\ f.positions.gen = f.lastRun.gen
  /\ f.lastRun.performance = f.performance /\ f.lastRun.positions = f.positions
  /\ f.lastRun.snapshotStatus = "recovery" => f.lastRun.status = "FAIL"
  /\ f.lastRun.snapshotStatus = "fresh" => f.performance.snapshot = f.positions.snapshot

Verified == ValidGeneration(Bundle)
\* ... and require_current_run
VerifiedNow == Verified /\ lastRun.run = run.id

(***************************************************************************)
(* A run.                                                                  *)
(***************************************************************************)
\* Files of a release that knew no generations.
Init ==
  /\ perf = NoFile
  /\ positions = [gen |-> 0, snapshot |-> 0]
  /\ lastRun = [gen |-> 0, run |-> 0, status |-> "PASS", snapshotStatus |-> "fresh",
                performance |-> NoFile, positions |-> [gen |-> 0, snapshot |-> 0]]
  /\ pc = "refused"
  /\ run = [id |-> 0, broker |-> FALSE, status |-> "FAIL", snapshotStatus |-> "fresh",
            gen |-> 0, performance |-> NoFile,
            positions |-> [gen |-> 0, snapshot |-> 0], retry |-> FALSE]
  /\ issued = 0 /\ reserved = 0 /\ returned = {}
  /\ faults = 0 /\ raised = 0

\* A run is over when it has published, was refused, or was killed.
Idle == pc \in {"ended", "refused", "killed"} /\ run.id < MaxRuns
Running == pc \notin {"ended", "refused", "killed"}

Raises(n) == faults + n <= MaxFaults /\ faults' = faults + n /\ raised' = raised + n
Raise == Raises(1)

\* The release and the workflow run are captured, and the broker is resolved;
\* a refused context ends the run at once, a refused broker skips the execution.
StartRun ==
  /\ Idle
  /\ run' = [run EXCEPT !.id = @ + 1, !.broker = TRUE, !.status = "FAIL",
                        !.snapshotStatus = "fresh", !.retry = FALSE]
  /\ pc' = "execute"
  /\ raised' = 0
  /\ UNCHANGED <<files, issued, ghosts, faults>>

ContextRefused ==
  /\ Idle
  /\ faults < MaxFaults /\ faults' = faults + 1 /\ raised' = 1
  /\ run' = [run EXCEPT !.id = @ + 1]
  /\ pc' = "refused"
  /\ UNCHANGED <<files, issued, ghosts>>

BrokerRefused ==
  /\ Idle
  /\ faults < MaxFaults /\ faults' = faults + 1 /\ raised' = 1
  /\ run' = [run EXCEPT !.id = @ + 1, !.broker = FALSE, !.status = "FAIL",
                        !.snapshotStatus = "fresh", !.retry = FALSE]
  /\ pc' = "snapshot"
  /\ UNCHANGED <<files, issued, ghosts>>

\* The executor reserves an order: performance.json is replaced atomically and
\* keeps the generation ID it had.
PersistIntent ==
  /\ pc = "execute" /\ reserved < MaxIntents
  /\ perf' = [perf EXCEPT !.intents = @ + 1]
  /\ reserved' = reserved + 1
  /\ UNCHANGED <<positions, lastRun, pc, run, issued, returned, bounds>>

ExecutionReturns ==
  /\ pc = "execute"
  /\ \E status \in Statuses : run' = [run EXCEPT !.status = status]
  /\ pc' = "snapshot"
  /\ returned' = returned \cup {run.id}
  /\ UNCHANGED <<files, issued, reserved, bounds>>

ExecutionRaises ==
  /\ pc = "execute"
  /\ Raise
  /\ pc' = "snapshot"
  /\ UNCHANGED <<files, run, issued, ghosts>>

(***************************************************************************)
(* Publication.  Prepare draws the new generation ID and stages the bytes; *)
(* p and q are the snapshots to publish.                                   *)
(***************************************************************************)
Prepare(r, p, q) ==
  /\ issued' = issued + 1
  /\ run' = [r EXCEPT !.gen = issued + 1,
                      !.performance = [p EXCEPT !.gen = issued + 1],
                      !.positions = [q EXCEPT !.gen = issued + 1]]
  /\ pc' = "performance"

\* A fresh snapshot changes what performance.json shows of the account and
\* keeps every other field of the file on disk.
CaptureSnapshot ==
  /\ pc = "snapshot" /\ run.broker
  /\ Prepare(run, [perf EXCEPT !.snapshot = run.id], [positions EXCEPT !.snapshot = run.id])
  /\ UNCHANGED <<files, ghosts, bounds>>

AsRecovery(r) == [r EXCEPT !.status = "FAIL", !.snapshotStatus = "recovery"]

\* (mutant) a failed refresh publishes the files on disk as if they were fresh
RelabelAsFresh ==
  /\ pc = "snapshot"
  /\ Raises(IF run.broker THEN 1 ELSE 0)
  /\ Prepare(run, perf, positions)
  /\ UNCHANGED <<files, ghosts>>

\* (mutant) a failed refresh goes back to the last files this runner published
RestoreOlder ==
  /\ pc = "snapshot"
  /\ Raises(IF run.broker THEN 1 ELSE 0)
  /\ Prepare(AsRecovery(run), run.performance, run.positions)
  /\ UNCHANGED <<files, ghosts>>

\* Without a broker snapshot the files on disk are published, as recovery only.
RecoverSnapshot ==
  /\ pc = "snapshot"
  /\ Raises(IF run.broker THEN 1 ELSE 0)
  /\ Prepare(AsRecovery(run), perf, positions)
  /\ UNCHANGED <<files, ghosts>>

\* The files on disk cannot be read either: nothing is published.
SnapshotUnavailable ==
  /\ pc = "snapshot"
  /\ Raises(IF run.broker THEN 2 ELSE 1)
  /\ pc' = "ended"
  /\ UNCHANGED <<files, run, issued, ghosts>>

ReplacePerformance ==
  /\ pc = "performance"
  /\ perf' = run.performance
  /\ pc' = "positions"
  /\ UNCHANGED <<positions, lastRun, run, issued, ghosts, bounds>>

ReplacePositions ==
  /\ pc = "positions"
  /\ positions' = run.positions
  /\ pc' = "last_run"
  /\ UNCHANGED <<perf, lastRun, run, issued, ghosts, bounds>>

ReplaceLastRun ==
  /\ pc = "last_run"
  /\ lastRun' = [gen |-> run.gen, run |-> run.id, status |-> run.status,
                 snapshotStatus |-> run.snapshotStatus,
                 performance |-> run.performance, positions |-> run.positions]
  /\ pc' = "committed"
  /\ UNCHANGED <<perf, positions, run, issued, ghosts, bounds>>

Publishing == pc \in {"performance", "positions", "last_run", "committed"}

\* (mutant) the second attempt is not made
PublicationAbandoned ==
  /\ Publishing /\ ~run.retry
  /\ Raise
  /\ pc' = "ended"
  /\ UNCHANGED <<files, run, issued, ghosts>>

\* A publication may raise before or after any replacement, the last one
\* included; the files on disk are then published once more, as recovery only.
PublicationRetried ==
  /\ Publishing /\ ~run.retry
  /\ Raise
  /\ Prepare([AsRecovery(run) EXCEPT !.retry = TRUE], perf, positions)
  /\ UNCHANGED <<files, ghosts>>

PublicationUnavailable ==
  /\ Publishing
  /\ Raises(IF run.retry THEN 1 ELSE 2)
  /\ pc' = "ended"
  /\ UNCHANGED <<files, run, issued, ghosts>>

PublicationEnds ==
  /\ pc = "committed"
  /\ pc' = "ended"
  /\ UNCHANGED <<files, run, issued, ghosts, bounds>>

\* The process is killed: no handler runs.
Killed ==
  /\ Running
  /\ faults < MaxFaults /\ faults' = faults + 1
  /\ pc' = "killed"
  /\ UNCHANGED <<files, run, issued, ghosts, raised>>

Runner == StartRun \/ PersistIntent \/ ExecutionReturns \/ CaptureSnapshot
          \/ ReplacePerformance \/ ReplacePositions \/ ReplaceLastRun \/ PublicationEnds
Failure == ContextRefused \/ BrokerRefused \/ ExecutionRaises \/ RecoverSnapshot
           \/ SnapshotUnavailable \/ PublicationRetried \/ PublicationUnavailable \/ Killed

Next == Runner \/ Failure
Spec == Init /\ [][Next]_vars

(***************************************************************************)
(* Properties.                                                             *)
(***************************************************************************)
\* Every variable keeps its type.
TypeOK ==
  /\ perf \in Performance /\ positions \in Positions /\ lastRun \in Records
  /\ pc \in {"execute", "snapshot", "performance", "positions", "last_run", "committed",
             "ended", "refused", "killed"}
  /\ run \in Locals
  /\ issued \in Nat /\ reserved \in 0 .. MaxIntents /\ returned \subseteq 0 .. MaxRuns
  /\ faults \in 0 .. MaxFaults /\ raised \in 0 .. faults

\* A durable order intent is never lost: whatever raises or dies, the file on
\* disk holds every intent ever written, and no older file replaces it.
IntentsKept == perf.intents = reserved

\* A reader that sees a healthy generation sees one broker snapshot, taken by
\* the run the record names, after that run's execution had returned.
HealthIsEarned ==
  Verified /\ lastRun.status # "FAIL" =>
    /\ perf.snapshot = lastRun.run /\ positions.snapshot = lastRun.run
    /\ lastRun.run \in returned

\* One exception once the execution context is captured does not cost the run its
\* publication: the workflow's check for this very run accepts the files.  A context
\* that is refused ends the run with nothing to publish (production_run.py:162-164).
OneFailurePublished == pc = "ended" /\ raised <= 1 => VerifiedNow

\* Readers of the three files see a sequence of whole publications.
Publications == INSTANCE AtomicPublication WITH
  number <- lastRun.gen,
  readable <- Verified,
  content <- [run |-> lastRun.run, status |-> lastRun.status,
              performance |-> IF Verified THEN perf ELSE lastRun.performance,
              positions |-> IF Verified THEN positions ELSE lastRun.positions]

AtomicSpec == Publications!Spec
=============================================================================
