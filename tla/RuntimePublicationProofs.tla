------------------------ MODULE RuntimePublicationProofs ------------------------
(***************************************************************************)
(* Proofs about RuntimePublication, for any number of runs, intents and    *)
(* failures.                                                               *)
(***************************************************************************)
EXTENDS RuntimePublication, TLAPS

Staged == {"performance", "positions", "last_run"}

\* Order of the generations: a staged one is newer than everything on disk.
Fresher ==
  /\ lastRun.gen <= issued
  /\ pc \in Staged => /\ run.gen = issued /\ lastRun.gen < issued
                      /\ run.performance.gen = run.gen /\ run.positions.gen = run.gen
                      /\ run.performance.intents = perf.intents
  /\ pc \in {"positions", "last_run"} => perf = run.performance
  /\ pc = "last_run" => positions = run.positions

\* The commit record: its digests are of one generation and no newer intent
\* than those on disk, its run is not in the future.
Recorded ==
  /\ lastRun.performance.intents <= perf.intents
  /\ lastRun.run <= run.id
  /\ lastRun.gen # 0 /\ lastRun.status # "FAIL" =>
       /\ lastRun.performance.snapshot = lastRun.run
       /\ lastRun.positions.snapshot = lastRun.run
       /\ lastRun.run \in returned

\* The summary a run is about to publish.
Summarised ==
  /\ pc = "execute" => run.status = "FAIL" /\ run.snapshotStatus = "fresh"
  /\ pc = "snapshot" => /\ run.snapshotStatus = "fresh"
                        /\ run.status # "FAIL" => run.id \in returned
  /\ pc \in Staged =>
       /\ run.snapshotStatus = "recovery" => run.status = "FAIL"
       /\ run.snapshotStatus = "fresh" =>
            /\ run.performance.snapshot = run.id /\ run.positions.snapshot = run.id
            /\ run.status # "FAIL" => run.id \in returned

PubInv == TypeOK /\ IntentsKept /\ Fresher /\ Recorded /\ Summarised

\* Files of a release without generations satisfy the invariant.
LEMMA PubInit == Init => PubInv
  BY BoundsAssumption DEF Init, PubInv, TypeOK, IntentsKept, Fresher, Recorded, Summarised,
     Staged, NoFile, Locals, Statuses, Performance, Positions, Records

\* A staged publication has its types.
LEMMA PrepareType ==
  ASSUME TypeOK, NEW r \in Locals, NEW p \in Performance, NEW q \in Positions, Prepare(r, p, q)
  PROVE  run' \in Locals /\ issued' \in Nat /\ pc' = "performance"
  <1> DEFINE g == issued + 1
             pg == [p EXCEPT !.gen = g]
             qg == [q EXCEPT !.gen = g]
  <1>1. g \in Nat /\ pg \in Performance /\ qg \in Positions
    BY DEF TypeOK, Performance, Positions
  <1>2. run' = [[[r EXCEPT !.gen = g] EXCEPT !.performance = pg] EXCEPT !.positions = qg]
    BY DEF Prepare, Locals
  <1> HIDE DEF g, pg, qg
  <1>3. run' \in Locals
    BY <1>1, <1>2 DEF Locals
  <1> QED BY <1>1, <1>3 DEF Prepare, g

\* Every action keeps the types.
LEMMA TypeStep == TypeOK /\ [Next]_vars => TypeOK'
  <1> SUFFICES ASSUME TypeOK, [Next]_vars PROVE TypeOK'
    OBVIOUS
  <1> USE BoundsAssumption DEF TypeOK, files, ghosts, bounds, Statuses, Idle, Running, Raise, Raises
  <1>1. CASE StartRun
    <2>1. run.id + 1 \in 0 .. MaxRuns
      BY <1>1 DEF StartRun, Locals
    <2>2. run' = [id |-> run.id + 1, broker |-> TRUE, status |-> "FAIL",
                  snapshotStatus |-> "fresh", gen |-> run.gen,
                  performance |-> run.performance, positions |-> run.positions,
                  retry |-> FALSE]
      BY <1>1 DEF StartRun, Locals
    <2>3. run' \in Locals
      BY <2>1, <2>2 DEF Locals
    <2> QED BY <1>1, <2>3 DEF StartRun
  <1>2. CASE ContextRefused
    <2>1. run' \in Locals
      BY <1>2 DEF ContextRefused, Locals
    <2> QED BY <1>2, <2>1 DEF ContextRefused
  <1>3. CASE BrokerRefused
    <2>1. run.id + 1 \in 0 .. MaxRuns
      BY <1>3 DEF BrokerRefused, Locals
    <2>2. run' = [id |-> run.id + 1, broker |-> FALSE, status |-> "FAIL",
                  snapshotStatus |-> "fresh", gen |-> run.gen,
                  performance |-> run.performance, positions |-> run.positions,
                  retry |-> FALSE]
      BY <1>3 DEF BrokerRefused, Locals
    <2>3. run' \in Locals
      BY <2>1, <2>2 DEF Locals
    <2> QED BY <1>3, <2>3 DEF BrokerRefused
  <1>4. CASE PersistIntent
    BY <1>4 DEF PersistIntent, Performance
  <1>5. CASE ExecutionReturns
    <2>1. run' \in Locals /\ run.id \in 0 .. MaxRuns
      BY <1>5 DEF ExecutionReturns, Locals
    <2> QED BY <1>5, <2>1 DEF ExecutionReturns
  <1>6. CASE ExecutionRaises
    BY <1>6 DEF ExecutionRaises
  <1>7. CASE CaptureSnapshot
    <2>1. run' \in Locals /\ issued' \in Nat /\ pc' = "performance"
      BY <1>7, PrepareType DEF CaptureSnapshot, Locals, Performance, Positions
    <2> QED BY <1>7, <2>1 DEF CaptureSnapshot
  <1>8. CASE RecoverSnapshot
    <2>1. AsRecovery(run) \in Locals
      BY DEF AsRecovery, Locals
    <2>2. run' \in Locals /\ issued' \in Nat /\ pc' = "performance"
      BY <1>8, <2>1, PrepareType DEF RecoverSnapshot
    <2> QED BY <1>8, <2>2 DEF RecoverSnapshot
  <1>9. CASE SnapshotUnavailable
    BY <1>9 DEF SnapshotUnavailable
  <1>10. CASE ReplacePerformance
    BY <1>10 DEF ReplacePerformance, Locals
  <1>11. CASE ReplacePositions
    BY <1>11 DEF ReplacePositions, Locals
  <1>12. CASE ReplaceLastRun
    BY <1>12 DEF ReplaceLastRun, Records, Locals
  <1>13. CASE PublicationRetried
    <2>1. [AsRecovery(run) EXCEPT !.retry = TRUE] \in Locals
      BY DEF AsRecovery, Locals
    <2>2. run' \in Locals /\ issued' \in Nat /\ pc' = "performance"
      BY <1>13, <2>1, PrepareType DEF PublicationRetried
    <2> QED BY <1>13, <2>2 DEF PublicationRetried
  <1>14. CASE PublicationUnavailable
    BY <1>14 DEF PublicationUnavailable
  <1>15. CASE PublicationEnds
    BY <1>15 DEF PublicationEnds
  <1>16. CASE Killed
    BY <1>16 DEF Killed
  <1>17. CASE UNCHANGED vars
    BY <1>17 DEF vars
  <1> QED
    BY <1>1, <1>2, <1>3, <1>4, <1>5, <1>6, <1>7, <1>8, <1>9, <1>10, <1>11, <1>12, <1>13,
       <1>14, <1>15, <1>16, <1>17 DEF Next, Runner, Failure

\* The rest of the invariant after a publication has been staged.
Rest == IntentsKept /\ Fresher /\ Recorded /\ Summarised

\* A staged publication carries the intents on disk and a snapshot of its run.
LEMMA PrepareStep ==
  ASSUME PubInv, NEW r \in Locals, NEW p \in Performance, NEW q \in Positions,
         Prepare(r, p, q), UNCHANGED <<files, ghosts>>,
         r.id = run.id, p.intents = perf.intents,
         r.snapshotStatus = "recovery" => r.status = "FAIL",
         r.snapshotStatus = "fresh" =>
           /\ p.snapshot = run.id /\ q.snapshot = run.id
           /\ r.status # "FAIL" => run.id \in returned
  PROVE  Rest'
  <1>1. /\ run'.gen = issued + 1 /\ run'.id = run.id
        /\ run'.status = r.status /\ run'.snapshotStatus = r.snapshotStatus
        /\ run'.performance = [p EXCEPT !.gen = issued + 1]
        /\ run'.positions = [q EXCEPT !.gen = issued + 1]
        /\ issued' = issued + 1 /\ pc' = "performance"
    BY DEF Prepare, Locals
  <1>2. /\ run'.performance.gen = issued + 1 /\ run'.positions.gen = issued + 1
        /\ run'.performance.intents = p.intents
        /\ run'.performance.snapshot = p.snapshot /\ run'.positions.snapshot = q.snapshot
    BY <1>1 DEF Performance, Positions
  <1>3. issued \in Nat /\ lastRun.gen \in Nat
    BY DEF PubInv, TypeOK, Records
  <1>4. IntentsKept'
    BY DEF PubInv, IntentsKept, files, ghosts
  <1>5. Fresher'
    BY <1>1, <1>2, <1>3 DEF PubInv, Fresher, Staged, files
  <1>6. Recorded'
    BY <1>1 DEF PubInv, Recorded, files, ghosts
  <1>7. Summarised'
    BY <1>1, <1>2 DEF PubInv, Summarised, Staged, files, ghosts
  <1> QED BY <1>4, <1>5, <1>6, <1>7 DEF Rest

\* A run that ends or is killed leaves the files as they are.
LEMMA OverStep ==
  ASSUME PubInv, UNCHANGED <<files, issued, ghosts>>, run'.id \in Nat, run'.id >= run.id,
         pc' \in {"ended", "refused", "killed"}
  PROVE  Rest'
  <1>1. lastRun.run \in Nat /\ run.id \in Nat
    BY BoundsAssumption DEF PubInv, TypeOK, Records, Locals
  <1> QED
    BY <1>1 DEF PubInv, Rest, IntentsKept, Fresher, Recorded, Summarised, Staged, files, ghosts

\* Every action keeps the order of generations, records and summaries.
LEMMA RestStep == PubInv /\ [Next]_vars => Rest'
  <1> SUFFICES ASSUME PubInv, [Next]_vars PROVE Rest'
    OBVIOUS
  <1>t. /\ perf \in Performance /\ positions \in Positions /\ lastRun \in Records
        /\ run \in Locals /\ issued \in Nat /\ reserved \in Nat
    BY BoundsAssumption DEF PubInv, TypeOK
  <1>n. run.id \in Nat /\ lastRun.run \in Nat /\ lastRun.gen \in Nat
        /\ perf.intents \in Nat /\ lastRun.performance.intents \in Nat
    BY <1>t, BoundsAssumption DEF Locals, Records, Performance
  <1>1. CASE SnapshotUnavailable
    BY <1>1, <1>n, OverStep DEF SnapshotUnavailable
  <1>2. CASE PublicationUnavailable
    BY <1>2, <1>n, OverStep DEF PublicationUnavailable
  <1>3. CASE PublicationEnds
    BY <1>3, <1>n, OverStep DEF PublicationEnds
  <1>4. CASE Killed
    BY <1>4, <1>n, OverStep DEF Killed
  <1>5. CASE ContextRefused
    <2>1. run'.id = run.id + 1
      BY <1>5, <1>t DEF ContextRefused, Locals
    <2> QED BY <1>5, <1>n, <2>1, OverStep DEF ContextRefused
  <1>6. CASE StartRun
    <2>1. /\ run'.id = run.id + 1 /\ run'.status = "FAIL" /\ run'.snapshotStatus = "fresh"
          /\ pc' = "execute" /\ UNCHANGED <<files, issued, ghosts>>
      BY <1>6, <1>t DEF StartRun, Locals
    <2> QED
      BY <2>1, <1>n DEF PubInv, Rest, IntentsKept, Fresher, Recorded, Summarised, Staged,
         files, ghosts
  <1>7. CASE BrokerRefused
    <2>1. /\ run'.id = run.id + 1 /\ run'.status = "FAIL" /\ run'.snapshotStatus = "fresh"
          /\ pc' = "snapshot" /\ UNCHANGED <<files, issued, ghosts>>
      BY <1>7, <1>t DEF BrokerRefused, Locals
    <2> QED
      BY <2>1, <1>n DEF PubInv, Rest, IntentsKept, Fresher, Recorded, Summarised, Staged,
         files, ghosts
  <1>8. CASE PersistIntent
    <2>1. perf'.intents = perf.intents + 1 /\ reserved' = reserved + 1
          /\ pc = "execute" /\ UNCHANGED <<lastRun, pc, run, issued, returned>>
      BY <1>8, <1>t DEF PersistIntent, Performance
    <2> QED
      BY <2>1, <1>n DEF PubInv, Rest, IntentsKept, Fresher, Recorded, Summarised, Staged
  <1>9. CASE ExecutionReturns
    <2>1. /\ run'.id = run.id /\ run'.snapshotStatus = run.snapshotStatus
          /\ returned' = returned \cup {run.id} /\ pc = "execute" /\ pc' = "snapshot"
          /\ UNCHANGED <<files, issued, reserved>>
      BY <1>9, <1>t DEF ExecutionReturns, Locals
    <2> QED
      BY <2>1 DEF PubInv, Rest, IntentsKept, Fresher, Recorded, Summarised, Staged, files
  <1>10. CASE ExecutionRaises
    BY <1>10 DEF ExecutionRaises, PubInv, Rest, IntentsKept, Fresher, Recorded, Summarised, Staged,
       files, ghosts
  <1>11. CASE CaptureSnapshot
    <2> DEFINE p == [perf EXCEPT !.snapshot = run.id]
               q == [positions EXCEPT !.snapshot = run.id]
    <2>1. /\ p \in Performance /\ q \in Positions /\ p.intents = perf.intents
          /\ p.snapshot = run.id /\ q.snapshot = run.id
      BY <1>t, <1>n DEF Performance, Positions
    <2>2. Prepare(run, p, q) /\ UNCHANGED <<files, ghosts>>
      BY <1>11 DEF CaptureSnapshot
    <2>3. run.snapshotStatus = "fresh" /\ (run.status # "FAIL" => run.id \in returned)
      BY <1>11 DEF CaptureSnapshot, PubInv, Summarised
    <2> HIDE DEF p, q
    <2> QED BY <1>t, <2>1, <2>2, <2>3, PrepareStep
  <1>12. CASE RecoverSnapshot
    <2> DEFINE r == AsRecovery(run)
    <2>1. r \in Locals /\ r.id = run.id /\ r.status = "FAIL" /\ r.snapshotStatus = "recovery"
      BY <1>t DEF AsRecovery, Locals, Statuses
    <2>2. Prepare(r, perf, positions) /\ UNCHANGED <<files, ghosts>>
      BY <1>12 DEF RecoverSnapshot
    <2> HIDE DEF r
    <2> QED BY <1>t, <2>1, <2>2, PrepareStep
  <1>13. CASE PublicationRetried
    <2> DEFINE r == [AsRecovery(run) EXCEPT !.retry = TRUE]
    <2>1. r \in Locals /\ r.id = run.id /\ r.status = "FAIL" /\ r.snapshotStatus = "recovery"
      BY <1>t DEF AsRecovery, Locals, Statuses
    <2>2. Prepare(r, perf, positions) /\ UNCHANGED <<files, ghosts>>
      BY <1>13 DEF PublicationRetried
    <2> HIDE DEF r
    <2> QED BY <1>t, <2>1, <2>2, PrepareStep
  <1>14. CASE ReplacePerformance
    BY <1>14, <1>n DEF ReplacePerformance, PubInv, Rest, IntentsKept, Fresher, Recorded, Summarised,
       Staged, ghosts
  <1>15. CASE ReplacePositions
    BY <1>15, <1>n DEF ReplacePositions, PubInv, Rest, IntentsKept, Fresher, Recorded, Summarised,
       Staged, ghosts
  <1>16. CASE ReplaceLastRun
    <2>1. /\ lastRun'.gen = run.gen /\ lastRun'.run = run.id /\ lastRun'.status = run.status
          /\ lastRun'.performance = run.performance /\ lastRun'.positions = run.positions
          /\ pc = "last_run" /\ pc' = "committed"
          /\ UNCHANGED <<perf, positions, run, issued, ghosts>>
      BY <1>16 DEF ReplaceLastRun
    <2>2. run.snapshotStatus \in {"fresh", "recovery"}
      BY <1>t DEF Locals
    <2>3. IntentsKept' /\ Fresher'
      BY <1>t, <1>n, <2>1 DEF PubInv, IntentsKept, Fresher, Staged, ghosts
    <2>4. run.status # "FAIL" => /\ run.performance.snapshot = run.id
                                 /\ run.positions.snapshot = run.id
                                 /\ run.id \in returned
      BY <2>1, <2>2 DEF PubInv, Summarised, Staged
    <2>5. Recorded'
      BY <1>n, <2>1, <2>4 DEF PubInv, Fresher, Recorded, Staged, ghosts
    <2>6. Summarised'
      BY <2>1 DEF Summarised, Staged
    <2> QED BY <2>3, <2>5, <2>6 DEF Rest
  <1>17. CASE UNCHANGED vars
    BY <1>17 DEF vars, PubInv, Rest, IntentsKept, Fresher, Recorded, Summarised, Staged,
       files, ghosts
  <1> QED
    BY <1>1, <1>2, <1>3, <1>4, <1>5, <1>6, <1>7, <1>8, <1>9, <1>10,
       <1>11, <1>12, <1>13, <1>14, <1>15, <1>16, <1>17 DEF Next, Runner, Failure

\* The inductive invariant of the runner holds in every reachable state.
THEOREM PubInvariant == Spec => []PubInv
  <1>1. PubInv /\ [Next]_vars => PubInv'
    BY TypeStep, RestStep DEF PubInv, Rest
  <1> QED BY PubInit, <1>1, PTL DEF Spec

\* No failure and no publication ever loses a durable order intent.
THEOREM IntentsKeptCorrect == Spec => []IntentsKept
  <1>1. PubInv => IntentsKept
    BY DEF PubInv
  <1> QED BY PubInvariant, <1>1, PTL

\* A healthy generation is one broker snapshot of a run that returned.
THEOREM HealthCorrect == Spec => []HealthIsEarned
  <1>1. PubInv => HealthIsEarned
    BY DEF PubInv, Recorded, HealthIsEarned, Verified, ValidGeneration, Bundle
  <1> QED BY PubInvariant, <1>1, PTL

(***************************************************************************)
(* The refinement.  What a reader sees changes only when the commit record  *)
(* is replaced, or is withdrawn by the first file that changes under it.   *)
(***************************************************************************)
Content == [run |-> lastRun.run, status |-> lastRun.status,
            performance |-> IF Verified THEN perf ELSE lastRun.performance,
            positions |-> IF Verified THEN positions ELSE lastRun.positions]
Committed == [run |-> lastRun.run, status |-> lastRun.status,
              performance |-> lastRun.performance, positions |-> lastRun.positions]

\* A reader that accepts the files reads what the record commits.
LEMMA ContentCommitted == Content = Committed
  BY DEF Content, Committed, Verified, ValidGeneration, Bundle

\* Replacing the commit record is the one step that publishes.
LEMMA CommitPublishes ==
  ASSUME PubInv, PubInv', ReplaceLastRun
  PROVE  Publications!Publish
  <1>1. /\ lastRun' = [gen |-> run.gen, run |-> run.id, status |-> run.status,
                       snapshotStatus |-> run.snapshotStatus,
                       performance |-> run.performance, positions |-> run.positions]
        /\ perf' = run.performance /\ positions' = run.positions /\ pc = "last_run"
        /\ run.gen > lastRun.gen
    BY DEF ReplaceLastRun, PubInv, Fresher, Staged
  <1>2. lastRun.gen \in Nat /\ run.gen \in Nat /\ run.snapshotStatus \in {"fresh", "recovery"}
    BY DEF PubInv, TypeOK, Records, Locals
  <1>3. /\ run.performance.gen = run.gen /\ run.positions.gen = run.gen
        /\ run.snapshotStatus = "recovery" => run.status = "FAIL"
        /\ run.snapshotStatus = "fresh" =>
             run.performance.snapshot = run.id /\ run.positions.snapshot = run.id
    BY <1>1 DEF PubInv, Fresher, Summarised, Staged
  <1>4. Verified'
    BY <1>1, <1>2, <1>3 DEF Verified, ValidGeneration, Bundle
  <1>5. Content' = Committed'
    BY <1>1 DEF Content, Committed, Verified, ValidGeneration, Bundle
  <1>6. /\ Content'.run = run.id /\ Content'.status = run.status
        /\ Content'.performance = run.performance /\ Content'.positions = run.positions
    BY <1>1, <1>5 DEF Committed
  <1>7. /\ Content.run = lastRun.run
        /\ Content.performance = lastRun.performance
    BY ContentCommitted DEF Committed
  <1>8. run.id >= lastRun.run /\ run.performance.intents >= lastRun.performance.intents
    BY <1>1 DEF PubInv, TypeOK, Records, Performance, Locals, Recorded, Fresher, Staged
  <1>9. Publications!Whole(Content')
    BY <1>2, <1>3, <1>6 DEF Publications!Whole
  <1>10. lastRun'.gen > lastRun.gen
    BY <1>1
  <1> QED
    BY <1>4, <1>6, <1>7, <1>8, <1>9, <1>10 DEF Publications!Publish, Content

\* Once a file differs from the record, nothing but a new record restores it.
LEMMA NeverReopens ==
  ASSUME PubInv, [Next]_vars, ~ReplaceLastRun, Verified' PROVE UNCHANGED files
  <1>t. /\ perf.intents \in Nat /\ lastRun.performance.intents \in Nat
        /\ perf \in Performance /\ lastRun.gen \in Nat /\ issued \in Nat
    BY DEF PubInv, TypeOK, Records, Performance
  <1>1. ~PersistIntent
    <2> SUFFICES ASSUME PersistIntent PROVE FALSE
      OBVIOUS
    <2>1. perf'.intents = perf.intents + 1 /\ lastRun' = lastRun
      BY <1>t DEF PersistIntent, Performance
    <2>2. perf' = lastRun.performance
      BY <2>1 DEF Verified, ValidGeneration, Bundle
    <2> QED BY <1>t, <2>1, <2>2 DEF PubInv, Recorded
  <1>2. ~ReplacePerformance /\ ~ReplacePositions
    <2> SUFFICES ASSUME ReplacePerformance \/ ReplacePositions PROVE FALSE
      OBVIOUS
    <2>1. lastRun' = lastRun /\ (perf'.gen = issued \/ positions'.gen = issued)
          /\ lastRun.gen < issued
      BY DEF ReplacePerformance, ReplacePositions, PubInv, Fresher, Staged
    <2> QED BY <1>t, <2>1 DEF Verified, ValidGeneration, Bundle
  <1> QED
    BY <1>1, <1>2 DEF Next, Runner, Failure, vars, StartRun, ContextRefused, BrokerRefused,
       ExecutionReturns, ExecutionRaises, CaptureSnapshot, RecoverSnapshot, SnapshotUnavailable,
       PublicationRetried, PublicationUnavailable, PublicationEnds, Killed

\* Every other step withdraws the publication or changes nothing a reader sees.
LEMMA AtomicStep ==
  PubInv /\ PubInv' /\ [Next]_vars =>
    [Publications!Publish \/ Publications!Withdraw]_(Publications!vars)
  <1> SUFFICES ASSUME PubInv, PubInv', [Next]_vars
               PROVE  [Publications!Publish \/ Publications!Withdraw]_(Publications!vars)
    OBVIOUS
  <1>1. CASE ReplaceLastRun
    BY <1>1, CommitPublishes
  <1>2. CASE ~ReplaceLastRun
    <2>1. UNCHANGED lastRun
      BY <1>2 DEF Next, Runner, Failure, vars, files, StartRun, ContextRefused, BrokerRefused,
         PersistIntent, ExecutionReturns, ExecutionRaises, CaptureSnapshot, RecoverSnapshot,
         SnapshotUnavailable, ReplacePerformance, ReplacePositions, PublicationRetried,
         PublicationUnavailable, PublicationEnds, Killed
    <2>2. UNCHANGED Committed
      BY <2>1 DEF Committed
    <2>3. Content' = Committed' /\ Content = Committed
      BY ContentCommitted DEF Content, Committed, Verified, ValidGeneration, Bundle
    <2>4. Verified' => Verified
      BY <1>2, NeverReopens DEF files, Verified, ValidGeneration, Bundle
    <2>5. UNCHANGED <<lastRun.gen, Content>>
      BY <2>1, <2>2, <2>3
    <2>6. CASE Verified /\ ~Verified'
      BY <2>5, <2>6 DEF Publications!Withdraw, Content
    <2>7. CASE ~(Verified /\ ~Verified')
      <3>1. Verified' = Verified
        BY <2>4, <2>7 DEF Verified, ValidGeneration
      <3> QED BY <2>5, <3>1 DEF Publications!vars, Content
    <2> QED BY <2>6, <2>7
  <1> QED BY <1>1, <1>2

\* Whatever raises or is killed, readers see whole publications in order.
THEOREM AtomicPublicationImplemented == Spec => AtomicSpec
  <1>1. Init => Publications!Init
    BY DEF Init, Publications!Init, Verified, ValidGeneration, Bundle
  <1> QED
    BY <1>1, AtomicStep, PubInvariant, PTL DEF Spec, AtomicSpec, Publications!Spec

(***************************************************************************)
(* One failure.  Every way to end without a verified publication has       *)
(* raised twice: the refusal of the broker and the first failed            *)
(* publication are counted before the handlers that can still fail.        *)
(***************************************************************************)
Counted ==
  /\ pc = "execute" => run.broker
  /\ pc \in {"execute", "snapshot"} => ~run.retry
  /\ pc = "snapshot" /\ ~run.broker => raised >= 1
  /\ Publishing /\ run.retry => raised >= 1
  /\ pc = "committed" => VerifiedNow

FailureInv == PubInv /\ Counted /\ OneFailurePublished

\* The commit record of a run makes its files readable.
LEMMA CommitVerifies == PubInv /\ ReplaceLastRun => VerifiedNow'
  <1> SUFFICES ASSUME PubInv, ReplaceLastRun PROVE VerifiedNow'
    OBVIOUS
  <1>1. /\ lastRun' = [gen |-> run.gen, run |-> run.id, status |-> run.status,
                       snapshotStatus |-> run.snapshotStatus,
                       performance |-> run.performance, positions |-> run.positions]
        /\ perf' = run.performance /\ positions' = run.positions /\ pc = "last_run"
        /\ run.gen > lastRun.gen /\ run' = run
    BY DEF ReplaceLastRun, PubInv, Fresher, Staged
  <1>2. lastRun.gen \in Nat /\ run.gen \in Nat /\ run.snapshotStatus \in {"fresh", "recovery"}
    BY DEF PubInv, TypeOK, Records, Locals
  <1>3. /\ run.performance.gen = run.gen /\ run.positions.gen = run.gen
        /\ run.snapshotStatus = "recovery" => run.status = "FAIL"
        /\ run.snapshotStatus = "fresh" =>
             run.performance.snapshot = run.id /\ run.positions.snapshot = run.id
    BY <1>1 DEF PubInv, Fresher, Summarised, Staged
  <1> QED BY <1>1, <1>2, <1>3 DEF VerifiedNow, Verified, ValidGeneration, Bundle

\* What a staged publication keeps of the run that stages it.
LEMMA PrepareLocals ==
  ASSUME NEW r \in Locals, NEW p, NEW q, Prepare(r, p, q)
  PROVE  run'.id = r.id /\ run'.retry = r.retry /\ run'.broker = r.broker /\ pc' = "performance"
  BY DEF Prepare, Locals

\* Before the first run no failure was raised or published.
LEMMA FailureInit == Init => FailureInv
  BY PubInit DEF FailureInv, Counted, OneFailurePublished, Init, Publishing

\* Every action keeps the failures raised and published in step.
LEMMA FailureStep == FailureInv /\ [Next]_vars => FailureInv'
  <1> SUFFICES ASSUME FailureInv, [Next]_vars PROVE FailureInv'
    OBVIOUS
  <1>i. PubInv /\ PubInv'
    BY TypeStep, RestStep DEF FailureInv, PubInv, Rest
  <1>t. run \in Locals /\ raised \in Nat /\ run.broker \in BOOLEAN /\ run.retry \in BOOLEAN
        /\ pc \in {"execute", "snapshot", "performance", "positions", "last_run", "committed",
                   "ended", "refused", "killed"}
    BY <1>i, BoundsAssumption DEF PubInv, TypeOK, Locals
  <1> SUFFICES Counted' /\ OneFailurePublished'
    BY <1>i DEF FailureInv
  <1> USE DEF FailureInv, Counted, OneFailurePublished, Publishing, Raise, Raises
  <1>1. CASE StartRun
    <2>1. run'.broker /\ ~run'.retry /\ pc' = "execute"
      BY <1>1, <1>t DEF StartRun, Locals
    <2> QED BY <2>1
  <1>2. CASE ContextRefused
    BY <1>2 DEF ContextRefused
  <1>3. CASE BrokerRefused
    <2>1. ~run'.retry /\ pc' = "snapshot" /\ raised' = 1
      BY <1>3, <1>t DEF BrokerRefused, Locals
    <2> QED BY <2>1
  <1>4. CASE PersistIntent
    BY <1>4 DEF PersistIntent, bounds
  <1>5. CASE ExecutionReturns
    <2>1. run'.broker = run.broker /\ run'.retry = run.retry /\ pc = "execute" /\ pc' = "snapshot"
      BY <1>5, <1>t DEF ExecutionReturns, Locals
    <2> QED BY <2>1
  <1>6. CASE ExecutionRaises
    BY <1>6 DEF ExecutionRaises
  <1>7. CASE CaptureSnapshot
    <2>1. pc = "snapshot" /\ pc' = "performance" /\ run'.retry = run.retry
      BY <1>7, <1>t, PrepareLocals DEF CaptureSnapshot
    <2> QED BY <2>1
  <1>8. CASE RecoverSnapshot
    <2>1. AsRecovery(run) \in Locals /\ AsRecovery(run).retry = run.retry
      BY <1>t DEF AsRecovery, Locals, Statuses
    <2>2. pc = "snapshot" /\ pc' = "performance" /\ run'.retry = run.retry
      BY <1>8, <2>1, PrepareLocals DEF RecoverSnapshot
    <2> QED BY <2>2
  <1>9. CASE SnapshotUnavailable
    BY <1>9, <1>t DEF SnapshotUnavailable
  <1>10. CASE ReplacePerformance
    BY <1>10 DEF ReplacePerformance, bounds
  <1>11. CASE ReplacePositions
    BY <1>11 DEF ReplacePositions, bounds
  <1>12. CASE ReplaceLastRun
    BY <1>12, <1>i, CommitVerifies DEF ReplaceLastRun, bounds
  <1>13. CASE PublicationRetried
    <2>1. /\ pc' = "performance" /\ raised' = raised + 1
      BY <1>13 DEF PublicationRetried, Prepare
    <2> QED BY <2>1, <1>t
  <1>14. CASE PublicationUnavailable
    BY <1>14, <1>t DEF PublicationUnavailable
  <1>15. CASE PublicationEnds
    BY <1>15 DEF PublicationEnds, files, bounds, VerifiedNow, Verified, Bundle
  <1>16. CASE Killed
    BY <1>16 DEF Killed
  <1>17. CASE UNCHANGED vars
    BY <1>17 DEF vars, files, bounds, VerifiedNow, Verified, Bundle
  <1> QED
    BY <1>1, <1>2, <1>3, <1>4, <1>5, <1>6, <1>7, <1>8, <1>9, <1>10, <1>11, <1>12, <1>13,
       <1>14, <1>15, <1>16, <1>17 DEF Next, Runner, Failure

\* One exception once the execution context is captured leaves files the workflow
\* accepts for this very run (production_run.py:165-201).
THEOREM OneFailureCorrect == Spec => []OneFailurePublished
  <1>1. FailureInv => OneFailurePublished
    BY DEF FailureInv
  <1> QED BY FailureInit, FailureStep, <1>1, PTL DEF Spec
=============================================================================
