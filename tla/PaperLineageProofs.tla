--------------------------- MODULE PaperLineageProofs ---------------------------
(***************************************************************************)
(* Proofs about PaperLineage, for any number of runs, days, releases,      *)
(* operator acts and failures, and about StatusReadModel, the status page  *)
(* that reads what the workflow wrote.                                     *)
(***************************************************************************)
EXTENDS StatusReadModel, FiniteSetTheorems, WellFoundedInduction, TLAPS

Jobs == [at : Steps, run : Nat, chosen : Nat, manifest : Nat, state : SUBSET Nat]

\* Types, and that the run that holds the runner is the one recorded as running.
Shapes ==
  /\ day \in 1 .. MaxDay /\ release \in 1 .. MaxRelease /\ begun \in Nat
  /\ \E n \in Nat : runs \in [1 .. n -> Runs]
  /\ \E n \in Nat : artifacts \in [1 .. n -> Artifacts]
  /\ job \in Jobs
  /\ manifest \in {0} \cup DOMAIN artifacts /\ job.manifest \in {0} \cup DOMAIN artifacts
  /\ job.at = "install" => job.chosen \in DOMAIN artifacts
  /\ job.at # "none" => job.run \in DOMAIN runs /\ Self.status = "running"
  /\ \A r \in DOMAIN runs : runs[r].status = "running" => job.at # "none" /\ r = job.run

\* What the record of a run says of its execution.
Record(r) ==
  /\ runs[r].order <= begun
  /\ runs[r].order > 0 => runs[r].began <= day
  /\ runs[r].status = "queued" => runs[r].order = 0
  /\ runs[r].status = "running" /\ job.at # "publish" => runs[r].order = 0
  /\ runs[r].exec = "skipped" => runs[r].status = "completed" /\ runs[r].order = 0
  /\ runs[r].status = "completed" =>
       /\ runs[r].order <= runs[r].seen
       /\ runs[r].order > 0 => runs[r].began <= runs[r].day

Records ==
  /\ \A r \in DOMAIN runs : Record(r)
  /\ job.at = "publish" => Self.order = begun /\ begun > 0

\* An artifact remembers the executions up to its own.
UpTo(k) == {r \in Executed : runs[r].order <= k}
Remembers(a) ==
  /\ artifacts[a].run \in DOMAIN runs /\ Owner(a).status = "completed" /\ Owner(a).order > 0
  /\ artifacts[a].state = UpTo(Owner(a).order)

Memory ==
  /\ \A a \in DOMAIN artifacts : Remembers(a)
  /\ job.at \in {"preflight", "execute", "publish"} => job.state = Executed

\* An automated run past its guard has the day to itself.
First ==
  /\ AutomatedFirst
  /\ job.at \in {"restore", "install", "preflight", "execute"} /\ Self.kind \in Automated =>
       \A q \in Executed : runs[q].began < day

LineageInv == Shapes /\ Records /\ Memory /\ First

\* The newest of some artifacts is one of them, and none is newer.
LEMMA MaxMember ==
  ASSUME NEW n \in Nat, NEW S \in SUBSET (1..n), S # {}
  PROVE  Max(S) \in S /\ \A j \in S : j <= Max(S)
<1> DEFINE T == {n - i : i \in S}
           R == OpToRel(<, Nat)
<1>1. T \subseteq Nat /\ T # {}
  <2> HIDE DEF R
  <2>1. \A i \in S : i \in 1..n
    OBVIOUS
  <2>2. \A i \in S : n - i \in Nat
    BY <2>1
  <2> QED BY <2>2
<1>2. PICK x \in T : \A y \in T : ~ (<<y, x>> \in R)
  <2> HIDE DEF T, R
  <2> QED BY <1>1, NatLessThanWellFounded, WFMin DEF R
<1>3. \A y \in T : ~(y < x)
  BY <1>1, <1>2 DEF OpToRel
<1>4. PICK i \in S : x = n - i
  BY <1>2
<1>5. \A j \in S : i >= j
  BY <1>3, <1>4
<1>6. Max(S) \in S /\ \A j \in S : Max(S) >= j
  BY <1>5 DEF Max
<1> QED BY <1>6

\* The oldest of some runs is one of them.
LEMMA MinMember ==
  ASSUME NEW S \in SUBSET Nat, S # {}
  PROVE  Min(S) \in S
<1> DEFINE R == OpToRel(<, Nat)
<1>1. PICK x \in S : \A y \in S : ~ (<<y, x>> \in R)
  <2> HIDE DEF R
  <2> QED BY NatLessThanWellFounded, WFMin DEF R
<1>2. \A y \in S : ~(y < x)
  BY <1>1 DEF OpToRel
<1>3. \A y \in S : x <= y
  <2> HIDE DEF R
  <2> QED BY <1>2
<1> QED BY <1>3 DEF Min

\* A record keeps its type as the run is closed, and what the lineage reads of it.
Closed(R, success, exec, ready, d, n) ==
  [R EXCEPT !.status = "completed", !.success = success, !.exec = exec,
            !.ready = ready, !.day = d, !.seen = n]

\* A run that ends keeps its kind, its order and its beginning.
LEMMA ClosedRecord ==
  ASSUME NEW R \in Runs, NEW success \in BOOLEAN, NEW exec \in Executions,
         NEW ready \in BOOLEAN, NEW d \in 0 .. MaxDay, NEW n \in Nat,
         NEW C, C = Closed(R, success, exec, ready, d, n)
  PROVE  /\ C \in Runs
         /\ C.status = "completed" /\ C.exec = exec /\ C.day = d /\ C.seen = n
         /\ C.kind = R.kind /\ C.order = R.order /\ C.began = R.began
<1>1. C \in Runs
  BY DEF Closed, Runs, Statuses
<1> QED BY <1>1 DEF Closed, Runs

\* A dispatched run has its types and has not executed.
LEMMA NewRunType ==
  ASSUME Shapes, NEW kind \in Kinds, NEW N, N = NewRun(kind)
  PROVE  N \in Runs /\ N.status = "queued" /\ N.order = 0 /\ N.kind = kind /\ N.exec = "none"
BY BoundsAssumption DEF Shapes, NewRun, Runs, Statuses, Executions

\* The initial states satisfy the inductive invariant.
LEMMA LineageInit == Init => LineageInv
<1> SUFFICES ASSUME Init PROVE LineageInv
  OBVIOUS
<1>1. /\ DOMAIN runs = {1} /\ DOMAIN artifacts = {1} /\ 1 .. 1 = {1}
      /\ artifacts[1] = [run |-> 1, release |-> 1, state |-> {1}]
  BY DEF Init
<1> DEFINE New == NewRun("execute")
<1>2. /\ runs[1] \in Runs /\ artifacts[1] \in Artifacts
      /\ runs[1].kind = "execute" /\ runs[1].status = "completed" /\ runs[1].exec = "success"
      /\ runs[1].began = 0 /\ runs[1].day = 0 /\ runs[1].order = 1 /\ runs[1].seen = 1
  <2>1. New \in Runs /\ New.kind = "execute" /\ New.began = 0 /\ New.day = 0
    BY BoundsAssumption DEF Init, NewRun, Runs, Kinds, Automated, Statuses, Executions
  <2>2. runs[1] = [New EXCEPT !.status = "completed", !.success = TRUE, !.exec = "success",
                              !.ready = TRUE, !.order = 1, !.seen = 1]
    BY DEF Init
  <2> HIDE DEF New
  <2>4. runs[1] \in Runs
    <3>1. TRUE \in BOOLEAN /\ "success" \in Executions /\ 1 \in Nat
      BY DEF Executions
    <3>2. [New EXCEPT !.status = "completed", !.success = TRUE, !.exec = "success",
                      !.ready = TRUE, !.order = 1, !.seen = 1] \in Runs
      BY <2>1, <3>1 DEF Runs, Statuses
    <3> QED BY <2>2, <3>2, Zenon
  <2>5. /\ runs[1].kind = "execute" /\ runs[1].status = "completed" /\ runs[1].exec = "success"
        /\ runs[1].began = 0 /\ runs[1].day = 0 /\ runs[1].order = 1 /\ runs[1].seen = 1
    BY <2>1, <2>2 DEF Runs
  <2>6. artifacts[1] \in Artifacts
    BY <1>1, BoundsAssumption DEF Artifacts
  <2> QED BY <2>4, <2>5, <2>6
<1>3. runs \in [1 .. 1 -> Runs] /\ artifacts \in [1 .. 1 -> Artifacts]
  BY <1>1, <1>2 DEF Init
<1>4. Shapes
  <2>1. (\E n \in Nat : runs \in [1 .. n -> Runs]) /\ (\E n \in Nat : artifacts \in [1 .. n -> Artifacts])
    BY <1>3
  <2>2. job = NoJob /\ NoJob \in Jobs
    BY DEF Init, NoJob, Jobs, Steps
  <2>3. day \in 1 .. MaxDay /\ release \in 1 .. MaxRelease /\ begun \in Nat
    BY BoundsAssumption DEF Init
  <2>4. manifest = 0 /\ job.manifest = 0 /\ job.at = "none"
    BY DEF Init, NoJob
  <2>5. \A r \in DOMAIN runs : runs[r].status # "running"
    BY <1>1, <1>2
  <2> QED BY <2>1, <2>2, <2>3, <2>4, <2>5 DEF Shapes
<1>5. Records
  <2>1. Record(1)
    BY <1>2 DEF Init, Record
  <2>2. job.at = "none"
    BY DEF Init, NoJob
  <2> QED BY <1>1, <2>1, <2>2 DEF Records
<1>6. Executed = {1} /\ UpTo(1) = {1}
  <2>1. \A r \in DOMAIN runs : r = 1 /\ runs[r].order = 1
    BY <1>1, <1>2
  <2>2. 1 \in DOMAIN runs
    BY <1>1
  <2> QED BY <2>1, <2>2 DEF Executed, UpTo
<1>7. Memory
  BY <1>1, <1>2, <1>6 DEF Init, Memory, Remembers, Owner, NoJob
<1>8. First
  BY <1>1, <1>2, <1>6 DEF Init, First, AutomatedFirst, NoJob, Automated
<1> QED BY <1>4, <1>5, <1>7, <1>8 DEF LineageInv

(***************************************************************************)
(* Steps that leave every execution as it is: no run begins one, and a     *)
(* record that is closed stays.                                            *)
(***************************************************************************)
Kept(r) ==
  /\ r \in DOMAIN runs' /\ runs'[r].order = runs[r].order /\ runs'[r].began = runs[r].began
  /\ runs'[r].kind = runs[r].kind
  /\ runs[r].status = "completed" => runs'[r] = runs[r]

\* Steps in which no run executes keep the executions counted.
LEMMA ExecutedKept ==
  ASSUME Shapes, \A r \in DOMAIN runs : Kept(r),
         \A r \in DOMAIN runs' \ DOMAIN runs : runs'[r].order = 0
  PROVE  /\ Executed' = Executed
         /\ \A k : UpTo(k)' = UpTo(k)
         /\ AutomatedFirst => AutomatedFirst'
<1>1. Executed' = Executed
  BY DEF Executed, Kept
<1>2. \A r \in Executed : r \in DOMAIN runs
  BY DEF Executed
<1>3. \A k : UpTo(k)' = UpTo(k)
  BY <1>1, <1>2 DEF UpTo, Kept
<1>4. AutomatedFirst => AutomatedFirst'
  BY <1>1, <1>2 DEF AutomatedFirst, Kept
<1> QED BY <1>1, <1>3, <1>4

\* Steps in which no run executes keep what artifacts remember.
LEMMA ArtifactsKept ==
  ASSUME Shapes, Memory, UNCHANGED artifacts, \A r \in DOMAIN runs : Kept(r),
         \A r \in DOMAIN runs' \ DOMAIN runs : runs'[r].order = 0
  PROVE  \A a \in DOMAIN artifacts' : Remembers(a)'
<1> SUFFICES ASSUME NEW a \in DOMAIN artifacts PROVE Remembers(a)'
  OBVIOUS
<1>1. Remembers(a)
  BY DEF Memory
<1>2. Kept(artifacts[a].run)
  BY <1>1 DEF Remembers
<1>3. Owner(a)' = Owner(a)
  BY <1>1, <1>2 DEF Remembers, Kept, Owner
<1> QED BY <1>1, <1>2, <1>3, ExecutedKept DEF Remembers, Kept

\* Steps of the world, and of a run that moves on.
LEMMA RunsKept ==
  ASSUME LineageInv, Shapes', UNCHANGED history, day' \in {day, day + 1},
         \/ UNCHANGED job
         \/ /\ job.at \notin {"none", "publish"} /\ job'.at \notin {"none", "publish"}
            /\ job'.run = job.run
            /\ job'.at \in {"preflight", "execute"} => job'.state = Executed
            /\ job.at = "guard" /\ Self.kind \in Automated =>
                 \A q \in Executed : runs[q].began < day
  PROVE  LineageInv'
<1>1. \A r \in DOMAIN runs : Kept(r)
  BY DEF history, Kept
<1>2. Executed' = Executed /\ (\A k : UpTo(k)' = UpTo(k)) /\ (AutomatedFirst => AutomatedFirst')
  BY <1>1, ExecutedKept DEF LineageInv, history
<1>3. \A a \in DOMAIN artifacts' : Remembers(a)'
  BY <1>1, ArtifactsKept DEF LineageInv, history
<1>4. day \in Nat /\ day' \in Nat /\ day <= day'
  BY DEF LineageInv, Shapes
<1>5. \A r \in DOMAIN runs : runs[r].began \in Nat
  BY DEF LineageInv, Shapes, Runs
<1>6. Records'
  BY <1>4, <1>5 DEF LineageInv, Records, Record, history, Self
<1>7. Memory'
  BY <1>2, <1>3 DEF LineageInv, Memory
<1>8. First'
  <2>1. \A q \in Executed : q \in DOMAIN runs
    BY DEF Executed
  <2>2. (\A q \in Executed : runs[q].began < day) => (\A q \in Executed' : runs'[q].began < day')
    BY <1>2, <1>4, <1>5, <2>1 DEF history
  <2>3. Self' = runs[job'.run]
    BY DEF Self, history
  <2>4. CASE UNCHANGED job
    BY <1>2, <2>2, <2>3, <2>4 DEF LineageInv, First, Self
  <2>5. CASE /\ job.at \notin {"none", "publish"} /\ job'.run = job.run
             /\ job.at = "guard" /\ Self.kind \in Automated =>
                  \A q \in Executed : runs[q].began < day
    <3>1. Self.kind \in Automated => \A q \in Executed : runs[q].began < day
      BY <2>5 DEF LineageInv, First, Shapes, Jobs, Steps
    <3> QED BY <1>2, <2>2, <2>3, <2>5, <3>1 DEF LineageInv, First, Self
  <2> QED BY <2>4, <2>5
<1> QED BY <1>6, <1>7, <1>8 DEF LineageInv

\* A run joins the queue, and may take the place of the one that waits.
LEMMA EnqueueStep ==
  ASSUME LineageInv, NEW kind \in Kinds, Enqueue(kind),
         UNCHANGED <<day, release, manifest, job>>
  PROVE  LineageInv'
<1> USE DEF LineageInv
<1>1. PICK n \in Nat : runs \in [1 .. n -> Runs]
  BY DEF Shapes
<1>2. DOMAIN runs = 1 .. n /\ Cardinality(DOMAIN runs) = n
  BY <1>1, FS_Interval
<1>3. PICK exec \in {"skipped", "unreadable"} :
        runs' = Extend([r \in DOMAIN runs |-> Superseded(r, exec)], n + 1, NewRun(kind))
  BY <1>2 DEF Enqueue
<1>4. UNCHANGED <<artifacts, begun>>
  BY DEF Enqueue
<1>5. DOMAIN runs' = 1 .. n + 1 /\ runs'[n + 1] = NewRun(kind)
  BY <1>3 DEF Extend
<1>6. \A r \in 1 .. n : runs'[r] = Superseded(r, exec)
  BY <1>2, <1>3 DEF Extend
<1>7. ASSUME NEW r \in 1 .. n
      PROVE  \/ runs'[r] = runs[r]
             \/ /\ runs[r].status = "queued" /\ runs'[r] \in Runs
                /\ runs'[r].status = "completed" /\ runs'[r].order = 0
                /\ runs'[r].seen = begun
                /\ runs'[r].began = runs[r].began /\ runs'[r].kind = runs[r].kind
  <2>1. CASE r \notin Waiting
    BY <1>6, <2>1 DEF Superseded
  <2>2. CASE r \in Waiting
    <3>1. runs[r] \in Runs /\ runs[r].status = "queued" /\ runs[r].order = 0
      BY <1>1, <1>2, <2>2 DEF Waiting, Queued, Records, Record
    <3>2. runs'[r] = [runs[r] EXCEPT !.status = "completed", !.exec = exec, !.day = day,
                                     !.seen = begun]
      BY <1>6, <2>2 DEF Superseded
    <3>3. exec \in Executions /\ day \in 0 .. MaxDay /\ begun \in Nat
      BY DEF Shapes, Executions
    <3> QED BY <3>1, <3>2, <3>3 DEF Runs, Statuses
  <2> QED BY <2>1, <2>2
<1>8. runs'[n + 1] \in Runs /\ runs'[n + 1].status = "queued" /\ runs'[n + 1].order = 0
      /\ runs'[n + 1].exec = "none"
  BY <1>5, NewRunType
<1>9. \A r \in 1 .. n + 1 : r \in 1 .. n \/ r = n + 1
  OBVIOUS
<1>10. \A r \in 1 .. n : r \in 1 .. n + 1
  OBVIOUS
<1>11. runs' \in [1 .. n + 1 -> Runs]
  <2>1. \A r \in 1 .. n + 1 : runs'[r] \in Runs
    BY <1>1, <1>7, <1>8, <1>9
  <2>2. runs' = [r \in 1 .. n + 1 |-> runs'[r]]
    BY <1>3 DEF Extend
  <2> QED BY <2>1, <2>2
<1>12. \A r \in DOMAIN runs : Kept(r)
  <2> SUFFICES ASSUME NEW r \in 1 .. n PROVE Kept(r)
    BY <1>2
  <2>1. r \in DOMAIN runs'
    BY <1>5, <1>10
  <2>2. runs[r].status = "queued" => runs[r].order = 0
    BY <1>2 DEF Records, Record
  <2> QED BY <1>7, <2>1, <2>2 DEF Kept
<1>13. \A r \in DOMAIN runs' \ DOMAIN runs : runs'[r].order = 0
  BY <1>2, <1>5, <1>8, <1>9
<1>14. Shapes'
  <2>1. \E m \in Nat : runs' \in [1 .. m -> Runs]
    BY <1>11
  <2>2. job.at # "none" => job.run \in DOMAIN runs' /\ runs'[job.run].status = "running"
    <3> HAVE job.at # "none"
    <3>1. job.run \in 1 .. n /\ runs[job.run].status = "running"
      BY <1>2 DEF Shapes, Self
    <3>2. runs'[job.run] = runs[job.run]
      BY <1>7, <3>1
    <3> QED BY <1>5, <1>10, <3>1, <3>2
  <2>3. \A r \in DOMAIN runs' : runs'[r].status = "running" => job.at # "none" /\ r = job.run
    BY <1>2, <1>5, <1>7, <1>8, <1>9 DEF Shapes
  <2> QED BY <1>4, <2>1, <2>2, <2>3 DEF Shapes, Self
<1>15. Records'
  <2>0. begun \in Nat /\ \A r \in 1 .. n : runs[r].order \in Nat
    BY <1>1 DEF Shapes, Runs
  <2>1. ASSUME NEW r \in 1 .. n PROVE Record(r)'
    <3>1. Record(r)
      BY <1>2 DEF Records
    <3>2. CASE runs'[r] = runs[r]
      BY <1>4, <3>1, <3>2 DEF Record
    <3>3. CASE /\ runs'[r].status = "completed" /\ runs'[r].order = 0 /\ runs'[r].seen = begun
      BY <1>4, <2>0, <3>3 DEF Record
    <3> QED BY <1>7, <3>2, <3>3
  <2>2. Record(n + 1)'
    BY <1>4, <1>8, <2>0 DEF Record
  <2>3. job.at = "publish" => runs'[job.run].order = begun
    <3> HAVE job.at = "publish"
    <3>1. job.run \in DOMAIN runs /\ runs[job.run].order = begun
      BY DEF Shapes, Records, Self
    <3> QED BY <1>12, <3>1 DEF Kept
  <2> QED BY <1>4, <1>5, <1>9, <2>1, <2>2, <2>3 DEF Records, Self
<1>16. Executed' = Executed /\ (AutomatedFirst => AutomatedFirst')
  BY <1>12, <1>13, ExecutedKept
<1>17. Memory'
  <2>1. \A a \in DOMAIN artifacts' : Remembers(a)'
    BY <1>4, <1>12, <1>13, ArtifactsKept
  <2> QED BY <1>16, <2>1 DEF Memory
<1>18. First'
  <2>1. \A q \in Executed : q \in DOMAIN runs
    BY DEF Executed
  <2>2. \A q \in Executed : runs'[q].began = runs[q].began
    BY <1>12, <2>1 DEF Kept
  <2>3. job.at # "none" => runs'[job.run].kind = runs[job.run].kind
    BY <1>12 DEF Shapes, Kept
  <2> QED BY <1>16, <2>2, <2>3 DEF First, Self
<1> QED BY <1>14, <1>15, <1>17, <1>18

\* Starting a queued run keeps the inductive invariant.
LEMMA StartRunStep ==
  ASSUME LineageInv, StartRun
  PROVE  LineageInv'
<1> USE DEF LineageInv
<1>1. PICK n \in Nat : runs \in [1 .. n -> Runs]
  BY DEF Shapes
<1>2. PICK r \in Queued : /\ runs' = [runs EXCEPT ![r].status = "running", ![r].release = release]
                          /\ job' = [NoJob EXCEPT !.at = "guard", !.run = r, !.manifest = manifest]
  <2>1. Queued \subseteq Nat /\ Queued # {}
    BY <1>1 DEF StartRun, Queued
  <2>2. Min(Queued) \in Queued
    BY <2>1, MinMember
  <2> QED BY <2>2 DEF StartRun
<1>3. /\ r \in 1 .. n /\ DOMAIN runs = 1 .. n /\ runs[r].status = "queued"
      /\ runs[r].order = 0 /\ job.at = "none"
      /\ UNCHANGED <<day, release, manifest, artifacts, begun>>
  BY <1>1, <1>2 DEF StartRun, Queued, world, Records, Record
<1>4. /\ runs' \in [1 .. n -> Runs]
      /\ runs'[r].status = "running" /\ runs'[r].order = 0 /\ runs'[r].kind = runs[r].kind
      /\ runs'[r].began = runs[r].began /\ runs'[r].exec = runs[r].exec
      /\ \A q \in 1 .. n \ {r} : runs'[q] = runs[q]
  <2>1. runs[r] \in Runs /\ release \in 1 .. MaxRelease
    BY <1>1, <1>3 DEF Shapes
  <2>2. runs'[r] = [runs[r] EXCEPT !.status = "running", !.release = release]
    BY <1>2, <1>3
  <2>3. runs'[r] \in Runs
    BY <2>1, <2>2 DEF Runs, Statuses
  <2>4. DOMAIN runs' = 1 .. n /\ \A q \in 1 .. n \ {r} : runs'[q] = runs[q]
    BY <1>2, <1>3
  <2>5. runs' = [q \in 1 .. n |-> runs'[q]]
    BY <1>2, <1>3
  <2>6. runs' \in [1 .. n -> Runs]
    <3>1. \A q \in 1 .. n : runs'[q] \in Runs
      BY <1>1, <2>3, <2>4
    <3> QED BY <2>5, <3>1
  <2> QED BY <1>3, <2>1, <2>2, <2>4, <2>6 DEF Runs
<1>5. job' \in Jobs /\ job'.at = "guard" /\ job'.run = r /\ job'.manifest = manifest
  <2>1. NoJob \in Jobs
    BY DEF NoJob, Jobs, Steps
  <2>2. r \in Nat /\ manifest \in Nat /\ "guard" \in Steps
    BY <1>3 DEF Shapes, Steps
  <2> QED BY <1>2, <2>1, <2>2 DEF Jobs
<1>6. \A q \in DOMAIN runs : Kept(q)
  BY <1>3, <1>4 DEF Kept
<1>7. DOMAIN runs' = DOMAIN runs
  BY <1>3, <1>4
<1>8. Shapes'
  <2>1. \A q \in DOMAIN runs' : runs'[q].status = "running" => q = r
    BY <1>3, <1>4 DEF Shapes
  <2> QED BY <1>3, <1>4, <1>5, <2>1 DEF Shapes, Self
<1>9. Records'
  <2>1. ASSUME NEW q \in 1 .. n PROVE Record(q)'
    <3>1. Record(q)
      BY <1>3 DEF Records
    <3>2. begun \in Nat
      BY DEF Shapes
    <3> QED BY <1>3, <1>4, <1>5, <3>1, <3>2 DEF Record
  <2> QED BY <1>3, <1>5, <1>7, <2>1 DEF Records
<1>10. Executed' = Executed /\ (AutomatedFirst => AutomatedFirst')
  BY <1>6, <1>7, ExecutedKept
<1>11. Memory'
  <2>1. \A a \in DOMAIN artifacts' : Remembers(a)'
    BY <1>3, <1>6, <1>7, ArtifactsKept
  <2> QED BY <1>5, <2>1 DEF Memory
<1>12. First'
  BY <1>5, <1>10 DEF First
<1> QED BY <1>8, <1>9, <1>11, <1>12

(***************************************************************************)
(* The run that holds the runner moves on.                                 *)
(***************************************************************************)
\* Going on to a later step of the run keeps the inductive invariant.
LEMMA GotoStep ==
  ASSUME LineageInv, NEW step \in {"restore", "install", "preflight", "execute"},
         job'.at = step, job' \in Jobs, job'.run = job.run, job'.manifest = job.manifest,
         step = "install" => job'.chosen \in DOMAIN artifacts,
         UNCHANGED <<day, release, manifest, runs, artifacts, begun>>,
         job.at \notin {"none", "publish"},
         step \in {"preflight", "execute"} => job'.state = Executed,
         job.at = "guard" /\ Self.kind \in Automated => \A q \in Executed : runs[q].began < day
  PROVE  LineageInv'
<1>1. Shapes'
  BY DEF LineageInv, Shapes, Self
<1>2. job'.at \notin {"none", "publish"}
  OBVIOUS
<1> QED BY <1>1, <1>2, RunsKept DEF LineageInv, history

\* A run that finds the session missing finds no execution of the session's day.
LEMMA GuardStep ==
  ASSUME LineageInv, GuardAdmits
  PROVE  LineageInv'
<1> USE DEF LineageInv
<1>1. job' = [job EXCEPT !.at = "restore"] /\ job.at = "guard" /\ job \in Jobs
  BY DEF GuardAdmits, Goto, Shapes
<1>2. job' \in Jobs /\ job'.at = "restore" /\ job'.run = job.run /\ job'.manifest = job.manifest
  BY <1>1 DEF Jobs, Steps
<1>3. UNCHANGED <<day, release, manifest, runs, artifacts, begun>>
  BY DEF GuardAdmits, world, history
<1>4. ASSUME Self.kind \in Automated, NEW q \in Executed
      PROVE  runs[q].began < day
  <2>1. q \in DOMAIN runs /\ runs[q].order > 0 /\ Record(q)
    BY DEF Executed, Records
  <2>2. runs[q] \in Runs /\ day \in Nat
    BY <2>1 DEF Shapes
  <2>3. q # job.run
    BY <1>1, <2>1, <2>2 DEF Record, Shapes, Self, Runs
  <2>4. Missing(job.run)
    BY <1>1, <1>4 DEF GuardAdmits
  <2>5. runs[q].status = "completed"
    BY <2>1, <2>3, <2>4 DEF Missing, Active
  <2>6. runs[q].exec # "skipped" /\ runs[q].began <= runs[q].day
    BY <2>1, <2>2, <2>5 DEF Record, Runs
  <2>7. runs[q].began \in Nat /\ runs[q].day \in Nat
    BY <2>2 DEF Runs
  <2>8. SUFFICES ASSUME runs[q].began >= day PROVE FALSE
    BY <2>2, <2>7
  <2>9. runs[q].day >= day
    BY <2>2, <2>6, <2>7, <2>8
  <2>10. q \in Today(job.run)
    BY <2>1, <2>3, <2>5, <2>9 DEF Today
  <2> QED BY <2>4, <2>6, <2>8, <2>10 DEF Missing, Attempted
<1> QED BY <1>1, <1>2, <1>3, <1>4, GotoStep

\* Choosing the artifact to restore keeps the inductive invariant.
LEMMA ChooseStep ==
  ASSUME LineageInv, RestoreChooses
  PROVE  LineageInv'
<1> USE DEF LineageInv
<1>1. job' = [job EXCEPT !.at = "install", !.chosen = Candidate] /\ job.at = "restore" /\ job \in Jobs
  BY DEF RestoreChooses, Shapes
<1>2. UNCHANGED <<day, release, manifest, runs, artifacts, begun>>
  BY DEF RestoreChooses, world, history
<1>3. PICK n \in Nat : artifacts \in [1 .. n -> Artifacts]
  BY DEF Shapes
<1>4. Candidate \in DOMAIN artifacts
  <2>1. CASE Native # {}
    <3>1. Native \in SUBSET (1 .. n)
      BY <1>3 DEF Native, Namespace
    <3>2. Max(Native) \in Native
      BY <2>1, <3>1, MaxMember
    <3> QED BY <2>1, <3>2 DEF Candidate, Native, Namespace
  <2>2. CASE Native = {}
    <3>1. job.manifest # 0
      BY <2>2 DEF RestoreChooses, Restorable, Handoff
    <3> QED BY <2>2, <3>1 DEF Candidate, Shapes
  <2> QED BY <2>1, <2>2
<1>5. Candidate \in Nat
  BY <1>3, <1>4
<1>6. /\ job' \in Jobs /\ job'.at = "install" /\ job'.run = job.run
      /\ job'.manifest = job.manifest /\ job'.chosen = Candidate
  BY <1>1, <1>5 DEF Jobs, Steps
<1> QED BY <1>1, <1>2, <1>4, <1>6, GotoStep

\* The newest artifact remembers every execution when no run may have executed after it.
LEMMA LatestRemembers ==
  ASSUME LineageInv, NEW a \in DOMAIN artifacts, Latest(a), job.at \notin {"none", "publish"}
  PROVE  artifacts[a].state = Executed
<1> USE DEF LineageInv
<1>1. Remembers(a)
  BY DEF Memory
<1>2. ASSUME NEW r \in Executed
      PROVE  runs[r].order <= Owner(a).order
  <2>1. r \in DOMAIN runs /\ runs[r].order > 0 /\ Record(r)
    BY DEF Executed, Records
  <2>2. runs[r] \in Runs /\ Owner(a) \in Runs
    BY <1>1, <2>1 DEF Shapes, Remembers, Owner
  <2>3. runs[r].order \in Nat /\ runs[r].seen \in Nat /\ Owner(a).order \in Nat
    BY <2>2 DEF Runs
  <2>4. r # job.run
    BY <2>1, <2>3 DEF Record, Shapes, Self
  <2>5. CASE r = artifacts[a].run
    BY <2>3, <2>5 DEF Owner
  <2>6. CASE r # artifacts[a].run
    <3>1. \/ runs[r].status = "completed" /\ runs[r].seen < Owner(a).order
          \/ runs[r].exec = "skipped"
          \/ runs[r].order < Owner(a).order
      BY <2>1, <2>4, <2>6 DEF Latest
    <3> QED BY <2>1, <2>3, <3>1 DEF Record
  <2> QED BY <2>5, <2>6
<1> QED BY <1>1, <1>2 DEF Remembers, UpTo

\* Installing the chosen artifact keeps the inductive invariant.
LEMMA InstallStep ==
  ASSUME LineageInv, RestoreInstalls
  PROVE  LineageInv'
<1> USE DEF LineageInv
<1>1. /\ job' = [job EXCEPT !.at = "preflight", !.state = artifacts[job.chosen].state]
      /\ job.at = "install" /\ job \in Jobs /\ job.chosen \in DOMAIN artifacts
  BY DEF RestoreInstalls, Shapes
<1>2. UNCHANGED <<day, release, manifest, runs, artifacts, begun>>
  BY DEF RestoreInstalls, world, history
<1>3. artifacts[job.chosen].state = Executed
  BY <1>1, LatestRemembers DEF RestoreInstalls
<1>4. artifacts[job.chosen].state \in SUBSET Nat
  BY <1>1 DEF Shapes, Artifacts
<1>5. /\ job' \in Jobs /\ job'.at = "preflight" /\ job'.run = job.run
      /\ job'.manifest = job.manifest /\ job'.state = Executed
  BY <1>1, <1>3, <1>4 DEF Jobs, Steps
<1> QED BY <1>1, <1>2, <1>5, GotoStep

(***************************************************************************)
(* The run ends: its record is closed, and nothing else of it changes.     *)
(***************************************************************************)
\* The end of a run changes its own record alone.
LEMMA FinishRuns ==
  ASSUME LineageInv, job.at # "none",
         NEW success \in BOOLEAN, NEW exec \in Executions, NEW ready \in BOOLEAN,
         exec = "skipped" => job.at # "publish",
         Finish(success, exec, ready), UNCHANGED <<day, begun>>
  PROVE  /\ \E n \in Nat : runs' \in [1 .. n -> Runs]
         /\ \A r \in DOMAIN runs : Kept(r)
         /\ DOMAIN runs' = DOMAIN runs
         /\ \A r \in DOMAIN runs' : runs'[r].status # "running"
         /\ runs'[job.run].status = "completed"
         /\ Records'
<1> USE DEF LineageInv
<1>1. PICK n \in Nat : runs \in [1 .. n -> Runs]
  BY DEF Shapes
<1>2. /\ job.run \in 1 .. n /\ DOMAIN runs = 1 .. n /\ runs[job.run].status = "running"
      /\ runs[job.run] \in Runs /\ day \in 0 .. MaxDay /\ begun \in Nat
  BY <1>1 DEF Shapes, Self
<1>3. /\ DOMAIN runs' = 1 .. n
      /\ runs' = [r \in 1 .. n |-> runs'[r]]
      /\ \A r \in 1 .. n \ {job.run} : runs'[r] = runs[r]
      /\ runs'[job.run] = Closed(runs[job.run], success, exec, ready, day, begun)
  BY <1>2 DEF Finish, Closed
<1>4. /\ runs'[job.run] \in Runs
      /\ runs'[job.run].status = "completed" /\ runs'[job.run].exec = exec
      /\ runs'[job.run].day = day /\ runs'[job.run].seen = begun
      /\ runs'[job.run].kind = runs[job.run].kind /\ runs'[job.run].order = runs[job.run].order
      /\ runs'[job.run].began = runs[job.run].began
  BY <1>2, <1>3, ClosedRecord
<1>5. runs' \in [1 .. n -> Runs]
  <2>1. \A r \in 1 .. n : runs'[r] \in Runs
    BY <1>1, <1>3, <1>4
  <2> QED BY <1>3, <2>1
<1>6. \A r \in DOMAIN runs : Kept(r)
  BY <1>2, <1>3, <1>4 DEF Kept
<1>7. \A r \in DOMAIN runs' : runs'[r].status # "running"
  BY <1>2, <1>3, <1>4 DEF Shapes
<1>8. job'.at = "none"
  BY DEF Finish, NoJob
<1>9. Records'
  <2>1. ASSUME NEW r \in 1 .. n PROVE Record(r)'
    <3>1. Record(r)
      BY <1>2 DEF Records
    <3>2. CASE r # job.run
      <4>1. runs'[r] = runs[r] /\ runs[r].status # "running"
        BY <1>2, <1>3, <3>2 DEF Shapes
      <4> QED BY <3>1, <4>1 DEF Record
    <3>3. CASE r = job.run
      <4>1. exec = "skipped" => runs[r].order = 0
        BY <1>2, <3>1, <3>3 DEF Record
      <4>2. runs[r].order <= begun /\ (runs[r].order > 0 => runs[r].began <= day)
        BY <3>1 DEF Record
      <4> QED BY <1>4, <3>3, <4>1, <4>2 DEF Record
    <3> QED BY <3>2, <3>3
  <2> QED BY <1>3, <1>8, <2>1 DEF Records
<1> QED BY <1>2, <1>3, <1>4, <1>5, <1>6, <1>7, <1>9

\* The end of a run, with or without its artifact, keeps the inductive invariant.
LEMMA FinishStep ==
  ASSUME LineageInv, job.at # "none",
         NEW success \in BOOLEAN, NEW exec \in Executions, NEW ready \in BOOLEAN,
         exec = "skipped" => job.at # "publish",
         Finish(success, exec, ready), UNCHANGED <<day, release, manifest, begun>>,
         \/ UNCHANGED artifacts
         \/ job.at = "publish" /\ Upload
  PROVE  LineageInv'
<1> USE DEF LineageInv
<1>1. /\ \E n \in Nat : runs' \in [1 .. n -> Runs]
      /\ \A r \in DOMAIN runs : Kept(r)
      /\ DOMAIN runs' = DOMAIN runs
      /\ \A r \in DOMAIN runs' : runs'[r].status # "running"
      /\ runs'[job.run].status = "completed"
      /\ Records'
  BY FinishRuns
<1>2. job' = NoJob /\ job' \in Jobs /\ job'.at = "none" /\ job'.manifest = 0
  BY DEF Finish, NoJob, Jobs, Steps
<1>3. /\ Executed' = Executed /\ (\A k : UpTo(k)' = UpTo(k)) /\ (AutomatedFirst => AutomatedFirst')
  BY <1>1, ExecutedKept
<1>4. First'
  BY <1>2, <1>3 DEF First
<1>5. CASE UNCHANGED artifacts
  <2>1. \A a \in DOMAIN artifacts' : Remembers(a)'
    BY <1>1, <1>5, ArtifactsKept
  <2>2. Memory'
    BY <1>2, <2>1 DEF Memory
  <2>3. Shapes'
    BY <1>1, <1>2, <1>5 DEF Shapes
  <2> QED BY <1>1, <1>4, <2>2, <2>3
<1>6. CASE job.at = "publish" /\ Upload
  <2>1. PICK n \in Nat : artifacts \in [1 .. n -> Artifacts]
    BY DEF Shapes
  <2> DEFINE new == [run |-> job.run, release |-> Self.release, state |-> job.state]
  <2>2. Cardinality(DOMAIN artifacts) = n /\ DOMAIN artifacts = 1 .. n
    BY <2>1, FS_Interval
  <2>3. artifacts' = Extend(artifacts, n + 1, new)
    BY <1>6, <2>2 DEF Upload
  <2>4. /\ DOMAIN artifacts' = 1 .. n + 1 /\ artifacts'[n + 1] = new
        /\ \A a \in 1 .. n : artifacts'[a] = artifacts[a]
        /\ artifacts' = [a \in 1 .. n + 1 |-> artifacts'[a]]
    BY <2>3 DEF Extend
  <2>5. \A a \in 1 .. n + 1 : a \in 1 .. n \/ a = n + 1
    OBVIOUS
  <2>6. \A a \in 1 .. n : a \in 1 .. n + 1
    OBVIOUS
  <2>7. /\ job.run \in DOMAIN runs /\ Self \in Runs /\ job.run \in Nat /\ job.state \in SUBSET Nat
        /\ Self.order = begun /\ begun > 0 /\ job.state = Executed
    BY <1>6 DEF Shapes, Self, Jobs, Records, Memory
  <2>8. new \in Artifacts
    BY <2>7 DEF Artifacts, Runs
  <2>9. artifacts' \in [1 .. n + 1 -> Artifacts]
    <3>1. \A a \in 1 .. n + 1 : artifacts'[a] \in Artifacts
      BY <2>1, <2>4, <2>5, <2>8
    <3> QED BY <2>4, <3>1
  <2>10. Shapes'
    <3>1. \E m \in Nat : artifacts' \in [1 .. m -> Artifacts]
      BY <2>9
    <3>2. manifest' \in {0} \cup DOMAIN artifacts'
      BY <2>2, <2>4, <2>6 DEF Shapes
    <3> QED BY <1>1, <1>2, <3>1, <3>2 DEF Shapes
  <2>11. ASSUME NEW a \in 1 .. n PROVE Remembers(a)'
    <3>1. Remembers(a)
      BY <2>2 DEF Memory
    <3>2. Kept(artifacts[a].run) /\ artifacts'[a] = artifacts[a]
      BY <1>1, <2>4, <3>1 DEF Remembers
    <3>3. Owner(a)' = Owner(a)
      BY <3>1, <3>2 DEF Remembers, Kept, Owner
    <3> QED BY <1>3, <3>1, <3>2, <3>3 DEF Remembers, Kept
  <2>12. Remembers(n + 1)'
    <3>1. artifacts'[n + 1].run = job.run /\ artifacts'[n + 1].state = Executed
      BY <2>4, <2>7
    <3>2. /\ runs'[job.run].order = begun /\ runs'[job.run].status = "completed"
          /\ job.run \in DOMAIN runs'
      BY <1>1, <2>7 DEF Kept, Self
    <3>3. UpTo(begun) = Executed
      BY DEF UpTo, Executed, Records, Record
    <3> QED BY <1>3, <2>7, <3>1, <3>2, <3>3 DEF Remembers, Owner
  <2>13. \A a \in DOMAIN artifacts' : Remembers(a)'
    BY <2>4, <2>5, <2>11, <2>12
  <2>14. Memory'
    BY <1>2, <2>13 DEF Memory
  <2> QED BY <1>1, <1>4, <2>10, <2>14
<1> QED BY <1>5, <1>6

(***************************************************************************)
(* The execution: it comes after every other, and its state remembers it.  *)
(***************************************************************************)
\* Executing keeps the inductive invariant.
LEMMA ExecuteStep ==
  ASSUME LineageInv, Execute
  PROVE  LineageInv'
<1> USE DEF LineageInv
<1>1. PICK n \in Nat : runs \in [1 .. n -> Runs]
  BY DEF Shapes
<1>0. PICK s : s = job.run
  OBVIOUS
<1>2. /\ s \in 1 .. n /\ DOMAIN runs = 1 .. n /\ runs[s].status = "running" /\ runs[s] \in Runs
      /\ job.at = "execute" /\ job \in Jobs /\ job.state = Executed
      /\ day \in 0 .. MaxDay /\ begun \in Nat /\ begun' = begun + 1
      /\ UNCHANGED <<day, release, manifest, artifacts>>
  BY <1>0, <1>1 DEF Execute, world, Shapes, Self, Memory
<1>3. runs[s].order = 0
  BY <1>2 DEF Records, Record
<1>4. /\ DOMAIN runs' = 1 .. n /\ runs' = [r \in 1 .. n |-> runs'[r]]
      /\ \A r \in 1 .. n \ {s} : runs'[r] = runs[r]
      /\ runs'[s] = [runs[s] EXCEPT !.order = begun + 1, !.began = day]
  BY <1>0, <1>2 DEF Execute
<1>5. /\ runs'[s] \in Runs /\ runs'[s].order = begun + 1 /\ runs'[s].began = day
      /\ runs'[s].status = "running" /\ runs'[s].kind = runs[s].kind
      /\ runs'[s].exec = runs[s].exec
  <2>1. runs'[s] \in Runs
    <3>1. begun + 1 \in Nat
      BY <1>2
    <3>2. ASSUME NEW R \in Runs, NEW k \in Nat, NEW d \in 0 .. MaxDay
          PROVE  [R EXCEPT !.order = k, !.began = d] \in Runs
      BY DEF Runs
    <3>3. [runs[s] EXCEPT !.order = begun + 1, !.began = day] \in Runs
      <4> HIDE DEF Runs
      <4> QED BY <1>2, <3>1, <3>2
    <3> QED BY <1>4, <3>3
  <2> QED BY <1>2, <1>4, <2>1 DEF Runs
<1>6. runs' \in [1 .. n -> Runs]
  <2>1. \A r \in 1 .. n : runs'[r] \in Runs
    BY <1>1, <1>4, <1>5
  <2> QED BY <1>4, <2>1
<1>7. /\ job' \in Jobs /\ job'.at = "publish" /\ job'.run = s /\ job'.manifest = job.manifest
      /\ job'.state = job.state \cup {s}
  <2>1. job' = [job EXCEPT !.at = "publish", !.state = job.state \cup {s}]
    BY <1>0 DEF Execute
  <2>2. job.state \cup {s} \in SUBSET Nat
    BY <1>2 DEF Jobs
  <2>3. ASSUME NEW J \in Jobs, NEW S \in SUBSET Nat
        PROVE  [J EXCEPT !.at = "publish", !.state = S] \in Jobs
    BY DEF Jobs, Steps
  <2>4. job' \in Jobs
    BY <1>2, <2>1, <2>2, <2>3
  <2> QED BY <1>0, <1>2, <2>1, <2>4 DEF Jobs
<1>8. Executed' = Executed \cup {s}
  <2>1. begun + 1 > 0
    BY <1>2
  <2>2. \A r \in 1 .. n : runs'[r].order > 0 <=> r = s \/ runs[r].order > 0
    BY <1>4, <1>5, <2>1
  <2> QED BY <1>2, <1>4, <2>2 DEF Executed
<1>9. s \notin Executed
  BY <1>3 DEF Executed
<1>10. \A r \in Executed : r \in 1 .. n /\ r # s /\ runs'[r] = runs[r]
  BY <1>2, <1>4, <1>9 DEF Executed
<1>11. Shapes'
  <2>1. \A r \in DOMAIN runs' : runs'[r].status = "running" => r = s
    BY <1>0, <1>2, <1>4 DEF Shapes
  <2>2. begun' \in Nat
    BY <1>2
  <2>3. manifest' \in {0} \cup DOMAIN artifacts' /\ job'.manifest \in {0} \cup DOMAIN artifacts'
    BY <1>2, <1>7 DEF Shapes
  <2>4. s \in DOMAIN runs' /\ runs'[job'.run].status = "running"
    BY <1>2, <1>4, <1>5, <1>7
  <2> QED BY <1>2, <1>6, <1>7, <2>1, <2>2, <2>3, <2>4 DEF Shapes, Self
<1>12. \A r \in 1 .. n : Record(r) /\ runs[r].order \in Nat
  BY <1>1, <1>2 DEF Records, Runs
<1>13. Records'
  <2>1. ASSUME NEW r \in 1 .. n PROVE Record(r)'
    <3>1. CASE r # s
      <4>1. runs'[r] = runs[r] /\ runs[r].status # "running"
        BY <1>0, <1>2, <1>4, <3>1 DEF Shapes
      <4>2. runs[r].order <= begun + 1
        BY <1>2, <1>12 DEF Record
      <4> QED BY <1>2, <1>12, <4>1, <4>2 DEF Record
    <3>2. CASE r = s
      <4>1. runs[s].exec # "skipped"
        BY <1>2, <1>12 DEF Record
      <4> QED BY <1>2, <1>5, <1>7, <3>2, <4>1 DEF Record
    <3> QED BY <3>1, <3>2
  <2>2. Self'.order = begun + 1 /\ begun + 1 > 0
    BY <1>2, <1>5, <1>7 DEF Self
  <2> QED BY <1>2, <1>4, <2>1, <2>2 DEF Records
<1>14. Memory'
  <2>1. ASSUME NEW a \in DOMAIN artifacts PROVE Remembers(a)'
    <3>1. Remembers(a)
      BY DEF Memory
    <3>2. artifacts[a].run \in 1 .. n /\ artifacts[a].run # s
      BY <1>2, <3>1 DEF Remembers, Owner
    <3>3. Owner(a)' = Owner(a)
      BY <1>2, <1>4, <3>2 DEF Owner
    <3>4. UpTo(Owner(a).order)' = UpTo(Owner(a).order)
      <4>1. Owner(a).order <= begun /\ Owner(a).order \in Nat
        BY <1>12, <3>2 DEF Record, Owner
      <4>2. ~(begun + 1 <= Owner(a).order)
        BY <1>2, <4>1
      <4> QED BY <1>5, <1>8, <1>10, <3>3, <4>2 DEF UpTo
    <3> QED BY <1>2, <1>4, <3>1, <3>2, <3>3, <3>4 DEF Remembers
  <2>2. job'.state = Executed'
    BY <1>2, <1>7, <1>8
  <2> QED BY <1>2, <1>7, <2>1, <2>2 DEF Memory
<1>15. AutomatedFirst'
  <2> SUFFICES ASSUME NEW r \in Executed', NEW q \in Executed', runs'[r].kind \in Automated,
                      runs'[r].began = runs'[q].began, r # q
               PROVE  runs'[r].order < runs'[q].order
    BY DEF AutomatedFirst
  <2>1. CASE r # s /\ q # s
    BY <1>8, <1>10, <2>1 DEF First, AutomatedFirst
  <2>2. CASE q = s
    <3>1. r \in Executed
      BY <1>8, <2>2
    <3>2. runs'[r].order <= begun /\ runs'[r].order \in Nat
      BY <1>10, <1>12, <3>1 DEF Record
    <3> QED BY <1>2, <1>5, <2>2, <3>2
  <2>3. CASE r = s
    <3>1. q \in Executed
      BY <1>8, <2>3
    <3>2. runs[q].began < day
      BY <1>0, <1>2, <1>5, <2>3, <3>1 DEF First, Self
    <3>3. runs'[q].began = runs[q].began /\ runs[q].began \in Nat
      BY SMTT(30), <1>1, <1>10, <3>1 DEF Runs
    <3> QED BY <1>2, <1>5, <2>3, <3>2, <3>3
  <2> QED BY <2>1, <2>2, <2>3
<1>16. First'
  BY <1>7, <1>15 DEF First
<1> QED BY <1>11, <1>13, <1>14, <1>16

(***************************************************************************)
(* The theorems.                                                           *)
(***************************************************************************)
\* Every step of a run keeps the inductive invariant.
LEMMA RunStep == LineageInv /\ Run => LineageInv'
<1> SUFFICES ASSUME LineageInv, Run PROVE LineageInv'
  OBVIOUS
<1>0. {"skipped", "success", "failure", "unreadable"} \subseteq Executions
  BY DEF Executions
<1>1. CASE StartRun
  BY <1>1, StartRunStep
<1>2. CASE GuardAdmits
  BY <1>2, GuardStep
<1>3. CASE GuardRefuses
  BY <1>0, <1>3, FinishStep DEF GuardRefuses, world
<1>4. CASE RestoreChooses
  BY <1>4, ChooseStep
<1>5. CASE RestoreInstalls
  BY <1>5, InstallStep
<1>6. CASE RestoreRefuses
  BY <1>0, <1>6, FinishStep DEF RestoreRefuses, world
<1>7. CASE ChecksPass
  <2>1. UNCHANGED <<day, release, manifest, artifacts, begun>> /\ job.at = "preflight"
    BY <1>7 DEF ChecksPass, world
  <2>2. CASE Finish(TRUE, "skipped", TRUE)
    BY <1>0, <2>1, <2>2, FinishStep
  <2>3. CASE Goto("execute") /\ UNCHANGED runs
    <3>1. job \in Jobs /\ job' = [job EXCEPT !.at = "execute"] /\ job.state = Executed
      BY <2>1, <2>3 DEF Goto, LineageInv, Shapes, Memory
    <3>2. /\ job' \in Jobs /\ job'.at = "execute" /\ job'.run = job.run
          /\ job'.manifest = job.manifest /\ job'.state = job.state
      BY <3>1 DEF Jobs, Steps
    <3> QED BY <2>1, <2>3, <3>1, <3>2, GotoStep
  <2> QED BY <1>7, <2>2, <2>3 DEF ChecksPass
<1>8. CASE Execute
  BY <1>8, ExecuteStep
<1>9. CASE ExecutionSucceeds
  BY <1>0, <1>9, FinishStep DEF ExecutionSucceeds, world
<1> QED BY <1>1, <1>2, <1>3, <1>4, <1>5, <1>6, <1>7, <1>8, <1>9 DEF Run

\* Every failure of a run keeps the inductive invariant.
LEMMA FailureStep == LineageInv /\ Failure => LineageInv'
<1> SUFFICES ASSUME LineageInv, Failure PROVE LineageInv'
  OBVIOUS
<1>0. {"skipped", "success", "failure", "unreadable"} \subseteq Executions
  BY DEF Executions
<1>1. CASE ExecutionFails
  BY <1>0, <1>1, FinishStep DEF ExecutionFails, world
<1>2. CASE PublicationFails
  <2>1. PICK exec \in {"success", "failure"} : Finish(FALSE, exec, TRUE)
    BY <1>2 DEF PublicationFails
  <2>2. job.at = "publish" /\ UNCHANGED <<day, release, manifest, artifacts, begun>>
    BY <1>2 DEF PublicationFails, world
  <2> QED BY <1>0, <2>1, <2>2, FinishStep
<1>3. CASE StepFails
  <2>1. PICK ready \in BOOLEAN : Finish(FALSE, "skipped", ready)
    BY <1>3 DEF StepFails
  <2>2. job.at \notin {"none", "publish"} /\ UNCHANGED <<day, release, manifest, artifacts, begun>>
    BY <1>3 DEF StepFails, world
  <2> QED BY <1>0, <2>1, <2>2, FinishStep
<1>4. CASE RunLost
  <2>1. PICK exec \in {"unreadable", IF job.at = "publish" THEN "failure" ELSE "skipped"} :
          Finish(FALSE, exec, job.at \in {"execute", "publish"})
    BY <1>4 DEF RunLost
  <2>2. job.at # "none" /\ UNCHANGED <<day, release, manifest, artifacts, begun>>
    BY <1>4 DEF RunLost, world
  <2>3. exec \in Executions /\ (exec = "skipped" => job.at # "publish")
    BY <1>0
  <2>4. (job.at \in {"execute", "publish"}) \in BOOLEAN
    OBVIOUS
  <2> QED BY <2>1, <2>2, <2>3, <2>4, FinishStep
<1> QED BY <1>1, <1>2, <1>3, <1>4 DEF Failure

\* The watchdog, the schedule, the operator and the calendar touch no execution.
LEMMA OthersStep == LineageInv /\ (Watchdog \/ Calendar \/ Operator) => LineageInv'
<1> SUFFICES ASSUME LineageInv, Watchdog \/ Calendar \/ Operator PROVE LineageInv'
  OBVIOUS
<1>0. {"recover", "schedule", "execute", "preflight"} \subseteq Kinds
  BY DEF Kinds, Automated
<1>1. CASE WatchdogLooks \/ WatchdogStandsDown
  <2>1. UNCHANGED <<world, history, job>>
    BY <1>1 DEF WatchdogLooks, WatchdogStandsDown
  <2>2. Shapes'
    BY <2>1 DEF LineageInv, Shapes, Self, world, history
  <2> QED BY <2>1, <2>2, RunsKept DEF world
<1>2. CASE WatchdogDispatches
  BY <1>0, <1>2, EnqueueStep DEF WatchdogDispatches, world
<1>3. CASE ScheduleFires
  BY <1>0, <1>3, EnqueueStep DEF ScheduleFires
<1>4. CASE OperatorRequests
  BY <1>0, <1>4, EnqueueStep DEF OperatorRequests, world
<1>5. CASE Approve
  <2>1. UNCHANGED <<day, history, job>>
    BY <1>5 DEF Approve
  <2>2. release' \in 1 .. MaxRelease /\ manifest' \in {0} \cup DOMAIN artifacts
    BY <1>5 DEF Approve
  <2>3. Shapes'
    BY <2>1, <2>2 DEF LineageInv, Shapes, Self, history
  <2> QED BY <2>1, <2>3, RunsKept
<1>6. CASE NextDay
  <2>1. UNCHANGED <<release, manifest, history, job>> /\ day' = day + 1 /\ day < MaxDay
    BY <1>6 DEF NextDay
  <2>2. day' \in 1 .. MaxDay
    BY <2>1, BoundsAssumption DEF LineageInv, Shapes
  <2>3. Shapes'
    BY <2>1, <2>2 DEF LineageInv, Shapes, Self, history
  <2> QED BY <2>1, <2>3, RunsKept
<1> QED BY <1>1, <1>2, <1>3, <1>4, <1>5, <1>6 DEF Watchdog, Calendar, Operator

\* Every action keeps the inductive invariant.
LEMMA LineageStep == LineageInv /\ [Next]_vars => LineageInv'
<1> SUFFICES ASSUME LineageInv, [Next]_vars PROVE LineageInv'
  OBVIOUS
<1>1. CASE Run
  BY <1>1, RunStep
<1>2. CASE Failure
  BY <1>2, FailureStep
<1>3. CASE Watchdog \/ Calendar \/ Operator
  BY <1>3, OthersStep
<1>4. CASE UNCHANGED vars
  <2>1. UNCHANGED <<world, history, job>>
    BY <1>4 DEF vars
  <2>2. Shapes'
    BY <2>1 DEF LineageInv, Shapes, Self, world, history
  <2> QED BY <2>1, <2>2, RunsKept DEF world
<1> QED BY <1>1, <1>2, <1>3, <1>4 DEF Next, Unattended

\* The inductive invariant holds in every reachable state.
LEMMA LineageAlways == Spec => []LineageInv
<1> QED BY LineageInit, LineageStep, PTL DEF Spec

\* restore_paper_runtime.py: however runs fail, are lost, superseded or handed over between releases, and
\* however often the operator acts, an execution of the paper workflow starts from
\* a state that remembers every earlier execution.
THEOREM NothingForgottenCorrect == Spec => []NothingForgotten
<1>1. LineageInv => NothingForgotten
  BY DEF LineageInv, Memory, NothingForgotten
<1> QED BY <1>1, LineageAlways, PTL

\* paper_cadence.py: an execution the schedule or the watchdog began is the first of its day.
THEOREM AutomatedFirstCorrect == Spec => []AutomatedFirst
<1>1. LineageInv => AutomatedFirst
  BY DEF LineageInv, First
<1> QED BY <1>1, LineageAlways, PTL

(***************************************************************************)
(* The status page.  Production is the workflow's own step, and a run that *)
(* completed is not changed by it.                                         *)
(***************************************************************************)
HistoryKept ==
  /\ DOMAIN runs \subseteq DOMAIN runs'
  /\ DOMAIN runs \subseteq 1 .. MaxRuns => DOMAIN runs' \subseteq 1 .. MaxRuns
  /\ \A r \in DOMAIN runs : runs[r].status = "completed" => runs'[r] = runs[r]
  /\ \A r \in DOMAIN runs' \ DOMAIN runs : runs'[r].status # "completed"
  /\ job.at # "execute" => \A r \in DOMAIN runs : runs'[r].order = runs[r].order

\* A step that writes the record of one run that is not completed keeps the others.
LEMMA OneRecord ==
  ASSUME Shapes, NEW s \in DOMAIN runs, runs[s].status # "completed",
         DOMAIN runs' = DOMAIN runs, \A r \in DOMAIN runs \ {s} : runs'[r] = runs[r],
         job.at # "execute" => runs'[s].order = runs[s].order
  PROVE  HistoryKept
BY DEF HistoryKept

\* A run that ends was running.
LEMMA FinishKeeps ==
  ASSUME Shapes, job.at # "none", NEW success, NEW exec, NEW ready, Finish(success, exec, ready)
  PROVE  HistoryKept
<1>1. PICK n \in Nat : runs \in [1 .. n -> Runs]
  BY DEF Shapes
<1>2. /\ job.run \in DOMAIN runs /\ runs[job.run].status = "running" /\ runs[job.run] \in Runs
  BY <1>1 DEF Shapes, Self
<1>3. /\ DOMAIN runs' = DOMAIN runs
      /\ \A r \in DOMAIN runs \ {job.run} : runs'[r] = runs[r]
      /\ runs'[job.run].order = runs[job.run].order
  BY <1>1, <1>2 DEF Finish, Runs
<1> QED BY <1>2, <1>3, OneRecord

\* A new run is not completed, and only a waiting run is superseded by it.
LEMMA EnqueueKeeps ==
  ASSUME Shapes, NEW kind, Enqueue(kind)
  PROVE  HistoryKept
<1>1. PICK n \in Nat : runs \in [1 .. n -> Runs]
  BY DEF Shapes
<1>2. Cardinality(DOMAIN runs) = n /\ n < MaxRuns
  BY <1>1, FS_Interval DEF Enqueue
<1>3. PICK exec \in {"skipped", "unreadable"} :
        runs' = Extend([r \in DOMAIN runs |-> Superseded(r, exec)], n + 1, NewRun(kind))
  BY <1>2 DEF Enqueue
<1>4. DOMAIN runs' = 1 .. n + 1 /\ runs'[n + 1] = NewRun(kind)
  BY <1>3 DEF Extend
<1>5. \A r \in 1 .. n : runs'[r] = Superseded(r, exec)
  BY <1>1, <1>3 DEF Extend
<1>6. Waiting \subseteq Queued
  BY DEF Waiting
<1>7. \A r \in 1 .. n : /\ runs[r].status = "completed" => runs'[r] = runs[r]
                        /\ runs'[r].order = runs[r].order
  BY <1>1, <1>5, <1>6 DEF Superseded, Queued, Runs
<1>8. NewRun(kind).status = "queued"
  BY DEF NewRun
<1>9. DOMAIN runs = 1 .. n /\ 1 .. n \subseteq 1 .. n + 1 /\ 1 .. n + 1 \subseteq 1 .. MaxRuns
  BY <1>1, <1>2, BoundsAssumption
<1>10. \A r \in DOMAIN runs' \ DOMAIN runs : r = n + 1
  BY <1>4, <1>9
<1> QED BY <1>4, <1>7, <1>8, <1>9, <1>10 DEF HistoryKept

\* What production does to the records of runs.
LEMMA StepKeeps ==
  ASSUME LineageInv, [Next]_vars
  PROVE  HistoryKept
<1>1. Shapes
  BY DEF LineageInv
<1>2. PICK n \in Nat : runs \in [1 .. n -> Runs]
  BY <1>1 DEF Shapes
<1>3. CASE UNCHANGED runs
  BY <1>3 DEF HistoryKept
<1>4. CASE StartRun
  <2>1. PICK r : r = Min(Queued) /\ runs' = [runs EXCEPT ![r].status = "running", ![r].release = release]
    BY <1>4 DEF StartRun
  <2>2. Queued \subseteq Nat /\ Queued # {}
    BY <1>2, <1>4 DEF Queued, StartRun
  <2>3. r \in Queued
    BY <2>1, <2>2, MinMember
  <2>4. r \in DOMAIN runs /\ runs[r].status # "completed" /\ runs[r] \in Runs
    BY <1>2, <2>3 DEF Queued
  <2>5. /\ DOMAIN runs' = DOMAIN runs /\ \A q \in DOMAIN runs \ {r} : runs'[q] = runs[q]
        /\ runs'[r].order = runs[r].order
    BY <1>2, <2>1, <2>4 DEF Runs
  <2> QED BY <1>1, <2>4, <2>5, OneRecord
<1>5. CASE Execute
  <2>1. /\ job.run \in DOMAIN runs /\ runs[job.run].status = "running" /\ job.at = "execute"
    BY <1>1, <1>5 DEF Shapes, Self, Execute
  <2>2. /\ DOMAIN runs' = DOMAIN runs /\ \A q \in DOMAIN runs \ {job.run} : runs'[q] = runs[q]
    BY <1>2, <1>5 DEF Execute
  <2> QED BY <1>1, <2>1, <2>2, OneRecord
<1>6. ASSUME NEW kind, Enqueue(kind) PROVE HistoryKept
  BY <1>1, <1>6, EnqueueKeeps
<1>7. ASSUME job.at # "none", NEW success, NEW exec, NEW ready, Finish(success, exec, ready)
      PROVE HistoryKept
  BY <1>1, <1>7, FinishKeeps
<1>8. CASE Run
  BY <1>3, <1>4, <1>5, <1>7, <1>8
     DEF Run, GuardAdmits, GuardRefuses, RestoreChooses, RestoreInstalls, RestoreRefuses,
         ChecksPass, ExecutionSucceeds, history
<1>9. CASE Failure
  BY <1>7, <1>9 DEF Failure, ExecutionFails, PublicationFails, StepFails, RunLost
<1>10. CASE Watchdog
  BY <1>3, <1>6, <1>10 DEF Watchdog, WatchdogLooks, WatchdogDispatches, WatchdogStandsDown, history
<1>11. CASE Calendar
  BY <1>3, <1>6, <1>11 DEF Calendar, ScheduleFires, NextDay, history
<1>12. CASE Operator
  BY <1>3, <1>6, <1>12 DEF Operator, OperatorRequests, Approve, history
<1>13. CASE UNCHANGED vars
  BY <1>3, <1>13 DEF vars, history
<1> QED BY <1>8, <1>9, <1>10, <1>11, <1>12, <1>13 DEF Next, Unattended

(***************************************************************************)
(* The inductive invariant of the page.                                    *)
(***************************************************************************)
\* Only a completed run that executed nothing shows a skipped preflight.
LeftInv ==
  /\ DOMAIN left = 1 .. MaxRuns /\ DOMAIN runs \subseteq 1 .. MaxRuns
  /\ \A r \in DOMAIN left : left[r].pre = "skipped" => r \in Listed /\ runs[r].order = 0

\* What the walk for the execution, and then the one for the preflight, passed over.
PassedByExecution ==
  view.at \in {"preflight", "assemble"} /\ Shown(view.execution) =>
    \A q \in view.page : q > view.execution.run /\ runs[q].success => runs[q].exec = "skipped"
PassedByPreflight ==
  view.at = "assemble" /\ Shown(view.preflight) =>
    \A q \in view.page : q > view.preflight.run => left[q].pre = "skipped"

ViewInv ==
  /\ DOMAIN view = DOMAIN NoView /\ view.page \subseteq Listed
  /\ LeftInv /\ PassedByExecution /\ PassedByPreflight

\* Nothing has been asked for.
LEMMA ViewInit == StatusInit => ViewInv
<1> SUFFICES ASSUME StatusInit PROVE ViewInv
  OBVIOUS
<1>1. DOMAIN runs = {1}
  BY DEF StatusInit, Init
<1>2. /\ view.at = "idle" /\ view.page = {} /\ DOMAIN view = DOMAIN NoView
  BY DEF StatusInit, NoView
<1>3. DOMAIN left = 1 .. MaxRuns /\ \A r \in DOMAIN left : left[r].pre # "skipped"
  BY DEF StatusInit, Leave
<1>4. {1} \subseteq 1 .. MaxRuns
  BY BoundsAssumption
<1> QED BY <1>1, <1>2, <1>3, <1>4 DEF ViewInv, LeftInv, PassedByExecution, PassedByPreflight

\* A run that completes and shows a skipped preflight has not executed.
LEMMA RemainsSkipped ==
  ASSUME LineageInv, LineageInv', HistoryKept, NEW r \in DOMAIN runs', Completes(r),
         NEW l \in Remains(r), l.pre = "skipped"
  PROVE  runs'[r].order = 0
<1>1. PICK n \in Nat : runs \in [1 .. n -> Runs]
  BY DEF LineageInv, Shapes
<1>2. r \in DOMAIN runs /\ runs[r].status # "completed" /\ runs'[r].status = "completed"
  BY DEF Completes, HistoryKept
<1>3. Record(r) /\ Record(r)'
  BY <1>2 DEF LineageInv, Records
<1>4. CASE runs'[r].exec = "skipped"
  BY <1>3, <1>4 DEF Record
<1>5. CASE job.at = "preflight"
  <2>1. runs'[r].order = runs[r].order
    BY <1>2, <1>5 DEF HistoryKept
  <2>2. runs[r].status \in {"queued", "running"}
    BY <1>1, <1>2 DEF Runs, Statuses
  <2> QED BY <1>3, <1>5, <2>1, <2>2 DEF Record
<1>6. CASE runs'[r].exec # "skipped" /\ job.at # "preflight"
  BY <1>6 DEF Remains, Leave
<1> QED BY <1>4, <1>5, <1>6

\* Production leaves what was read as it was.
LEMMA ProductionStep ==
  ASSUME LineageInv, LineageInv', ViewInv, HistoryKept, Shows
  PROVE  ViewInv'
<1>1. Listed \subseteq Listed' /\ \A r \in Listed : runs'[r] = runs[r]
  BY DEF Listed, HistoryKept
<1>2. \A r \in Listed : ~Completes(r)
  BY DEF Listed, Completes
<1>3. \/ left' = left
      \/ \E r \in DOMAIN runs' : Completes(r) /\ \E l \in Remains(r) : left' = [left EXCEPT ![r] = l]
  BY DEF Shows
<1>4. DOMAIN left' = DOMAIN left /\ \A r \in Listed : left'[r] = left[r]
  <2>1. CASE left' = left
    BY <2>1
  <2>2. ASSUME NEW r \in DOMAIN runs', Completes(r), NEW l, left' = [left EXCEPT ![r] = l]
        PROVE  DOMAIN left' = DOMAIN left /\ \A q \in Listed : left'[q] = left[q]
    <3>1. r \notin Listed
      BY <1>2, <2>2
    <3>2. DOMAIN left' = DOMAIN left /\ \A q \in DOMAIN left : q # r => left'[q] = left[q]
      BY <2>2
    <3>3. Listed \subseteq DOMAIN left
      BY DEF Listed, ViewInv, LeftInv
    <3> QED BY <3>1, <3>2, <3>3
  <2> QED BY <1>3, <2>1, <2>2
<1>5. LeftInv'
  <2>1. DOMAIN left' = 1 .. MaxRuns /\ DOMAIN runs' \subseteq 1 .. MaxRuns
    BY <1>4 DEF ViewInv, LeftInv, HistoryKept
  <2>2. ASSUME NEW r \in DOMAIN left', left'[r].pre = "skipped"
        PROVE  r \in Listed' /\ runs'[r].order = 0
    <3>1. CASE left'[r] = left[r]
      BY <1>1, <1>4, <2>2, <3>1 DEF ViewInv, LeftInv
    <3>2. CASE left'[r] # left[r]
      <4>1. r \in DOMAIN runs' /\ Completes(r) /\ left'[r] \in Remains(r)
        BY <1>3, <1>4, <3>2
      <4> QED BY <2>2, <4>1, RemainsSkipped DEF Listed, Completes
    <3> QED BY <3>1, <3>2
  <2> QED BY <2>1, <2>2 DEF LeftInv
<1>6. view' = view
  BY DEF Shows
<1>7. view.page \subseteq Listed
  BY DEF ViewInv
<1>8. PassedByExecution'
  BY <1>1, <1>6, <1>7 DEF ViewInv, PassedByExecution, Shown
<1>9. PassedByPreflight'
  BY <1>4, <1>6, <1>7 DEF ViewInv, PassedByPreflight, Shown
<1> QED BY <1>1, <1>5, <1>6, <1>7, <1>8, <1>9 DEF ViewInv

\* A walk that shows a run has passed over everything newer.
LEMMA WalkPasses ==
  ASSUME NEW n \in Nat, NEW v, DOMAIN v \subseteq 1 .. n, NEW w, w = Walk(v), Shown(w)
  PROVE  w.run \in DOMAIN v /\ \A q \in DOMAIN v : q > w.run => v[q] = "older"
<1> DEFINE stops == {r \in DOMAIN v : v[r] # "older"}
<1>1. Nothing.state = "none"
  BY DEF Nothing
<1>2. stops # {} /\ w.run = Max(stops) 
  BY <1>1 DEF Walk, Shown
<1>3. stops \in SUBSET (1 .. n)
  OBVIOUS
<1>4. Max(stops) \in stops /\ \A j \in stops : j <= Max(stops)
  <2> HIDE DEF stops
  <2> QED BY <1>2, <1>3, MaxMember
<1>5. ASSUME NEW q \in DOMAIN v, q > w.run PROVE v[q] = "older"
  <2>1. q \notin stops
    BY <1>2, <1>3, <1>4, <1>5
  <2> QED BY <2>1
<1> QED BY <1>2, <1>4, <1>5

\* A run passed over on the way to the execution had its execution skipped.
LEMMA ExecutionStep ==
  ASSUME LineageInv, ViewInv, selectLatestExecution
  PROVE  ViewInv'
<1>1. PICK n \in Nat : runs \in [1 .. n -> Runs]
  BY DEF LineageInv, Shapes
<1>2. PICK page \in Pages, expired \in SUBSET Listed :
        \E selection \in {Nothing, Walk([r \in Successful(page) |-> ExecutionVerdict(r, expired)])} :
          view' = [view EXCEPT !.at = "preflight", !.page = page, !.execution = selection]
  BY DEF selectLatestExecution
<1> DEFINE v == [r \in Successful(page) |-> ExecutionVerdict(r, expired)]
<1>3. PICK selection \in {Nothing, Walk(v)} :
        view' = [view EXCEPT !.at = "preflight", !.page = page, !.execution = selection]
  BY <1>2
<1>4. UNCHANGED <<runs, left>>
  BY DEF selectLatestExecution, vars, history
<1>5. /\ view'.at = "preflight" /\ view'.page = page /\ view'.execution = selection
      /\ DOMAIN view' = DOMAIN view
  BY <1>3 DEF ViewInv, NoView
<1>6. page \subseteq Listed
  BY DEF Pages, ViewInv
<1>7. ASSUME Shown(selection), NEW q \in page, q > selection.run, runs[q].success
      PROVE  runs[q].exec = "skipped"
  <2>1. selection = Walk(v)
    BY <1>3, <1>7 DEF Shown, Nothing
  <2>2. DOMAIN v \subseteq 1 .. n
    BY <1>1, <1>6 DEF Listed, Successful
  <2>3. q \in DOMAIN v
    BY <1>7 DEF Successful
  <2>4. v[q] = "older"
    <3> HIDE DEF v
    <3> QED BY <1>7, <2>1, <2>2, <2>3, WalkPasses
  <2>5. ExecutionVerdict(q, expired) = "older"
    BY <2>3, <2>4
  <2> QED BY <2>5 DEF ExecutionVerdict, StepOutcome
<1>8. PassedByExecution'
  BY <1>4, <1>5, <1>7 DEF PassedByExecution, Shown
<1>9. PassedByPreflight'
  BY <1>5 DEF PassedByPreflight
<1>10. LeftInv' /\ Listed' = Listed
  BY <1>4 DEF ViewInv, LeftInv, Listed
<1> QED BY <1>5, <1>6, <1>8, <1>9, <1>10 DEF ViewInv

\* A run passed over on the way to the report had its preflight skipped.
LEMMA PreflightStep ==
  ASSUME LineageInv, ViewInv, selectLatestPreflight
  PROVE  ViewInv'
<1>1. PICK n \in Nat : runs \in [1 .. n -> Runs]
  BY DEF LineageInv, Shapes
<1>2. PICK page \in Pages, expired \in SUBSET Listed, canonical \in BOOLEAN :
        \E selection \in {Nothing, Walk([r \in page |-> PreflightVerdict(r, expired, canonical)])} :
          view' = [view EXCEPT !.at = "assemble", !.canonical = canonical,
                     !.page = IF Shown(view.execution) THEN @ ELSE {}, !.preflight = selection]
  BY DEF selectLatestPreflight
<1> DEFINE v == [r \in page |-> PreflightVerdict(r, expired, canonical)]
<1>3. PICK selection \in {Nothing, Walk(v)} :
        view' = [view EXCEPT !.at = "assemble", !.canonical = canonical,
                   !.page = IF Shown(view.execution) THEN @ ELSE {}, !.preflight = selection]
  BY <1>2
<1>4. UNCHANGED <<runs, left>>
  BY DEF selectLatestPreflight, vars, history
<1>5. /\ view.at = "preflight"
      /\ view'.page \subseteq view.page /\ view'.execution = view.execution
      /\ view'.preflight = selection /\ DOMAIN view' = DOMAIN view
  <2>1. view.at = "preflight"
    BY DEF selectLatestPreflight
  <2> QED BY <1>3, <2>1 DEF ViewInv, NoView
<1>6. view.page \subseteq page /\ page \subseteq Listed
  BY DEF Pages, ViewInv
<1>7. ASSUME Shown(selection), NEW q \in view.page, q > selection.run
      PROVE  left[q].pre = "skipped"
  <2>1. selection = Walk(v)
    BY <1>3, <1>7 DEF Shown, Nothing
  <2>2. DOMAIN v \subseteq 1 .. n
    BY <1>1, <1>6 DEF Listed
  <2>3. q \in DOMAIN v
    BY <1>6
  <2>4. v[q] = "older"
    <3> HIDE DEF v
    <3> QED BY <1>7, <2>1, <2>2, <2>3, WalkPasses
  <2>5. PreflightVerdict(q, expired, canonical) = "older"
    BY <2>3, <2>4
  <2> QED BY <2>5 DEF PreflightVerdict, StepOutcome
<1>8. PassedByExecution'
  BY <1>4, <1>5 DEF ViewInv, PassedByExecution, Shown
<1>9. PassedByPreflight'
  BY <1>4, <1>5, <1>7 DEF PassedByPreflight, Shown
<1>10. LeftInv' /\ Listed' = Listed
  BY <1>4 DEF ViewInv, LeftInv, Listed
<1> QED BY <1>5, <1>6, <1>8, <1>9, <1>10 DEF ViewInv

\* Every step of production and of a request keeps the invariants of both.
LEMMA StatusStep ==
  LineageInv /\ ViewInv /\ [StatusNext]_<<vars, left, view>> => LineageInv' /\ ViewInv'
<1> SUFFICES ASSUME LineageInv, ViewInv, [StatusNext]_<<vars, left, view>>
             PROVE  LineageInv' /\ ViewInv'
  OBVIOUS
<1>1. [Next]_vars
  BY DEF StatusNext, Production, Request, Begin, ResolveApproval, selectLatestExecution,
         selectLatestPreflight, Answer, Next, Unattended, Operator
<1>2. LineageInv'
  BY <1>1, LineageStep
<1>3. CASE Production
  <2>1. Shows
    BY <1>3 DEF Production
  <2> QED BY <1>1, <1>2, <2>1, StepKeeps, ProductionStep
<1>4. CASE Begin
  <2>1. view'.at = "approval" /\ view'.page = Listed /\ DOMAIN view' = DOMAIN NoView
    BY <1>4 DEF Begin, NoView
  <2>2. UNCHANGED <<runs, left>>
    BY <1>4 DEF Begin, vars, history
  <2> QED BY <1>2, <2>1, <2>2 DEF ViewInv, LeftInv, Listed, PassedByExecution, PassedByPreflight
<1>5. CASE ResolveApproval
  <2>1. view'.at = "execution" /\ view'.page = view.page /\ DOMAIN view' = DOMAIN view
    BY <1>5 DEF ResolveApproval, ViewInv, NoView
  <2>2. UNCHANGED <<runs, left>>
    BY <1>5 DEF ResolveApproval, vars, history
  <2> QED BY <1>2, <2>1, <2>2 DEF ViewInv, LeftInv, Listed, PassedByExecution, PassedByPreflight
<1>6. CASE selectLatestExecution
  BY <1>2, <1>6, ExecutionStep
<1>7. CASE selectLatestPreflight
  BY <1>2, <1>7, PreflightStep
<1>8. CASE Answer
  <2>1. view'.at = "idle" /\ view'.page = {} /\ DOMAIN view' = DOMAIN NoView
    BY <1>8 DEF Answer, NoView
  <2>2. UNCHANGED <<runs, left>>
    BY <1>8 DEF Answer, vars, history
  <2> QED BY <1>2, <2>1, <2>2 DEF ViewInv, LeftInv, Listed, PassedByExecution, PassedByPreflight
<1>9. CASE UNCHANGED <<vars, left, view>>
  <2>1. UNCHANGED <<runs, left, view>>
    BY <1>9 DEF vars, history
  <2> QED BY <1>2, <2>1 DEF ViewInv, LeftInv, Listed, PassedByExecution, PassedByPreflight, Shown
<1> QED BY <1>3, <1>4, <1>5, <1>6, <1>7, <1>8, <1>9 DEF StatusNext, Request

\* The invariants hold of production and of the page beside it.
LEMMA StatusAlways == StatusSpec => [](LineageInv /\ ViewInv)
<1>1. StatusInit => LineageInv /\ ViewInv
  BY LineageInit, ViewInit DEF StatusInit
<1> QED BY <1>1, StatusStep, PTL DEF StatusSpec

\* runtime.ts, selectLatestExecution: whatever expires, is lost, superseded or released
\* before and after its walk over the list, the execution shown is the newest among the
\* list's completed and successful runs.  The walk itself is one step.
THEOREM NewestShownCorrect == StatusSpec => NothingNewerHidden
<1>1. ASSUME LineageInv, ViewInv, Answer, Shown(view.execution)
      PROVE  ~\E q \in Newer(view.page, view.execution.run) : runs[q].success
  <2> SUFFICES ASSUME NEW q \in Newer(view.page, view.execution.run), runs[q].success
               PROVE  FALSE
    OBVIOUS
  <2>1. q \in view.page /\ q > view.execution.run /\ runs[q].order > 0 /\ q \in DOMAIN runs
    BY <1>1 DEF Newer, ViewInv, Listed
  <2>2. runs[q].exec = "skipped"
    BY <1>1, <2>1 DEF ViewInv, PassedByExecution, Answer
  <2>3. runs[q].order = 0
    BY <1>1, <2>1, <2>2 DEF LineageInv, Records, Record
  <2> QED BY <2>1, <2>3
<1> QED BY <1>1, StatusAlways, PTL DEF NothingNewerHidden

\* validation-gate.ts: the gate passes only on the report of the newest cycle that
\* executed among the completed runs of the list the request read.
THEOREM GateCorrect == StatusSpec => GateIsNewestCycle
<1> DEFINE Sound == /\ Newer(view.page, view.execution.run) = {}
                    /\ left[view.execution.run].report = "PASS"
                    /\ \A q \in view.page : q > view.execution.run => left[q].pre = "skipped"
<1>1. ASSUME LineageInv, ViewInv, Answer, EffectiveGate PROVE Sound
  <2>1. /\ view.at = "assemble" /\ Shown(view.preflight)
        /\ view.preflight.run = view.execution.run /\ left[view.execution.run].report = "PASS"
    BY <1>1 DEF Answer, EffectiveGate, preflightCycleExact, PreflightPasses
  <2>2. \A q \in view.page : q > view.execution.run => left[q].pre = "skipped"
    BY <1>1, <2>1 DEF ViewInv, PassedByPreflight
  <2>3. \A q \in view.page : q \in DOMAIN left
    BY <1>1 DEF ViewInv, LeftInv, Listed
  <2>4. \A q \in view.page : q > view.execution.run => runs[q].order = 0
    BY <1>1, <2>2, <2>3 DEF ViewInv, LeftInv
  <2>5. Newer(view.page, view.execution.run) = {}
    BY <2>4 DEF Newer
  <2> QED BY <2>1, <2>2, <2>5
<1>2. ASSUME LineageInv, ViewInv, [StatusNext]_<<vars, left, view>>
      PROVE  [Answer /\ EffectiveGate => Sound]_view
  <2> HIDE DEF Sound
  <2> QED BY <1>1, <1>2
<1> HIDE DEF Sound
<1>3. StatusSpec => [][Answer /\ EffectiveGate => Sound]_view
  BY <1>2, StatusAlways, PTL DEF StatusSpec
<1> QED BY <1>3 DEF GateIsNewestCycle, Sound
================================================================================
