------------------------------ MODULE PaperLineage ------------------------------
(***************************************************************************)
(* The paper production workflow, its watchdog and its artifacts:          *)
(* .github/workflows/paper-production.yml and paper-watchdog.yml,          *)
(* ops/paper_cadence.py and scripts/restore_paper_runtime.py.              *)
(*                                                                         *)
(* A run is created by the daily schedule, by the watchdog when it misses  *)
(* one, or by an operator.  Runs execute one at a time.  A run asks the    *)
(* cadence guard whether the day still needs a cycle, restores the newest  *)
(* runtime artifact, executes, and uploads the state it leaves.  Any step  *)
(* may fail, and a run that executed may leave no artifact.                *)
(*                                                                         *)
(* A runtime state is the set of runs whose execution it remembers.  Times *)
(* are the session date and the number of executions begun so far: runs    *)
(* are serialised, so the latter orders every time stamp of an execution.  *)
(***************************************************************************)
EXTENDS Naturals, FiniteSets, FiniteSetsExt

CONSTANTS MaxRuns, MaxDay, MaxRelease,
          MaxManual,    \* bound on what the operator does
          MaxFaults     \* bound on failing steps and lost runs

ASSUME BoundsAssumption ==
  /\ MaxRuns \in Nat \ {0} /\ MaxDay \in Nat \ {0} /\ MaxRelease \in Nat \ {0}
  /\ MaxManual \in Nat /\ MaxFaults \in Nat

VARIABLES
  day, cron, market,   \* the session, whether its scheduled run was created, market open
  release, manifest,   \* the approved release and its handoff source, an artifact or 0
  runs,                \* workflow runs by number
  artifacts,           \* runtime artifacts by number
  begun,               \* executions begun so far
  job,                 \* the running run: its step and what it has restored
  looks,               \* how often the watchdog has just found the session missing
  manual, faults

world == <<day, cron, market, release, manifest>>
history == <<runs, artifacts, begun>>
vars == <<world, history, job, looks, manual, faults>>

Automated == {"schedule", "recover"}
Kinds == Automated \cup {"execute", "preflight"}
Statuses == {"queued", "running", "completed"}
Executions == {"none", "skipped", "success", "failure", "unreadable"}
Runs == [kind : Kinds, release : 1 .. MaxRelease, status : Statuses, success : BOOLEAN,
         exec : Executions, ready : BOOLEAN, day : 0 .. MaxDay, began : 0 .. MaxDay,
         order : Nat, seen : Nat]
Artifacts == [run : Nat, release : 1 .. MaxRelease, state : SUBSET Nat]
Steps == {"none", "guard", "restore", "install", "preflight", "execute", "publish"}

NoJob == [at |-> "none", run |-> 0, chosen |-> 0, manifest |-> 0, state |-> {}]
NewRun(kind) ==
  [kind |-> kind, release |-> release, status |-> "queued", success |-> FALSE,
   exec |-> "none", ready |-> FALSE, day |-> 0, began |-> 0, order |-> 0, seen |-> 0]
Extend(f, n, x) == [k \in 1 .. n |-> IF k = n THEN x ELSE f[k]]
Self == runs[job.run]

\* A first execution was published before this history begins.
Init ==
  /\ day = 1 /\ cron = FALSE /\ market = TRUE
  /\ release = 1 /\ manifest = 0
  /\ runs = [k \in {1} |-> [NewRun("execute") EXCEPT !.status = "completed", !.success = TRUE,
                                                     !.exec = "success", !.ready = TRUE,
                                                     !.order = 1, !.seen = 1]]
  /\ artifacts = [k \in {1} |-> [run |-> 1, release |-> 1, state |-> {1}]]
  /\ begun = 1
  /\ job = NoJob /\ looks = 0 /\ manual = 0 /\ faults = 0

Fault == faults < MaxFaults /\ faults' = faults + 1
Manual == manual < MaxManual /\ manual' = manual + 1

(***************************************************************************)
(* The queue (external).  One run of the concurrency group runs and one    *)
(* waits; a newer one takes the place of the one that waits, whose step    *)
(* list may then be missing.  The oldest starts.                           *)
(***************************************************************************)
Queued == {r \in DOMAIN runs : runs[r].status = "queued"}
Waiting == IF job.at = "none" /\ Queued # {} THEN Queued \ {Min(Queued)} ELSE Queued

Superseded(r, exec) ==
  IF r \in Waiting
  THEN [runs[r] EXCEPT !.status = "completed", !.exec = exec, !.day = day, !.seen = begun]
  ELSE runs[r]

Enqueue(kind) ==
  /\ Cardinality(DOMAIN runs) < MaxRuns
  /\ \E exec \in {"skipped", "unreadable"} :
       runs' = Extend([r \in DOMAIN runs |-> Superseded(r, exec)],
                      Cardinality(DOMAIN runs) + 1, NewRun(kind))
  /\ UNCHANGED <<artifacts, begun>>

\* A waiting run starts on the release approved by then.
StartRun ==
  /\ job.at = "none" /\ Queued # {}
  /\ LET r == Min(Queued) IN
     /\ runs' = [runs EXCEPT ![r].status = "running", ![r].release = release]
     /\ job' = [NoJob EXCEPT !.at = "guard", !.run = r, !.manifest = manifest]
  /\ UNCHANGED <<world, artifacts, begun, looks, manual, faults>>

(***************************************************************************)
(* The cadence guard and the watchdog: what the runs of today show.        *)
(***************************************************************************)
Today(self) == {r \in DOMAIN runs \ {self} : runs[r].status = "completed" /\ runs[r].day >= day}

\* (mutant) a run finds itself among the active ones
ActiveWithSelf(self) == {r \in DOMAIN runs : runs[r].status # "completed"}

Active(self) == {r \in DOMAIN runs \ {self} : runs[r].status # "completed"}

\* Only a skipped execution whose restore, sanity and broker checks all passed
\* leaves the session open.
Unreadable(self) == \E r \in Today(self) : runs[r].exec = "unreadable"
Attempted(self) == \E r \in Today(self) : runs[r].exec # "skipped" /\ runs[r].began >= day
Blocked(self) ==
  \E r \in Today(self) : ~runs[r].success /\ (runs[r].exec # "skipped" \/ ~runs[r].ready)

\* (mutant) only a successful execution counts as an attempt
MissingUnlessDone(self) ==
  /\ ~Unreadable(self) /\ Active(self) = {}
  /\ ~\E r \in Today(self) : runs[r].exec = "success" /\ runs[r].began >= day

Missing(self) ==
  ~Unreadable(self) /\ Active(self) = {} /\ ~Attempted(self) /\ ~Blocked(self)

\* The running run ends, and the record of it is what the API lists later.
Finish(success, exec, ready) ==
  /\ runs' = [runs EXCEPT ![job.run] =
                [@ EXCEPT !.status = "completed", !.success = success, !.exec = exec,
                          !.ready = ready, !.day = day, !.seen = begun]]
  /\ job' = NoJob

Goto(step) == job' = [job EXCEPT !.at = step]

\* An operator's execution passes whatever happened today.
GuardAdmits ==
  /\ job.at = "guard"
  /\ Self.kind \in Automated => Missing(job.run)
  /\ Goto("restore")
  /\ UNCHANGED <<world, history, looks, manual, faults>>

\* A session that is active or attempted ends the run quietly; one that is
\* blocked or cannot be read fails it.
GuardRefuses ==
  /\ job.at = "guard" /\ Self.kind \in Automated /\ ~Missing(job.run)
  /\ Finish(~Unreadable(job.run) /\ (Active(job.run) # {} \/ Attempted(job.run)),
            "skipped", FALSE)
  /\ UNCHANGED <<world, artifacts, begun, looks, manual, faults>>

\* The session must be found missing twice; the dispatch follows the second
\* look without another.
WatchdogLooks ==
  /\ looks < 2 /\ Missing(0)
  /\ looks' = looks + 1
  /\ UNCHANGED <<world, history, job, manual, faults>>

WatchdogDispatches ==
  /\ looks = 2
  /\ looks' = 0
  /\ Enqueue("recover")
  /\ UNCHANGED <<world, job, manual, faults>>

WatchdogStandsDown ==
  /\ looks = 1 /\ ~Missing(0)
  /\ looks' = 0
  /\ UNCHANGED <<world, history, job, manual, faults>>

(***************************************************************************)
(* The restore.  The newest artifact of the release, or of the handoff     *)
(* source, is taken, unless any run may have executed after it.            *)
(***************************************************************************)
Namespace(rel) == {a \in DOMAIN artifacts : artifacts[a].release = rel}
Owner(a) == runs[artifacts[a].run]

Native == Namespace(Self.release)
Handoff == Native = {} /\ job.manifest # 0
Candidate == IF Native # {} THEN Max(Native) ELSE job.manifest

Trusted(a) ==
  /\ Owner(a).status = "completed"
  /\ Owner(a).exec \in {"success", "failure"}
  /\ Handoff => Owner(a).exec = "success" /\ Owner(a).success

\* (mutant) runs that left no artifact are not looked at
NewestArtifact(a) == a = Max(Namespace(artifacts[a].release))

Latest(a) ==
  /\ a = Max(Namespace(artifacts[a].release))
  /\ \A r \in DOMAIN runs \ {job.run, artifacts[a].run} :
       \/ runs[r].status = "completed" /\ runs[r].seen < Owner(a).order
       \/ runs[r].exec = "skipped"
       \/ runs[r].exec \in {"success", "failure"} /\ runs[r].order < Owner(a).order

Restorable == Native # {} \/ Handoff

RestoreChooses ==
  /\ job.at = "restore"
  /\ Restorable /\ Trusted(Candidate) /\ Latest(Candidate)
  /\ job' = [job EXCEPT !.at = "install", !.chosen = Candidate]
  /\ UNCHANGED <<world, history, looks, manual, faults>>

\* Everything is looked at again before the state directory is swapped.
RestoreInstalls ==
  /\ job.at = "install"
  /\ Latest(job.chosen)
  /\ artifacts[job.chosen].release # Self.release => Native = {}
  /\ job' = [job EXCEPT !.at = "preflight", !.state = artifacts[job.chosen].state]
  /\ UNCHANGED <<world, history, looks, manual, faults>>

RestoreRefuses ==
  /\ \/ job.at = "restore" /\ ~(Restorable /\ Trusted(Candidate) /\ Latest(Candidate))
     \/ /\ job.at = "install"
        /\ ~(Latest(job.chosen) /\ (artifacts[job.chosen].release # Self.release => Native = {}))
  /\ Finish(FALSE, "skipped", FALSE)
  /\ UNCHANGED <<world, artifacts, begun, looks, manual, faults>>

(***************************************************************************)
(* Checks, execution, publication.                                         *)
(***************************************************************************)
ChecksPass ==
  /\ job.at = "preflight"
  /\ IF Self.kind # "preflight" /\ market
     THEN Goto("execute") /\ UNCHANGED runs
     ELSE Finish(TRUE, "skipped", TRUE)
  /\ UNCHANGED <<world, artifacts, begun, looks, manual, faults>>

Execute ==
  /\ job.at = "execute"
  /\ begun' = begun + 1
  /\ runs' = [runs EXCEPT ![job.run].order = begun + 1, ![job.run].began = day]
  /\ job' = [job EXCEPT !.at = "publish", !.state = @ \cup {job.run}]
  /\ UNCHANGED <<world, artifacts, looks, manual, faults>>

Upload ==
  artifacts' = Extend(artifacts, Cardinality(DOMAIN artifacts) + 1,
                      [run |-> job.run, release |-> Self.release, state |-> job.state])

ExecutionSucceeds ==
  /\ job.at = "publish"
  /\ Upload /\ Finish(TRUE, "success", TRUE)
  /\ UNCHANGED <<world, begun, looks, manual, faults>>

\* A failed execution publishes its state too.
ExecutionFails ==
  /\ job.at = "publish"
  /\ Fault
  /\ Upload /\ Finish(FALSE, "failure", TRUE)
  /\ UNCHANGED <<world, begun, looks, manual>>

\* The generation is not verified, or its upload fails.
PublicationFails ==
  /\ job.at = "publish"
  /\ Fault
  /\ \E exec \in {"success", "failure"} : Finish(FALSE, exec, TRUE)
  /\ UNCHANGED <<world, artifacts, begun, looks, manual>>

\* A step before the execution fails: a request, the checks of what the archive
\* holds, the release and broker checks, or the preview that follows them.
StepFails ==
  /\ job.at \in {"guard", "restore", "install", "preflight"}
  /\ Fault
  /\ \E ready \in BOOLEAN :
       /\ ready => job.at = "preflight" /\ Self.kind # "schedule"
       /\ Finish(FALSE, "skipped", ready)
  /\ UNCHANGED <<world, artifacts, begun, looks, manual>>

\* The runner is lost; what its steps show afterwards is GitHub's choice.
RunLost ==
  /\ job.at # "none"
  /\ Fault
  /\ \E exec \in {"unreadable", IF job.at = "publish" THEN "failure" ELSE "skipped"} :
       Finish(FALSE, exec, job.at \in {"execute", "publish"})
  /\ UNCHANGED <<world, artifacts, begun, looks, manual>>

(***************************************************************************)
(* The world (external): the schedule, the operator, the calendar.         *)
(***************************************************************************)
ScheduleFires ==
  /\ ~cron
  /\ cron' = TRUE
  /\ Enqueue("schedule")
  /\ UNCHANGED <<day, market, release, manifest, job, looks, manual, faults>>

OperatorRequests ==
  /\ Manual
  /\ \E kind \in {"execute", "preflight"} : Enqueue(kind)
  /\ UNCHANGED <<world, job, looks, faults>>

\* A release is approved with a handoff manifest of another release's artifact,
\* or without one.
Approve ==
  /\ Manual
  /\ release' \in 1 .. MaxRelease
  /\ manifest' \in {0} \cup {a \in DOMAIN artifacts : artifacts[a].release # release'}
  /\ UNCHANGED <<day, cron, market, history, job, looks, faults>>

NextDay ==
  /\ day < MaxDay
  /\ day' = day + 1 /\ cron' = FALSE /\ market' \in BOOLEAN
  /\ UNCHANGED <<release, manifest, history, job, looks, manual, faults>>

Run == StartRun \/ GuardAdmits \/ GuardRefuses \/ RestoreChooses \/ RestoreInstalls
       \/ RestoreRefuses \/ ChecksPass \/ Execute \/ ExecutionSucceeds
Failure == ExecutionFails \/ PublicationFails \/ StepFails \/ RunLost
Watchdog == WatchdogLooks \/ WatchdogDispatches \/ WatchdogStandsDown
Calendar == ScheduleFires \/ NextDay
Operator == OperatorRequests \/ Approve

Unattended == Run \/ Failure \/ Watchdog \/ Calendar
Next == Unattended \/ Operator
Spec == Init /\ [][Next]_vars

\* While no operator acts: runs make progress and the watchdog comes back; the
\* schedule may not fire.
FairSpec == Init /\ [][Unattended]_vars /\ WF_vars(Run) /\ WF_vars(Watchdog)

(***************************************************************************)
(* Properties.                                                             *)
(***************************************************************************)
Executed == {r \in DOMAIN runs : runs[r].order > 0}

\* An execution starts from a state that remembers every earlier execution,
\* the ones that left no artifact and those of other releases included: no
\* durable order intent is ever replayed over or forgotten.
NothingForgotten == job.at = "publish" => job.state = Executed

\* An automated execution is the first execution of its day, however late the
\* schedule, however often the watchdog looks, whatever failed before.
AutomatedFirst ==
  \A r, q \in Executed :
    runs[r].kind \in Automated /\ runs[r].began = runs[q].began /\ r # q =>
      runs[r].order < runs[q].order

\* However the schedule and the watchdog meet, the last session does not stay open:
\* it ends attempted, or blocked for a person to look at.
SessionSettles ==
  <>[](day = MaxDay /\ market => Attempted(0) \/ Blocked(0) \/ Unreadable(0))

=============================================================================
