---------------------------- MODULE StatusReadModel ----------------------------
(***************************************************************************)
(* The dashboard's status page beside the workflow it reports on:          *)
(* dashboard/lib/status/read-model.ts, runtime.ts, lineage.ts,             *)
(* validation-gate.ts, proof.ts and github-api.ts over PaperLineage.       *)
(*                                                                         *)
(* A request of an authorised viewer reads the list of runs, then the      *)
(* approved release, then walks the list for the newest execution and once *)
(* more for the newest preflight.  Each look at the list is answered by    *)
(* the cache or by GitHub, and between two reads the workflow goes on.     *)
(* What a completed run leaves does not change, except that it expires, so *)
(* a walk is one step.  A cached answer is one of an earlier moment, so a  *)
(* request begins when the older of the two it uses was fetched.           *)
(*                                                                         *)
(* Left out: reruns of a run, the boundary between two pages of a hundred  *)
(* runs, and a page that a slower concurrent request puts back.            *)
(***************************************************************************)
EXTENDS PaperLineage

CONSTANTS Identity,        \* the strategy identity of a release's code
          ServerRelease    \* PRODUCTION_RELEASE_SHA of the dashboard's server, or 0

ASSUME ReaderAssumption ==
  DOMAIN Identity = 1 .. MaxRelease /\ ServerRelease \in 0 .. MaxRelease

VARIABLES
  left,      \* what a completed run left: its preflight step and the report uploaded
  view       \* the request being answered, with the list and the approval cached for it

Leave(pre, report) == [pre |-> pre, report |-> report]
Nothing == [run |-> 0, state |-> "none"]
NoView == [at |-> "idle", page |-> {}, release |-> 0, authoritative |-> FALSE,
           canonical |-> FALSE, execution |-> Nothing, preflight |-> Nothing]

StatusInit ==
  /\ Init
  /\ left = [r \in 1 .. MaxRuns |-> IF r = 1 THEN Leave("success", "PASS")
                                              ELSE Leave("unknown", "none")]
  /\ view = NoView

(***************************************************************************)
(* Production goes on.  A run that fails may take its report with it, and  *)
(* GitHub may not list the steps of a run it lost or replaced.             *)
(***************************************************************************)
Completes(r) == runs'[r].status = "completed" /\ (r \in DOMAIN runs => runs[r].status # "completed")

Remains(r) ==
  LET run == runs'[r] IN
  CASE run.exec = "unreadable" -> {Leave("unknown", "none")}
    [] run.exec = "skipped" /\ (job.run # r \/ job.at \in {"guard", "restore", "install"}) ->
         {Leave("skipped", "none")}
    [] job.at = "preflight" /\ ~run.ready ->
         {Leave("skipped", "none"), Leave("unknown", "none"),
          Leave("failure", "none"), Leave("failure", "FAIL")}
    [] OTHER -> {Leave("success", "PASS")}
                \cup (IF run.success THEN {} ELSE {Leave("success", "none")})

\* What the steps and artifacts of a run show is settled when it completes.
Shows ==
  /\ LET done == {r \in DOMAIN runs' : Completes(r)} IN
     IF done = {} THEN UNCHANGED left
     ELSE \E r \in done : \E l \in Remains(r) : left' = [left EXCEPT ![r] = l]
  /\ UNCHANGED view

Production ==
  \/ Run /\ Shows
  \/ Failure /\ Shows
  \/ Watchdog /\ Shows
  \/ Calendar /\ Shows
  \/ OperatorRequests /\ Shows
  \/ Approve /\ Shows

(***************************************************************************)
(* The reads.                                                              *)
(***************************************************************************)
Listed == {r \in DOMAIN runs : runs[r].status = "completed"}
\* A look at the list is answered by the cache or by GitHub.
Pages == {view.page, Listed}
Successful(page) == {r \in page : runs[r].success}
StateOf(r) == {a \in DOMAIN artifacts : artifacts[a].run = r}

\* The release of the newest successful run's artifact.
Derived(page) ==
  IF Successful(page) = {} THEN 0
  ELSE LET states == StateOf(Max(Successful(page))) IN
       IF states = {} THEN 0 ELSE artifacts[Max(states)].release

\* The list and the approval are in the cache since some time before the request.
Begin ==
  /\ view.at = "idle"
  /\ view' = [NoView EXCEPT !.at = "approval", !.page = Listed, !.release = release]
  /\ UNCHANGED <<vars, left>>

\* The environment's variable, else the server's, else the derived release, which
\* is no approval.
ResolveApproval ==
  /\ view.at = "approval"
  /\ \E sha \in {view.release, release, 0} :
       view' = [view EXCEPT !.at = "execution",
                  !.release = IF sha # 0 THEN sha
                              ELSE IF ServerRelease # 0 THEN ServerRelease
                              ELSE Derived(view.page),
                  !.authoritative = sha # 0 \/ ServerRelease # 0]
  /\ UNCHANGED <<vars, left>>

(***************************************************************************)
(* The walks: newest first, past the runs that provably did nothing.       *)
(***************************************************************************)
\* (mutant) a step that is not listed did not run
MissingDidNotRun(step) == IF step \in {"success", "failure"} THEN "RAN" ELSE "DID_NOT_RUN"

Shown(selection) == selection.state = "shown"

\* Only a step that is listed as skipped did not run.
StepOutcome(step) ==
  CASE step = "skipped" -> "DID_NOT_RUN"
    [] step \in {"success", "failure"} -> "RAN"
    [] OTHER -> "UNKNOWN"

\* A request on the way may fail: then, as past what expired, nothing is selected.
Walk(verdict) ==
  LET stops == {r \in DOMAIN verdict : verdict[r] # "older"}
      newest == verdict[Max(stops)]
  IN IF stops = {} \/ newest = "unavailable" THEN Nothing
     ELSE [run |-> IF newest = "shown" THEN Max(stops) ELSE 0, state |-> newest]

\* (mutant) an expired artifact is filtered out
ExpiredIsAbsent(r, expired) ==
  IF StateOf(r) = {} \/ r \in expired THEN "older"
  ELSE IF \E a \in StateOf(r) : artifacts[a].release = view.release THEN "shown"
  ELSE "mismatch"

\* (mutant) the walk goes on past an artifact of another release
OtherReleaseIsOlder(r, expired) ==
  IF \E a \in StateOf(r) : artifacts[a].release = view.release
  THEN IF r \in expired THEN "unavailable" ELSE "shown"
  ELSE "older"

\* What the expired runs had uploaded is listed and no longer there.
ExecutionVerdict(r, expired) ==
  IF StateOf(r) = {}
  THEN IF StepOutcome(runs[r].exec) = "DID_NOT_RUN" THEN "older" ELSE "unavailable"
  ELSE IF r \in expired THEN "unavailable"
  ELSE IF \E a \in StateOf(r) : artifacts[a].release = view.release THEN "shown"
  ELSE "mismatch"

selectLatestExecution ==
  /\ view.at = "execution"
  /\ \E page \in Pages, expired \in SUBSET Listed :
       LET walked == Walk([r \in Successful(page) |-> ExecutionVerdict(r, expired)]) IN
       \E selection \in {Nothing, IF view.release = 0 THEN Nothing ELSE walked} :
         view' = [view EXCEPT !.at = "preflight", !.page = page, !.execution = selection]
  /\ UNCHANGED <<vars, left>>

\* The validated identity, at the approved release or on the main branch; without
\* the report, that of the execution; without both, there is nothing to compare.
Expected(r, canonical) ==
  IF canonical
  THEN Identity[r] = Identity[IF view.release # 0 THEN view.release ELSE MaxRelease]
  ELSE view.execution.state = "shown" => Identity[r] = Identity[view.release]

PreflightVerdict(r, expired, canonical) ==
  IF left[r].report = "none"
  THEN IF StepOutcome(left[r].pre) = "DID_NOT_RUN" THEN "older" ELSE "unavailable"
  ELSE IF r \in expired \/ StepOutcome(left[r].pre) # "RAN" THEN "unavailable"
  ELSE IF Expected(runs[r].release, canonical) THEN "shown"
  ELSE "mismatch"

\* The canonical report, read at the release, may be missing.
selectLatestPreflight ==
  /\ view.at = "preflight"
  /\ \E page \in Pages, expired \in SUBSET Listed, canonical \in BOOLEAN :
       LET walked == Walk([r \in page |-> PreflightVerdict(r, expired, canonical)]) IN
       \E selection \in {Nothing, walked} :
         view' = [view EXCEPT !.at = "assemble", !.canonical = canonical,
                    !.page = IF Shown(view.execution) THEN @ ELSE {}, !.preflight = selection]
  /\ UNCHANGED <<vars, left>>

(***************************************************************************)
(* The answer.                                                             *)
(***************************************************************************)
\* What is present must agree with the canonical report, which must be there.
evaluateLineage ==
  /\ Shown(view.execution) => runs[view.execution.run].release = view.release
  /\ Shown(view.preflight) => view.canonical /\ Expected(runs[view.preflight.run].release, view.canonical)

LineageOK ==
  "mismatch" \notin {view.execution.state, view.preflight.state} /\ evaluateLineage

\* (mutant) the newest report authorises whatever execution is shown
AnyCycle == TRUE

\* The report passed, every check of it.
PreflightPasses == left[view.preflight.run].report = "PASS"

\* The report was made by the run the execution is of.
preflightCycleExact == view.preflight.run = view.execution.run

\* The gate may pass, unless a document objects to itself.
EffectiveGate ==
  /\ view.authoritative /\ view.canonical /\ LineageOK
  /\ Shown(view.execution) /\ Shown(view.preflight)
  /\ PreflightPasses /\ preflightCycleExact

Answer ==
  /\ view.at = "assemble"
  /\ view' = NoView
  /\ UNCHANGED <<vars, left>>

Request == Begin \/ ResolveApproval \/ selectLatestExecution \/ selectLatestPreflight \/ Answer
StatusNext == Production \/ Request
StatusSpec == StatusInit /\ [][StatusNext]_<<vars, left, view>>

(***************************************************************************)
(* Properties.                                                             *)
(***************************************************************************)
Newer(page, r) == {q \in page : q > r /\ runs[q].order > 0}

\* The execution on the page is the newest one of a successful run in the list it
\* was chosen from, which holds completed runs only: none is hidden by a lost or
\* expired artifact, a missing step or a release that is no longer approved, with
\* production going on between the walks over the list (runtime.ts:403-678).
NothingNewerHidden ==
  [][Answer /\ LineageOK /\ Shown(view.execution)
       => ~\E q \in Newer(view.page, view.execution.run) : runs[q].success]_view

\* The gate passes only for the newest cycle that executed, successful or not, among
\* the completed runs of the list, and on the report of that very cycle: a newer one
\* among them that was refused, failed or was lost keeps the gate from passing
\* (validation-gate.ts:356-598).
GateIsNewestCycle ==
  [][Answer /\ EffectiveGate =>
       /\ Newer(view.page, view.execution.run) = {}
       /\ left[view.execution.run].report = "PASS"
       /\ \A q \in view.page : q > view.execution.run => left[q].pre = "skipped"]_view

================================================================================
