------------------------------- MODULE Build -------------------------------
(***************************************************************************)
(* Build.Run (common/build.go): a job from its start to the result and the *)
(* clean-up.  The executor is prepared, with retries; then executeScript   *)
(* runs the stages in a goroutine of its own while run waits for the first *)
(* of: the job's context ending (cancelled by GitLab, or timed out), the   *)
(* runner's shutdown, the end of the script.  No terminal session is       *)
(* attached here (see Terminal).                                           *)
(***************************************************************************)
EXTENDS Executor

CONSTANTS
  Kinds,               \* the executors
  JobsOf(_),           \* the jobs an executor is given
  PreparationRetries,
  MaxJobs(_)           \* jobs of one slot, one after the other

ASSUME BuildAssumption ==
  PreparationRetries \in Nat \ {0} /\ \A k \in Kinds : MaxJobs(k) \in Nat \ {0}

\* What an executor leaves on purpose, to speed up the slot's next job: docker's
\* cache containers, a VM with the snapshot its next job starts from, and the
\* template or base snapshot that VMs are cloned from.
KeptOnPurpose ==
  CASE kind = "docker" \/ kind = "docker-ssh" ->
         {"cache"} \cup (IF GetGitStrategy(job) = "fetch" /\ ~job.nocache THEN {"builds"} ELSE {})
    [] kind = "virtualbox" \/ kind = "parallels" ->
         {"base"} \cup (IF job.snapshots THEN {"vm", "snapshot", "used"} ELSE {})
    [] OTHER -> {}

\* --- The job -------------------------------------------------------------------
NewJob ==
  /\ pc' = "create" /\ tries' = 0 /\ ctx' = "live" /\ interrupt' = FALSE
  /\ stopped' = FALSE /\ afterExpired' = FALSE /\ err' = "none" /\ result' = "none"
  /\ sAt' = "idle" /\ stage' = "Prepare" /\ attempt' = 1 /\ sErr' = "none"
  /\ call' = NoCall /\ ret' = "none" /\ mine' = {} /\ ready' = FALSE /\ exit' = "none"
  /\ artifacts' = {}

Init ==
  /\ kind \in Kinds /\ job \in JobsOf(kind) /\ jobs = 1
  /\ pc = "create" /\ tries = 0 /\ ctx = "live" /\ interrupt = FALSE
  /\ stopped = FALSE /\ afterExpired = FALSE /\ err = "none" /\ result = "none"
  /\ sAt = "idle" /\ stage = "Prepare" /\ attempt = 1 /\ sErr = "none"
  /\ call = NoCall /\ ret = "none" /\ mine = {} /\ ready = FALSE /\ exit = "none"
  /\ outside = {} /\ lost = {} /\ procs = {} /\ ws = NoSources /\ artifacts = {}

\* The slot's next job meets what the earlier ones left behind.  What the runner
\* is configured with is the same for all of them.  An interrupted runner exits.
SameRunner(a, b) ==
  a.snapshots = b.snapshots /\ a.nocache = b.nocache /\ a.preScripts = b.preScripts
    /\ a.helper = b.helper /\ a.shell = b.shell
NextJob ==
  /\ pc = "done" /\ jobs < MaxJobs(kind) /\ ~interrupt
  /\ jobs' = jobs + 1 /\ job' \in {j \in JobsOf(kind) : SameRunner(j, job)}
  /\ UNCHANGED <<kind, outside, procs>>
  /\ NewJob
  /\ lost' = lost \cup (outside \ (KeptOnPurpose \cap KeptOnPurpose'))
                  \cup (IF procs # {} THEN {"script"} ELSE {})
  /\ ws' = ForNextJob(ws)

\* --- Preparing the executor, with retries ----------------------------------------
scriptVars == <<sAt, stage, attempt, sErr>>
signals    == <<ctx, interrupt, stopped, afterExpired>>
world      == <<outside, lost, procs, ws, artifacts>>

\* handleError: a cancelled job is a BuildError, a late one has its own reason.
\* Variant of handleError: the deadline is not told apart.
OneReason(c) == "canceled"
handleError(c) == IF c = "deadline" THEN "timeout" ELSE "canceled"

\* provider.Create, then Prepare on the new executor.
createExecutor ==
  /\ pc = "create"
  /\ pc' = "prepare" /\ tries' = tries + 1
  /\ mine' = {} /\ ready' = FALSE
  /\ call' = [op |-> "Prepare", at |-> "begin"]
  /\ UNCHANGED <<kind, job, jobs, signals, err, result, scriptVars, ret, exit, world>>

\* Prepare has returned: start the script's goroutine and wait, or clean up after
\* the failed preparation.
prepared ==
  /\ pc = "prepare" /\ call = NoCall
  /\ \/ /\ ret = "none" /\ sAt' = "stage" /\ err' = "none" /\ tries' = 0
        /\ pc' = IF Live /\ ~interrupt THEN "run" ELSE "select"
        /\ UNCHANGED call
     \/ /\ ret # "none" /\ pc' = "discard" /\ err' = ret
        /\ call' = [op |-> "Cleanup", at |-> "begin"] /\ UNCHANGED <<sAt, tries>>
  /\ UNCHANGED <<kind, job, jobs, signals, result, stage, attempt, sErr,
                 ret, mine, ready, exit, world>>

\* A BuildError ends the job, and so does the end of its context; anything else
\* is tried again after a pause, which the last try takes as well.
discarded ==
  /\ pc = "discard" /\ call = NoCall
  /\ \/ err = "build" /\ pc' = "fail" /\ UNCHANGED err
     \/ err # "build" /\ ~Live /\ pc' = "fail" /\ err' = handleError(ctx)
     \/ err # "build" /\ Live /\ pc' = "sleep" /\ UNCHANGED err
  /\ UNCHANGED <<kind, job, jobs, tries, signals, result, scriptVars, execVars, artifacts>>

slept ==
  /\ pc = "sleep"
  /\ pc' = IF tries < PreparationRetries THEN "create" ELSE "fail"
  /\ UNCHANGED <<kind, job, jobs, tries, signals, err, result, scriptVars, execVars, artifacts>>

\* --- run: waiting for the first of three things -------------------------------------
\* The job's context has ended, or the runner is being stopped: runContext is
\* cancelled and the script's goroutine is waited for.
Stop(e) == pc' = "drain" /\ err' = e /\ stopped' = TRUE

\* The select finds a case ready: any of those that are.  Otherwise it is parked
\* ("run") until one is.
select ==
  /\ pc = "select"
  /\ \/ ~Live /\ Stop(handleError(ctx))
     \/ interrupt /\ Stop("system")
     \/ sAt = "finished" /\ pc' = "report" /\ err' = sErr /\ UNCHANGED stopped
  /\ UNCHANGED <<kind, job, jobs, tries, ctx, interrupt, afterExpired, result,
                 scriptVars, execVars, artifacts>>

drained ==
  /\ pc = "drain" /\ sAt = "finished" /\ pc' = "report"
  /\ UNCHANGED <<kind, job, jobs, tries, signals, err, result, scriptVars, execVars, artifacts>>

\* A parked select is committed to the case that wakes it.
Wake(e) == IF pc = "run" THEN Stop(e) ELSE UNCHANGED <<pc, err, stopped>>
ContextEnds ==
  /\ Live /\ pc \notin {"report", "fail", "cleanup", "done"}
  /\ \E how \in {"canceled", "deadline"} : ctx' = how /\ Wake(handleError(how))
  /\ UNCHANGED <<kind, job, jobs, tries, interrupt, afterExpired, result,
                 scriptVars, execVars, artifacts>>

SystemInterrupt ==
  /\ ~interrupt /\ pc \notin {"report", "fail", "cleanup", "done"}
  /\ interrupt' = TRUE /\ Wake("system")
  /\ UNCHANGED <<kind, job, jobs, tries, ctx, afterExpired, result, scriptVars, execVars, artifacts>>

\* --- executeScript: the stages, in their own goroutine --------------------------------
Repeated == {"GetSources", "RestoreCache", "DownloadArtifacts"}
AttemptsValid == job.attempts \in 1..10
Following == [Prepare |-> "GetSources", GetSources |-> "RestoreCache",
              RestoreCache |-> "DownloadArtifacts", DownloadArtifacts |-> "UserScript"]

\* The stage to run after the current one returned e, and the job's error so far.
\* after_script runs whatever the script returned and its own error is dropped;
\* the uploads are chosen by the job's error.
afterStage(e) ==
  CASE stage = "UserScript" ->
         [stage |-> "AfterScript", attempt |-> 1, err |-> e]
    [] stage = "AfterScript" ->
         [stage |-> IF sErr = "none" THEN "ArchiveCache" ELSE "UploadOnFailure",
          attempt |-> 1, err |-> sErr]
    [] stage = "ArchiveCache" ->
         [stage |-> IF e = "none" THEN "UploadOnSuccess" ELSE "UploadOnFailure",
          attempt |-> 1, err |-> e]
    [] stage \in Repeated /\ e # "none" /\ AttemptsValid /\ attempt < job.attempts ->
         [stage |-> stage, attempt |-> attempt + 1, err |-> "none"]
    [] OTHER ->
         [stage |-> IF e = "none" THEN Following[stage] ELSE "UploadOnFailure",
          attempt |-> 1, err |-> e]

GoOn(e) ==
  LET n == afterStage(e)
  IN  /\ sAt' = "stage" /\ stage' = n.stage /\ attempt' = n.attempt /\ sErr' = n.err
      /\ UNCHANGED <<pc, err>>

\* The last stage gives the result: the job's error, or else the upload's.  A
\* parked select is woken by it.
StageReturns(e) ==
  IF stage \in {"UploadOnSuccess", "UploadOnFailure"}
  THEN LET final == IF sErr # "none" THEN sErr ELSE e
       IN  /\ sAt' = "finished" /\ sErr' = final
           /\ IF pc = "run" THEN pc' = "report" /\ err' = final ELSE UNCHANGED <<pc, err>>
           /\ UNCHANGED <<stage, attempt>>
  ELSE GoOn(e)

\* executeStage: generate the script and hand it to the executor.  A number of
\* attempts out of range is an error before anything runs.
executeStage ==
  /\ sAt = "stage"
  /\ IF GenerateScriptFails(job, stage) \/ (stage \in Repeated /\ ~AttemptsValid)
     THEN GoOn("system") /\ UNCHANGED call
     ELSE /\ sAt' = "running" /\ call' = [op |-> "Run", at |-> "begin"]
          /\ UNCHANGED <<stage, attempt, sErr, pc, err>>
  /\ UNCHANGED <<kind, job, jobs, tries, signals, result, ret, resources, scripts, artifacts>>

stageReturned ==
  /\ sAt = "running" /\ call = NoCall
  /\ StageReturns(ret)
  /\ afterExpired' = FALSE
  /\ UNCHANGED <<kind, job, jobs, tries, ctx, interrupt, stopped, result, execVars, artifacts>>

AfterScriptTimeout ==
  /\ stage = "AfterScript" /\ sAt = "running" /\ call # NoCall /\ ~afterExpired
  /\ afterExpired' = TRUE
  /\ UNCHANGED <<kind, job, jobs, pc, tries, ctx, interrupt, stopped, err, result,
                 scriptVars, execVars, artifacts>>

\* --- The result, then the clean-up ------------------------------------------------------
\* The trace is told first; Cleanup comes after.  A job whose preparation failed
\* has no executor left to clean up.
setTraceStatus ==
  /\ pc \in {"report", "fail"}
  /\ result' = CASE err = "none"    -> "success"
                 [] err = "system"  -> "runner_system_failure"
                 [] err = "timeout" -> "job_execution_timeout"
                 [] OTHER           -> "script_failure"
  /\ \/ pc = "report" /\ pc' = "cleanup" /\ call' = [op |-> "Cleanup", at |-> "begin"]
     \/ pc = "fail" /\ pc' = "done" /\ UNCHANGED call
  /\ UNCHANGED <<kind, job, jobs, tries, signals, err, scriptVars, ret, resources, scripts, artifacts>>

finished ==
  /\ pc = "cleanup" /\ call = NoCall /\ pc' = "done"
  /\ UNCHANGED <<kind, job, jobs, tries, signals, err, result, scriptVars, execVars, artifacts>>

BuildNext ==
  \/ createExecutor \/ prepared \/ discarded \/ slept \/ select \/ drained
  \/ executeStage \/ stageReturned \/ setTraceStatus \/ finished
=============================================================================
