------------------------------- MODULE JobRun -------------------------------
(***************************************************************************)
(* A job slot of the runner: Build.Run (Build), one of the executors, the  *)
(* scripts it runs (JobScript) and what the job leaves for the slot's next *)
(* one.                                                                    *)
(***************************************************************************)
EXTENDS Build, ShellExecutor, DockerExecutor, KubernetesExecutor, VMExecutor

CONSTANT MaxLost   \* answers lost and removals failed, in one slot

\* A step of the executor leaves Build.Run's state alone.  (The secret that
\* setupCredentials forgets is no fault of the world's.)
ExecutorNext ==
  /\ ShellNext \/ DockerNext \/ KubernetesNext \/ VMNext
  /\ lost' \subseteq lost \/ Cardinality(lost' \ {"secret"}) <= MaxLost
  /\ UNCHANGED <<buildVars, artifacts>>

ScriptNext == \E p \in procs : ScriptCommand(p) \/ ScriptEnds(p)

Next ==
  \/ BuildNext \/ ExecutorNext \/ ScriptNext
  \/ ContextEnds \/ SystemInterrupt \/ AfterScriptTimeout \/ NextJob

\* The runner and the services it calls go on, and time passes.  A job's own
\* commands may take for ever.
Fairness ==
  /\ WF_vars(BuildNext \/ ExecutorNext)
  /\ WF_vars(ContextEnds)

Spec == Init /\ [][Next]_vars /\ Fairness

-----------------------------------------------------------------------------
\* After a job nothing it created is left outside, except what is kept for the
\* next job, what the runner could not know of or failed to remove, and the
\* container of a health check that the job's end interrupted: it is removed
\* under the job's context (executor_docker.go, runServiceHealthCheckContainer).
NothingLeft ==
  pc = "done" =>
    outside \subseteq KeptOnPurpose \cup lost \cup (IF Live THEN {} ELSE {"wait"})
                      \cup (IF "vm" \in lost THEN Machine ELSE {})

\* When a job is over none of its scripts is still running: they were killed
\* and waited for, or what they ran in was removed.  Only where a removal failed
\* or a remote host was not told can one go on.
ScriptsEnd ==
  pc = "done" =>
    \A p \in procs : p.in \in lost \/ (p.in = "server" /\ ~Undisturbed)

\* Two scripts of a job never run at the same time: a stage starts when the
\* script of the one before has ended.
OneScript == Undisturbed => \A p, q \in procs : p = q

\* The job's script finds the sources the job asks for, whatever an earlier job
\* of the slot left and wherever it was killed: the requested commit, without
\* files of earlier jobs, with the artifacts it depends on; and git is never
\* stopped by the lock of a git that was killed.  Where a script goes on after a
\* removal that failed (cmd, PowerShell) the commit and git clean still hold.
\* A PowerShell script can stop half way and count as a success; of it nothing is
\* claimed.
SourcesReady ==
  \A p \in procs :
    (Undisturbed /\ ~AtEnd(p)) =>
      /\ Command(p).do \in NeedsLock => (~ws.lock \/ ws.stuck)
      /\ (Command(p).do = "script" /\ job.shell # "powershell") =>
           /\ GetGitCheckout(job) => ws.src = "sha"
           /\ (GetGitCheckout(job) /\ GetGitCleanFlags(job)) => ws.tidy
           /\ GetGitStrategy(job) = "clone" => (ws.tidy \/ ws.stuck)
           /\ (job.dependencies /\ job.helper) => ws.deps

\* A job is reported as a success only when its script ran to the end and the
\* artifacts it promises were accepted by GitLab, and the artifacts kept for
\* failures are not uploaded for a success or against their "when".  The exception is
\* PowerShell: its "Exit $LASTEXITCODE" after a failed cmdlet may be an exit with 0.
ResultHonest ==
  /\ (pc = "cleanup" /\ call # NoCall /\ result = "success" /\ Undisturbed
       /\ job.shell # "powershell") =>
       /\ ws.built
       /\ (job.artifacts \cap OnSuccess # {} /\ job.helper) => artifacts = {"UploadOnSuccess"}
       /\ "UploadOnFailure" \notin artifacts
  /\ "UploadOnSuccess" \in artifacts => job.artifacts \cap OnSuccess # {}
  /\ "UploadOnFailure" \in artifacts => job.artifacts \cap OnFailure # {}

\* A job that was stopped says why: a timeout is reported as one, a cancelled job
\* as failed by the user's doing, a stopped runner as the runner's failure; and
\* nothing else is reported as a timeout.
ReasonReported ==
  result # "none" =>
    /\ (stopped /\ ~interrupt) =>
         result = IF ctx = "deadline" THEN "job_execution_timeout" ELSE "script_failure"
    /\ (stopped /\ Live) => result = "runner_system_failure"
    /\ result = "job_execution_timeout" => ctx = "deadline"

\* A virtual machine is as it was created when a job's first script starts in
\* it, unless one that could not be set back could not be deleted either.
VMClean ==
  (kind \in {"virtualbox", "parallels"} /\ stage = "Prepare" /\ At("Run", "begin")) =>
    "used" \notin outside \/ "vm" \in lost

\* Every job comes to an end, even if its script never does: there is a timeout.
JobEnds == pc # "done" ~> pc = "done"
=============================================================================
