------------------------------ MODULE Executor ------------------------------
(***************************************************************************)
(* What the executors of gitlab-runner share: the interface through which  *)
(* common/build.go uses them (Prepare, Run, Cleanup; common/executor.go,   *)
(* executors/executor_abstract.go), the world they act on, and the scripts *)
(* that run in it.                                                         *)
(*                                                                         *)
(* An operation of an executor takes many steps, most of them calls to a   *)
(* daemon, an API server or a VM tool that may fail, be refused, or be     *)
(* carried out with the answer lost.  The step an operation has reached is *)
(* call.at; the job's cancellation, its timeout and the runner's shutdown  *)
(* come in between.                                                        *)
(***************************************************************************)
EXTENDS JobScript, FiniteSets

VARIABLES
  kind,        \* the runner's executor
  job,         \* the options of the job
  jobs,        \* how many jobs this slot has begun
  \* --- Build.Run (common/build.go) -----------------------------------------
  pc,          \* where Build.Run is
  tries,       \* preparations begun
  ctx,         \* the job's context: "live", "canceled" or "deadline"
  interrupt,   \* SystemInterrupt: the runner is being stopped
  stopped,     \* runContext has been cancelled
  afterExpired,\* AfterScriptTimeout has passed
  err,         \* the error Build.Run will return ("none" when it is nil)
  result,      \* what the trace was told ("none" before that)
  \* --- executeScript's goroutine -------------------------------------------
  sAt,         \* "idle", "stage" (about to run one), "running", "finished"
  stage, attempt, sErr,
  \* --- the executor ----------------------------------------------------------
  call,        \* the operation under way: [op, at]
  ret,         \* what the last operation returned
  mine,        \* what Cleanup will remove
  ready,       \* docker: buildContainer, kubernetes: pod, VMs: provisioned
  exit,        \* how the script being waited for ended
  \* --- the world ---------------------------------------------------------------
  outside,     \* the containers, pods, secrets, VMs that exist
  lost,        \* those created or left without the executor being told
  procs,       \* the scripts that are running
  ws,          \* the job's working directory
  artifacts    \* uploads GitLab has accepted for this job

buildVars == <<kind, job, jobs, pc, tries, ctx, interrupt, stopped, afterExpired,
               err, result, sAt, stage, attempt, sErr>>
resources == <<mine, ready, outside, lost>>
scripts   == <<exit, procs, ws>>
execVars  == <<call, ret, resources, scripts>>
vars      == <<buildVars, execVars, artifacts>>

\* Errors, as setTraceStatus tells them apart: a BuildError is the job's own
\* fault ("build"), anything else the runner's ("system").
Errors == {"none", "build", "system"}

\* --- An operation and its steps ---------------------------------------------
NoCall == [op |-> "none", at |-> "none"]
At(op, l) == call = [op |-> op, at |-> l]
Goto(l)   == call' = [op |-> call.op, at |-> l] /\ UNCHANGED ret
Return(e) == call' = NoCall /\ ret' = e

Live == ctx = "live"
\* The context a stage runs under: runContext, shortened for after_script.
StageDone == stopped \/ (stage = "AfterScript" /\ afterExpired)

\* A call that changes nothing that lasts: it works or it is an error.
Attempt(op, l, may, next, errors) ==
  /\ At(op, l)
  /\ \/ may /\ Goto(next)
     \/ \E e \in errors : Return(e)
  /\ UNCHANGED <<resources, scripts>>

\* AbstractExecutor.Prepare: the build directory (a BuildError when the job may
\* not choose it), then the shell.
PrepareBuildAndShell(l, next) == Attempt("Prepare", l, TRUE, next, {"build", "system"})

\* --- Scripts --------------------------------------------------------------------
\* A running script: whose it is, where it runs, and its next command.
NewProc(where) == [stage |-> stage, attempt |-> attempt, in |-> where, step |-> 1]
StartIn(where) == procs' = procs \cup {NewProc(where)} /\ exit' = "none"
Awaited(p) == call.op = "Run" /\ p.stage = stage /\ p.attempt = attempt
Command(p) == writeScript(job, p.stage)[p.step]
AtEnd(p)   == p.step > Len(writeScript(job, p.stage))
ExitError(x) == IF x = "ok" THEN "none" ELSE "build"

\* How the directory may look after the scripts in S were killed.
AfterKill(S) ==
  LET cut == {p \in S : p.stage # "unknown" /\ ~AtEnd(p)}
  IN  IF cut = {} THEN {ws} ELSE UNION {KilledIn(Command(p).do, ws) : p \in cut}
Kill(S) == procs' = procs \ S /\ ws' \in AfterKill(S)

Ends(p, how) ==
  /\ procs' = procs \ {p}
  /\ exit' = IF Awaited(p) THEN how ELSE exit

\* No script is left running without the runner knowing.  Of one that is, the
\* model only keeps that it may still run, and where.
Undisturbed == "script" \notin lost /\ \A p \in procs : p.stage # "unknown"
Unknown(where) == [stage |-> "unknown", attempt |-> 0, in |-> where, step |-> 0]
Abandoned(S) == (procs \ S) \cup {Unknown(p.in) : p \in S}
Leave(S) == procs' = Abandoned(S) /\ lost' = lost \cup {"script"}
Followed(p) == p.stage # "unknown"

NextCommand(p) == procs' = (procs \ {p}) \cup {[p EXCEPT !.step = @ + 1]}

\* One command of a running script.  It may fail, and must when git finds a lock.
ScriptCommand(p) ==
  /\ p \in procs /\ Followed(p) /\ ~AtEnd(p)
  /\ LET c == Command(p)
     IN  \/ /\ ~(c.do \in NeedsLock /\ ws.lock)
            /\ ws' = Effect(c.do, ws)
            /\ artifacts' = IF c.do = "artifacts-uploader" THEN artifacts \cup {p.stage}
                            ELSE artifacts
            /\ NextCommand(p) /\ UNCHANGED exit
         \/ /\ c.fatal /\ \E x \in Exits(job, c.do) : Ends(p, x)
            /\ UNCHANGED <<ws, artifacts>>
         \/ /\ ~c.fatal /\ NextCommand(p) /\ ws' \in Unnoticed(c.do, ws)
            /\ UNCHANGED <<exit, artifacts>>
  /\ UNCHANGED <<buildVars, call, ret, resources>>

ScriptEnds(p) ==
  /\ p \in procs /\ Followed(p) /\ AtEnd(p) /\ Ends(p, "ok")
  /\ UNCHANGED <<buildVars, call, ret, resources, ws, artifacts>>

\* --- A script over SSH (helpers/ssh/ssh_command.go), for ssh and the VMs ------
sshStart(where) ==
  /\ At("Run", "begin")
  /\ \/ StartIn(where) /\ Goto("wait") /\ UNCHANGED ws
     \/ Return("system") /\ UNCHANGED scripts

\* The answer is awaited; when the stage's context ends the remote process is
\* sent SIGKILL, which not every server delivers, and the session is closed.
\* A connection that breaks leaves the remote process alone.
sshWait ==
  /\ At("Run", "wait")
  /\ \/ exit # "none" /\ Return(ExitError(exit)) /\ UNCHANGED <<scripts, lost>>
     \/ /\ StageDone /\ exit = "none" /\ Return("system") /\ UNCHANGED exit
        /\ \/ Kill({p \in procs : Awaited(p)}) /\ UNCHANGED lost
           \/ Leave({p \in procs : Awaited(p)}) /\ UNCHANGED ws
     \/ /\ exit = "none" /\ Return("system") /\ UNCHANGED <<exit, ws>>
        /\ Leave({p \in procs : Awaited(p)})

\* --- Cleanup ----------------------------------------------------------------------
\* Everything remembered is removed; a removal that fails is only logged.
\* What a removed thing runs dies with it, and the sources go with their volume.
RemoveMine(volume) ==
  \E failed \in SUBSET (mine \cap outside) :
    LET gone  == mine \ failed
        dying == {p \in procs : p.in \in gone}
    IN  /\ outside' = outside \ gone
        /\ lost' = (lost \ gone) \cup failed
                     \cup (IF \E p \in procs : p.in \in failed THEN {"script"} ELSE {})
        /\ procs' = {p \in procs : p.in \notin mine}
                      \cup {Unknown(p.in) : p \in {q \in procs : q.in \in failed}}
        /\ ws' \in IF volume \in gone THEN {NoSources} ELSE AfterKill(dying)
        /\ mine' = {} /\ ready' = FALSE
=============================================================================
