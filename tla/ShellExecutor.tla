--------------------------- MODULE ShellExecutor ---------------------------
(***************************************************************************)
(* The executors that run a job's scripts on a machine that is not the     *)
(* job's own: shell (executors/shell), as processes of the runner's host,  *)
(* and ssh (executors/ssh), on a remote host.  Neither creates anything.   *)
(***************************************************************************)
EXTENDS Executor

\* --- shell --------------------------------------------------------------------
shellPrepare == kind = "shell" /\ Attempt("Prepare", "begin", TRUE, "shell", {"system"})
shellPrepareShell == kind = "shell" /\ At("Prepare", "shell")
  /\ \E e \in Errors : Return(e)
  /\ UNCHANGED <<resources, scripts>>

\* The script becomes the leader of a process group of its own.
shellStart ==
  /\ kind = "shell" /\ At("Run", "begin")
  /\ \/ StartIn("host") /\ Goto("wait") /\ UNCHANGED ws
     \/ Return("system") /\ UNCHANGED scripts
  /\ UNCHANGED resources

\* Variant of shellWait: the end of the stage's context is not waited for.
shellWaitForEver ==
  /\ kind = "shell" /\ At("Run", "wait")
  /\ exit # "none" /\ Return(ExitError(exit))
  /\ UNCHANGED <<resources, scripts>>
\* Variant of shellWait: an aborted command is not waited for.
shellWaitNot ==
  /\ kind = "shell" /\ At("Run", "wait")
  /\ \/ exit # "none" /\ Return(ExitError(exit))
     \/ exit = "none" /\ StageDone /\ Return("system")
  /\ UNCHANGED <<resources, scripts>>
shellWait ==
  /\ kind = "shell" /\ At("Run", "wait")
  /\ \/ exit # "none" /\ Return(ExitError(exit))
     \/ exit = "none" /\ StageDone /\ Goto("kill")
  /\ UNCHANGED <<resources, scripts>>

\* killAndWait: the group is killed, once a second, until Wait returns.
killAndWait ==
  /\ kind = "shell" /\ At("Run", "kill")
  /\ \/ exit # "none" /\ Return(ExitError(exit)) /\ UNCHANGED scripts
     \/ exit = "none" /\ Kill({p \in procs : Awaited(p)}) /\ Return("build") /\ UNCHANGED exit
  /\ UNCHANGED resources

shellCleanup ==
  /\ kind = "shell" /\ At("Cleanup", "begin") /\ Return("none")
  /\ UNCHANGED <<resources, scripts>>

\* --- ssh --------------------------------------------------------------------------
sshPrepare == kind = "ssh" /\ PrepareBuildAndShell("begin", "connect")
\* Connect dials up to ConnectRetries times.
sshConnect ==
  /\ kind = "ssh" /\ At("Prepare", "connect")
  /\ \E e \in {"none", "system"} : Return(e)
  /\ UNCHANGED <<resources, scripts>>
sshRun == kind = "ssh" /\ sshStart("server") /\ UNCHANGED resources
sshRunWait == kind = "ssh" /\ sshWait /\ UNCHANGED <<mine, ready, outside>>
sshCleanup ==
  /\ kind = "ssh" /\ At("Cleanup", "begin") /\ Return("none")
  /\ UNCHANGED <<resources, scripts>>

ShellNext ==
  \/ shellPrepare \/ shellPrepareShell \/ shellStart \/ shellWait \/ killAndWait \/ shellCleanup
  \/ sshPrepare \/ sshConnect \/ sshRun \/ sshRunWait \/ sshCleanup
=============================================================================
