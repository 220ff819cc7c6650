---------------------------- MODULE JobRunProofs ----------------------------
(***************************************************************************)
(* A job slot, for every set of executors and jobs, any number of          *)
(* preparations, losses and jobs.                                          *)
(***************************************************************************)
EXTENDS JobRun, TLAPS

\* What the variables hold.
VMs == {"virtualbox", "parallels"}

StageNames == {"Prepare", "GetSources", "RestoreCache", "DownloadArtifacts", "UserScript",
               "AfterScript", "ArchiveCache", "UploadOnSuccess", "UploadOnFailure"}
Places == {"host", "server", "build", "predefined", "pod", "vm"}
Procs  == [stage : StageNames \cup {"unknown"}, attempt : Nat, in : Places, step : Nat]

\* Types, but for what is outside: that set has no other bound than the next parts.
Types ==
  /\ pc \in {"create", "prepare", "discard", "sleep", "fail", "run", "select", "drain",
             "report", "cleanup", "done"}
  /\ ctx \in {"live", "canceled", "deadline"}
  /\ interrupt \in BOOLEAN /\ stopped \in BOOLEAN
  /\ err \in Errors \cup {"canceled", "timeout"}
  /\ sAt \in {"idle", "stage", "running", "finished"}
  /\ stage \in StageNames /\ attempt \in Nat /\ sErr \in Errors
  /\ call = [op |-> call.op, at |-> call.at]
  /\ call.op \in {"none", "Prepare", "Run", "Cleanup"} /\ ret \in Errors
  /\ procs \subseteq Procs

\* Where Build.Run is, where the script's goroutine is and which operation of the
\* executor is under way go together.
Control ==
  /\ pc \in {"create", "prepare", "discard", "sleep", "fail"} =>
       sAt = "idle" /\ stage = "Prepare"
  /\ pc = "run" => sAt \in {"stage", "running"}
  /\ pc \in {"select", "drain"} => sAt # "idle"
  /\ pc \in {"report", "cleanup"} => sAt = "finished"
  /\ pc = "done" => sAt \in {"idle", "finished"}
  /\ call.op = "none" => call = NoCall
  /\ call.op = "Prepare" => pc = "prepare"
  /\ call.op = "Run" => sAt = "running"
  /\ call.op = "Cleanup" => pc \in {"discard", "cleanup"}

\* The result setTraceStatus makes of an error.
Outcome(e) ==
  CASE e = "none"    -> "success"
    [] e = "system"  -> "runner_system_failure"
    [] e = "timeout" -> "job_execution_timeout"
    [] OTHER         -> "script_failure"

\* The result is made of Build.run's error, and that error of what stopped the job.
Reasons ==
  /\ result # "none" => pc \in {"cleanup", "done"} /\ result = Outcome(err)
  /\ stopped => pc \in {"drain", "report", "cleanup", "done"}
  /\ (stopped /\ ~interrupt) => ~Live /\ err = handleError(ctx)
  /\ (stopped /\ Live) => err = "system"
  /\ err = "timeout" => ctx = "deadline"

\* Scripts are being run; Prepare has just succeeded.
Running == sAt \in {"stage", "running"}
PrepareDone == pc = "prepare" /\ call = NoCall /\ ret = "none"

\* What is outside is known to the executor, kept on purpose, or lost.
Remembered ==
  /\ outside \subseteq mine \cup KeptOnPurpose \cup lost
                         \cup (IF Live /\ call.at # "healthy" THEN {} ELSE {"wait"})
                         \cup (IF kind \in VMs /\ "vm" \in mine \cup lost THEN Machine ELSE {})
  /\ (pc \in {"create", "sleep", "fail", "done"}
       \/ (pc \in {"discard", "cleanup"} /\ call = NoCall)) => mine = {}
  /\ kind \in {"shell", "ssh"} => mine = {}
  /\ kind = "shell" => outside = {} /\ lost = {}
  /\ "script" \notin mine

\* The virtual machine has its name before it is created, exists once it is, and is
\* unused from then until the first script.
VMRemembered ==
  kind \in VMs =>
    /\ mine \subseteq {"vm"}
    /\ (Running \/ PrepareDone
         \/ (call.op = "Prepare" /\ call.at \notin {"begin", "configure"})) => mine = {"vm"}
    /\ (Running \/ PrepareDone
         \/ (call.op = "Prepare" /\ call.at \notin {"begin", "configure", "old", "restore", "create"})) =>
         "vm" \in outside
    /\ "used" \in outside => "vm" \in outside \cup lost
    /\ ((call.op = "Prepare" /\ call.at \notin {"begin", "configure", "old", "restore"})
         \/ PrepareDone
         \/ (stage = "Prepare" /\ (sAt = "stage" \/ At("Run", "begin")))) =>
         "used" \notin outside \/ "vm" \in lost

\* Where an executor's scripts run.
PlacesOf(k) ==
  CASE k = "shell" -> {"host"}
    [] k = "ssh"   -> {"server"}
    [] k = "docker" -> {"build", "predefined"}
    [] k = "docker-ssh" -> {"build"}
    [] k = "kubernetes" -> {"pod"}
    [] OTHER -> {"vm"}

\* A script runs in something the executor remembers, or that is lost.
Located ==
  /\ \A p \in procs : p.in \in PlacesOf(kind)
                      /\ (p.in \in mine \cup lost \/ kind \in {"shell", "ssh"})
  /\ (kind = "docker" /\ ready) => "build" \in mine
  /\ (kind = "docker" /\ At("Run", "attach")) => Where \in mine
  /\ (kind = "docker-ssh" /\ (Running \/ PrepareDone \/ At("Prepare", "connect"))) =>
       "build" \in mine
  /\ (kind = "kubernetes" /\ (ready \/ At("Run", "services") \/ At("Run", "start")
                                \/ At("Run", "exec") \/ At("Run", "wait"))) =>
       "pod" \in mine

\* Of the scripts only the one that is waited for runs, unless the docker executor has
\* given up waiting because the job's context has ended.
Tracked ==
  /\ Undisturbed =>
       /\ \A p, q \in procs : p = q
       /\ \A p \in procs :
            \/ call.op = "Run" /\ call.at \in {"wait", "kill"} /\ Awaited(p) /\ exit = "none"
            \/ kind = "docker" /\ ~Live
  /\ (\E p \in procs : p.stage = "unknown") =>
       "script" \in lost \/ kind = "kubernetes" \/ kind \in VMs
  /\ kind = "shell" => \A p \in procs : p.stage # "unknown"

\* The inductive invariant.
JobInv == Types /\ Control /\ Reasons /\ Remembered /\ VMRemembered /\ Located /\ Tracked

-----------------------------------------------------------------------------
USE DEF NoCall, Live, Errors

\* A new executor remembers nothing, and nothing is forgotten with the old one.
LEMMA createExecutorStep == ASSUME JobInv, createExecutor PROVE JobInv'
<1> USE DEF createExecutor, signals, scriptVars, world
<1>1. Types'
  <2>1. UNCHANGED <<procs, sAt, stage, attempt, sErr, ret>>
    BY Zenon DEF JobInv, Types
  <2>2. /\ pc' \in {"create", "prepare", "discard", "sleep", "fail", "run", "select", "drain",
                     "report", "cleanup", "done"}
        /\ ctx' \in {"live", "canceled", "deadline"}
        /\ err' \in Errors \cup {"canceled", "timeout"}
        /\ interrupt' \in BOOLEAN /\ stopped' \in BOOLEAN
    BY Zenon DEF JobInv, Types
  <2>3. /\ call' = [op |-> call'.op, at |-> call'.at]
        /\ call'.op \in {"none", "Prepare", "Run", "Cleanup"}
    BY Zenon DEF JobInv, Types
  <2> QED
    BY <2>1, <2>2, <2>3, Zenon DEF JobInv, Types
<1>2. Control'
  BY Zenon DEF JobInv, Types, Control, StageNames
<1>3. Reasons'
  BY Zenon DEF JobInv, Types, Control, Reasons, Outcome, handleError
<1>4. Remembered' /\ VMRemembered'
  BY DEF JobInv, Types, Control, Remembered, VMRemembered, KeptOnPurpose, Running, PrepareDone, At
<1>5. Located'
  BY Zenon DEF JobInv, Types, Control, Located, Where, Running, PrepareDone, At, Remembered
<1>6. Tracked'
  BY Zenon DEF JobInv, Types, Control, Tracked, Undisturbed, Awaited
<1> QED
  BY <1>1, <1>2, <1>3, <1>4, <1>5, <1>6, Zenon DEF JobInv

\* Prepare has returned: the scripts begin, or the executor is discarded.
LEMMA preparedStep == ASSUME JobInv, prepared PROVE JobInv'
<1> USE DEF prepared, signals, world
<1>1. Types'
  BY DEF JobInv, Types, Control, StageNames
<1>2. Control'
  BY DEF JobInv, Types, Control, StageNames
<1>3. Reasons'
  BY Zenon DEF JobInv, Types, Control, Reasons, Outcome, handleError
<1>4. Remembered' /\ VMRemembered'
  BY DEF JobInv, Types, Control, Remembered, VMRemembered, KeptOnPurpose, Running, PrepareDone, At
<1>5. Located'
  BY DEF JobInv, Types, Control, Located, Where, Running, PrepareDone, At
<1>6. Tracked'
  BY Zenon DEF JobInv, Types, Control, Tracked, Undisturbed, Awaited
<1> QED
  BY <1>1, <1>2, <1>3, <1>4, <1>5, <1>6, Zenon DEF JobInv

\* A discarded executor has cleaned up.
LEMMA discardedStep == ASSUME JobInv, discarded PROVE JobInv'
<1> USE DEF discarded, signals, scriptVars, execVars, resources, scripts, handleError
<1>1. Types'
  BY Zenon DEF JobInv, Types, Control, StageNames
<1>2. Control'
  BY Zenon DEF JobInv, Types, Control, StageNames
<1>3. Reasons'
  BY Zenon DEF JobInv, Types, Control, Reasons, Outcome, handleError
<1>4. Remembered' /\ VMRemembered'
  BY DEF JobInv, Types, Control, Remembered, VMRemembered, KeptOnPurpose, Running, PrepareDone, At
<1>5. Located'
  BY Zenon DEF JobInv, Types, Control, Located, Where, Running, PrepareDone, At
<1>6. Tracked'
  BY Zenon DEF JobInv, Types, Control, Tracked, Undisturbed, Awaited
<1> QED
  BY <1>1, <1>2, <1>3, <1>4, <1>5, <1>6, Zenon DEF JobInv

\* The pause before the next preparation changes nothing outside.
LEMMA sleptStep == ASSUME JobInv, slept PROVE JobInv'
<1> USE DEF slept, signals, scriptVars, execVars, resources, scripts
<1>1. Types'
  BY DEF JobInv, Types, Control, StageNames
<1>2. Control'
  BY Zenon DEF JobInv, Types, Control, StageNames
<1>3. Reasons'
  BY Zenon DEF JobInv, Types, Control, Reasons, Outcome, handleError
<1>4. Remembered' /\ VMRemembered'
  BY DEF JobInv, Types, Control, Remembered, VMRemembered, KeptOnPurpose, Running, PrepareDone, At
<1>5. Located'
  BY Zenon DEF JobInv, Types, Control, Located, Where, Running, PrepareDone, At
<1>6. Tracked'
  BY Zenon DEF JobInv, Types, Control, Tracked, Undisturbed, Awaited
<1> QED
  BY <1>1, <1>2, <1>3, <1>4, <1>5, <1>6, Zenon DEF JobInv

\* Build.run waits, or is stopped for the reason it will report.
LEMMA selectStep == ASSUME JobInv, select PROVE JobInv'
<1> USE DEF select, scriptVars, execVars, resources, scripts, Stop, handleError
<1>1. Types'
  <2>1. UNCHANGED <<procs, sAt, stage, attempt, sErr, ret>>
    BY Zenon DEF JobInv, Types
  <2>2. /\ pc' \in {"create", "prepare", "discard", "sleep", "fail", "run", "select", "drain",
                     "report", "cleanup", "done"}
        /\ ctx' \in {"live", "canceled", "deadline"}
        /\ err' \in Errors \cup {"canceled", "timeout"}
        /\ interrupt' \in BOOLEAN /\ stopped' \in BOOLEAN
    BY Zenon DEF JobInv, Types
  <2>3. /\ call' = [op |-> call'.op, at |-> call'.at]
        /\ call'.op \in {"none", "Prepare", "Run", "Cleanup"}
    BY Zenon DEF JobInv, Types
  <2> QED
    BY <2>1, <2>2, <2>3, Zenon DEF JobInv, Types
<1>2. Control'
  BY Zenon DEF JobInv, Types, Control, StageNames
<1>3. Reasons'
  BY DEF JobInv, Types, Control, Reasons, Outcome, handleError
<1>4. Remembered' /\ VMRemembered'
  BY DEF JobInv, Types, Control, Remembered, VMRemembered, KeptOnPurpose, Running, PrepareDone, At
<1>5. Located'
  BY Zenon DEF JobInv, Types, Control, Located, Where, Running, PrepareDone, At
<1>6. Tracked'
  BY Zenon DEF JobInv, Types, Control, Tracked, Undisturbed, Awaited
<1> QED
  BY <1>1, <1>2, <1>3, <1>4, <1>5, <1>6, Zenon DEF JobInv

\* Build.run goes on only when the script's goroutine has finished.
LEMMA drainedStep == ASSUME JobInv, drained PROVE JobInv'
<1> USE DEF drained, signals, scriptVars, execVars, resources, scripts
<1>1. Types'
  BY DEF JobInv, Types, Control, StageNames
<1>2. Control'
  BY Zenon DEF JobInv, Types, Control, StageNames
<1>3. Reasons'
  BY Zenon DEF JobInv, Types, Control, Reasons, Outcome, handleError
<1>4. Remembered' /\ VMRemembered'
  BY DEF JobInv, Types, Control, Remembered, VMRemembered, KeptOnPurpose, Running, PrepareDone, At
<1>5. Located'
  BY Zenon DEF JobInv, Types, Control, Located, Where, Running, PrepareDone, At
<1>6. Tracked'
  BY Zenon DEF JobInv, Types, Control, Tracked, Undisturbed, Awaited
<1> QED
  BY <1>1, <1>2, <1>3, <1>4, <1>5, <1>6, Zenon DEF JobInv

\* The next stage's script is handed to the executor.
LEMMA executeStageStep == ASSUME JobInv, executeStage PROVE JobInv'
<1> USE DEF executeStage, signals, resources, scripts, GoOn, afterStage, Repeated, Following
<1>1. Types'
  BY DEF JobInv, Types, Control, StageNames
<1>2. Control'
  BY DEF JobInv, Types, Control, StageNames
<1>3. Reasons'
  BY Zenon DEF JobInv, Types, Control, Reasons, Outcome, handleError
<1>4. Remembered' /\ VMRemembered'
  BY DEF JobInv, Types, Control, Remembered, VMRemembered, KeptOnPurpose, Running, PrepareDone, At
<1>5. Located'
  BY DEF JobInv, Types, Control, Located, Where, Running, PrepareDone, At
<1>6. Tracked'
  BY Zenon DEF JobInv, Types, Control, Tracked, Undisturbed, Awaited
<1> QED
  BY <1>1, <1>2, <1>3, <1>4, <1>5, <1>6, Zenon DEF JobInv

\* After a stage the next, another attempt, or the end.
LEMMA stageReturnedStep == ASSUME JobInv, stageReturned PROVE JobInv'
<1> USE DEF stageReturned, execVars, resources, scripts, StageReturns, GoOn, afterStage, Repeated, Following
<1>1. Types'
  BY DEF JobInv, Types, Control, StageNames
<1>2. Control'
  BY Zenon DEF JobInv, Types, Control, StageNames
<1>3. Reasons'
  BY Zenon DEF JobInv, Types, Control, Reasons, Outcome, handleError
<1>4. Remembered' /\ VMRemembered'
  <2>1. Remembered'
    BY DEF JobInv, Control, Remembered, KeptOnPurpose
  <2>2. VMRemembered'
    <3>1. stage' # "Prepare" \/ sAt' = "finished"
      BY DEF JobInv, Types, StageNames
    <3>2. call' = NoCall /\ pc' # "prepare" /\ Running
      BY Zenon DEF JobInv, Types, Control, Running
    <3> QED
      BY <3>1, <3>2, Zenon DEF JobInv, VMRemembered, Running, PrepareDone, At
  <2> QED
    BY <2>1, <2>2, Zenon
<1>5. Located'
  BY Zenon DEF JobInv, Types, Control, Located, Where, Running, PrepareDone, At
<1>6. Tracked'
  BY Zenon DEF JobInv, Types, Control, Tracked, Undisturbed, Awaited
<1> QED
  BY <1>1, <1>2, <1>3, <1>4, <1>5, <1>6, Zenon DEF JobInv

\* The result is the outcome of the error.
LEMMA setTraceStatusStep == ASSUME JobInv, setTraceStatus PROVE JobInv'
<1> USE DEF setTraceStatus, signals, scriptVars, resources, scripts
<1>1. Types'
  BY DEF JobInv, Types, Control, StageNames
<1>2. Control'
  BY DEF JobInv, Types, Control, StageNames
<1>3. Reasons'
  BY Zenon DEF JobInv, Types, Control, Reasons, Outcome, handleError
<1>4. Remembered' /\ VMRemembered'
  BY DEF JobInv, Types, Control, Remembered, VMRemembered, KeptOnPurpose, Running, PrepareDone, At
<1>5. Located'
  BY DEF JobInv, Types, Control, Located, Where, Running, PrepareDone, At
<1>6. Tracked'
  BY Zenon DEF JobInv, Types, Control, Tracked, Undisturbed, Awaited
<1> QED
  BY <1>1, <1>2, <1>3, <1>4, <1>5, <1>6, Zenon DEF JobInv

\* The job is over when Cleanup has returned.
LEMMA finishedStep == ASSUME JobInv, finished PROVE JobInv'
<1> USE DEF finished, signals, scriptVars, execVars, resources, scripts
<1>1. Types'
  BY DEF JobInv, Types, Control, StageNames
<1>2. Control'
  BY Zenon DEF JobInv, Types, Control, StageNames
<1>3. Reasons'
  BY Zenon DEF JobInv, Types, Control, Reasons, Outcome, handleError
<1>4. Remembered' /\ VMRemembered'
  BY DEF JobInv, Types, Control, Remembered, VMRemembered, KeptOnPurpose, Running, PrepareDone, At
<1>5. Located'
  BY Zenon DEF JobInv, Types, Control, Located, Where, Running, PrepareDone, At
<1>6. Tracked'
  BY Zenon DEF JobInv, Types, Control, Tracked, Undisturbed, Awaited
<1> QED
  BY <1>1, <1>2, <1>3, <1>4, <1>5, <1>6, Zenon DEF JobInv

\* The context of the job may end at any time.
LEMMA ContextEndsStep == ASSUME JobInv, ContextEnds PROVE JobInv'
<1> USE DEF ContextEnds, scriptVars, execVars, resources, scripts, Wake, Stop, handleError
<1>1. Types'
  <2>1. UNCHANGED <<procs, sAt, stage, attempt, sErr, ret>>
    BY Zenon DEF JobInv, Types
  <2>2. /\ pc' \in {"create", "prepare", "discard", "sleep", "fail", "run", "select", "drain",
                     "report", "cleanup", "done"}
        /\ ctx' \in {"live", "canceled", "deadline"}
        /\ err' \in Errors \cup {"canceled", "timeout"}
        /\ interrupt' \in BOOLEAN /\ stopped' \in BOOLEAN
    BY Zenon DEF JobInv, Types
  <2>3. /\ call' = [op |-> call'.op, at |-> call'.at]
        /\ call'.op \in {"none", "Prepare", "Run", "Cleanup"}
    BY Zenon DEF JobInv, Types
  <2> QED
    BY <2>1, <2>2, <2>3, Zenon DEF JobInv, Types
<1>2. Control'
  BY Zenon DEF JobInv, Types, Control, StageNames
<1>3. Reasons'
  BY Zenon DEF JobInv, Types, Control, Reasons, Outcome, handleError
<1>4. Remembered' /\ VMRemembered'
  BY DEF JobInv, Types, Control, Remembered, VMRemembered, KeptOnPurpose, Running, PrepareDone, At
<1>5. Located'
  BY Zenon DEF JobInv, Types, Control, Located, Where, Running, PrepareDone, At
<1>6. Tracked'
  BY Zenon DEF JobInv, Types, Control, Tracked, Undisturbed, Awaited
<1> QED
  BY <1>1, <1>2, <1>3, <1>4, <1>5, <1>6, Zenon DEF JobInv

\* The runner may be told to stop at any time.
LEMMA SystemInterruptStep == ASSUME JobInv, SystemInterrupt PROVE JobInv'
<1> USE DEF SystemInterrupt, scriptVars, execVars, resources, scripts, Wake, Stop
<1>1. Types'
  <2>1. UNCHANGED <<procs, sAt, stage, attempt, sErr, ret>>
    BY Zenon DEF JobInv, Types
  <2>2. /\ pc' \in {"create", "prepare", "discard", "sleep", "fail", "run", "select", "drain",
                     "report", "cleanup", "done"}
        /\ ctx' \in {"live", "canceled", "deadline"}
        /\ err' \in Errors \cup {"canceled", "timeout"}
        /\ interrupt' \in BOOLEAN /\ stopped' \in BOOLEAN
    BY Zenon DEF JobInv, Types
  <2>3. /\ call' = [op |-> call'.op, at |-> call'.at]
        /\ call'.op \in {"none", "Prepare", "Run", "Cleanup"}
    BY Zenon DEF JobInv, Types
  <2> QED
    BY <2>1, <2>2, <2>3, Zenon DEF JobInv, Types
<1>2. Control'
  BY Zenon DEF JobInv, Types, Control, StageNames
<1>3. Reasons'
  BY Zenon DEF JobInv, Types, Control, Reasons, Outcome, handleError
<1>4. Remembered' /\ VMRemembered'
  BY DEF JobInv, Types, Control, Remembered, VMRemembered, KeptOnPurpose, Running, PrepareDone, At
<1>5. Located'
  BY Zenon DEF JobInv, Types, Control, Located, Where, Running, PrepareDone, At
<1>6. Tracked'
  BY Zenon DEF JobInv, Types, Control, Tracked, Undisturbed, Awaited
<1> QED
  BY <1>1, <1>2, <1>3, <1>4, <1>5, <1>6, Zenon DEF JobInv

\* after_script's own context ends without ending the job's.
LEMMA AfterScriptTimeoutStep == ASSUME JobInv, AfterScriptTimeout PROVE JobInv'
<1> USE DEF AfterScriptTimeout, scriptVars, execVars, resources, scripts
<1>1. Types'
  BY DEF JobInv, Types, Control, StageNames
<1>2. Control'
  BY Zenon DEF JobInv, Types, Control, StageNames
<1>3. Reasons'
  BY Zenon DEF JobInv, Types, Control, Reasons, Outcome, handleError
<1>4. Remembered' /\ VMRemembered'
  BY DEF JobInv, Types, Control, Remembered, VMRemembered, KeptOnPurpose, Running, PrepareDone, At
<1>5. Located'
  BY Zenon DEF JobInv, Types, Control, Located, Where, Running, PrepareDone, At
<1>6. Tracked'
  BY Zenon DEF JobInv, Types, Control, Tracked, Undisturbed, Awaited
<1> QED
  BY <1>1, <1>2, <1>3, <1>4, <1>5, <1>6, Zenon DEF JobInv

-----------------------------------------------------------------------------
\* A step of an operation: it goes on, or it returns.
Moves ==
  /\ call.op \in {"Prepare", "Run", "Cleanup"}
  /\ \/ (\E l : call' = [op |-> call.op, at |-> l]) /\ ret' = ret
     \/ call' = NoCall /\ ret' \in Errors

\* A step of the executor leaves Build.Run where it is.
LEMMA MovesStep ==
  ASSUME JobInv, Moves, UNCHANGED buildVars, procs' \subseteq Procs
  PROVE  Types' /\ Control' /\ Reasons'
<1> USE DEF buildVars
<1>1. Types'
  BY DEF JobInv, Types, Moves
<1>2. Control'
  BY DEF JobInv, Control, Moves
<1>3. Reasons'
  BY Zenon DEF JobInv, Reasons, handleError
<1> QED
  BY <1>1, <1>2, <1>3, Zenon

\* The records of the scripts.
LEMMA ProcsTyped ==
  ASSUME Types
  PROVE  /\ \A w \in Places : NewProc(w) \in Procs /\ Unknown(w) \in Procs
         /\ \A S \in SUBSET procs : Abandoned(S) \subseteq Procs
<1>1. \A w \in Places : NewProc(w) \in Procs /\ Unknown(w) \in Procs
  BY Zenon DEF Types, NewProc, Unknown, Procs
<1>2. \A p \in procs : p.in \in Places
  BY Zenon DEF Types, Procs
<1> QED
  BY <1>1, <1>2, Zenon DEF Types, Abandoned

\* Without a script that is still waited for none runs, as long as none is out of
\* control.
LEMMA NoScript ==
  ASSUME JobInv, Undisturbed, kind # "docker" \/ Live,
         call.op # "Run" \/ call.at \notin {"wait", "kill"} \/ exit # "none"
  PROVE  procs = {}
  BY Zenon DEF JobInv, Tracked

\* Scripts that are left to themselves are seen as such.
LEMMA UnknownIs == \A w : Unknown(w).stage = "unknown" /\ Unknown(w).in = w
  BY Zenon DEF Unknown

\* If none is seen as such, none was left.
LEMMA Abandons ==
  ASSUME NEW S \in SUBSET procs, procs' = Abandoned(S), \A p \in procs' : p.stage # "unknown"
  PROVE  S = {} /\ procs' = procs
<1>1. ASSUME NEW p \in S PROVE FALSE
  <2>1. Unknown(p.in) \in procs'
    BY <1>1, Zenon DEF Abandoned
  <2> QED
    BY <2>1, UnknownIs, Zenon
<1> QED
  BY <1>1, Zenon DEF Abandoned

\* The shell and ssh executors keep the invariant.
LEMMA ShellStep == ASSUME JobInv, ShellNext, UNCHANGED buildVars PROVE JobInv'
<1>1. /\ Moves
      /\ kind \in {"shell", "ssh"} /\ UNCHANGED <<mine, ready, outside>>
      /\ lost' \in {lost, lost \cup {"script"}} /\ (kind = "shell" => lost' = lost)
      /\ call.at # "healthy"
  BY DEF ShellNext, shellPrepare, shellPrepareShell, shellStart, shellWait, killAndWait,
     shellCleanup, sshPrepare, sshConnect, sshRun, sshRunWait, sshCleanup, sshStart, sshWait,
     PrepareBuildAndShell, Attempt, Moves, At, Goto, Return, ExitError, resources, Leave
<1>2. \/ UNCHANGED <<procs, exit, lost>>
           /\ \/ call.op # "Run" \/ call.at \notin {"wait", "kill"} \/ exit # "none"
              \/ call'.op = "Run" /\ call'.at = "kill"
      \/ /\ At("Run", "begin") /\ call' = [op |-> "Run", at |-> "wait"] /\ UNCHANGED lost
         /\ \E w \in PlacesOf(kind) : StartIn(w)
      \/ procs' = procs \ {p \in procs : Awaited(p)} /\ UNCHANGED <<exit, lost>>
           /\ call.op = "Run"
      \/ kind = "ssh" /\ Leave({p \in procs : Awaited(p)})
  BY DEF ShellNext, shellPrepare, shellPrepareShell, shellStart, shellWait, killAndWait,
     shellCleanup, sshPrepare, sshConnect, sshRun, sshRunWait, sshCleanup, sshStart, sshWait,
     PrepareBuildAndShell, Attempt, At, Goto, Return, resources, scripts, Kill, PlacesOf
<1>3. procs' \subseteq Procs
  BY <1>1, <1>2, ProcsTyped DEF JobInv, Types, StartIn, Leave, PlacesOf, Places
<1>4. Types' /\ Control' /\ Reasons'
  BY <1>1, <1>3, MovesStep, Zenon DEF JobInv, Types
<1>5. Remembered'
  BY <1>1, Zenon DEF JobInv, Remembered, KeptOnPurpose, buildVars, VMs
<1>6. VMRemembered'
  BY <1>1, Zenon DEF VMRemembered, buildVars, VMs
<1>7. Located'
  BY <1>1, <1>2 DEF JobInv, Types, Procs, Located, PlacesOf, StartIn, NewProc, Leave, Abandoned, Unknown, buildVars
<1>8. Tracked'
  BY <1>1, <1>2, NoScript DEF JobInv, Types, Tracked, Undisturbed, Awaited, StartIn, NewProc, Leave,
     buildVars, StageNames, At
<1> QED
  BY <1>4, <1>5, <1>6, <1>7, <1>8, Zenon DEF JobInv

\* Cleanup: what Remembered says of what is left, and where scripts may still run.
LEMMA RemovesAll ==
  ASSUME JobInv, UNCHANGED buildVars, NEW volume, RemoveMine(volume), kind \notin VMs,
         call.at # "healthy", call' = NoCall
  PROVE  /\ Remembered' /\ procs' \subseteq Procs
         /\ \A p \in procs' : p.in \in PlacesOf(kind) /\ (p.in \in lost' \/ kind \in {"shell", "ssh"})
         /\ "script" \in lost => "script" \in lost'
         /\ procs' \subseteq procs \/ "script" \in lost'
         /\ \A p \in procs \ procs' : p.in \in mine
         /\ \A p \in procs' : p.in \notin mine \/ "script" \in lost'
<1>1. PICK failed \in SUBSET (mine \cap outside) :
        /\ outside' = outside \ (mine \ failed)
        /\ lost' = (lost \ (mine \ failed)) \cup failed
                     \cup (IF \E p \in procs : p.in \in failed THEN {"script"} ELSE {})
        /\ procs' = {p \in procs : p.in \notin mine}
                      \cup {Unknown(p.in) : p \in {q \in procs : q.in \in failed}}
        /\ mine' = {}
  BY Zenon DEF RemoveMine
<1>2. Remembered'
  BY <1>1 DEF JobInv, Remembered, KeptOnPurpose, buildVars
<1>3. procs' \subseteq Procs
  BY <1>1, ProcsTyped DEF JobInv, Types, Procs
<1>4. \A p \in procs' : p.in \in PlacesOf(kind) /\ (p.in \in lost' \/ kind \in {"shell", "ssh"})
  BY <1>1 DEF JobInv, Located, Unknown
<1>5. "script" \in lost => "script" \in lost'
  BY <1>1, Zenon DEF JobInv, Remembered
<1>6. procs' \subseteq procs \/ "script" \in lost'
  BY <1>1, Zenon
<1>7. /\ \A p \in procs \ procs' : p.in \in mine
      /\ \A p \in procs' : p.in \notin mine \/ "script" \in lost'
  BY <1>1, Zenon
<1> QED
  BY <1>2, <1>3, <1>4, <1>5, <1>6, <1>7, Zenon

\* What a step of the kubernetes executor does to the scripts, but for Cleanup.
PodScripts ==
  \/ /\ UNCHANGED <<procs, exit>> /\ lost \subseteq lost'
     /\ call.op # "Run" \/ call.at # "wait" \/ exit # "none"
     /\ call'.at # "wait"
  \/ /\ At("Run", "exec") /\ call' = [op |-> "Run", at |-> "wait"]
     /\ StartIn("pod") /\ UNCHANGED lost
  \/ /\ At("Run", "start") /\ procs' = procs \cup {Unknown("pod")} /\ UNCHANGED <<exit, lost>>
  \/ /\ call.op = "Run" /\ lost \subseteq lost' /\ procs' = Abandoned({p \in procs : Awaited(p)})

\* The kubernetes executor keeps the invariant.
LEMMA KubernetesStep == ASSUME JobInv, KubernetesNext, UNCHANGED buildVars PROVE JobInv'
<1>1. /\ Moves /\ kind = "kubernetes" /\ call.at \notin {"healthy", "kill"}
      /\ kubernetesCleanup \/ call.op \in {"Prepare", "Run"}
  BY DEF KubernetesNext, IsKubernetes, kubernetesPrepare, setupResources, prepareOverwrites,
     checkDefaults, getKubeClient, setupCredentials, setupBuildPod, makePodProxyServices, usePod,
     waitForPodRunning, runInContainer, waitForExec, kubernetesCleanup,
     PrepareBuildAndShell, Attempt, Moves, At, Goto, Return, ExitError
<1>2. kubernetesCleanup \/ PodScripts
  <2>1. CASE kubernetesPrepare \/ setupResources \/ prepareOverwrites \/ checkDefaults \/ getKubeClient
    BY <2>1 DEF kubernetesPrepare, setupResources, prepareOverwrites, checkDefaults, getKubeClient,
       PrepareBuildAndShell, Attempt, At, Goto, Return, resources, scripts, PodScripts
  <2>2. CASE setupCredentials \/ setupBuildPod
    BY <2>2 DEF setupCredentials, setupBuildPod, At, Goto, Return, scripts, PodScripts
  <2>3. CASE makePodProxyServices \/ usePod
    BY <2>3 DEF makePodProxyServices, usePod, At, Goto, Return, resources, scripts, PodScripts
  <2>4. CASE waitForPodRunning \/ runInContainer
    BY <2>4 DEF waitForPodRunning, runInContainer, At, Goto, Return, resources, scripts, PodScripts
  <2>5. CASE waitForExec
    BY <2>5 DEF waitForExec, At, Goto, Return, Leave, PodScripts
  <2> QED
    BY <2>1, <2>2, <2>3, <2>4, <2>5, Zenon DEF KubernetesNext
<1>3. \/ kubernetesCleanup
      \/ /\ outside' \ (mine' \cup lost') \subseteq outside \ (mine \cup lost)
         /\ mine \subseteq mine' \cup lost' /\ lost \subseteq lost'
         /\ mine' \subseteq mine \cup ProxyServices \cup {"pod", "secret", "retrySecret"}
         /\ (ready' \/ (call'.op = "Run" /\ call'.at \in {"services", "start", "exec", "wait"})) =>
              "pod" \in mine'
  <2>1. CASE setupCredentials
    <3>1. Secret \in {"secret", "retrySecret"}
      BY Zenon DEF Secret
    <3> HIDE DEF Secret
    <3>2. ready' = ready /\ ~ready /\ call'.at \in {"none", "pod"}
      BY <2>1 DEF setupCredentials, Goto, Return
    <3>3. \/ UNCHANGED <<mine, outside, lost>>
          \/ /\ mine' \in {{}, {Secret}} /\ outside' \subseteq outside \cup {Secret}
             /\ lost' \in {lost \cup mine, lost \cup mine \cup {Secret}}
             /\ Secret \in mine' \cup lost' \/ outside' = outside
      BY <2>1, Zenon DEF setupCredentials
    <3> QED
      BY <3>1, <3>2, <3>3, Zenon
  <2>2. CASE setupBuildPod
    BY <1>1, <2>2 DEF JobInv, Located, setupBuildPod, At, Goto, Return
  <2>3. CASE makePodProxyServices
    <3>1. /\ outside' \ (mine' \cup lost') \subseteq outside \ (mine \cup lost)
          /\ mine \subseteq mine' /\ lost \subseteq lost'
          /\ mine' \subseteq mine \cup ProxyServices
      BY <2>3, Zenon DEF makePodProxyServices
    <3>2. ready' = ready /\ At("Run", "services")
      BY <2>3, Zenon DEF makePodProxyServices
    <3> QED
      BY <1>1, <3>1, <3>2, Zenon DEF JobInv, Types, Located
  <2>4. CASE \/ kubernetesPrepare \/ setupResources \/ prepareOverwrites \/ checkDefaults
             \/ getKubeClient \/ usePod \/ waitForPodRunning \/ runInContainer \/ waitForExec
    <3>1. UNCHANGED <<mine, ready, outside>> /\ lost \subseteq lost'
      BY <2>4, Zenon DEF kubernetesPrepare, setupResources, prepareOverwrites,
         checkDefaults, getKubeClient, usePod, waitForPodRunning, runInContainer, waitForExec,
         PrepareBuildAndShell, Attempt, resources, Leave
    <3>2. (call'.op = "Run" /\ call'.at \in {"services", "start", "exec", "wait"}) =>
             ready \/ At("Run", "start") \/ At("Run", "exec")
      BY <2>4 DEF kubernetesPrepare, setupResources, prepareOverwrites,
         checkDefaults, getKubeClient, usePod, waitForPodRunning, runInContainer, waitForExec,
         PrepareBuildAndShell, Attempt, At, Goto, Return
    <3> QED
      BY <1>1, <3>1, <3>2, Zenon DEF JobInv, Types, Located
  <2> QED
    BY <2>1, <2>2, <2>3, <2>4, Zenon DEF KubernetesNext
<1>4. CASE kubernetesCleanup
  <2>1. /\ RemoveMine("pod") /\ call.op = "Cleanup" /\ call' = NoCall
        /\ mine' = {} /\ ~ready'
    BY <1>4, Zenon DEF kubernetesCleanup, Return, At, RemoveMine
  <2>2. /\ Remembered' /\ procs' \subseteq Procs
        /\ \A p \in procs' : p.in \in PlacesOf(kind) /\ p.in \in lost'
        /\ "script" \in lost => "script" \in lost'
        /\ procs' \subseteq procs \/ "script" \in lost'
        /\ \A p \in procs \ procs' : p.in \in mine
        /\ \A p \in procs' : p.in \notin mine \/ "script" \in lost'
    BY <1>1, <2>1, RemovesAll, Zenon DEF VMs
  <2>3. Types' /\ Control' /\ Reasons'
    BY <1>1, <2>1, <2>2, MovesStep, Zenon
  <2>4. VMRemembered' /\ Located'
    BY <1>1, <2>1, <2>2, Zenon DEF VMRemembered, Located, VMs, PlacesOf, At, Where, buildVars
  <2>5. Tracked'
    BY <1>1, <2>1, <2>2, NoScript, Zenon DEF JobInv, Tracked, Located, Undisturbed, PlacesOf, Awaited, buildVars
  <2> QED
    BY <2>2, <2>3, <2>4, <2>5, Zenon DEF JobInv
<1>5. CASE ~kubernetesCleanup
  <2>1. procs' \subseteq Procs
    BY <1>2, <1>5, ProcsTyped, Zenon DEF PodScripts, JobInv, Types, StartIn, Places
  <2>2. Types' /\ Control' /\ Reasons'
    BY <1>1, <1>3, <1>5, <2>1, MovesStep, Zenon
  <2>3. Remembered'
    BY <1>1, <1>3, <1>5 DEF JobInv, Remembered, Control, KeptOnPurpose, buildVars, VMs, ProxyServices, Moves
  <2>4. VMRemembered'
    BY <1>1, Zenon DEF VMRemembered, VMs, buildVars
  <2>5. Located'
    BY <1>1, <1>2, <1>3, <1>5 DEF PodScripts, JobInv, Types, Procs, Located, PlacesOf, StartIn, NewProc, Abandoned,
       Unknown, Where, At, buildVars
  <2>6. Tracked'
    <3> USE DEF Undisturbed, Awaited, buildVars
    <3>1. ASSUME Undisturbed'
          PROVE  procs' = {} \/ (StartIn("pod") /\ procs = {} /\ call' = [op |-> "Run", at |-> "wait"])
      <4>1. CASE /\ UNCHANGED <<procs, exit>> /\ lost \subseteq lost'
                 /\ call.op # "Run" \/ call.at # "wait" \/ exit # "none"
        BY <1>1, <3>1, <4>1, NoScript, Zenon
      <4>2. CASE /\ At("Run", "exec") /\ call' = [op |-> "Run", at |-> "wait"]
                 /\ StartIn("pod") /\ UNCHANGED lost
        BY <1>1, <3>1, <4>2, NoScript, Zenon DEF StartIn, At
      <4>3. CASE procs' = procs \cup {Unknown("pod")}
        <5>1. Unknown("pod") \in procs'
          BY <4>3, Zenon
        <5> QED
          BY <3>1, <5>1, UnknownIs, Zenon
      <4>4. CASE /\ call.op = "Run" /\ lost \subseteq lost'
                 /\ procs' = Abandoned({p \in procs : Awaited(p)})
        <5>1. {p \in procs : Awaited(p)} = {} /\ procs' = procs
          BY <3>1, <4>4, Abandons, Zenon
        <5> QED
          BY <1>1, <3>1, <4>4, <5>1, Zenon DEF JobInv, Tracked
      <4> QED
        BY <1>2, <1>5, <4>1, <4>2, <4>3, <4>4, Zenon DEF PodScripts
    <3> QED
      BY <1>1, <3>1 DEF Tracked, StartIn, NewProc, VMs
  <2> QED
    BY <2>2, <2>3, <2>4, <2>5, <2>6, Zenon DEF JobInv
<1> QED
  BY <1>4, <1>5, Zenon

-----------------------------------------------------------------------------
\* What is left of a machine that was to be killed and, but for kept, deleted.
Killed(kept) ==
  \/ /\ outside' = outside \ ((Machine \ kept) \cup {"on"}) /\ procs' = {}
     /\ lost' = IF kept = {} THEN lost \ {"vm"} ELSE lost
  \/ /\ outside' \in {outside, outside \ {"on"}} /\ lost' = lost \cup {"vm"}
     /\ procs' = {} \/ procs' = Abandoned(procs)

\* Killing the machine ends every script of the job, unless it fails.
LEMMA KillVMs == ASSUME JobInv, kind \in VMs, NEW kept, KillVM(kept) PROVE Killed(kept)
<1>1. InVM = procs
  BY Zenon DEF JobInv, Located, PlacesOf, VMs, InVM
<1> QED
  BY <1>1, Zenon DEF KillVM, Kill, Killed

Early == {"begin", "configure", "old", "restore"}

\* The steps of the VM executors, by what they do to the machine.
VMBegins ==
  /\ At("Prepare", "begin") /\ UNCHANGED <<mine, outside, lost, procs, exit>>
  /\ call'.at = "configure" \/ (call' = NoCall /\ ret' # "none")
VMNamed ==
  /\ At("Prepare", "configure") /\ UNCHANGED <<outside, lost, procs, exit>>
  /\ \/ mine' = {"vm"} /\ call'.at = "old"
     \/ mine' = mine /\ call' = NoCall /\ ret' = "system"
VMOld ==
  /\ At("Prepare", "old") /\ call'.at = "restore" /\ UNCHANGED <<mine, exit>>
  /\ KillVM({}) \/ UNCHANGED <<outside, lost, procs>>
VMRestored ==
  /\ At("Prepare", "restore") /\ call'.at = "create" /\ UNCHANGED <<mine, exit>>
  /\ SetBack \/ KillVM({}) \/ (~VMExists /\ UNCHANGED <<outside, lost, procs>>)
VMBuilt ==
  /\ call.op = "Prepare" /\ call.at \notin Early /\ call'.at \notin Early \cup {"create"}
  /\ call.at = "create" => "vm" \in outside' \/ (call' = NoCall /\ ret' # "none")
  /\ outside \subseteq outside' /\ outside' \subseteq outside \cup {"base", "vm", "on", "snapshot"}
  /\ UNCHANGED <<mine, lost, procs, exit>>
VMRuns ==
  /\ At("Run", "begin") /\ UNCHANGED <<mine, lost>> /\ call'.at # "begin"
  /\ \/ /\ StartIn("vm") /\ call' = [op |-> "Run", at |-> "wait"]
        /\ outside' \in {outside, outside \cup {"used"}}
     \/ UNCHANGED <<outside, procs, exit>>
VMWaits ==
  /\ At("Run", "wait") /\ UNCHANGED <<mine, outside>> /\ call' = NoCall
  /\ \/ exit # "none" /\ UNCHANGED <<procs, exit, lost>>
     \/ procs' = procs \ {p \in procs : Awaited(p)} /\ UNCHANGED <<exit, lost>>
     \/ Leave({p \in procs : Awaited(p)})
VMCleanup ==
  /\ call.op = "Cleanup" /\ call' = NoCall /\ UNCHANGED exit /\ mine' = {}
  /\ \/ mine = {} /\ UNCHANGED <<outside, lost, procs>>
     \/ KillVM({}) \/ (job.snapshots /\ KillVM(Machine))

VMStep ==
  VMBegins \/ VMNamed \/ VMOld \/ VMRestored \/ VMBuilt \/ VMRuns \/ VMWaits \/ VMCleanup

VMOutcome == kind \in VMs /\ Moves /\ VMStep /\ call.at # "healthy"

\* So much is known of every step of VirtualBox and Parallels.
LEMMA VMNextStep == ASSUME VMNext PROVE VMOutcome
<1> USE DEF VMs, IsVirtualBox, IsParallels, Early, At, Goto, Return
<1>1. CASE vboxPrepare \/ ConfigureSSH \/ vboxVerify \/ vboxProvision \/ vboxConnect
  BY <1>1 DEF vboxPrepare, ConfigureSSH, vboxVerify, vboxProvision, vboxConnect, PrepareBuildAndShell,
     Attempt, verifyMachine, Provision, ConnectSSH, VMOutcome, Moves, VMStep, VMBegins, VMBuilt, resources, scripts
<1>8. CASE prlPrepare \/ TryExec \/ prlVerify \/ prlProvision
  BY <1>8 DEF prlPrepare, TryExec, prlVerify, prlProvision, PrepareBuildAndShell,
     Attempt, verifyMachine, Provision, VMOutcome, Moves, VMStep, VMBegins, VMBuilt, resources, scripts
<1>9. CASE updateGuestTime \/ waitForIPAddress \/ prlConnect
  BY <1>9 DEF updateGuestTime, waitForIPAddress, prlConnect,
     Attempt, ConnectSSH, VMOutcome, Moves, VMStep, VMBuilt, resources, scripts
<1>2. CASE vboxConfigure \/ prlConfigure
  BY <1>2 DEF vboxConfigure, prlConfigure, Configure, VMOutcome, Moves, VMStep, VMNamed, scripts
<1>3. CASE vboxDeleteOld \/ prlDeleteOld
  BY <1>3 DEF vboxDeleteOld, prlDeleteOld, DeleteOld, VMOutcome, Moves, VMStep, VMOld
<1>4. CASE vboxRestore \/ prlRestore
  BY <1>4 DEF vboxRestore, prlRestore, RestoreOrDelete, VMOutcome, Moves, VMStep, VMRestored
<1>5. CASE vboxClone \/ prlClone \/ vboxBoot \/ prlBoot
  BY <1>5 DEF vboxClone, prlClone, vboxBoot, prlBoot, Clone, Boot, VMOutcome, Moves, VMStep, VMBuilt, VMExists, scripts
<1>10. CASE vboxSnapshot \/ prlSnapshot \/ vboxStart \/ prlStart
  BY <1>10 DEF vboxSnapshot, prlSnapshot, vboxStart, prlStart, CreateSnapshot, StartVM, VMOutcome, Moves, VMStep, VMBuilt, scripts
<1>6. CASE vboxRun \/ prlRun
  <2>1. CASE RunOverSSH
    BY <1>6, <2>1 DEF vboxRun, prlRun, RunOverSSH, sshStart, VMOutcome, Moves, VMStep, VMRuns, scripts
  <2>2. CASE WaitOverSSH
    BY <1>6, <2>2, Zenon DEF vboxRun, prlRun, WaitOverSSH, sshWait, VMOutcome, Moves, VMStep, VMWaits, scripts, Kill, ExitError
  <2> QED
    BY <1>6, <2>1, <2>2, Zenon DEF vboxRun, prlRun
<1>7. CASE vboxCleanup \/ prlCleanup
  <2>1. /\ kind \in VMs /\ call = [op |-> "Cleanup", at |-> "begin"] /\ call' = NoCall /\ ret' = "none"
        /\ UNCHANGED exit /\ mine' = {}
        /\ mine # {} => KillVM(IF job.snapshots /\ ready THEN Machine ELSE {})
        /\ mine = {} => UNCHANGED <<outside, lost, procs>>
    BY <1>7, Zenon DEF vboxCleanup, prlCleanup, PowerOff
  <2>2. mine # {} => KillVM({}) \/ (job.snapshots /\ KillVM(Machine))
    BY <2>1, Zenon
  <2> QED
    BY <2>1, <2>2, Zenon DEF VMOutcome, Moves, VMStep, VMCleanup
<1> QED
  BY <1>1, <1>2, <1>3, <1>4, <1>5, <1>6, <1>7, <1>8, <1>9, <1>10, Zenon DEF VMNext

\* A step in which no script is waited for and none is started: the machine's
\* scripts are gone, as they were, or out of control in a machine that is lost.
VMScripts ==
  \/ procs' = {}
  \/ procs' = procs /\ lost' = lost /\ mine \subseteq mine'
  \/ "vm" \in lost' /\ procs' \subseteq Procs /\ \A p \in procs' : p.in = "vm" /\ p.stage = "unknown"

\* Such a step keeps what the invariant says of scripts.
LEMMA VMScriptsStep ==
  ASSUME JobInv, kind \in VMs, Moves, UNCHANGED buildVars, call.op # "Run", VMScripts
  PROVE  Types' /\ Control' /\ Reasons' /\ Located' /\ Tracked'
<1>1. procs' \subseteq Procs
  BY Zenon DEF JobInv, Types, VMScripts
<1>2. Types' /\ Control' /\ Reasons'
  BY <1>1, MovesStep, Zenon
<1>3. kind' = kind /\ kind \notin {"shell", "ssh", "docker", "docker-ssh", "kubernetes"}
  BY Zenon DEF VMs, buildVars
<1>4. \A p \in procs : p.in = "vm" /\ p.in \in mine \cup lost
  BY <1>3, Zenon DEF JobInv, Located, PlacesOf
<1>5. \A p \in procs' : p.in = "vm" /\ p.in \in mine' \cup lost'
  BY <1>4, Zenon DEF VMScripts
<1>6. Located'
  BY <1>3, <1>5, Zenon DEF Located, PlacesOf
<1>7. Undisturbed' => procs' = {}
  <2>1. procs' = procs /\ lost' = lost => (Undisturbed' => procs' = {})
    BY <1>3, Zenon DEF JobInv, Tracked, Undisturbed
  <2> QED
    BY <2>1, Zenon DEF VMScripts, Undisturbed
<1>8. Tracked'
  BY <1>3, <1>7, Zenon DEF Tracked, VMs
<1> QED
  BY <1>2, <1>6, <1>8, Zenon

\* What a step does to the machine when it is to be deleted, stopped or set back.
Deleted   == outside' = outside \ Machine /\ lost' = lost \ {"vm"} /\ procs' = {}
SwitchedOff == outside' = outside \ {"on"} /\ lost' = lost /\ procs' = {}
RolledBack  == outside' = outside \ {"on", "used"} /\ lost' = lost \ {"vm"} /\ procs' = {}
NotDeleted ==
  /\ outside' \in {outside, outside \ {"on"}} /\ lost' = lost \cup {"vm"}
  /\ procs' \subseteq Procs /\ \A p \in procs' : p.in = "vm" /\ p.stage = "unknown"
AsItWas == outside' = outside /\ lost' = lost /\ procs' = procs

\* KillVM and SetBack do one of these.
LEMMA VMEffects ==
  ASSUME JobInv, kind \in VMs
  PROVE  /\ KillVM({}) => Deleted \/ NotDeleted
         /\ KillVM(Machine) => SwitchedOff \/ NotDeleted
         /\ SetBack => RolledBack
<1>1. \A p \in procs : p.in = "vm"
  BY Zenon DEF JobInv, Located, PlacesOf, VMs
<1>2. \A q \in Abandoned(procs) : \E p \in procs : q = Unknown(p.in)
  BY Zenon DEF Abandoned
<1>3. \A q \in Abandoned(procs) : q.in = "vm" /\ q.stage = "unknown"
  BY <1>1, <1>2, UnknownIs
<1>4. Abandoned(procs) \subseteq Procs
  BY ProcsTyped, Zenon DEF JobInv
<1>5. SetBack => RolledBack
  BY <1>1, Zenon DEF SetBack, InVM, RolledBack
<1>6. KillVM({}) => Deleted \/ NotDeleted
  <2> HAVE KillVM({})
  <2>1. Killed({})
    BY KillVMs, Zenon
  <2>2. (Machine \ {}) \cup {"on"} = Machine
    BY Zenon DEF Machine
  <2> QED
    BY <2>1, <2>2, <1>3, <1>4, Zenon DEF Killed, Deleted, NotDeleted
<1>7. KillVM(Machine) => SwitchedOff \/ NotDeleted
  <2> HAVE KillVM(Machine)
  <2>1. Killed(Machine)
    BY KillVMs, Zenon
  <2>2. (Machine \ Machine) \cup {"on"} = {"on"} /\ Machine # {}
    BY Zenon DEF Machine
  <2> QED
    BY <2>1, <2>2, <1>3, <1>4, Zenon DEF Killed, SwitchedOff, NotDeleted
<1> QED
  BY <1>5, <1>6, <1>7, Zenon

\* The virtual machine executors keep the invariant.
LEMMA VMStepInv == ASSUME JobInv, VMNext, UNCHANGED buildVars PROVE JobInv'
<1>1. kind \in VMs /\ Moves /\ VMStep /\ call.at # "healthy"
  BY VMNextStep, Zenon DEF VMOutcome
<1>2. kind' = kind /\ kind \notin {"shell", "ssh", "docker", "docker-ssh", "kubernetes"}
  BY <1>1, Zenon DEF VMs, buildVars
<1>3. UNCHANGED <<job, pc, ctx, sAt, stage, attempt>>
  BY Zenon DEF buildVars
<1> USE DEF At
<1>4. CASE VMBegins
  <2>1. VMScripts
    BY <1>4, Zenon DEF VMBegins, VMScripts
  <2>2. Types' /\ Control' /\ Reasons' /\ Located' /\ Tracked'
    BY <1>1, <1>4, <2>1, VMScriptsStep, Zenon DEF VMBegins
  <2>3. Remembered'
    BY <1>1, <1>2, <1>3, <1>4 DEF VMBegins, JobInv, Control, Remembered, VMRemembered, KeptOnPurpose, Running, PrepareDone, Machine
  <2>4. VMRemembered'
    BY <1>1, <1>2, <1>3, <1>4 DEF VMBegins, JobInv, Control, VMRemembered, Running, PrepareDone, Machine, Early
  <2> QED
    BY <2>2, <2>3, <2>4, Zenon DEF JobInv
<1>5. CASE VMNamed
  <2>1. VMScripts
    BY <1>1, <1>5, Zenon DEF VMNamed, VMScripts, JobInv, VMRemembered
  <2>2. Types' /\ Control' /\ Reasons' /\ Located' /\ Tracked'
    BY <1>1, <1>5, <2>1, VMScriptsStep, Zenon DEF VMNamed
  <2>3. Remembered'
    BY <1>1, <1>2, <1>3, <1>5 DEF VMNamed, JobInv, Control, Remembered, VMRemembered, KeptOnPurpose, Running, PrepareDone, Machine
  <2>4. VMRemembered'
    BY <1>1, <1>2, <1>3, <1>5 DEF VMNamed, JobInv, Control, VMRemembered, Running, PrepareDone, Machine, Early
  <2> QED
    BY <2>2, <2>3, <2>4, Zenon DEF JobInv
<1>6. CASE VMOld
  <2>1. Deleted \/ NotDeleted \/ AsItWas
    BY <1>1, <1>6, VMEffects, Zenon DEF VMOld, AsItWas
  <2>2. VMScripts
    BY <1>6, <2>1, Zenon DEF VMOld, VMScripts, Deleted, SwitchedOff, NotDeleted, RolledBack, AsItWas
  <2>3. Types' /\ Control' /\ Reasons' /\ Located' /\ Tracked'
    BY <1>1, <1>6, <2>2, VMScriptsStep, Zenon DEF VMOld
  <2>4. Remembered'
    BY <1>1, <1>2, <1>3, <1>6, <2>1, Zenon DEF VMOld, JobInv, Control, Remembered, VMRemembered, KeptOnPurpose, Running, PrepareDone, Machine,
       Deleted, SwitchedOff, NotDeleted, RolledBack, AsItWas
  <2>5. VMRemembered'
    BY <1>1, <1>2, <1>3, <1>6, <2>1 DEF VMOld, JobInv, Control, VMRemembered, Running, PrepareDone, Machine, Early, VMExists,
       Deleted, SwitchedOff, NotDeleted, RolledBack, AsItWas
  <2> QED
    BY <2>3, <2>4, <2>5, Zenon DEF JobInv
<1>7. CASE VMRestored
  <2>1. RolledBack \/ Deleted \/ NotDeleted \/ (AsItWas /\ ~VMExists)
    BY <1>1, <1>7, VMEffects, Zenon DEF VMRestored, AsItWas
  <2>2. VMScripts
    BY <1>7, <2>1, Zenon DEF VMRestored, VMScripts, Deleted, SwitchedOff, NotDeleted, RolledBack, AsItWas
  <2>3. Types' /\ Control' /\ Reasons' /\ Located' /\ Tracked'
    BY <1>1, <1>7, <2>2, VMScriptsStep, Zenon DEF VMRestored
  <2>4. Remembered'
    BY <1>1, <1>2, <1>3, <1>7, <2>1 DEF VMRestored, JobInv, Control, Remembered, VMRemembered, KeptOnPurpose, Running, PrepareDone, Machine,
       Deleted, SwitchedOff, NotDeleted, RolledBack, AsItWas
  <2>5. VMRemembered'
    BY <1>1, <1>2, <1>3, <1>7, <2>1 DEF VMRestored, JobInv, Control, VMRemembered, Running, PrepareDone, Machine, Early, VMExists,
       Deleted, SwitchedOff, NotDeleted, RolledBack, AsItWas
  <2> QED
    BY <2>3, <2>4, <2>5, Zenon DEF JobInv
<1>8. CASE VMBuilt
  <2>1. VMScripts
    BY <1>8, Zenon DEF VMBuilt, VMScripts
  <2>2. Types' /\ Control' /\ Reasons' /\ Located' /\ Tracked'
    BY <1>1, <1>8, <2>1, VMScriptsStep, Zenon DEF VMBuilt
  <2>3. Remembered'
    <3>1. mine = {"vm"} /\ mine' = mine /\ lost' = lost /\ call.op = "Prepare"
      BY <1>1, <1>8, Zenon DEF VMBuilt, JobInv, VMRemembered, Early
    <3>2. outside' \subseteq mine \cup KeptOnPurpose \cup lost \cup (IF Live THEN {} ELSE {"wait"}) \cup Machine
      BY <1>1, <1>2, <1>8, <3>1 DEF VMBuilt, JobInv, Remembered, KeptOnPurpose, Machine, VMs
    <3>3. pc = "prepare"
      BY <3>1, Zenon DEF JobInv, Control
    <3> QED
      BY <1>1, <1>2, <1>3, <3>1, <3>2, <3>3 DEF Remembered, KeptOnPurpose
  <2>4. VMRemembered'
    BY <1>1, <1>2, <1>3, <1>8 DEF VMBuilt, JobInv, Control, VMRemembered, Running, PrepareDone, Machine, Early
  <2> QED
    BY <2>2, <2>3, <2>4, Zenon DEF JobInv
<1>9. CASE VMRuns
  <2>1. procs' \subseteq Procs
    BY <1>1, <1>9, ProcsTyped, Zenon DEF VMRuns, JobInv, Types, StartIn, Places
  <2>2. Types' /\ Control' /\ Reasons'
    BY <1>1, <2>1, MovesStep, Zenon
  <2>3. Remembered'
    BY <1>1, <1>2, <1>3, <1>9 DEF VMRuns, JobInv, Control, Remembered, VMRemembered, KeptOnPurpose, Running, Machine
  <2>4. VMRemembered'
    <3>1. sAt = "running" /\ pc # "prepare" /\ call'.op # "Prepare" /\ call'.at # "begin"
      BY <1>1, <1>9 DEF VMRuns, Moves, JobInv, Control
    <3>2. mine = {"vm"} /\ "vm" \in outside
      BY <1>1, <3>1, Zenon DEF JobInv, VMRemembered, Running
    <3>3. mine' = mine /\ "vm" \in outside'
      BY <1>9, <3>2, Zenon DEF VMRuns
    <3> QED
      BY <1>3, <3>1, <3>2, <3>3 DEF VMRemembered, PrepareDone
  <2>5. Located'
    BY <1>1, <1>2, <1>9 DEF VMRuns, JobInv, Control, Located, VMRemembered, Running, PlacesOf, StartIn, NewProc
  <2>6. Tracked'
    BY <1>1, <1>2, <1>3, <1>9 DEF VMRuns, JobInv, Tracked, Undisturbed, StartIn, NewProc, Awaited
  <2> QED
    BY <2>2, <2>3, <2>4, <2>5, <2>6, Zenon DEF JobInv
<1>10. CASE VMWaits
  <2>1. procs' \subseteq Procs
    BY <1>1, <1>10, ProcsTyped DEF VMWaits, JobInv, Types, Leave
  <2>2. Types' /\ Control' /\ Reasons'
    BY <1>1, <2>1, MovesStep, Zenon
  <2>3. Remembered'
    BY <1>1, <1>2, <1>3, <1>10 DEF VMWaits, JobInv, Control, Remembered, KeptOnPurpose, Machine, Leave
  <2>4. VMRemembered'
    BY <1>1, <1>2, <1>3, <1>10, Zenon DEF VMWaits, JobInv, Control, VMRemembered, Running, PrepareDone, Machine, Leave, Early
  <2>5. Located'
    <3>1. \A p \in procs : p.in = "vm" /\ p.in \in mine \cup lost
      BY <1>2, Zenon DEF JobInv, Located, PlacesOf
    <3>2. \A p \in procs' : p.in = "vm" /\ p.in \in mine' \cup lost'
      <4>1. \A q \in Abandoned({p \in procs : Awaited(p)}) : \E p \in procs : q.in = p.in
        BY UnknownIs, Zenon DEF Abandoned
      <4>2. mine' = mine /\ lost \subseteq lost'
              /\ (procs' \subseteq procs \/ procs' = Abandoned({p \in procs : Awaited(p)}))
        BY <1>10, Zenon DEF VMWaits, Leave
      <4> QED
        BY <3>1, <4>1, <4>2, Zenon
    <3> QED
      BY <1>2, <3>2, Zenon DEF Located, PlacesOf
  <2>6. Undisturbed' => procs' = {}
    <3>1. CASE Leave({p \in procs : Awaited(p)})
      BY <3>1, Zenon DEF Leave, Undisturbed
    <3>2. CASE exit # "none" /\ UNCHANGED <<procs, lost>>
      BY <1>2, <3>2, Zenon DEF JobInv, Tracked, Undisturbed
    <3>3. CASE procs' = procs \ {p \in procs : Awaited(p)} /\ UNCHANGED lost
      <4>1. \A p \in procs : p \notin procs' => p.stage # "unknown"
        BY <3>3, Zenon DEF Awaited, JobInv, Types, StageNames
      <4> QED
        BY <1>2, <3>3, <4>1, Zenon DEF JobInv, Tracked, Undisturbed
    <3> QED
      BY <1>10, <3>1, <3>2, <3>3, Zenon DEF VMWaits
  <2>7. Tracked'
    BY <1>1, <1>2, <2>6, Zenon DEF Tracked
  <2> QED
    BY <2>2, <2>3, <2>4, <2>5, <2>7, Zenon DEF JobInv
<1>11. CASE VMCleanup
  <2>1. Deleted \/ NotDeleted \/ (job.snapshots /\ SwitchedOff) \/ (mine = {} /\ AsItWas)
    BY <1>1, <1>11, VMEffects, Zenon DEF VMCleanup, AsItWas
  <2>2. VMScripts
    BY <1>11, <2>1, Zenon DEF VMCleanup, VMScripts, Deleted, SwitchedOff, NotDeleted, RolledBack, AsItWas
  <2>3. Types' /\ Control' /\ Reasons' /\ Located' /\ Tracked'
    BY <1>1, <1>11, <2>2, VMScriptsStep, Zenon DEF VMCleanup
  <2>4. Remembered'
    <3>1. mine \subseteq {"vm"} /\ mine' = {} /\ call' = NoCall /\ "script" \notin mine'
      BY <1>1, <1>11, Zenon DEF VMCleanup, JobInv, VMRemembered
    <3>2. outside \subseteq mine \cup KeptOnPurpose \cup lost \cup (IF Live THEN {} ELSE {"wait"})
                               \cup (IF "vm" \in mine \cup lost THEN Machine ELSE {})
      BY <1>1, Zenon DEF JobInv, Remembered
    <3>3. KeptOnPurpose' = KeptOnPurpose /\ (job.snapshots => {"vm", "snapshot", "used"} \subseteq KeptOnPurpose)
      BY <1>1, <1>2, <1>3, Zenon DEF KeptOnPurpose, VMs
    <3>4. outside' \subseteq KeptOnPurpose \cup lost' \cup (IF Live THEN {} ELSE {"wait"})
                               \cup (IF "vm" \in lost' THEN Machine ELSE {})
      <4>1. CASE Deleted
        BY <3>1, <3>2, <4>1, Zenon DEF Deleted, Machine
      <4>2. CASE NotDeleted
        BY <3>1, <3>2, <4>2, Zenon DEF NotDeleted, Machine
      <4>3. CASE job.snapshots /\ SwitchedOff
        BY <3>1, <3>2, <3>3, <4>3, Zenon DEF SwitchedOff, Machine
      <4>4. CASE mine = {} /\ AsItWas
        BY <3>2, <4>4, Zenon DEF AsItWas
      <4> QED
        BY <2>1, <4>1, <4>2, <4>3, <4>4, Zenon
    <3> QED
      BY <1>1, <1>2, <1>3, <3>1, <3>3, <3>4, Zenon DEF Remembered
  <2>5. VMRemembered'
    BY <1>1, <1>2, <1>3, <1>11, <2>1, Zenon DEF VMCleanup, JobInv, Control, VMRemembered, Running, PrepareDone, Machine, Early, VMExists,
       Deleted, SwitchedOff, NotDeleted, RolledBack, AsItWas
  <2> QED
    BY <2>3, <2>4, <2>5, Zenon DEF JobInv
<1> QED
  BY <1>1, <1>4, <1>5, <1>6, <1>7, <1>8, <1>9, <1>10, <1>11, Zenon DEF VMStep

-----------------------------------------------------------------------------
\* The docker executors.  What createDependencies sets up next.
LEMMA AfterIs ==
  \A l : After(l) \in {"devices", "manager", "buildVolume", "services", "volumes", "images"}
    \/ ~\E i \in 1..5 : createDependencies[i] = l
  BY DEF After, createDependencies

\* Every step of createDependencies but the last has a next one.
LEMMA AfterSteps ==
  \A l \in {"devices", "manager", "buildVolume", "services", "volumes"} :
    After(l) \in {"devices", "manager", "buildVolume", "services", "volumes", "images"}
<1>1. ASSUME NEW l \in {"devices", "manager", "buildVolume", "services", "volumes"}
      PROVE  \E i \in 1..5 : createDependencies[i] = l
  BY <1>1 DEF createDependencies
<1> QED
  BY <1>1, AfterIs, Zenon

\* A step of Prepare before the job's container: volumes, the service and its check.
DockerSets ==
  /\ call.op = "Prepare" /\ UNCHANGED <<ready, procs, exit>>
  /\ call'.at # "connect"
  /\ (call' = NoCall /\ ret' = "none") => kind = "docker" \/ call.at = "connect"
  /\ mine \subseteq mine' /\ mine' \subseteq mine \cup {"cache", "builds", "service"}
  /\ outside' \ (mine' \cup lost' \cup KeptOnPurpose) \subseteq
       (outside \ (mine \cup lost \cup KeptOnPurpose))
         \cup (IF call'.at = "healthy" THEN {"wait"} ELSE {})
  /\ (call.at = "healthy" /\ Live) => "wait" \notin outside' \ lost'
  /\ lost \ {"cache", "builds", "service"} \subseteq lost'
  /\ "script" \in lost' => "script" \in lost

\* A container for scripts is made.
DockerContainer(name) ==
  /\ call.op \in {"Prepare", "Run"} /\ call.at \in {"begin", "images"} /\ call'.at \notin {"wait", "healthy"} /\ UNCHANGED exit
  /\ outside' \ (mine' \cup lost') \subseteq outside \ (mine \cup lost)
  /\ mine \subseteq mine' /\ mine' \subseteq mine \cup {name}
  /\ lost \ {name} \subseteq lost' /\ lost' \subseteq lost \cup {name}
  /\ (procs' = procs /\ lost \subseteq lost') \/ (Live /\ Freed(name))
  /\ call'.at = "attach" => Where \in mine' \/ (ready /\ Where = "build")
  /\ ready' => ready \/ "build" \in mine'
  /\ kind = "docker-ssh" =>
       call.op = "Prepare" /\ (call'.at = "connect" => "build" \in mine') /\ (call' = NoCall => ret' # "none")

\* A script is started, waited for, killed or left.
DockerScript(where) ==
  /\ call.op = "Run" /\ UNCHANGED <<mine, ready, outside>> /\ lost \subseteq lost'
  /\ call.at # "healthy" /\ call'.at \notin {"healthy", "attach"}
  /\ \/ /\ call.at \in {"attach", "begin"} /\ call' = [op |-> "Run", at |-> "wait"]
        /\ StartIn(where) /\ UNCHANGED lost
        /\ kind = "docker" => Live /\ call.at = "attach"
     \/ /\ UNCHANGED <<procs, exit, lost>> /\ call'.at # "wait"
        /\ \/ kind = "docker" /\ ~Live
           \/ exit # "none" \/ call.at \notin {"wait", "kill"}
           \/ call' = [op |-> "Run", at |-> "kill"]
     \/ /\ kind = "docker" /\ call.at = "attach"
        /\ procs' = procs \cup {Unknown(where)} /\ "script" \in lost'
     \/ Leave({p \in procs : Awaited(p)})
     \/ procs' = procs \ {p \in procs : Awaited(p)} /\ UNCHANGED lost

\* A step of the docker executors is one of these.
DockerOutcome ==
  /\ IsDocker /\ Moves
  /\ \/ dockerCleanup \/ DockerSets
     \/ kind = "docker" /\ Where = "predefined" /\ DockerContainer("predefined")
     \/ DockerContainer("build") /\ (kind = "docker" => Where = "build")
     \/ kind = "docker" /\ DockerScript(Where)
     \/ kind = "docker-ssh" /\ DockerScript("build")

\* A step of Prepare that creates and removes nothing.
DockerIdle ==
  /\ IsDocker /\ Moves /\ call.op = "Prepare" /\ call.at # "healthy"
  /\ call'.at \notin {"connect", "healthy"} /\ UNCHANGED <<resources, scripts>>
  /\ (call' = NoCall /\ ret' = "none") => kind = "docker" \/ call.at = "connect"

\* So much is known of every step of the docker executors.
LEMMA DockerNextStep == ASSUME DockerNext PROVE DockerOutcome
<1> USE DEF At, Goto, Return, resources, scripts
<1>1. CASE \/ connectDocker \/ prepareBuildsDir \/ dockerPrepare \/ expandImageName \/ bindDevices
           \/ createVolumesManager \/ getPrebuiltImage \/ createServices
           \/ getBuildImage \/ commandPrepared \/ dockerSSHConnect
  <2>1. (connectDocker \/ prepareBuildsDir \/ dockerPrepare \/ expandImageName) => DockerIdle
    BY DEF connectDocker, prepareBuildsDir, dockerPrepare, expandImageName,
       PrepareBuildAndShell, Attempt, IsDocker, Moves, DockerIdle
  <2>2. (bindDevices \/ createVolumesManager \/ getPrebuiltImage) => DockerIdle
    BY AfterSteps DEF bindDevices, createVolumesManager, getPrebuiltImage, getDockerImage, pullDockerImage,
       Attempt, IsDocker, Moves, DockerIdle
  <2>3. (createServices \/ commandPrepared \/ dockerSSHConnect) => DockerIdle
    BY AfterSteps DEF createServices, commandPrepared, dockerSSHConnect, IsDocker, Moves, DockerIdle
  <2>4. (getBuildImage) => DockerIdle
    BY DEF getBuildImage, getDockerImage, pullDockerImage, Attempt, IsDocker, Moves, DockerIdle
  <2>5. DockerIdle
    BY <1>1, <2>1, <2>2, <2>3, <2>4, Zenon
  <2> QED
    BY <2>5, Zenon DEF DockerIdle, DockerSets, DockerOutcome
<1>2. CASE createVolumes \/ createBuildVolume
  <2>1. After("volumes") \notin {"none", "connect", "healthy"} /\ After("buildVolume") \notin {"none", "connect", "healthy"}
    BY AfterSteps, Zenon
  <2> HIDE DEF After
  <2>2. CASE createVolumes
    BY <2>1, <2>2 DEF createVolumes, createContainerBasedCacheVolume, FindOrCleanExisting, createCacheContainer,
       DockerOutcome, IsDocker, Moves, DockerSets, KeptOnPurpose
  <2>3. CASE createBuildVolume
    BY <2>1, <2>3 DEF createBuildVolume, createContainerBasedCacheVolume, FindOrCleanExisting, createCacheContainer,
       DockerOutcome, IsDocker, Moves, DockerSets, KeptOnPurpose
  <2> QED
    BY <1>2, <2>2, <2>3, Zenon
<1>3. CASE createService \/ runServiceHealthCheckContainer \/ waitForServiceContainer
  <2>1. After("services") \notin {"none", "connect", "healthy"}
    BY AfterSteps, Zenon
  <2> HIDE DEF After
  <2> QED
    BY <1>3, <2>1 DEF createService, runServiceHealthCheckContainer, waitForServiceContainer, DockerOutcome, IsDocker, Moves, DockerSets
<1>4. CASE requestNewPredefinedContainer
  <2>1. kind = "docker" /\ Where = "predefined" /\ createContainer("Run", "begin", "predefined", "attach")
    BY <1>4, Zenon DEF requestNewPredefinedContainer
  <2>2. ready' => ready
    BY <2>1, Zenon DEF createContainer
  <2>3. IsDocker /\ Moves
    BY <2>1, Zenon DEF createContainer, IsDocker, Moves
  <2>4. DockerContainer("predefined")
    <3> HIDE DEF Where
    <3> QED
      BY <2>1, <2>2 DEF createContainer, DockerContainer, Freed
  <2> QED
    BY <2>1, <2>3, <2>4, Zenon DEF DockerOutcome
<1>5. CASE requestBuildContainer
  BY <1>5 DEF requestBuildContainer, createContainer, DockerOutcome, IsDocker, Moves, DockerContainer
<1>6. CASE dockerSSHPrepare
  BY <1>6 DEF dockerSSHPrepare, createContainer, DockerOutcome, IsDocker, Moves, DockerContainer
<1>7. CASE attachContainer
  BY <1>7 DEF attachContainer, DockerOutcome, IsDocker, Moves, DockerScript
<1>8. CASE watchContainer \/ killContainer
  <2>1. CASE watchContainer
    BY <2>1 DEF watchContainer, waitForContainer, ExitError, DockerOutcome, IsDocker, Moves, DockerScript, Leave
  <2>2. CASE killContainer
    BY <2>2, Zenon DEF killContainer, DockerOutcome, IsDocker, Moves, DockerScript, Kill
  <2> QED
    BY <1>8, <2>1, <2>2, Zenon
<1>9. CASE dockerSSHRun \/ dockerSSHWait
  <2>1. CASE dockerSSHRun
    BY <2>1 DEF dockerSSHRun, sshStart, DockerOutcome, IsDocker, Moves, DockerScript
  <2>2. CASE dockerSSHWait
    BY <2>2 DEF dockerSSHWait, sshWait, ExitError, DockerOutcome, IsDocker, Moves, DockerScript, Kill, Leave
  <2> QED
    BY <1>9, <2>1, <2>2, Zenon
<1>10. CASE dockerCleanup
  BY <1>10, Zenon DEF dockerCleanup, Moves, DockerOutcome
<1> QED
  BY <1>1, <1>2, <1>3, <1>4, <1>5, <1>6, <1>7, <1>8, <1>9, <1>10, Zenon DEF DockerNext

\* The docker executors keep the invariant.
LEMMA DockerStep == ASSUME JobInv, DockerNext, UNCHANGED buildVars PROVE JobInv'
<1>1. Moves /\ kind \in {"docker", "docker-ssh"} /\ kind \notin VMs
  BY DockerNextStep, Zenon DEF DockerOutcome, IsDocker, VMs
<1>2. UNCHANGED <<kind, job, pc, ctx, sAt, stage, attempt>>
  BY Zenon DEF buildVars
<1>3. Where' = Where /\ KeptOnPurpose' = KeptOnPurpose
  BY <1>2, Zenon DEF Where, KeptOnPurpose
<1>4. VMRemembered'
  BY <1>1, <1>2, Zenon DEF VMRemembered
<1> HIDE DEF Where
<1>5. CASE dockerCleanup
  <2>1. /\ RemoveMine("builds") /\ call.op = "Cleanup" /\ call' = NoCall /\ call.at # "healthy"
        /\ mine' = {} /\ ~ready' /\ exit' = exit
    BY <1>5, Zenon DEF dockerCleanup, Return, At, RemoveMine
  <2>2. /\ Remembered' /\ procs' \subseteq Procs
        /\ \A p \in procs' : p.in \in PlacesOf(kind) /\ p.in \in lost'
        /\ "script" \in lost => "script" \in lost'
        /\ procs' \subseteq procs \/ "script" \in lost'
    BY <1>1, <2>1, RemovesAll, Zenon DEF VMs
  <2>3. Types' /\ Control' /\ Reasons'
    BY <1>1, <2>1, <2>2, MovesStep, Zenon
  <2>4. ~Running' /\ ~PrepareDone'
    BY <1>2, <2>1, Zenon DEF JobInv, Control, Running, PrepareDone
  <2>5. Located'
    BY <1>1, <1>2, <2>1, <2>2, <2>4, Zenon DEF Located, PlacesOf, At
  <2>6. Tracked'
    BY <1>1, <1>2, <2>1, <2>2, Zenon DEF JobInv, Tracked, Undisturbed, VMs
  <2> QED
    BY <1>4, <2>2, <2>3, <2>5, <2>6, Zenon DEF JobInv
<1>6. CASE DockerSets
  <2>1. Types' /\ Control' /\ Reasons'
    BY <1>1, <1>6, MovesStep, Zenon DEF DockerSets, JobInv, Types
  <2>2. pc = "prepare" /\ sAt = "idle"
    BY <1>6, Zenon DEF DockerSets, JobInv, Control
  <2>3. Remembered'
    BY <1>1, <1>2, <1>3, <1>6, <2>2, Zenon DEF DockerSets, JobInv, Remembered, VMs
  <2>4. Located'
    BY <1>1, <1>2, <1>3, <1>6, <2>2 DEF DockerSets, JobInv, Types, Located, PlacesOf, Running, PrepareDone, At, Moves
  <2>5. Tracked'
    BY <1>1, <1>2, <1>6, Zenon DEF DockerSets, JobInv, Tracked, Undisturbed, VMs
  <2> QED
    BY <1>4, <2>1, <2>3, <2>4, <2>5, Zenon DEF JobInv
<1>7. ASSUME NEW name \in {"build", "predefined"}, DockerContainer(name), kind = "docker" => Where = name,
             kind = "docker-ssh" => name = "build"
      PROVE  JobInv'
  <2>1. procs' \subseteq procs
    BY <1>7, Zenon DEF DockerContainer, Freed
  <2>2. Types' /\ Control' /\ Reasons'
    BY <1>1, <2>1, MovesStep, Zenon DEF JobInv, Types
  <2>3. Remembered'
    BY <1>1, <1>2, <1>3, <1>7, Zenon DEF DockerContainer, JobInv, Control, Moves, Remembered, VMs
  <2>4. Located'
    BY <1>1, <1>2, <1>3, <1>7 DEF DockerContainer, Freed, JobInv, Types, Control, Moves, Located, PlacesOf, Running,
       PrepareDone, At
  <2>5. Tracked'
    BY <1>1, <1>2, <1>7, <2>1, NoScript, Zenon DEF DockerContainer, JobInv, Tracked, Undisturbed, VMs
  <2> QED
    BY <1>4, <2>2, <2>3, <2>4, <2>5, Zenon DEF JobInv
<1>8. ASSUME NEW w \in {"build", "predefined"}, DockerScript(w), kind = "docker" => Where = w,
             kind = "docker-ssh" => w = "build"
      PROVE  JobInv'
  <2> DEFINE A == {p \in procs : Awaited(p)}
  <2>1. A \subseteq procs /\ \A p \in A : p.stage # "unknown"
    BY Zenon DEF Awaited, JobInv, Types, StageNames
  <2> DEFINE Started == /\ call.at \in {"attach", "begin"} /\ call' = [op |-> "Run", at |-> "wait"]
                        /\ procs' = procs \cup {NewProc(w)} /\ exit' = "none" /\ UNCHANGED lost
                        /\ kind = "docker" => Live /\ call.at = "attach"
             Watched == /\ UNCHANGED <<procs, exit, lost>> /\ call'.at # "wait"
                        /\ \/ kind = "docker" /\ ~Live
                           \/ exit # "none" \/ call.at \notin {"wait", "kill"}
                           \/ call' = [op |-> "Run", at |-> "kill"]
             Unanswered == /\ kind = "docker" /\ call.at = "attach"
                           /\ procs' = procs \cup {Unknown(w)} /\ "script" \in lost'
  <2>2. Started \/ Watched \/ Unanswered \/ (procs' = Abandoned(A) /\ "script" \in lost')
          \/ (procs' = procs \ A /\ UNCHANGED lost)
    BY <1>8, Zenon DEF DockerScript, StartIn, Leave
  <2>3. /\ call.op = "Run" /\ UNCHANGED <<mine, ready, outside>> /\ lost \subseteq lost'
        /\ call.at # "healthy" /\ call'.at \notin {"healthy", "attach"} /\ sAt = "running"
        /\ kind = "docker-ssh" => "build" \in mine
        /\ (kind = "docker" /\ call.at = "attach") => w \in mine
    BY <1>8, Zenon DEF DockerScript, JobInv, Control, Located, Running, At, Types
  <2> HIDE DEF A
  <2>4. procs' \subseteq Procs
    BY <2>1, <2>2, ProcsTyped DEF JobInv, Types, Places
  <2>5. Types' /\ Control' /\ Reasons'
    BY <1>1, <2>4, MovesStep, Zenon
  <2>6. Remembered'
    BY <1>1, <1>2, <1>3, <1>8, Zenon DEF DockerScript, JobInv, Control, Moves, Remembered, VMs
  <2>7. Located'
    <3>1. w \in PlacesOf(kind) /\ NewProc(w).in = w
      BY <1>1, <1>8, Zenon DEF PlacesOf, NewProc
    <3>2. \A p \in procs : p.in \in PlacesOf(kind) /\ p.in \in mine \cup lost
      BY <1>1, Zenon DEF JobInv, Located
    <3>3. \A p \in Abandoned(A) : \E q \in procs : p.in = q.in
      BY <2>1, UnknownIs, Zenon DEF Abandoned
    <3>4. \A p \in procs' : p.in \in PlacesOf(kind) /\ p.in \in mine' \cup lost'
      <4>1. CASE Started
        BY <1>1, <1>8, <2>3, <3>1, <3>2, <4>1, Zenon
      <4>2. CASE Watched
        BY <2>3, <3>2, <4>2, Zenon
      <4>3. CASE Unanswered
        BY <2>3, <3>1, <3>2, <4>3, UnknownIs, Zenon
      <4>4. CASE procs' = Abandoned(A)
        BY <2>3, <3>2, <3>3, <4>4, Zenon
      <4>5. CASE procs' = procs \ A /\ UNCHANGED lost
        BY <2>3, <3>2, <4>5, Zenon
      <4> QED
        BY <2>2, <4>1, <4>2, <4>3, <4>4, <4>5, Zenon
    <3> QED
      BY <1>1, <1>2, <1>3, <2>3, <3>4 DEF JobInv, Located, Running, At
  <2>8. Tracked'
    <3>1. CASE "script" \in lost'
      BY <1>1, <1>2, <3>1, Zenon DEF Tracked, Undisturbed
    <3>2. CASE "script" \notin lost' /\ Started
      <4>1. Undisturbed
        BY <1>1, <3>2, Zenon DEF JobInv, Tracked, Undisturbed, VMs
      <4>2. procs = {}
        BY <3>2, <4>1, NoScript, Zenon
      <4>3. /\ procs' = {NewProc(w)} /\ exit' = "none" /\ call'.op = "Run" /\ call'.at = "wait"
            /\ NewProc(w).stage = stage /\ NewProc(w).attempt = attempt /\ stage # "unknown"
        BY <3>2, <4>2, Zenon DEF NewProc, JobInv, Types, StageNames
      <4> QED
        BY <1>1, <1>2, <4>3, Zenon DEF Tracked, Undisturbed, Awaited
    <3>3. CASE "script" \notin lost' /\ Watched
      <4>1. Undisturbed
        BY <1>1, <3>3, Zenon DEF JobInv, Tracked, Undisturbed, VMs
      <4>2. CASE kind = "docker" /\ ~Live
        BY <1>1, <1>2, <3>3, <4>1, <4>2, Zenon DEF JobInv, Tracked, Undisturbed, VMs
      <4>3. CASE (kind # "docker" \/ Live) /\ call' # [op |-> "Run", at |-> "kill"]
        <5>1. procs = {}
          BY <3>3, <4>1, <4>3, NoScript, Zenon
        <5> QED
          BY <3>3, <5>1, Zenon DEF Tracked
      <4>4. CASE (kind # "docker" \/ Live) /\ call' = [op |-> "Run", at |-> "kill"]
        BY <1>1, <1>2, <3>3, <4>1, <4>4, Zenon DEF JobInv, Tracked, Undisturbed, Awaited
      <4> QED
        BY <4>2, <4>3, <4>4, Zenon
    <3>4. CASE "script" \notin lost' /\ procs' = procs \ A /\ UNCHANGED lost
      BY <1>1, <1>2, <2>1, <2>3, <3>4, Zenon DEF A, JobInv, Tracked, Undisturbed, VMs, Awaited
    <3> QED
      BY <2>2, <3>1, <3>2, <3>3, <3>4, Zenon
  <2> QED
    BY <1>4, <2>5, <2>6, <2>7, <2>8, Zenon DEF JobInv
<1>9. Where \in {"build", "predefined"}
  BY Zenon DEF Where
<1> QED
  BY <1>1, <1>5, <1>6, <1>7, <1>8, <1>9, DockerNextStep, Zenon DEF DockerOutcome

-----------------------------------------------------------------------------
\* The scripts themselves: one ends, or goes on to its next command.
LEMMA ScriptStep == ASSUME JobInv, ScriptNext PROVE JobInv'
<1>1. PICK p \in procs : ScriptCommand(p) \/ ScriptEnds(p)
  BY Zenon DEF ScriptNext
<1> DEFINE next == [p EXCEPT !.step = @ + 1]
<1>2. /\ Followed(p) /\ UNCHANGED <<buildVars, call, ret, resources>>
      /\ \/ procs' = (procs \ {p}) \cup {next} /\ exit' = exit
         \/ procs' = procs \ {p}
  BY <1>1, Zenon DEF ScriptCommand, ScriptEnds, NextCommand, Ends
<1>3. p \in Procs /\ next \in Procs /\ next.stage = p.stage /\ next.attempt = p.attempt /\ next.in = p.in
  BY DEF JobInv, Types, Procs
<1> HIDE DEF next
<1>4. /\ UNCHANGED <<call, ret, mine, ready, outside, lost>> /\ p.stage # "unknown"
      /\ UNCHANGED <<kind, job, pc, ctx, interrupt, stopped, err, result, sAt, stage, attempt, sErr>>
  BY <1>2, Zenon DEF Followed, buildVars, resources
<1>5. Types' /\ Control' /\ Reasons'
  BY <1>2, <1>3, <1>4 DEF JobInv, Types, Control, Reasons
<1>6. Remembered' /\ VMRemembered'
  BY <1>4 DEF JobInv, Remembered, VMRemembered, KeptOnPurpose, Running, PrepareDone, At
<1>7. Located'
  BY <1>2, <1>3, <1>4, Zenon DEF JobInv, Located, Running, PrepareDone, At, Where
<1>8. Tracked'
  <2>1. (\E q \in procs' : q.stage = "unknown") <=> (\E q \in procs : q.stage = "unknown")
    BY <1>2, <1>3, <1>4, Zenon
  <2>2. Undisturbed' <=> Undisturbed
    BY <1>4, <2>1, Zenon DEF Undisturbed
  <2>3. Undisturbed => procs = {p}
    BY Zenon DEF JobInv, Tracked
  <2>4. Undisturbed => procs' = {} \/ (procs' = {next} /\ exit' = exit)
    BY <1>2, <2>3, Zenon
  <2> QED
    BY <1>1, <1>3, <1>4, <2>1, <2>2, <2>4, Zenon DEF JobInv, Tracked, Awaited
<1> QED
  BY <1>5, <1>6, <1>7, <1>8, Zenon DEF JobInv

\* Between jobs nothing is waited for, so a script that still runs is out of control.
LEMMA AtRest ==
  ASSUME JobInv, pc = "done"
  PROVE  /\ call = NoCall /\ mine = {} /\ (kind = "shell" => procs = {})
         /\ (Undisturbed /\ kind # "docker") => procs = {}
<1>1. call = NoCall
  BY Zenon DEF JobInv, Types, Control
<1>2. mine = {}
  BY Zenon DEF JobInv, Remembered
<1>3. (Undisturbed /\ kind # "docker") => procs = {}
  BY <1>1, Zenon DEF JobInv, Tracked
<1>4. kind = "shell" => Undisturbed
  BY Zenon DEF JobInv, Remembered, Tracked, Undisturbed
<1> QED
  BY <1>1, <1>2, <1>3, <1>4, Zenon

\* The next job starts with nothing remembered and the last one's losses.
LEMMA NextJobStep == ASSUME JobInv, NextJob PROVE JobInv'
<1>1. /\ call = NoCall /\ mine = {} /\ (kind = "shell" => procs = {}) /\ UNCHANGED <<kind, outside, procs>>
  BY AtRest, Zenon DEF NextJob
<1>2. /\ lost \subseteq lost' /\ outside \subseteq KeptOnPurpose' \cup lost'
      /\ procs # {} => "script" \in lost'
      /\ (outside = {} /\ procs = {}) => lost' = lost
  BY Zenon DEF NextJob
<1>3. NewJob
  BY Zenon DEF NextJob
<1>4. Types' /\ Control' /\ Reasons'
  BY <1>1, <1>3, Zenon DEF NewJob, JobInv, Types, Control, Reasons, StageNames
<1>5. Remembered'
  BY <1>1, <1>2, <1>3, Zenon DEF NewJob, JobInv, Remembered
<1>6. VMRemembered'
  BY <1>1, <1>2, <1>3, Zenon DEF NewJob, JobInv, VMRemembered, Running, PrepareDone, At
<1>7. Located'
  BY <1>1, <1>2, <1>3, Zenon DEF NewJob, JobInv, Located, Running, PrepareDone, At
<1>8. Tracked'
  BY <1>1, <1>2, <1>3, Zenon DEF NewJob, JobInv, Tracked, Undisturbed
<1> QED
  BY <1>4, <1>5, <1>6, <1>7, <1>8, Zenon DEF JobInv

\* A slot starts empty.
LEMMA JobInvInit == Init => JobInv
<1> SUFFICES ASSUME Init PROVE JobInv
  BY Zenon
<1>1. Types /\ Control /\ Reasons
  BY Zenon DEF Init, Types, Control, Reasons, StageNames
<1>2. Remembered /\ VMRemembered /\ Located /\ Tracked
  BY Zenon DEF Init, Remembered, VMRemembered, Running, PrepareDone, Located, Tracked, At
<1> QED
  BY <1>1, <1>2, Zenon DEF JobInv

\* Every step of the slot keeps the invariant.
LEMMA JobInvStep == JobInv /\ [Next]_vars => JobInv'
<1> SUFFICES ASSUME JobInv, [Next]_vars PROVE JobInv'
  BY Zenon
<1>1. CASE BuildNext
  BY <1>1, createExecutorStep, preparedStep, discardedStep, sleptStep, selectStep, drainedStep,
     executeStageStep, stageReturnedStep, setTraceStatusStep, finishedStep, Zenon DEF BuildNext
<1>2. CASE ExecutorNext
  BY <1>2, ShellStep, DockerStep, KubernetesStep, VMStepInv, Zenon DEF ExecutorNext
<1>3. CASE ScriptNext \/ ContextEnds \/ SystemInterrupt \/ AfterScriptTimeout \/ NextJob
  BY <1>3, ScriptStep, ContextEndsStep, SystemInterruptStep, AfterScriptTimeoutStep, NextJobStep, Zenon
<1>4. CASE UNCHANGED vars
  <2>1. /\ UNCHANGED <<call, ret, mine, ready, outside, lost, procs, exit>>
        /\ UNCHANGED <<kind, job, pc, ctx, interrupt, stopped, err, result, sAt, stage, attempt, sErr>>
    BY <1>4, Zenon DEF vars, buildVars, execVars, resources, scripts
  <2>2. Types' /\ Control' /\ Reasons'
    BY <2>1 DEF JobInv, Types, Control, Reasons
  <2>3. Remembered' /\ VMRemembered'
    BY <2>1 DEF JobInv, Remembered, VMRemembered, KeptOnPurpose, Running, PrepareDone, At
  <2>4. Located' /\ Tracked'
    BY <2>1 DEF JobInv, Located, Running, PrepareDone, At, Where, Tracked, Undisturbed, Awaited
  <2> QED
    BY <2>2, <2>3, <2>4, Zenon DEF JobInv
<1> QED
  BY <1>1, <1>2, <1>3, <1>4, Zenon DEF Next

\* The invariant holds in every behaviour.
LEMMA JobInvAlways == Spec => []JobInv
  BY JobInvInit, JobInvStep, PTL DEF Spec

-----------------------------------------------------------------------------
\* After a job nothing it created is left outside, except what is kept for the next
\* job, what the runner could not know of or failed to remove, and the container of
\* an interrupted health check: Cleanup of every executor removes all it remembers,
\* whatever step of Prepare or Run the job ended in, over any number of jobs.
THEOREM NothingIsLeft == Spec => []NothingLeft
<1>1. JobInv => NothingLeft
  <2> SUFFICES ASSUME JobInv, pc = "done"
               PROVE  outside \subseteq KeptOnPurpose \cup lost \cup (IF Live THEN {} ELSE {"wait"})
                                        \cup (IF "vm" \in lost THEN Machine ELSE {})
    BY Zenon DEF NothingLeft
  <2>1. call = NoCall /\ mine = {}
    BY AtRest, Zenon
  <2> QED
    BY <2>1, Zenon DEF JobInv, Remembered
<1> QED
  BY <1>1, JobInvAlways, PTL

\* When a job is over none of its scripts is still running, but in something that
\* could not be removed or on a host that could not be told: executors kill and wait,
\* or remove what the scripts run in.
THEOREM ScriptsHaveEnded == Spec => []ScriptsEnd
<1>1. JobInv => ScriptsEnd
  <2> SUFFICES ASSUME JobInv, pc = "done", NEW p \in procs
               PROVE  p.in \in lost \/ (p.in = "server" /\ ~Undisturbed)
    BY Zenon DEF ScriptsEnd
  <2>1. mine = {} /\ kind # "shell" /\ (kind # "docker" => ~Undisturbed)
    BY AtRest, Zenon
  <2> QED
    BY <2>1, Zenon DEF JobInv, Located, PlacesOf
<1> QED
  BY <1>1, JobInvAlways, PTL

\* Two scripts of a job never run at the same time: executeScript starts a stage when
\* the executor's Run of the one before has returned, and by then its script is dead.
THEOREM ScriptsOneByOne == Spec => []OneScript
<1>1. JobInv => OneScript
  BY Zenon DEF JobInv, Tracked, OneScript
<1> QED
  BY <1>1, JobInvAlways, PTL

\* A job that was stopped says why: of the job's context, the runner's shutdown and
\* the script's own end, setTraceStatus reports the one that Build.run acted on.
THEOREM ReasonIsReported == Spec => []ReasonReported
<1>1. JobInv => ReasonReported
  BY Zenon DEF JobInv, Reasons, Outcome, handleError, ReasonReported
<1> QED
  BY <1>1, JobInvAlways, PTL

\* A virtual machine is as it was created when the first script of a job starts in it,
\* whatever the jobs before left: Prepare sets it back, or deletes it and clones anew.
THEOREM MachineIsClean == Spec => []VMClean
<1>1. JobInv => VMClean
  BY Zenon DEF JobInv, VMRemembered, VMs, VMClean
<1> QED
  BY <1>1, JobInvAlways, PTL
=============================================================================
