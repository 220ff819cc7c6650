------------------------------- MODULE RunCommand -------------------------------
(***************************************************************************)
(* commands/multi.go: the process behind `gitlab-runner run`.  Its         *)
(* goroutines are                                                          *)
(*   Run           scales the worker pool and reloads the configuration    *)
(*   startWorkers  spawns a worker for every number it receives            *)
(*   processRunners, one per worker: takes a runner, asks GitLab for a     *)
(*                 job, runs it                                            *)
(*   feedRunners   offers the configured runners to the workers, in turn   *)
(*   main          waits for a stop signal, then for Run, or gives up      *)
(* They meet on unbuffered channels (runners, startWorker, stopWorker,     *)
(* abortBuilds): a send and its receive are one joint action.  runSignal,  *)
(* reloadSignal and runFinished have a buffer of one.  The operating       *)
(* system delivers a signal only to a receiver that is ready, because      *)
(* stopSignals is unbuffered and signal.Notify never blocks.               *)
(*                                                                         *)
(* A step of a goroutine is the code between two accesses to shared state. *)
(***************************************************************************)
EXTENDS BuildsHelper, Sequences

CONSTANTS
  Configs,          \* contents the configuration file may have
  HealthyChecks,    \* failed requests after which a runner is not fed
  RunWaitKinds,     \* whether services here honour RunWait: {TRUE} where all do
  SentSignals,      \* the stop signals that may be sent
  MaxEvents         \* bound: stop signals, SIGHUPs and changes of the file, together

NoSignal == "nil"
SIGQUIT  == "SIGQUIT"
SIGTERM  == "SIGTERM"   \* also stands for os.Interrupt, which is handled alike
StopSignals == {SIGQUIT, SIGTERM}

Config == [concurrent: Int, runners: Seq(RunnerConfigs)]

\* common.NewConfig: what a reload finds when the file is gone.
NewConfig == [concurrent |-> 1, runners |-> <<>>]

ASSUME ConfigsAssumption == Configs \subseteq Config /\ Configs # {}
ASSUME BoundsAssumption ==
  /\ HealthyChecks \in Nat \ {0} /\ MaxEvents \in Nat
  /\ RunWaitKinds \subseteq BOOLEAN /\ SentSignals \subseteq StopSignals

AllConfigs == Configs \cup {NewConfig}

NoRunner == [token |-> "none", limit |-> 0, requestConcurrency |-> 0]

VARIABLES
  config,           \* mr.config
  failures,         \* mr.healthy: failures per runner, saturating at HealthyChecks
  feeder,           \* feedRunners: [pc, queue], the rest of its config.Runners
  pc,               \* processRunners: where each worker is
  runner,           \* processRunner's argument, per worker
  job,              \* the job a worker got from GitLab: none, open or closed
  acquired,         \* executors handed out by provider.Acquire, per token
  starter,          \* startWorkers: check, receive, spawn or done
  run,              \* Run: where it is
  currentWorkers,   \* mr.currentWorkers
  runSignal,        \* buffer of one: empty, or the signal pumped into it
  reloadSignal,     \* buffer of one: is a SIGHUP waiting
  runFinished,      \* buffer of one: has Run finished
  runWait,          \* does this platform's service honour the RunWait option
  main,             \* the goroutine of service.Run
  stopSignal,       \* mr.stopSignal
  exit,             \* how the process ended, "no" while it runs
  sent,             \* stop signals sent so far (history, bounds the model)
  reloads           \* SIGHUPs, and changed files the timer found (bounds the model)

workerVars == <<pc, runner, job, acquired>>
runVars    == <<run, currentWorkers, runFinished>>
mainVars   == <<runWait, main, stopSignal, exit, sent>>
vars == <<buildsHelperVars, config, failures, feeder, workerVars, starter, runVars,
          runSignal, reloadSignal, mainVars, reloads>>

WorkerPC == {"none", "loop", "select", "acquire", "limit", "request", "requesting",
             "build", "requeue", "running", "remove", "release", "releaseExecutor", "drain"}
FeederPC == {"loop", "feed", "send", "done"}
MainPC   == {"wait", "stop", "graceful", "closing", "await", "exited"}
RunPC    == {"loop", "scale", "config", "drain", "done"}

Init ==
  /\ BuildsHelperInit
  /\ config \in Configs
  /\ failures = [t \in Tokens |-> 0]
  /\ feeder = [pc |-> "loop", queue |-> <<>>]
  /\ pc = [w \in Workers |-> "none"]
  /\ runner = [w \in Workers |-> NoRunner]
  /\ job = [w \in Workers |-> "none"]
  /\ acquired = [t \in Tokens |-> 0]
  /\ starter = "check"
  /\ run = "loop"
  /\ currentWorkers = 0
  /\ runSignal = "empty"
  /\ reloadSignal = FALSE
  /\ runFinished = FALSE
  /\ runWait \in RunWaitKinds
  /\ main = "wait"
  /\ stopSignal = NoSignal
  /\ exit = "no"
  /\ sent = [s \in StopSignals |-> 0]
  /\ reloads = 0

-----------------------------------------------------------------------------
(* health_helper.go.  isHealthy and makeHealthy hold healthyLock; the time  *)
(* since the last check is not modelled, so HealthCheckInterval may or may  *)
(* not have passed.                                                         *)

isHealthy(t) ==
  \/ failures[t] < HealthyChecks /\ UNCHANGED failures
  \/ failures[t] >= HealthyChecks /\ failures' = [failures EXCEPT ![t] = 0]

isNotHealthy(t) == failures[t] >= HealthyChecks /\ UNCHANGED failures

makeHealthy(t, healthy) ==
  failures' = [failures EXCEPT ![t] =
    IF healthy THEN 0 ELSE IF @ < HealthyChecks THEN @ + 1 ELSE @]

-----------------------------------------------------------------------------
(* feedRunners.  It walks the Runners of the configuration it read at the  *)
(* top of the loop, and looks at stopSignal only there.                    *)

feedRunners ==
  /\ feeder.pc = "loop"
  /\ feeder' = IF stopSignal # NoSignal
               THEN [feeder EXCEPT !.pc = "done"]
               ELSE [pc    |-> IF config.runners = <<>> THEN "loop" ELSE "feed",
                     queue |-> config.runners]
  /\ UNCHANGED <<buildsHelperVars, config, failures, workerVars, starter, runVars,
                 runSignal, reloadSignal, mainVars, reloads>>

feedRunner ==
  /\ feeder.pc = "feed"
  /\ \/ /\ feeder.queue = <<>>
        /\ feeder' = [feeder EXCEPT !.pc = "loop"]
        /\ UNCHANGED failures
     \/ /\ feeder.queue # <<>>
        /\ \/ /\ isHealthy(Head(feeder.queue).token)
              /\ feeder' = [feeder EXCEPT !.pc = "send"]
           \/ /\ isNotHealthy(Head(feeder.queue).token)
              /\ feeder' = [feeder EXCEPT !.queue = Tail(@)]
  /\ UNCHANGED <<buildsHelperVars, config, workerVars, starter, runVars,
                 runSignal, reloadSignal, mainVars, reloads>>

-----------------------------------------------------------------------------
(* processRunners and processRunner, worker w.                             *)

Goto(w, from, to) == pc[w] = from /\ pc' = [pc EXCEPT ![w] = to]

\* What a worker's own step leaves alone.
NotWorker == <<config, feeder, starter, runVars, runSignal, reloadSignal, mainVars, reloads>>

\* Variants of WorkerLoop: it does not look at stopSignal; it ends by itself.
WorkerLoopForever(w) ==
  /\ Goto(w, "loop", "select")
  /\ UNCHANGED <<buildsHelperVars, failures, runner, job, acquired, NotWorker>>
WorkerLoopReturns(w) ==
  /\ Goto(w, "loop", IF stopSignal = NoSignal THEN "select" ELSE "none")
  /\ UNCHANGED <<buildsHelperVars, failures, runner, job, acquired, NotWorker>>

WorkerLoop(w) ==
  /\ Goto(w, "loop", IF stopSignal = NoSignal THEN "select" ELSE "drain")
  /\ UNCHANGED <<buildsHelperVars, failures, runner, job, acquired, NotWorker>>

\* case runner := <-runners, the sender being feedRunner
TakeRunner(w) ==
  /\ feeder.pc = "send"
  /\ Goto(w, "select", "acquire")
  /\ runner' = [runner EXCEPT ![w] = Head(feeder.queue)]
  /\ feeder' = [pc |-> "feed", queue |-> Tail(feeder.queue)]
  /\ UNCHANGED <<buildsHelperVars, config, failures, job, acquired, starter, runVars,
                 runSignal, reloadSignal, mainVars, reloads>>

\* acquireRunnerResources, first half; the executor may be unknown and
\* provider.Acquire may fail, and then the worker is done with this runner.
AcquireExecutor(w) ==
  /\ \/ /\ Goto(w, "acquire", "limit")
        /\ acquired' = [acquired EXCEPT ![runner[w].token] = @ + 1]
        /\ UNCHANGED runner
     \/ /\ Goto(w, "acquire", "loop")
        /\ runner' = [runner EXCEPT ![w] = NoRunner]
        /\ UNCHANGED acquired
  /\ UNCHANGED <<buildsHelperVars, failures, job, NotWorker>>

\* acquireRunnerResources, second half.
AcquireBuild(w) ==
  /\ \/ /\ Goto(w, "limit", "request")
        /\ acquireBuild(runner[w])
     \/ /\ BuildLimitMet(runner[w])
        /\ Goto(w, "limit", "releaseExecutor")
        /\ UNCHANGED buildsHelperVars
  /\ UNCHANGED <<failures, runner, job, acquired, NotWorker>>

\* createSession may fail; requestJob may find request_concurrency met.
RequestJob(w) ==
  /\ \/ /\ Goto(w, "request", "requesting")
        /\ acquireRequest(runner[w])
     \/ /\ Goto(w, "request", "release")
        /\ UNCHANGED buildsHelperVars
  /\ UNCHANGED <<failures, runner, job, acquired, NotWorker>>

\* network.RequestJob returns a job, no job, or no job and an unhealthy runner;
\* requestJob then records the health and releases the request.  (A worker that
\* finds the request still held in between gives up, as RequestJob always may.)
JobAnswered(w) ==
  /\ \/ /\ Goto(w, "requesting", "build")
        /\ makeHealthy(runner[w].token, TRUE)
        /\ job' = [job EXCEPT ![w] = "open"]
     \/ /\ Goto(w, "requesting", "release")
        /\ \E healthy \in BOOLEAN : makeHealthy(runner[w].token, healthy)
        /\ UNCHANGED job
  /\ releaseRequest(runner[w])
  /\ UNCHANGED <<runner, acquired, NotWorker>>

\* Variant of NewBuild: a failure is not reported.
NewBuildSilent(w) ==
  /\ \/ /\ Goto(w, "build", "requeue")
        /\ \E p \in Projects : addBuild(w, runner[w].token, p)
     \/ Goto(w, "build", "release") /\ UNCHANGED buildsHelperVars
  /\ UNCHANGED <<failures, runner, job, acquired, NotWorker>>

\* addBuild, unless NewBuild fails to copy the runner configuration: then only
\* the deferred trace.Fail reports the job.
NewBuild(w) ==
  /\ \/ /\ Goto(w, "build", "requeue")
        /\ \E p \in Projects : addBuild(w, runner[w].token, p)
        /\ UNCHANGED job
     \/ /\ Goto(w, "build", "release")
        /\ job' = [job EXCEPT ![w] = "closed"]
        /\ UNCHANGED buildsHelperVars
  /\ UNCHANGED <<failures, runner, acquired, NotWorker>>

\* The select with a default: worker v, waiting for a runner, gets this one;
\* or nobody is waiting yet (v may be about to wait, so this is always possible).
RequeueRunner(w, v) ==
  /\ pc[w] = "requeue"
  /\ pc[v] = "select"
  /\ pc' = [pc EXCEPT ![w] = "running", ![v] = "acquire"]
  /\ runner' = [runner EXCEPT ![v] = runner[w]]
  /\ UNCHANGED <<buildsHelperVars, failures, job, acquired, NotWorker>>

RequeueFailed(w) ==
  /\ Goto(w, "requeue", "running")
  /\ UNCHANGED <<buildsHelperVars, failures, runner, job, acquired, NotWorker>>

\* build.Run ends, by itself or because it received from abortBuilds; in both
\* cases its deferred setTraceStatus has reported the job.
BuildFinished(w) ==
  /\ Goto(w, "running", "remove")
  /\ job' = [job EXCEPT ![w] = "closed"]
  /\ UNCHANGED <<buildsHelperVars, failures, runner, acquired, NotWorker>>

BuildAborted(w) ==
  /\ main \in {"closing", "await"}
  /\ Goto(w, "running", "remove")
  /\ job' = [job EXCEPT ![w] = "aborted"]
  /\ UNCHANGED <<buildsHelperVars, failures, runner, acquired, NotWorker>>

\* The deferred calls of processRunner, last registered first: removeBuild;
\* trace.Fail, which does nothing to a job that build.Run has reported; then
\* releaseFn.
RemoveBuild(w) ==
  /\ Goto(w, "remove", "release")
  /\ removeBuild(w)
  /\ UNCHANGED <<failures, runner, job, acquired, NotWorker>>

ReleaseBuild(w) ==
  /\ Goto(w, "release", "releaseExecutor")
  /\ releaseBuild(runner[w])
  /\ UNCHANGED <<failures, runner, job, acquired, NotWorker>>

ReleaseExecutor(w) ==
  /\ Goto(w, "releaseExecutor", "loop")
  /\ acquired' = [acquired EXCEPT ![runner[w].token] = @ - 1]
  /\ runner' = [runner EXCEPT ![w] = NoRunner]
  /\ job' = [job EXCEPT ![w] = "none"]
  /\ UNCHANGED <<buildsHelperVars, failures, NotWorker>>

-----------------------------------------------------------------------------
(* startWorkers                                                            *)

StarterLoop ==
  /\ starter = "check"
  /\ starter' = IF stopSignal = NoSignal THEN "receive" ELSE "done"
  /\ UNCHANGED <<buildsHelperVars, config, failures, feeder, workerVars, runVars,
                 runSignal, reloadSignal, mainVars, reloads>>

\* go mr.processRunners: any goroutine that has ended, or never began, is as
\* good as a new one.
SpawnWorker(w) ==
  /\ starter = "spawn"
  /\ starter' = "check"
  /\ Goto(w, "none", "loop")
  /\ UNCHANGED <<buildsHelperVars, config, failures, feeder, runner, job, acquired, runVars,
                 runSignal, reloadSignal, mainVars, reloads>>

-----------------------------------------------------------------------------
(* Run, with updateWorkers (at "scale") and updateConfig (at "config").    *)

\* Variant of StopWorker: the select of a worker does not receive stops.
StopWorkerAfterLoop(w) ==
  /\ pc[w] = "drain"
  /\ pc' = [pc EXCEPT ![w] = "none"]
  /\ currentWorkers' = currentWorkers - 1

\* stopWorker <- true, received by a worker in its select or after its loop.
StopWorker(w) ==
  /\ pc[w] \in {"select", "drain"}
  /\ pc' = [pc EXCEPT ![w] = "none"]
  /\ currentWorkers' = currentWorkers - 1

\* What a step of Run leaves alone, besides pc, the configuration and channels.
NotRun == <<buildsHelperVars, feeder, runner, job, acquired, mainVars>>

RunLoop ==
  /\ run = "loop"
  /\ run' = IF stopSignal = NoSignal THEN "scale" ELSE "drain"
  /\ UNCHANGED <<config, failures, pc, starter, currentWorkers, runFinished,
                 runSignal, reloadSignal, reloads, NotRun>>

\* Fatalln ends the process at once.
ConcurrentFatal ==
  /\ run = "scale"
  /\ config.concurrent < 1
  /\ exit' = "fatal"
  /\ main' = "exited"
  /\ UNCHANGED <<buildsHelperVars, config, failures, feeder, workerVars, starter, runVars,
                 runSignal, reloadSignal, runWait, stopSignal, sent, reloads>>

ScaleDown(w) ==
  /\ run = "scale"
  /\ 1 <= config.concurrent /\ config.concurrent < currentWorkers
  /\ StopWorker(w)
  /\ UNCHANGED <<config, failures, starter, run, runFinished,
                 runSignal, reloadSignal, reloads, NotRun>>

\* Variant of ScaleUp: the new worker is not counted.
ScaleUpUncounted ==
  /\ run = "scale"
  /\ currentWorkers < config.concurrent
  /\ starter = "receive"
  /\ starter' = "spawn"
  /\ UNCHANGED <<config, failures, pc, run, currentWorkers, runFinished,
                 runSignal, reloadSignal, reloads, NotRun>>

\* startWorker <- *workerIndex, received by startWorkers.
ScaleUp ==
  /\ run = "scale"
  /\ currentWorkers < config.concurrent
  /\ starter = "receive"
  /\ starter' = "spawn"
  /\ currentWorkers' = currentWorkers + 1
  /\ UNCHANGED <<config, failures, pc, run, runFinished,
                 runSignal, reloadSignal, reloads, NotRun>>

\* Variant of Scaled: a pool that is too large is left alone.
ScaledUpOnly ==
  /\ run = "scale"
  /\ 1 <= config.concurrent /\ currentWorkers >= config.concurrent
  /\ run' = "config"
  /\ UNCHANGED <<config, failures, pc, starter, currentWorkers, runFinished,
                 runSignal, reloadSignal, reloads, NotRun>>

Scaled ==
  /\ run = "scale"
  /\ 1 <= config.concurrent /\ currentWorkers = config.concurrent
  /\ run' = "config"
  /\ UNCHANGED <<config, failures, pc, starter, currentWorkers, runFinished,
                 runSignal, reloadSignal, reloads, NotRun>>

\* case signaled := <-mr.runSignal, in updateWorkers and in updateConfig.  A
\* nil signal only ends the wait.
RunSignaled ==
  /\ runSignal # "empty"
  /\ \/ /\ run = "scale"
        /\ 1 <= config.concurrent /\ currentWorkers # config.concurrent
        /\ run' = IF runSignal = NoSignal THEN "config" ELSE "drain"
     \/ /\ run = "config"
        /\ run' = IF runSignal = NoSignal THEN "loop" ELSE "drain"
  /\ runSignal' = "empty"
  /\ UNCHANGED <<config, failures, pc, starter, currentWorkers, runFinished,
                 reloadSignal, reloads, NotRun>>

\* What the outside has done so far.
Events == reloads + sent[SIGQUIT] + sent[SIGTERM]

\* loadConfig: the file is rejected; or it becomes mr.config, and then health
\* is forgotten unless its logging settings are rejected.
loadConfig ==
  \/ UNCHANGED <<config, failures>>
  \/ /\ \E c \in AllConfigs : config' = c
     /\ \/ failures' = [t \in Tokens |-> 0]
        \/ UNCHANGED failures

\* The timer: checkConfig loads the file if it has been changed.
CheckConfig ==
  /\ run = "config"
  /\ run' = "loop"
  /\ \/ UNCHANGED <<config, failures, reloads>>
     \/ /\ Events < MaxEvents
        /\ reloads' = reloads + 1
        /\ loadConfig
  /\ UNCHANGED <<pc, starter, currentWorkers, runFinished, runSignal, reloadSignal, NotRun>>

ReloadConfig ==
  /\ run = "config"
  /\ reloadSignal
  /\ reloadSignal' = FALSE
  /\ run' = "loop"
  /\ loadConfig
  /\ UNCHANGED <<pc, starter, currentWorkers, runFinished, runSignal, reloads, NotRun>>

DrainWorker(w) ==
  /\ run = "drain"
  /\ currentWorkers > 0
  /\ StopWorker(w)
  /\ UNCHANGED <<config, failures, starter, run, runFinished,
                 runSignal, reloadSignal, reloads, NotRun>>

\* Variant of RunFinished: it does not wait for the workers.
RunFinishedEarly ==
  /\ run = "drain"
  /\ run' = "done"
  /\ runFinished' = TRUE
  /\ UNCHANGED <<config, failures, pc, starter, currentWorkers,
                 runSignal, reloadSignal, reloads, NotRun>>

RunFinished ==
  /\ run = "drain"
  /\ currentWorkers = 0
  /\ run' = "done"
  /\ runFinished' = TRUE
  /\ UNCHANGED <<config, failures, pc, starter, currentWorkers,
                 runSignal, reloadSignal, reloads, NotRun>>

-----------------------------------------------------------------------------
(* main: runWait, then Stop with handleGracefulShutdown ("graceful") and   *)
(* handleShutdown ("closing" the session server, then "await").            *)

NotMain == <<buildsHelperVars, config, failures, feeder, workerVars, starter, runVars,
             runSignal, reloadSignal, reloads, runWait>>

Exit(reason) == exit' = reason /\ main' = "exited"

\* The operating system sends s.  Where main is not receiving from stopSignals
\* the signal is dropped.  A service without RunWait calls Stop on a SIGTERM
\* of its own and leaves mr.stopSignal nil.
SendStopSignal(s) ==
  /\ Events < MaxEvents
  /\ sent' = [sent EXCEPT ![s] = @ + 1]
  /\ CASE main = "wait" /\ runWait ->
            stopSignal' = s /\ main' = "stop" /\ UNCHANGED exit
       [] main = "wait" /\ ~runWait /\ s = SIGTERM ->
            main' = "stop" /\ UNCHANGED <<stopSignal, exit>>
       [] main = "graceful" ->
            stopSignal' = s /\ main' = "stop" /\ UNCHANGED exit
       [] main = "await" -> stopSignal' = s /\ Exit("forced")
       [] OTHER -> UNCHANGED <<main, stopSignal, exit>>
  /\ UNCHANGED NotMain

\* Variant of Stop: every signal aborts the builds.
StopAborting ==
  /\ main = "stop"
  /\ main' = "closing"
  /\ UNCHANGED <<stopSignal, exit, sent, NotMain>>

\* Stop: starts interruptRun, and at the top of handleGracefulShutdown's loop,
\* where each further signal returns, looks whether to wait for the builds.
Stop ==
  /\ main = "stop"
  /\ main' = IF stopSignal = SIGQUIT THEN "graceful" ELSE "closing"
  /\ UNCHANGED <<stopSignal, exit, sent, NotMain>>

SessionServerClosed ==
  /\ main = "closing"
  /\ main' = "await"
  /\ UNCHANGED <<stopSignal, exit, sent, NotMain>>

ShutdownTimeout ==
  /\ main = "await"
  /\ Exit("timeout")
  /\ UNCHANGED <<stopSignal, sent, NotMain>>

ExitFinished ==
  /\ main \in {"graceful", "await"}
  /\ runFinished
  /\ runFinished' = FALSE
  /\ Exit("finished")
  /\ UNCHANGED <<buildsHelperVars, config, failures, feeder, workerVars, starter, run,
                 currentWorkers, runSignal, reloadSignal, reloads, runWait, stopSignal, sent>>

\* interruptRun pumps for as long as the process lives.
interruptRun ==
  /\ main \in {"stop", "graceful", "closing", "await"}
  /\ runSignal = "empty"
  /\ runSignal' = stopSignal
  /\ UNCHANGED <<buildsHelperVars, config, failures, feeder, workerVars, starter, runVars,
                 reloadSignal, mainVars, reloads>>

\* The buffer of one holds at most one SIGHUP; a second one is dropped.
SendReload ==
  /\ Events < MaxEvents
  /\ reloads' = reloads + 1
  /\ reloadSignal' = TRUE
  /\ UNCHANGED <<buildsHelperVars, config, failures, feeder, workerVars, starter, runVars,
                 runSignal, mainVars>>

-----------------------------------------------------------------------------

Alive == exit = "no"

WorkerStep(w) ==
  /\ Alive
  /\ \/ WorkerLoop(w) \/ TakeRunner(w) \/ AcquireExecutor(w) \/ AcquireBuild(w)
     \/ RequestJob(w) \/ JobAnswered(w) \/ NewBuild(w)
     \/ RequeueFailed(w) \/ (\E v \in Workers : RequeueRunner(w, v))
     \/ BuildFinished(w) \/ BuildAborted(w) \/ RemoveBuild(w)
     \/ ReleaseBuild(w) \/ ReleaseExecutor(w)

FeederStep  == Alive /\ (feedRunners \/ feedRunner)
StarterStep == Alive /\ (StarterLoop \/ \E w \in Workers : SpawnWorker(w))
RunStep ==
  /\ Alive
  /\ \/ RunLoop \/ ConcurrentFatal \/ ScaleUp \/ Scaled \/ RunSignaled
     \/ CheckConfig \/ ReloadConfig \/ RunFinished
     \/ \E w \in Workers : ScaleDown(w) \/ DrainWorker(w)
MainStep == Alive /\ (Stop \/ SessionServerClosed \/ ShutdownTimeout \/ ExitFinished)
PumpStep == Alive /\ interruptRun
Environment == Alive /\ (SendReload \/ \E s \in SentSignals : SendStopSignal(s))

Exited == exit # "no" /\ UNCHANGED vars

Next ==
  \/ \E w \in Workers : WorkerStep(w)
  \/ FeederStep \/ StarterStep \/ RunStep \/ MainStep \/ PumpStep \/ Environment
  \/ Exited

Spec == Init /\ [][Next]_vars

(***************************************************************************)
(* The Go scheduler runs every goroutine that can run; job requests and    *)
(* builds end (both have timeouts).  Among the ready cases of a select Go  *)
(* picks at random, so a case that is ready again and again is taken:      *)
(* strong fairness for handing a stop to a worker and for the SIGHUP case. *)
(* Nobody has to send a signal.                                            *)
(***************************************************************************)
Fairness ==
  /\ \A w \in Workers : WF_vars(WorkerStep(w))
  /\ WF_vars(FeederStep) /\ WF_vars(StarterStep) /\ WF_vars(RunStep)
  /\ WF_vars(MainStep) /\ WF_vars(PumpStep)
  /\ SF_vars(Alive /\ \E w \in Workers : ScaleDown(w))
  /\ SF_vars(Alive /\ ReloadConfig)

FairSpec == Spec /\ Fairness

-----------------------------------------------------------------------------
(* Properties                                                              *)

Job == {"none", "open", "closed", "aborted"}

\* Every variable has the type its Go declaration, or its channel, gives it.
TypeOK ==
  /\ counters \in [Tokens -> RunnerCounter]
  /\ builds \subseteq Build /\ IsFiniteSet(builds)
  /\ config \in AllConfigs
  /\ failures \in [Tokens -> 0..HealthyChecks]
  /\ feeder \in [pc: FeederPC, queue: Seq(RunnerConfigs)]
  /\ feeder.pc = "send" => feeder.queue # <<>>
  /\ pc \in [Workers -> WorkerPC]
  /\ runner \in [Workers -> RunnerConfigs \cup {NoRunner}]
  /\ job \in [Workers -> Job]
  /\ acquired \in [Tokens -> Int]
  /\ starter \in {"check", "receive", "spawn", "done"}
  /\ run \in RunPC
  /\ currentWorkers \in Nat
  /\ runSignal \in {"empty", NoSignal} \cup StopSignals
  /\ reloadSignal \in BOOLEAN
  /\ runFinished \in BOOLEAN
  /\ runWait \in BOOLEAN
  /\ main \in MainPC
  /\ stopSignal \in {NoSignal} \cup StopSignals
  /\ exit \in {"no", "finished", "forced", "timeout", "fatal"}
  /\ sent \in [StopSignals -> Nat]
  /\ reloads \in Nat

LiveWorkers == {w \in Workers : pc[w] # "none"}

HoldsRequest  == {"requesting"}
HasBuild      == {"requeue", "running", "remove"}
HoldsBuild    == HoldsRequest \cup HasBuild \cup {"request", "build", "release"}
HoldsExecutor == HoldsBuild \cup {"limit", "releaseExecutor"}

Holders(t, pcs) == {w \in Workers : pc[w] \in pcs /\ runner[w].token = t}

\* Run's count of workers is the number of worker goroutines, the one that
\* startWorkers is about to spawn included, however scaling, reloads and the
\* stop signal interleave (Run sends exactly currentWorkers stops at the end).
WorkersAccounted ==
  currentWorkers = Cardinality(LiveWorkers) + (IF starter = "spawn" THEN 1 ELSE 0)

\* The counters of buildsHelper and the executors taken from the provider are
\* exactly what the workers between acquire and release hold, on every error
\* path of processRunner and across reloads.
ResourcesAccounted ==
  \A t \in Tokens :
    /\ counters[t].builds   = Cardinality(Holders(t, HoldsBuild))
    /\ counters[t].requests = Cardinality(Holders(t, HoldsRequest))
    /\ acquired[t]          = Cardinality(Holders(t, HoldsExecutor))

\* The list of builds holds one build for each worker between addBuild and
\* removeBuild, under the token that worker's counter was taken on.
BuildsListed ==
  /\ {b.worker : b \in builds} = {w \in Workers : pc[w] \in HasBuild}
  /\ \A b \in builds : b.token = runner[b.worker].token
  /\ \A b, c \in builds : b.worker = c.worker => b = c

\* `concurrent` bounds the jobs of the whole process: never more builds than
\* the most generous configuration allows, and once updateWorkers has returned
\* never more than the configuration in force allows, even if it was lowered.
ConcurrentRespected ==
  /\ \E c \in AllConfigs : Cardinality(builds) <= c.concurrent
  /\ run = "config" /\ runWait => Cardinality(builds) <= config.concurrent

\* `limit` bounds the jobs of one token: a worker may still hold an entry of
\* an earlier configuration, so the bound is that of the token's most generous
\* entry.
LimitRespected ==
  \A r \in RunnerConfigs :
    (\A q \in RunnerConfigs : q.token = r.token => 0 < q.limit /\ q.limit <= r.limit)
      => Cardinality(Holders(r.token, HoldsBuild)) <= r.limit

\* `request_concurrency` bounds the job requests of one token in flight.
RequestConcurrencyRespected ==
  \A r \in RunnerConfigs :
    (\A q \in RunnerConfigs :
       q.token = r.token => GetRequestConcurrency(q) <= GetRequestConcurrency(r))
      => Cardinality(Holders(r.token, HoldsRequest)) <= GetRequestConcurrency(r)

\* Builds that run at the same time on one token never share a RunnerID, nor a
\* ProjectRunnerID within a project (both name build directories), and numbers
\* are reused: none reaches the highest `concurrent`.
BuildNumbersDistinct ==
  /\ \A b, c \in builds : b # c /\ b.token = c.token =>
       /\ b.runnerID # c.runnerID
       /\ b.project = c.project => b.projectRunnerID # c.projectRunnerID
  /\ \A b \in builds : \E c \in AllConfigs :
       b.runnerID < c.concurrent /\ b.projectRunnerID < c.concurrent

(***************************************************************************)
(* What makes the properties inductive: where each goroutine is says what  *)
(* it holds.                                                               *)
(***************************************************************************)
\* A worker between taking a runner and releasing its executor has a runner.
RunnerHeld ==
  \A w \in Workers : pc[w] \in HoldsExecutor \cup {"acquire"} => runner[w] \in RunnerConfigs

\* A job is open exactly from JobAnswered to the end of build.Run.
JobHeld ==
  \A w \in Workers :
    /\ job[w] = "open" <=> pc[w] \in {"build", "requeue", "running"}
    /\ pc[w] \in {"none", "loop", "select", "acquire", "drain"} => job[w] = "none"

\* The pool is no larger than some configuration allowed; after updateWorkers
\* no larger than the present one allows.
WorkersBounded ==
  /\ \E c \in AllConfigs : currentWorkers <= c.concurrent
  /\ run = "config" /\ runWait => currentWorkers <= config.concurrent

\* With RunWait, Stop runs with a signal set, so that Run never gets a nil one.
SignalSet ==
  runWait => /\ main \in {"stop", "graceful", "closing", "await"} => stopSignal # NoSignal
             /\ runSignal # NoSignal

\* Run is done only with no workers left, and only then is runFinished sent.
DoneEmpty ==
  /\ runFinished \/ exit = "finished" => run = "done"
  /\ run = "done" => currentWorkers = 0

\* main goes on to abort builds only after a SIGTERM.
TermSent ==
  /\ stopSignal = SIGTERM => sent[SIGTERM] > 0
  /\ main \in {"stop", "graceful", "closing", "await"} => stopSignal # NoSignal \/ sent[SIGTERM] > 0
  /\ main \in {"closing", "await"} => sent[SIGTERM] > 0

\* When Run reports that it has finished, and when the process exits for that
\* reason, no worker is left, nothing is held and every job was reported.
CleanExit ==
  runFinished \/ exit = "finished" =>
    /\ LiveWorkers = {} /\ starter # "spawn"
    /\ builds = {}
    /\ \A t \in Tokens : counters[t] = [builds |-> 0, requests |-> 0] /\ acquired[t] = 0
    /\ \A w \in Workers : job[w] = "none"

\* SIGQUIT alone aborts no build: a build is aborted only if SIGTERM was sent.
QuitAbortsNothing ==
  (\E w \in Workers : job[w] = "aborted") => sent[SIGTERM] > 0

\* From the stop signal on no worker becomes ready for a runner again, so each
\* one takes at most one more runner, the one it was already waiting for.
StopDrainsWorkers ==
  [][stopSignal # NoSignal =>
       \A w \in Workers : pc'[w] = "select" => pc[w] = "select"]_vars

\* A worker never lets go of a job it got from GitLab without reporting it.
JobsReported ==
  [][\A w \in Workers : job[w] = "open" => job'[w] # "none"]_vars

\* Once a stop has been requested the process ends.
ShutdownCompletes == main # "wait" ~> exit # "no"

\* docs/commands/README.md: after SIGQUIT the process stops accepting builds.
\* While Run stops the workers, one that waits for a runner does nothing but
\* stop.  (The code does not keep this: the select may take a runner.)
QuitTakesNoRunner ==
  [][run = "drain" /\ stopSignal = SIGQUIT =>
       \A w \in Workers : pc[w] = "select" => pc'[w] # "acquire"]_vars

\* A SIGHUP is eventually taken up, even while updateWorkers waits for a busy
\* worker to stop, unless the process is stopping.
ReloadHonoured == reloadSignal ~> (~reloadSignal \/ main # "wait" \/ exit # "no")
=============================================================================
