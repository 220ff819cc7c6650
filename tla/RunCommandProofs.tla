-------------------------- MODULE RunCommandProofs --------------------------
(***************************************************************************)
(* The safety properties of RunCommand, for every number of workers,       *)
(* tokens, projects and configurations, and without the bounds of the      *)
(* model checker's instances (MaxEvents and HealthyChecks are arbitrary).  *)
(* Here: addBuild's numbers, the types, what a worker holds, and the pool  *)
(* and its shutdown (Run's count of its workers is exact and bounded, a    *)
(* stop finds no worker left behind, SIGQUIT aborts nothing).              *)
(***************************************************************************)
EXTENDS RunCommand, FiniteSetTheorems, TLAPS

\* The tuples that actions leave unchanged.
USE DEF vars, buildsHelperVars, workerVars, runVars, mainVars, NotWorker, NotRun, NotMain

\* A set of naturals that has a member has a least one.
LEMMA LeastNatural ==
  ASSUME NEW T \in SUBSET Nat, T # {}
  PROVE  \E n \in T : \A m \in T : n <= m
<1> DEFINE R == OpToRel(<, Nat)
<1>1. PICK n \in T : \A m \in T : ~ (<<m, n>> \in R)
  <2>1. IsWellFoundedOn(R, Nat)
    BY NatLessThanWellFounded, Zenon
  <2> HIDE DEF R
  <2> QED
    BY <2>1, WFMin, Zenon
<1>2. ASSUME NEW m \in T PROVE n <= m
  <2>1. ~ (<<m, n>> \in R)
    BY <1>1, Zenon
  <2>2. <<m, n>> \in Nat \X Nat
    BY Zenon
  <2>3. ~ (m < n)
    BY <2>1, <2>2, Zenon DEF OpToRel
  <2> QED
    BY <2>3
<1> QED
  BY <1>2, Zenon

\* The numbers already given to a finite set of builds are a finite set of
\* naturals, no larger than the set of builds.
LEMMA NumbersFinite ==
  ASSUME NEW B \in SUBSET Build, IsFiniteSet(B)
  PROVE  /\ {b.runnerID : b \in B} \in SUBSET Nat
         /\ IsFiniteSet({b.runnerID : b \in B})
         /\ Cardinality({b.runnerID : b \in B}) <= Cardinality(B)
         /\ {b.projectRunnerID : b \in B} \in SUBSET Nat
         /\ IsFiniteSet({b.projectRunnerID : b \in B})
         /\ Cardinality({b.projectRunnerID : b \in B}) <= Cardinality(B)
<1>1. {b.runnerID : b \in B} \in SUBSET Nat /\ {b.projectRunnerID : b \in B} \in SUBSET Nat
  BY Zenon DEF Build
<1>2. [b \in B |-> b.runnerID] \in Surjection(B, {b.runnerID : b \in B})
  BY Zenon DEF Surjection
<1>3. [b \in B |-> b.projectRunnerID] \in Surjection(B, {b.projectRunnerID : b \in B})
  BY Zenon DEF Surjection
<1> QED
  BY <1>1, <1>2, <1>3, FS_Surjection, Zenon

\* What addBuild's loops find: a number not in use, and at most the number of
\* numbers in use, so that numbers are reused.
THEOREM SmallestFreeIsFree ==
  ASSUME NEW used \in SUBSET Nat, IsFiniteSet(used)
  PROVE  /\ SmallestFree(used) \in Nat
         /\ SmallestFree(used) \notin used
         /\ SmallestFree(used) <= Cardinality(used)
         /\ \A m \in Nat : m < SmallestFree(used) => m \in used
<1> DEFINE n == Cardinality(used)
           free == (0..n) \ used
<1>1. n \in Nat
  BY FS_CardinalityType, Zenon
<1>2. free # {}
  <2> SUFFICES ASSUME 0..n \subseteq used PROVE FALSE
    BY Zenon
  <2>1. Cardinality(0..n) = n + 1
    BY <1>1, FS_Interval
  <2>2. Cardinality(0..n) <= n
    BY FS_Subset, Zenon
  <2> QED
    BY <1>1, <2>1, <2>2
<1>3. \E k \in free : \A m \in free : k <= m
  <2>1. free \in SUBSET Nat
    BY <1>1
  <2> HIDE DEF free
  <2> QED
    BY <1>2, <2>1, LeastNatural, Zenon
<1>4. SmallestFree(used) \in free /\ \A m \in free : SmallestFree(used) <= m
  BY <1>3, Zenon DEF SmallestFree
<1>5. ASSUME NEW m \in Nat, m < SmallestFree(used) PROVE m \in used
  BY <1>1, <1>4, <1>5
<1> QED
  BY <1>1, <1>4, <1>5

-----------------------------------------------------------------------------
(* Type correctness                                                        *)

\* Types hold at the start.
LEMMA InitTypeOK == Init => TypeOK
<1> SUFFICES ASSUME Init PROVE TypeOK
  BY Zenon
<1>1. counters \in [Tokens -> RunnerCounter] /\ builds \subseteq Build /\ IsFiniteSet(builds)
  BY FS_EmptySet, Zenon DEF Init, BuildsHelperInit, RunnerCounter
<1>2. config \in AllConfigs /\ failures \in [Tokens -> 0..HealthyChecks]
  BY BoundsAssumption DEF Init, AllConfigs
<1>3. feeder \in [pc: FeederPC, queue: Seq(RunnerConfigs)] /\ feeder.pc # "send"
  BY DEF Init, FeederPC
<1>4. /\ pc \in [Workers -> WorkerPC] /\ runner \in [Workers -> RunnerConfigs \cup {NoRunner}]
      /\ job \in [Workers -> Job] /\ acquired \in [Tokens -> Int]
  BY DEF Init, WorkerPC, Job
<1>5. reloadSignal \in BOOLEAN /\ runFinished \in BOOLEAN /\ runWait \in BOOLEAN
  BY BoundsAssumption, Zenon DEF Init
<1>6. /\ run \in RunPC /\ main \in MainPC /\ stopSignal \in {NoSignal} \cup StopSignals
      /\ runSignal \in {"empty", NoSignal} \cup StopSignals /\ sent \in [StopSignals -> Nat]
  BY Zenon DEF Init, RunPC, MainPC
<1>7. /\ starter \in {"check", "receive", "spawn", "done"} /\ currentWorkers \in Nat
      /\ exit \in {"no", "finished", "forced", "timeout", "fatal"} /\ reloads \in Nat
  BY Zenon DEF Init
<1> QED
  BY <1>1, <1>2, <1>3, <1>4, <1>5, <1>6, <1>7, Zenon DEF TypeOK

\* The counter operations keep the counters naturals.
LEMMA CountersType ==
  ASSUME TypeOK, NEW r, r.token \in Tokens,
         acquireBuild(r) \/ releaseBuild(r) \/ acquireRequest(r) \/ releaseRequest(r)
  PROVE  counters' \in [Tokens -> RunnerCounter] /\ builds' = builds
<1> DEFINE t == r.token
<1>1. counters[t] \in [builds: Nat, requests: Nat] /\ counters \in [Tokens -> RunnerCounter]
  BY Zenon DEF TypeOK, RunnerCounter
<1> HIDE DEF t
<1>2. CASE acquireBuild(r)
  BY <1>1, <1>2 DEF RunnerCounter, acquireBuild, t
<1>3. CASE releaseBuild(r)
  BY <1>1, <1>3 DEF RunnerCounter, releaseBuild, t
<1>4. CASE acquireRequest(r)
  BY <1>1, <1>4 DEF RunnerCounter, acquireRequest, t
<1>5. CASE releaseRequest(r)
  BY <1>1, <1>5 DEF RunnerCounter, releaseRequest, t
<1> QED BY <1>2, <1>3, <1>4, <1>5

\* addBuild and removeBuild keep the list a finite set of builds.
LEMMA BuildsType ==
  ASSUME TypeOK, NEW w \in Workers,
         \/ removeBuild(w)
         \/ \E p \in Projects, t \in Tokens : addBuild(w, t, p)
  PROVE  builds' \subseteq Build /\ IsFiniteSet(builds') /\ counters' = counters
<1>1. CASE removeBuild(w)
  BY <1>1, FS_Subset, Zenon DEF removeBuild, TypeOK
<1>2. ASSUME NEW p \in Projects, NEW t \in Tokens, addBuild(w, t, p)
      PROVE  builds' \subseteq Build /\ IsFiniteSet(builds') /\ counters' = counters
  <2> DEFINE runners        == {b \in builds : b.token = t}
             projectRunners == {b \in runners : b.project = p}
             id             == SmallestFree({b.runnerID : b \in runners})
             pid            == SmallestFree({b.projectRunnerID : b \in projectRunners})
             new == [worker |-> w, token |-> t, project |-> p,
                     runnerID |-> id, projectRunnerID |-> pid]
  <2>1. /\ runners \in SUBSET Build /\ IsFiniteSet(runners)
        /\ projectRunners \in SUBSET Build /\ IsFiniteSet(projectRunners)
    BY FS_Subset, Zenon DEF TypeOK
  <2>2. id \in Nat
    <3> HIDE DEF runners, projectRunners
    <3> QED BY <2>1, NumbersFinite, SmallestFreeIsFree, Zenon
  <2>3. pid \in Nat
    <3> HIDE DEF runners, projectRunners
    <3> QED BY <2>1, NumbersFinite, SmallestFreeIsFree, Zenon
  <2>4. builds' = builds \cup {new} /\ counters' = counters
    BY <1>2, Zenon DEF addBuild
  <2>5. new \in Build
    <3> HIDE DEF id, pid
    <3> QED BY <2>2, <2>3 DEF Build
  <2> HIDE DEF new
  <2> QED BY <2>4, <2>5, FS_AddElement, Zenon DEF TypeOK
<1> QED BY <1>1, <1>2

\* isHealthy and makeHealthy keep the failure counts within 0..HealthyChecks.
LEMMA HealthType ==
  ASSUME TypeOK, NEW t,
         isHealthy(t) \/ isNotHealthy(t) \/ \E h \in BOOLEAN : makeHealthy(t, h)
  PROVE  failures' \in [Tokens -> 0..HealthyChecks]
  BY BoundsAssumption DEF TypeOK, isHealthy, isNotHealthy, makeHealthy

\* A worker that has taken a runner has a real one.
LEMMA HolderHasToken ==
  ASSUME TypeOK, RunnerHeld, NEW w \in Workers, pc[w] \in HoldsExecutor \cup {"acquire"}
  PROVE  runner[w] \in RunnerConfigs /\ runner[w].token \in Tokens
  BY RunnerConfigsAssumption, Zenon DEF RunnerHeld

\* A worker's step has to keep the types of the variables it may change.
LEMMA WorkerTypes ==
  ASSUME TypeOK, UNCHANGED NotWorker,
         counters' \in [Tokens -> RunnerCounter],
         builds' \subseteq Build, IsFiniteSet(builds'),
         failures' \in [Tokens -> 0..HealthyChecks],
         pc' \in [Workers -> WorkerPC],
         runner' \in [Workers -> RunnerConfigs \cup {NoRunner}],
         job' \in [Workers -> Job],
         acquired' \in [Tokens -> Int]
  PROVE  TypeOK'
  BY DEF TypeOK

\* Workers keep the types.
LEMMA WorkerStepType ==
  ASSUME TypeOK, RunnerHeld, NEW w \in Workers, WorkerStep(w)
  PROVE  TypeOK'
<1> USE DEF HoldsExecutor, HoldsBuild, HasBuild, HoldsRequest
<1>0. /\ counters \in [Tokens -> RunnerCounter]
      /\ builds \subseteq Build /\ IsFiniteSet(builds)
      /\ failures \in [Tokens -> 0..HealthyChecks]
      /\ pc \in [Workers -> WorkerPC]
      /\ runner \in [Workers -> RunnerConfigs \cup {NoRunner}]
      /\ job \in [Workers -> Job]
      /\ acquired \in [Tokens -> Int]
  BY Zenon DEF TypeOK
<1>1. CASE WorkerLoop(w)
  BY <1>1 DEF TypeOK, WorkerLoop, Goto, WorkerPC
<1>2. CASE TakeRunner(w)
  <2>1. feeder.queue \in Seq(RunnerConfigs) /\ feeder.queue # <<>>
    BY <1>2, Zenon DEF TypeOK, TakeRunner
  <2>2. Head(feeder.queue) \in RunnerConfigs /\ Tail(feeder.queue) \in Seq(RunnerConfigs)
    BY <2>1
  <2>3. feeder' \in [pc: FeederPC, queue: Seq(RunnerConfigs)] /\ feeder'.pc # "send"
    BY <1>2, <2>2, Zenon DEF TakeRunner, FeederPC
  <2>4. runner' \in [Workers -> RunnerConfigs \cup {NoRunner}]
    BY <1>0, <1>2, <2>2, Zenon DEF TakeRunner
  <2>5. pc' \in [Workers -> WorkerPC]
    BY <1>0, <1>2, Zenon DEF TakeRunner, Goto, WorkerPC
  <2> QED BY <1>2, <2>3, <2>4, <2>5 DEF TypeOK, TakeRunner
<1>3. CASE AcquireExecutor(w)
  <2>1. pc' \in [Workers -> WorkerPC]
    BY <1>0, <1>3, Zenon DEF AcquireExecutor, Goto, WorkerPC
  <2>2. runner' \in [Workers -> RunnerConfigs \cup {NoRunner}]
    BY <1>0, <1>3, Zenon DEF AcquireExecutor
  <2>3. runner[w].token \in Tokens
    BY <1>3, HolderHasToken, Zenon DEF AcquireExecutor, Goto
  <2>4. acquired' \in [Tokens -> Int]
    BY <1>0, <1>3, <2>3 DEF AcquireExecutor
  <2> QED BY <1>0, <1>3, <2>1, <2>2, <2>4, WorkerTypes DEF AcquireExecutor
<1>4. CASE AcquireBuild(w)
  <2>1. counters' \in [Tokens -> RunnerCounter] /\ builds' = builds
    BY <1>0, <1>4, CountersType, HolderHasToken, Zenon DEF AcquireBuild, Goto
  <2>2. pc' \in [Workers -> WorkerPC]
    BY <1>0, <1>4, Zenon DEF AcquireBuild, Goto, WorkerPC
  <2> QED BY <1>0, <1>4, <2>1, <2>2, WorkerTypes DEF AcquireBuild
<1>5. CASE RequestJob(w)
  <2>1. counters' \in [Tokens -> RunnerCounter] /\ builds' = builds
    BY <1>0, <1>5, CountersType, HolderHasToken, Zenon DEF RequestJob, Goto
  <2>2. pc' \in [Workers -> WorkerPC]
    BY <1>0, <1>5, Zenon DEF RequestJob, Goto, WorkerPC
  <2> QED BY <1>0, <1>5, <2>1, <2>2, WorkerTypes DEF RequestJob
<1>6. CASE JobAnswered(w)
  <2>1. counters' \in [Tokens -> RunnerCounter] /\ builds' = builds
    BY <1>6, CountersType, HolderHasToken, Zenon DEF JobAnswered, Goto
  <2>2. failures' \in [Tokens -> 0..HealthyChecks]
    BY <1>6, HealthType, Zenon DEF JobAnswered
  <2>3. pc' \in [Workers -> WorkerPC]
    BY <1>0, <1>6, Zenon DEF JobAnswered, Goto, WorkerPC
  <2>4. job' \in [Workers -> Job]
    BY <1>0, <1>6, Zenon DEF JobAnswered, Job
  <2> QED BY <1>0, <1>6, <2>1, <2>2, <2>3, <2>4, WorkerTypes DEF JobAnswered
<1>7. CASE NewBuild(w)
  <2>1. runner[w].token \in Tokens
    BY <1>7, HolderHasToken, Zenon DEF NewBuild, Goto
  <2>2. builds' \subseteq Build /\ IsFiniteSet(builds') /\ counters' = counters
    BY <1>0, <1>7, <2>1, BuildsType, Zenon DEF NewBuild
  <2>3. pc' \in [Workers -> WorkerPC]
    BY <1>0, <1>7, Zenon DEF NewBuild, Goto, WorkerPC
  <2>4. job' \in [Workers -> Job]
    BY <1>0, <1>7, Zenon DEF NewBuild, Job
  <2> QED BY <1>0, <1>7, <2>2, <2>3, <2>4, WorkerTypes DEF NewBuild
<1>8. CASE RequeueFailed(w)
  BY <1>8 DEF TypeOK, RequeueFailed, Goto, WorkerPC
<1>9. ASSUME NEW v \in Workers, RequeueRunner(w, v) PROVE TypeOK'
  <2>1. pc' \in [Workers -> WorkerPC]
    BY <1>0, <1>9, Zenon DEF RequeueRunner, WorkerPC
  <2>2. runner' \in [Workers -> RunnerConfigs \cup {NoRunner}]
    BY <1>0, <1>9, Zenon DEF RequeueRunner
  <2> QED BY <1>0, <1>9, <2>1, <2>2, WorkerTypes DEF RequeueRunner
<1>10. CASE BuildFinished(w) \/ BuildAborted(w)
  <2>1. pc' \in [Workers -> WorkerPC]
    BY <1>0, <1>10, Zenon DEF BuildFinished, BuildAborted, Goto, WorkerPC
  <2>2. job' \in [Workers -> Job]
    BY <1>0, <1>10, Zenon DEF BuildFinished, BuildAborted, Job
  <2> QED BY <1>0, <1>10, <2>1, <2>2, WorkerTypes DEF BuildFinished, BuildAborted
<1>11. CASE RemoveBuild(w)
  <2>1. builds' \subseteq Build /\ IsFiniteSet(builds') /\ counters' = counters
    BY <1>11, BuildsType, Zenon DEF RemoveBuild
  <2>2. pc' \in [Workers -> WorkerPC]
    BY <1>0, <1>11, Zenon DEF RemoveBuild, Goto, WorkerPC
  <2> QED BY <1>0, <1>11, <2>1, <2>2, WorkerTypes DEF RemoveBuild
<1>12. CASE ReleaseBuild(w)
  <2>1. counters' \in [Tokens -> RunnerCounter] /\ builds' = builds
    BY <1>12, CountersType, HolderHasToken, Zenon DEF ReleaseBuild, Goto
  <2>2. pc' \in [Workers -> WorkerPC]
    BY <1>0, <1>12, Zenon DEF ReleaseBuild, Goto, WorkerPC
  <2> QED BY <1>0, <1>12, <2>1, <2>2, WorkerTypes DEF ReleaseBuild
<1>13. CASE ReleaseExecutor(w)
  <2>1. pc' \in [Workers -> WorkerPC]
    BY <1>0, <1>13, Zenon DEF ReleaseExecutor, Goto, WorkerPC
  <2>2. runner' \in [Workers -> RunnerConfigs \cup {NoRunner}]
    BY <1>0, <1>13, Zenon DEF ReleaseExecutor
  <2>3. job' \in [Workers -> Job]
    BY <1>0, <1>13, Zenon DEF ReleaseExecutor, Job
  <2>4. runner[w].token \in Tokens
    BY <1>13, HolderHasToken, Zenon DEF ReleaseExecutor, Goto
  <2>5. acquired' \in [Tokens -> Int]
    BY <1>0, <1>13, <2>4 DEF ReleaseExecutor
  <2> QED BY <1>0, <1>13, <2>1, <2>2, <2>3, <2>5, WorkerTypes DEF ReleaseExecutor
<1> QED
  BY <1>1, <1>2, <1>3, <1>4, <1>5, <1>6, <1>7, <1>8, <1>9, <1>10, <1>11, <1>12, <1>13, Zenon
  DEF WorkerStep

\* feedRunners keeps the types.
LEMMA FeederStepType ==
  ASSUME TypeOK, FeederStep
  PROVE  TypeOK'
<1>0. feeder \in [pc: FeederPC, queue: Seq(RunnerConfigs)]
  BY Zenon DEF TypeOK
<1>3. config.runners \in Seq(RunnerConfigs)
  <2>1. config \in Configs \/ config.runners = <<>>
    BY DEF TypeOK, AllConfigs, NewConfig
  <2>2. config \in Configs => config.runners \in Seq(RunnerConfigs)
    BY ConfigsAssumption, Zenon DEF Config
  <2>3. <<>> \in Seq(RunnerConfigs)
    OBVIOUS
  <2> QED BY <2>1, <2>2, <2>3, Zenon
<1>1. CASE feedRunners
  <2>1. feeder' \in [pc: FeederPC, queue: Seq(RunnerConfigs)] /\ feeder'.pc # "send"
    BY <1>0, <1>1, <1>3, Zenon DEF feedRunners, FeederPC
  <2> QED BY <1>1, <2>1 DEF TypeOK, feedRunners
<1>2. CASE feedRunner
  <2> DEFINE q == feeder.queue
  <2>4. q \in Seq(RunnerConfigs) /\ (q # <<>> => Tail(q) \in Seq(RunnerConfigs))
    BY <1>0
  <2>1. feeder' \in [pc: FeederPC, queue: Seq(RunnerConfigs)]
    BY <1>0, <1>2, <2>4, Zenon DEF feedRunner, FeederPC
  <2>2. feeder'.pc = "send" => feeder'.queue # <<>>
    BY <1>0, <1>2, Zenon DEF feedRunner
  <2>3. failures' \in [Tokens -> 0..HealthyChecks]
    BY <1>2, HealthType, Zenon DEF feedRunner, TypeOK
  <2> QED BY <1>2, <2>1, <2>2, <2>3 DEF TypeOK, feedRunner
<1> QED BY <1>1, <1>2 DEF FeederStep

\* startWorkers keeps the types.
LEMMA StarterStepType ==
  ASSUME TypeOK, StarterStep
  PROVE  TypeOK'
<1>1. CASE StarterLoop
  BY <1>1 DEF TypeOK, StarterLoop
<1>2. ASSUME NEW w \in Workers, SpawnWorker(w) PROVE TypeOK'
  <2>1. pc' \in [Workers -> WorkerPC]
    BY <1>2, Zenon DEF TypeOK, SpawnWorker, Goto, WorkerPC
  <2> QED BY <1>2, <2>1 DEF TypeOK, SpawnWorker
<1> QED BY <1>1, <1>2 DEF StarterStep

\* Run's steps have to keep the types of the variables they may change.
LEMMA RunTypes ==
  ASSUME TypeOK, UNCHANGED NotRun,
         config' \in AllConfigs,
         failures' \in [Tokens -> 0..HealthyChecks],
         pc' \in [Workers -> WorkerPC],
         starter' \in {"check", "receive", "spawn", "done"},
         run' \in RunPC, currentWorkers' \in Nat, runFinished' \in BOOLEAN,
         runSignal' \in {"empty", NoSignal} \cup StopSignals,
         reloadSignal' \in BOOLEAN, reloads' \in Nat
  PROVE  TypeOK'
  BY Zenon DEF TypeOK

\* Run keeps the types.
LEMMA RunStepType ==
  ASSUME TypeOK, RunStep
  PROVE  TypeOK'
<1>0. /\ config \in AllConfigs
      /\ failures \in [Tokens -> 0..HealthyChecks]
      /\ pc \in [Workers -> WorkerPC]
      /\ starter \in {"check", "receive", "spawn", "done"}
      /\ run \in RunPC /\ currentWorkers \in Nat /\ runFinished \in BOOLEAN
      /\ runSignal \in {"empty", NoSignal} \cup StopSignals
      /\ reloadSignal \in BOOLEAN /\ reloads \in Nat
  BY Zenon DEF TypeOK
<1>1. CASE RunLoop
  <2>1. run' \in RunPC
    BY <1>1, Zenon DEF RunLoop, RunPC
  <2> QED BY <1>0, <1>1, <2>1, RunTypes DEF RunLoop
<1>2. CASE ConcurrentFatal
  BY <1>2, Zenon DEF TypeOK, ConcurrentFatal, MainPC
<1>3. CASE ScaleUp
  <2>1. currentWorkers' \in Nat /\ starter' \in {"check", "receive", "spawn", "done"}
    BY <1>0, <1>3 DEF ScaleUp
  <2> QED BY <1>0, <1>3, <2>1, RunTypes DEF ScaleUp
<1>4. CASE Scaled
  <2>1. run' \in RunPC
    BY <1>4, Zenon DEF Scaled, RunPC
  <2> QED BY <1>0, <1>4, <2>1, RunTypes DEF Scaled
<1>5. CASE RunSignaled
  <2>1. run' \in RunPC /\ runSignal' \in {"empty", NoSignal} \cup StopSignals
    BY <1>5, Zenon DEF RunSignaled, RunPC
  <2> QED BY <1>0, <1>5, <2>1, RunTypes DEF RunSignaled
<1>6. CASE CheckConfig
  <2>1. run' \in RunPC /\ reloads' \in Nat
    BY <1>0, <1>6 DEF CheckConfig, RunPC
  <2>2. config' \in AllConfigs
    BY <1>0, <1>6, Zenon DEF CheckConfig, loadConfig
  <2>3. failures' \in [Tokens -> 0..HealthyChecks]
    BY <1>0, <1>6, BoundsAssumption DEF CheckConfig, loadConfig
  <2> QED BY <1>0, <1>6, <2>1, <2>2, <2>3, RunTypes DEF CheckConfig
<1>7. CASE ReloadConfig
  <2>1. run' \in RunPC /\ reloadSignal' \in BOOLEAN
    BY <1>7, Zenon DEF ReloadConfig, RunPC
  <2>2. config' \in AllConfigs
    BY <1>0, <1>7, Zenon DEF ReloadConfig, loadConfig
  <2>3. failures' \in [Tokens -> 0..HealthyChecks]
    BY <1>0, <1>7, BoundsAssumption DEF ReloadConfig, loadConfig
  <2> QED BY <1>0, <1>7, <2>1, <2>2, <2>3, RunTypes DEF ReloadConfig
<1>8. CASE RunFinished
  <2>1. run' \in RunPC /\ runFinished' \in BOOLEAN
    BY <1>8, Zenon DEF RunFinished, RunPC
  <2> QED BY <1>0, <1>8, <2>1, RunTypes DEF RunFinished
<1>9. ASSUME NEW w \in Workers, ScaleDown(w) \/ DrainWorker(w) PROVE TypeOK'
  <2>1. currentWorkers \in Nat \ {0}
    BY <1>0, <1>9, ConfigsAssumption DEF ScaleDown, DrainWorker, AllConfigs, Config, NewConfig
  <2>2. currentWorkers' \in Nat
    BY <2>1, <1>9 DEF ScaleDown, DrainWorker, StopWorker
  <2>3. pc' \in [Workers -> WorkerPC]
    BY <1>0, <1>9, Zenon DEF ScaleDown, DrainWorker, StopWorker, WorkerPC
  <2> QED BY <1>0, <1>9, <2>2, <2>3, RunTypes DEF ScaleDown, DrainWorker
<1> QED
  BY <1>1, <1>2, <1>3, <1>4, <1>5, <1>6, <1>7, <1>8, <1>9, Zenon DEF RunStep

\* main and the goroutines of the signals keep the types.
LEMMA MainStepType ==
  ASSUME TypeOK, MainStep \/ PumpStep \/ Environment
  PROVE  TypeOK'
<1> USE DEF MainPC, Exit
<1>1. CASE Stop
  BY <1>1 DEF TypeOK, Stop
<1>2. CASE SessionServerClosed
  BY <1>2 DEF TypeOK, SessionServerClosed
<1>3. CASE ShutdownTimeout
  BY <1>3 DEF TypeOK, ShutdownTimeout
<1>4. CASE ExitFinished
  BY <1>4, Zenon DEF TypeOK, ExitFinished
<1>5. CASE interruptRun
  BY <1>5 DEF TypeOK, interruptRun
<1>6. CASE SendReload
  BY <1>6 DEF TypeOK, SendReload
<1>7. ASSUME NEW s \in SentSignals, SendStopSignal(s) PROVE TypeOK'
  <2>1. s \in StopSignals
    BY BoundsAssumption, Zenon
  <2>2. sent' \in [StopSignals -> Nat]
    BY <1>7, <2>1 DEF TypeOK, SendStopSignal
  <2>3. main' \in MainPC
    BY <1>7, Zenon DEF TypeOK, SendStopSignal
  <2>4. stopSignal' \in {NoSignal} \cup StopSignals
    BY <1>7, <2>1, Zenon DEF TypeOK, SendStopSignal
  <2>5. exit' \in {"no", "finished", "forced", "timeout", "fatal"}
    BY <1>7, Zenon DEF TypeOK, SendStopSignal
  <2> QED BY <1>7, <2>2, <2>3, <2>4, <2>5 DEF TypeOK, SendStopSignal
<1> QED
  BY <1>1, <1>2, <1>3, <1>4, <1>5, <1>6, <1>7, Zenon DEF MainStep, PumpStep, Environment

\* Every step keeps the types.
LEMMA NextTypeOK ==
  ASSUME TypeOK, RunnerHeld, [Next]_vars
  PROVE  TypeOK'
<1>1. CASE UNCHANGED vars
  BY <1>1 DEF TypeOK
<1> QED
  BY <1>1, WorkerStepType, FeederStepType, StarterStepType, RunStepType, MainStepType, Zenon
  DEF Next, Exited

-----------------------------------------------------------------------------
(* Where a worker is says what it holds                                    *)

\* Outside the workers' own steps, workers only appear and stop.
LEMMA PoolStep ==
  ASSUME TypeOK,
         FeederStep \/ StarterStep \/ RunStep \/ MainStep \/ PumpStep \/ Environment \/ Exited
  PROVE  /\ UNCHANGED <<buildsHelperVars, runner, job, acquired>>
         /\ \/ UNCHANGED pc
            \/ \E w \in Workers : SpawnWorker(w)
            \/ \E w \in Workers : StopWorker(w) /\ (ScaleDown(w) \/ DrainWorker(w))
<1>1. CASE FeederStep
  BY <1>1, Zenon DEF FeederStep, feedRunners, feedRunner
<1>2. CASE StarterStep
  BY <1>2, Zenon DEF StarterStep, StarterLoop, SpawnWorker
<1>3. CASE RunStep
  BY <1>3, Zenon DEF RunStep, RunLoop, ConcurrentFatal, ScaleUp, Scaled, RunSignaled, CheckConfig,
              ReloadConfig, RunFinished, ScaleDown, DrainWorker
<1>4. CASE MainStep
  BY <1>4, Zenon DEF MainStep, Stop, SessionServerClosed, ShutdownTimeout, ExitFinished
<1>5. CASE PumpStep \/ Environment
  BY <1>5, Zenon DEF PumpStep, Environment, interruptRun, SendReload, SendStopSignal
<1>6. CASE Exited
  BY <1>6, Zenon DEF Exited
<1> QED BY <1>1, <1>2, <1>3, <1>4, <1>5, <1>6

\* A worker's step moves that worker along one edge of processRunner; only
\* RequeueRunner moves a second one, from its select.
WorkerEdge(w) ==
  \/ Goto(w, "loop", "select") \/ Goto(w, "loop", "drain")
  \/ Goto(w, "select", "acquire") \/ Goto(w, "acquire", "limit") \/ Goto(w, "acquire", "loop")
  \/ Goto(w, "limit", "request") \/ Goto(w, "limit", "releaseExecutor")
  \/ Goto(w, "request", "requesting") \/ Goto(w, "request", "release")
  \/ Goto(w, "requesting", "build") \/ Goto(w, "requesting", "release")
  \/ Goto(w, "build", "requeue") \/ Goto(w, "build", "release")
  \/ Goto(w, "requeue", "running") \/ Goto(w, "running", "remove")
  \/ Goto(w, "remove", "release") \/ Goto(w, "release", "releaseExecutor")
  \/ Goto(w, "releaseExecutor", "loop")

\* A worker moves along one of these edges, or together with another one.
LEMMA WorkerStepEdge ==
  ASSUME NEW w \in Workers, WorkerStep(w)
  PROVE  WorkerEdge(w) \/ \E v \in Workers : RequeueRunner(w, v)
  BY Zenon DEF WorkerStep, WorkerEdge, WorkerLoop, TakeRunner, AcquireExecutor, AcquireBuild,
         RequestJob, JobAnswered, NewBuild, RequeueFailed, BuildFinished, BuildAborted,
         RemoveBuild, ReleaseBuild, ReleaseExecutor

\* A worker keeps its runner as long as it holds something for it.
LEMMA NextRunnerHeld ==
  ASSUME TypeOK, RunnerHeld, [Next]_vars
  PROVE  RunnerHeld'
<1> USE DEF HoldsExecutor, HoldsBuild, HasBuild, HoldsRequest
<1>0. pc \in [Workers -> WorkerPC] /\ runner \in [Workers -> RunnerConfigs \cup {NoRunner}]
  BY Zenon DEF TypeOK
<1>1. CASE UNCHANGED vars
  BY <1>1, Zenon DEF RunnerHeld
<1>2. CASE FeederStep \/ StarterStep \/ RunStep \/ MainStep \/ PumpStep \/ Environment \/ Exited
  BY <1>0, <1>2, PoolStep, Zenon DEF RunnerHeld, SpawnWorker, StopWorker, Goto
<1>3. ASSUME NEW w \in Workers, WorkerStep(w) PROVE RunnerHeld'
  <2>1. CASE TakeRunner(w)
    <3>1. Head(feeder.queue) \in RunnerConfigs
      BY <2>1 DEF TypeOK, TakeRunner
    <3> QED BY <1>0, <2>1, <3>1 DEF RunnerHeld, TakeRunner, Goto
  <2>2. ASSUME NEW v \in Workers, RequeueRunner(w, v) PROVE RunnerHeld'
    BY <1>0, <2>2, Zenon DEF RunnerHeld, RequeueRunner
  <2>3. CASE AcquireExecutor(w)
    BY <1>0, <2>3, Zenon DEF RunnerHeld, AcquireExecutor, Goto
  <2>4. CASE ReleaseExecutor(w)
    BY <1>0, <2>4, Zenon DEF RunnerHeld, ReleaseExecutor, Goto
  <2>5. CASE UNCHANGED runner /\ WorkerEdge(w) /\ pc[w] \notin {"select", "acquire"}
    BY <1>0, <2>5, Zenon DEF RunnerHeld, WorkerEdge, Goto
  <2> QED
    BY <1>3, <2>1, <2>2, <2>3, <2>4, <2>5, WorkerStepEdge, Zenon
    DEF WorkerStep, WorkerLoop, AcquireBuild, RequestJob, JobAnswered, NewBuild,
        RequeueFailed, BuildFinished, BuildAborted, RemoveBuild, ReleaseBuild, Goto
<1> QED BY <1>1, <1>2, <1>3 DEF Next

\* A worker keeps its job until it is reported.
LEMMA NextJobHeld ==
  ASSUME TypeOK, JobHeld, [Next]_vars
  PROVE  JobHeld'
<1>0. pc \in [Workers -> WorkerPC] /\ job \in [Workers -> Job]
  BY Zenon DEF TypeOK
<1>1. CASE UNCHANGED vars
  BY <1>1, Zenon DEF JobHeld
<1>2. CASE FeederStep \/ StarterStep \/ RunStep \/ MainStep \/ PumpStep \/ Environment \/ Exited
  BY <1>0, <1>2, PoolStep, Zenon DEF JobHeld, SpawnWorker, StopWorker, Goto
<1>3. ASSUME NEW w \in Workers, WorkerStep(w) PROVE JobHeld'
  <2>1. CASE JobAnswered(w)
    BY <1>0, <2>1, Zenon DEF JobHeld, JobAnswered, Goto
  <2>2. CASE NewBuild(w)
    BY <1>0, <2>2, Zenon DEF JobHeld, NewBuild, Goto
  <2>3. CASE BuildFinished(w) \/ BuildAborted(w)
    BY <1>0, <2>3, Zenon DEF JobHeld, BuildFinished, BuildAborted, Goto
  <2>4. CASE ReleaseExecutor(w)
    BY <1>0, <2>4, Zenon DEF JobHeld, ReleaseExecutor, Goto
  <2>5. ASSUME NEW v \in Workers, RequeueRunner(w, v) PROVE JobHeld'
    BY <1>0, <2>5, Zenon DEF JobHeld, RequeueRunner
  <2>6. CASE WorkerLoop(w) \/ TakeRunner(w) \/ AcquireExecutor(w) \/ AcquireBuild(w)
    BY <1>0, <2>6, Zenon DEF JobHeld, WorkerLoop, TakeRunner, AcquireExecutor, AcquireBuild, Goto
  <2>7. CASE RequestJob(w) \/ RequeueFailed(w) \/ RemoveBuild(w) \/ ReleaseBuild(w)
    BY <1>0, <2>7, Zenon DEF JobHeld, RequestJob, RequeueFailed, RemoveBuild, ReleaseBuild, Goto
  <2> QED BY <1>3, <2>1, <2>2, <2>3, <2>4, <2>5, <2>6, <2>7 DEF WorkerStep
<1> QED BY <1>1, <1>2, <1>3 DEF Next

\* At the start nobody holds anything.
LEMMA InitHeld == Init => RunnerHeld /\ JobHeld
  BY Zenon DEF Init, RunnerHeld, JobHeld, HoldsExecutor, HoldsBuild, HasBuild, HoldsRequest

\* Every variable keeps its type: no counter goes below zero, whatever the
\* order of reloads, scaling, jobs and signals.
THEOREM TypeCorrect == Spec => []TypeOK
<1>1. Init => TypeOK /\ RunnerHeld
  BY InitTypeOK, InitHeld, Zenon
<1>2. TypeOK /\ RunnerHeld /\ [Next]_vars => (TypeOK /\ RunnerHeld)'
  BY NextTypeOK, NextRunnerHeld, Zenon
<1> QED BY <1>1, <1>2, PTL DEF Spec

\* Where a worker is says which runner and which job it holds.
THEOREM HeldCorrect == Spec => [](RunnerHeld /\ JobHeld)
<1>1. Init => TypeOK /\ RunnerHeld /\ JobHeld
  BY InitTypeOK, InitHeld, Zenon
<1>2. TypeOK /\ RunnerHeld /\ JobHeld /\ [Next]_vars => (TypeOK /\ RunnerHeld /\ JobHeld)'
  BY NextTypeOK, NextRunnerHeld, NextJobHeld, Zenon
<1> QED BY <1>1, <1>2, PTL DEF Spec

-----------------------------------------------------------------------------
(* Run counts its workers                                                  *)

\* The live workers can be counted.
LEMMA LiveFinite ==
  IsFiniteSet(LiveWorkers) /\ Cardinality(LiveWorkers) \in Nat
  BY WorkersAssumption, FS_Subset, FS_CardinalityType, Zenon DEF LiveWorkers

\* currentWorkers changes with the set of workers.
LEMMA NextWorkersAccounted ==
  ASSUME TypeOK, WorkersAccounted, [Next]_vars
  PROVE  WorkersAccounted'
<1>0. pc \in [Workers -> WorkerPC] /\ currentWorkers \in Nat
  BY Zenon DEF TypeOK
<1>a. ASSUME LiveWorkers' = LiveWorkers, UNCHANGED currentWorkers,
             starter' = "spawn" <=> starter = "spawn"
      PROVE  WorkersAccounted'
  BY <1>a, Zenon DEF WorkersAccounted
<1>1. CASE UNCHANGED vars
  BY <1>1, Zenon DEF WorkersAccounted, LiveWorkers
<1>2. ASSUME NEW w \in Workers, WorkerStep(w) PROVE WorkersAccounted'
  <2>1. LiveWorkers' = LiveWorkers
    BY <1>0, <1>2, WorkerStepEdge, Zenon DEF LiveWorkers, WorkerEdge, Goto, RequeueRunner
  <2>2. UNCHANGED <<starter, currentWorkers>>
    BY <1>2, Zenon DEF WorkerStep, WorkerLoop, TakeRunner, AcquireExecutor, AcquireBuild,
         RequestJob, JobAnswered, NewBuild, RequeueFailed, RequeueRunner, BuildFinished,
         BuildAborted, RemoveBuild, ReleaseBuild, ReleaseExecutor
  <2> QED BY <1>a, <2>1, <2>2
<1>3. ASSUME NEW w \in Workers, SpawnWorker(w) PROVE WorkersAccounted'
  <2>1. w \notin LiveWorkers /\ LiveWorkers' = LiveWorkers \cup {w}
    BY <1>0, <1>3, Zenon DEF SpawnWorker, Goto, LiveWorkers
  <2>2. Cardinality(LiveWorkers') = Cardinality(LiveWorkers) + 1
    BY <2>1, LiveFinite, FS_AddElement, Zenon
  <2> QED BY <1>3, <2>2, LiveFinite DEF WorkersAccounted, SpawnWorker
<1>4. ASSUME NEW w \in Workers, ScaleDown(w) \/ DrainWorker(w) PROVE WorkersAccounted'
  <2>1. w \in LiveWorkers /\ LiveWorkers' = LiveWorkers \ {w}
    BY <1>0, <1>4, Zenon DEF ScaleDown, DrainWorker, StopWorker, LiveWorkers
  <2>2. Cardinality(LiveWorkers') = Cardinality(LiveWorkers) - 1
    BY <2>1, LiveFinite, FS_RemoveElement, Zenon
  <2>3. UNCHANGED starter /\ currentWorkers' = currentWorkers - 1
    BY <1>4, Zenon DEF ScaleDown, DrainWorker, StopWorker
  <2> QED BY <1>0, <2>2, <2>3, LiveFinite DEF WorkersAccounted
<1>5. CASE ScaleUp
  <2>1. LiveWorkers' = LiveWorkers
    BY <1>5, Zenon DEF ScaleUp, LiveWorkers
  <2> QED BY <1>0, <1>5, <2>1, LiveFinite DEF WorkersAccounted, ScaleUp
<1>6. CASE \/ StarterLoop \/ FeederStep \/ MainStep \/ PumpStep \/ Environment \/ Exited
           \/ RunLoop \/ ConcurrentFatal \/ Scaled \/ RunSignaled \/ CheckConfig
           \/ ReloadConfig \/ RunFinished
  <2>1. UNCHANGED <<pc, currentWorkers>> /\ (starter' = "spawn" <=> starter = "spawn")
    BY <1>6, Zenon DEF StarterLoop, FeederStep, feedRunners, feedRunner, MainStep, Stop,
         SessionServerClosed, ShutdownTimeout, ExitFinished, PumpStep, interruptRun,
         Environment, SendReload, SendStopSignal, Exited, RunLoop, ConcurrentFatal, Scaled,
         RunSignaled, CheckConfig, ReloadConfig, RunFinished
  <2>2. LiveWorkers' = LiveWorkers
    BY <2>1, Zenon DEF LiveWorkers
  <2> QED BY <1>a, <2>1, <2>2
<1> QED
  BY <1>1, <1>2, <1>3, <1>4, <1>5, <1>6, Zenon DEF Next, StarterStep, RunStep

\* At the start there is no worker.
LEMMA InitWorkersAccounted == Init => WorkersAccounted
<1> SUFFICES ASSUME Init PROVE WorkersAccounted
  BY Zenon
<1>1. LiveWorkers = {}
  BY Zenon DEF Init, LiveWorkers
<1> QED BY <1>1, FS_EmptySet DEF Init, WorkersAccounted

\* Run's currentWorkers is the number of worker goroutines, the one being
\* spawned included, for every number of workers and every interleaving.
THEOREM WorkersAlwaysAccounted == Spec => []WorkersAccounted
<1>1. Init => WorkersAccounted
  BY InitWorkersAccounted, Zenon
<1>2. TypeOK /\ WorkersAccounted /\ [Next]_vars => WorkersAccounted'
  BY NextWorkersAccounted, Zenon
<1> QED BY <1>1, <1>2, TypeCorrect, PTL DEF Spec

-----------------------------------------------------------------------------
(* Run, the signals and the configuration                                  *)

\* A worker's step and the feeder's change nothing that Run and main own.
LEMMA OutsideControl ==
  ASSUME (\E w \in Workers : WorkerStep(w)) \/ FeederStep \/ StarterStep \/ Exited
  PROVE  UNCHANGED <<config, run, currentWorkers, runFinished, runSignal, mainVars>>
  BY Zenon DEF WorkerStep, WorkerLoop, TakeRunner, AcquireExecutor, AcquireBuild,
         RequestJob, JobAnswered, NewBuild, RequeueFailed, RequeueRunner, BuildFinished,
         BuildAborted, RemoveBuild, ReleaseBuild, ReleaseExecutor, FeederStep, feedRunners,
         feedRunner, StarterStep, StarterLoop, SpawnWorker, Exited

\* concurrent is a number.
LEMMA ConcurrentInt ==
  ASSUME TypeOK
  PROVE  config.concurrent \in Int
  BY ConfigsAssumption DEF TypeOK, AllConfigs, Config, NewConfig

\* Run starts no more workers than some configuration allows.
LEMMA NextWorkersBounded ==
  ASSUME TypeOK, SignalSet, WorkersBounded, [Next]_vars
  PROVE  WorkersBounded'
<1>0. /\ config \in AllConfigs /\ currentWorkers \in Nat /\ config.concurrent \in Int
      /\ \A c \in AllConfigs : c.concurrent \in Int
  BY ConcurrentInt, ConfigsAssumption DEF TypeOK, AllConfigs, Config, NewConfig
<1>1. CASE UNCHANGED vars
  BY <1>1, Zenon DEF WorkersBounded
<1>2. CASE (\E w \in Workers : WorkerStep(w)) \/ FeederStep \/ StarterStep \/ Exited
  BY <1>2, OutsideControl DEF WorkersBounded
<1>3. CASE MainStep \/ PumpStep \/ Environment
  <2>1. UNCHANGED <<config, run, currentWorkers, runWait>>
    BY <1>3, Zenon DEF MainStep, Stop, SessionServerClosed, ShutdownTimeout, ExitFinished, PumpStep,
         interruptRun, Environment, SendReload, SendStopSignal
  <2> QED BY <2>1 DEF WorkersBounded
<1>4. CASE RunStep
  <2>1. CASE RunLoop \/ ConcurrentFatal \/ CheckConfig \/ ReloadConfig \/ RunFinished
    <3>1. currentWorkers' = currentWorkers /\ run' # "config"
      BY <2>1, Zenon DEF RunLoop, ConcurrentFatal, CheckConfig, ReloadConfig, RunFinished
    <3> QED BY <3>1 DEF WorkersBounded
  <2>2. CASE ScaleUp
    <3>1. run' = "scale" /\ currentWorkers' <= config.concurrent
      BY <1>0, <2>2 DEF ScaleUp
    <3> QED BY <1>0, <3>1 DEF WorkersBounded
  <2>3. CASE Scaled
    <3>1. currentWorkers' = currentWorkers /\ config' = config /\ currentWorkers <= config.concurrent
      BY <1>0, <2>3 DEF Scaled
    <3> QED BY <1>0, <3>1 DEF WorkersBounded
  <2>4. CASE RunSignaled
    <3>1. currentWorkers' = currentWorkers /\ runWait' = runWait
      BY <2>4, Zenon DEF RunSignaled
    <3>2. run' = "config" => ~runWait
      BY <2>4, Zenon DEF RunSignaled, SignalSet
    <3> QED BY <3>1, <3>2 DEF WorkersBounded
  <2>5. ASSUME NEW w \in Workers, ScaleDown(w) \/ DrainWorker(w) PROVE WorkersBounded'
    <3>1. run' # "config" /\ currentWorkers' = currentWorkers - 1
      BY <2>5, Zenon DEF ScaleDown, DrainWorker, StopWorker
    <3> QED BY <1>0, <3>1 DEF WorkersBounded
  <2> QED BY <1>4, <2>1, <2>2, <2>3, <2>4, <2>5 DEF RunStep
<1> QED BY <1>1, <1>2, <1>3, <1>4 DEF Next

\* A stop signal that is set stays set.
LEMMA NextSignalSet ==
  ASSUME TypeOK, SignalSet, [Next]_vars
  PROVE  SignalSet'
<1> USE DEF NoSignal, StopSignals, SIGQUIT, SIGTERM
<1>1. CASE UNCHANGED vars
  BY <1>1, Zenon DEF SignalSet
<1>2. CASE (\E w \in Workers : WorkerStep(w)) \/ FeederStep \/ StarterStep \/ Exited
  BY <1>2, OutsideControl, Zenon DEF SignalSet
<1>3. CASE RunStep
  <2>1. /\ UNCHANGED <<runWait, stopSignal>>
        /\ runSignal' \in {runSignal, "empty"} /\ main' \in {main, "exited"}
    BY <1>3, Zenon DEF RunStep, RunLoop, ConcurrentFatal, ScaleUp, Scaled, RunSignaled, CheckConfig,
         ReloadConfig, RunFinished, ScaleDown, DrainWorker
  <2> QED BY <2>1 DEF SignalSet
<1>4. CASE MainStep
  BY <1>4, Zenon DEF MainStep, Stop, SessionServerClosed, ShutdownTimeout, ExitFinished, Exit, SignalSet
<1>5. CASE PumpStep
  BY <1>5, Zenon DEF PumpStep, interruptRun, SignalSet
<1>6. CASE SendReload
  BY <1>6, Zenon DEF SendReload, SignalSet
<1>7. ASSUME NEW s \in SentSignals, SendStopSignal(s) PROVE SignalSet'
  <2>1. s # NoSignal
    BY BoundsAssumption, Zenon
  <2>2. UNCHANGED <<runWait, runSignal>>
    BY <1>7, Zenon DEF SendStopSignal
  <2>3. ASSUME runWait, main' \in {"stop", "graceful", "closing", "await"}
        PROVE  stopSignal' # NoSignal
    BY <1>7, <2>1, <2>3, Zenon DEF SendStopSignal, Exit, SignalSet
  <2> QED BY <2>2, <2>3 DEF SignalSet
<1> QED BY <1>1, <1>2, <1>3, <1>4, <1>5, <1>6, <1>7 DEF Next, Environment

\* Run is done only without workers.
LEMMA NextDoneEmpty ==
  ASSUME TypeOK, DoneEmpty, [Next]_vars
  PROVE  DoneEmpty'
<1>0. currentWorkers \in Nat
  BY Zenon DEF TypeOK
<1>1. CASE UNCHANGED vars
  BY <1>1, Zenon DEF DoneEmpty
<1>2. CASE (\E w \in Workers : WorkerStep(w)) \/ FeederStep \/ StarterStep \/ Exited
  BY <1>2, OutsideControl DEF DoneEmpty
<1>3. CASE PumpStep \/ Environment
  <2>1. UNCHANGED <<run, currentWorkers, runFinished>> /\ (exit' = "finished" => exit = "finished")
    BY <1>3, Zenon DEF PumpStep, interruptRun, Environment, SendReload, SendStopSignal, Exit
  <2> QED BY <2>1 DEF DoneEmpty
<1>4. CASE MainStep
  <2>1. UNCHANGED <<run, currentWorkers>>
    BY <1>4, Zenon DEF MainStep, Stop, SessionServerClosed, ShutdownTimeout, ExitFinished
  <2>2. runFinished' \/ exit' = "finished" => runFinished \/ exit = "finished"
    BY <1>4, Zenon DEF MainStep, Stop, SessionServerClosed, ShutdownTimeout, ExitFinished, Exit
  <2> QED BY <2>1, <2>2 DEF DoneEmpty
<1>5. CASE RunStep
  <2>1. CASE RunFinished
    BY <2>1, Zenon DEF RunFinished, DoneEmpty
  <2>2. CASE ~RunFinished
    <3>1. run # "done" /\ run' # "done" /\ runFinished' = runFinished
      BY <1>5, <2>2, Zenon DEF RunStep, RunLoop, ConcurrentFatal, ScaleUp, Scaled, RunSignaled,
           CheckConfig, ReloadConfig, ScaleDown, DrainWorker
    <3>2. exit' = "finished" => exit = "finished"
      BY <1>5, <2>2, Zenon DEF RunStep, RunLoop, ConcurrentFatal, ScaleUp, Scaled, RunSignaled,
           CheckConfig, ReloadConfig, ScaleDown, DrainWorker
    <3> QED BY <3>1, <3>2 DEF DoneEmpty
  <2> QED BY <2>1, <2>2
<1> QED BY <1>1, <1>2, <1>3, <1>4, <1>5 DEF Next

\* main goes to the forceful stop only after a SIGTERM.
LEMMA NextTermSent ==
  ASSUME TypeOK, TermSent, [Next]_vars
  PROVE  TermSent'
<1> USE DEF NoSignal, StopSignals, SIGQUIT, SIGTERM
<1>1. CASE UNCHANGED vars
  BY <1>1, Zenon DEF TermSent
<1>2. CASE (\E w \in Workers : WorkerStep(w)) \/ FeederStep \/ StarterStep \/ Exited
  BY <1>2, OutsideControl, Zenon DEF TermSent
<1>3. CASE RunStep \/ PumpStep \/ SendReload
  <2>1. UNCHANGED <<stopSignal, sent>> /\ main' \in {main, "exited"}
    BY <1>3, Zenon DEF RunStep, RunLoop, ConcurrentFatal, ScaleUp, Scaled, RunSignaled, CheckConfig,
         ReloadConfig, RunFinished, ScaleDown, DrainWorker, PumpStep, interruptRun, SendReload
  <2> QED BY <2>1 DEF TermSent
<1>4. CASE MainStep
  <2>1. CASE Stop
    BY <2>1, Zenon DEF Stop, TermSent, TypeOK
  <2>2. CASE SessionServerClosed
    BY <2>2, Zenon DEF SessionServerClosed, TermSent
  <2>3. CASE ShutdownTimeout \/ ExitFinished
    BY <2>3, Zenon DEF ShutdownTimeout, ExitFinished, Exit, TermSent
  <2> QED BY <1>4, <2>1, <2>2, <2>3 DEF MainStep
<1>5. ASSUME NEW s \in SentSignals, SendStopSignal(s) PROVE TermSent'
  <2>1. s \in StopSignals /\ sent \in [StopSignals -> Nat]
    BY BoundsAssumption, Zenon DEF TypeOK
  <2>2. sent'[SIGTERM] \in Nat /\ sent'[SIGTERM] >= sent[SIGTERM] /\ (s = SIGTERM => sent'[SIGTERM] > 0)
    BY <1>5, <2>1 DEF SendStopSignal
  <2>3. stopSignal' = SIGTERM => sent'[SIGTERM] > 0
    BY <1>5, <2>1, <2>2, Zenon DEF SendStopSignal, TermSent
  <2>4. main' \in {"stop", "graceful", "closing", "await"} => stopSignal' # NoSignal \/ sent'[SIGTERM] > 0
    BY <1>5, <2>1, <2>2, Zenon DEF SendStopSignal, TermSent, Exit
  <2>5. main' \in {"closing", "await"} => sent'[SIGTERM] > 0
    BY <1>5, <2>1, <2>2, Zenon DEF SendStopSignal, TermSent, Exit
  <2> QED BY <2>3, <2>4, <2>5 DEF TermSent
<1> QED BY <1>1, <1>2, <1>3, <1>4, <1>5 DEF Next, Environment

\* What Run and main know of each other.
ControlInv == WorkersBounded /\ SignalSet /\ DoneEmpty /\ TermSent

\* These hold in every behaviour.
LEMMA ControlCorrect == Spec => []ControlInv
<1>1. Init => ControlInv
  <2> SUFFICES ASSUME Init PROVE ControlInv
    BY Zenon
  <2>1. NewConfig \in AllConfigs /\ NewConfig.concurrent = 1
    BY Zenon DEF AllConfigs, NewConfig
  <2>2. WorkersBounded
    BY <2>1 DEF Init, WorkersBounded
  <2> QED BY <2>2 DEF Init, ControlInv, SignalSet, DoneEmpty, TermSent, NoSignal, SIGTERM
<1>2. TypeOK /\ ControlInv /\ [Next]_vars => ControlInv'
  BY NextWorkersBounded, NextSignalSet, NextDoneEmpty, NextTermSent, Zenon DEF ControlInv
<1> QED BY <1>1, <1>2, TypeCorrect, PTL DEF Spec

-----------------------------------------------------------------------------
(* What a stop may do to builds and workers                                *)

\* No step aborts a build without a SIGTERM.
LEMMA NextQuitAbortsNothing ==
  ASSUME TypeOK, TermSent, QuitAbortsNothing, [Next]_vars
  PROVE  QuitAbortsNothing'
<1> USE DEF NoSignal, StopSignals, SIGQUIT, SIGTERM
<1>0. job \in [Workers -> Job] /\ sent \in [StopSignals -> Nat]
  BY Zenon DEF TypeOK
<1>1. CASE UNCHANGED vars
  BY <1>1, Zenon DEF QuitAbortsNothing
<1>2. CASE FeederStep \/ StarterStep \/ RunStep \/ MainStep \/ PumpStep \/ Environment \/ Exited
  <2>1. job' = job
    BY <1>2, PoolStep, Zenon
  <2>2. sent'[SIGTERM] >= sent[SIGTERM] /\ sent'[SIGTERM] \in Nat
    <3>1. CASE UNCHANGED sent
      BY <1>0, <3>1
    <3>2. ASSUME NEW s \in SentSignals, SendStopSignal(s)
          PROVE  sent'[SIGTERM] >= sent[SIGTERM] /\ sent'[SIGTERM] \in Nat
      BY <1>0, <3>2, BoundsAssumption DEF SendStopSignal
    <3>3. UNCHANGED sent \/ \E s \in SentSignals : SendStopSignal(s)
      BY <1>2, OutsideControl, Zenon DEF RunStep, RunLoop, ConcurrentFatal, ScaleUp, Scaled, RunSignaled,
           CheckConfig, ReloadConfig, RunFinished, ScaleDown, DrainWorker, MainStep, Stop,
           SessionServerClosed, ShutdownTimeout, ExitFinished, PumpStep, interruptRun, Environment,
           SendReload
    <3> QED BY <3>1, <3>2, <3>3
  <2> QED BY <1>0, <2>1, <2>2 DEF QuitAbortsNothing
<1>3. ASSUME NEW w \in Workers, WorkerStep(w) PROVE QuitAbortsNothing'
  <2>1. UNCHANGED sent
    BY <1>3, OutsideControl, Zenon
  <2>2. CASE BuildAborted(w)
    BY <2>1, <2>2, Zenon DEF BuildAborted, TermSent, QuitAbortsNothing
  <2>3. CASE ~BuildAborted(w)
    <3>1. \A v \in Workers : job'[v] = "aborted" => job[v] = "aborted"
      BY <1>0, <1>3, <2>3, Zenon DEF WorkerStep, WorkerLoop, TakeRunner, AcquireExecutor, AcquireBuild,
           RequestJob, JobAnswered, NewBuild, RequeueFailed, RequeueRunner, BuildFinished,
           RemoveBuild, ReleaseBuild, ReleaseExecutor
    <3> QED BY <2>1, <3>1 DEF QuitAbortsNothing
  <2> QED BY <2>2, <2>3
<1> QED BY <1>1, <1>2, <1>3 DEF Next

\* A build is aborted only after a SIGTERM: SIGQUIT, however often and
\* whenever it comes, lets every build end by itself.
THEOREM QuitNeverAborts == Spec => []QuitAbortsNothing
<1>1. Init => QuitAbortsNothing
  BY Zenon DEF Init, QuitAbortsNothing
<1>2. TypeOK /\ ControlInv /\ QuitAbortsNothing /\ [Next]_vars => QuitAbortsNothing'
  BY NextQuitAbortsNothing, Zenon DEF ControlInv
<1> QED BY <1>1, <1>2, TypeCorrect, ControlCorrect, PTL DEF Spec

\* No worker returns to its select once a stop signal is set: every worker
\* takes at most one more runner.
THEOREM StopAlwaysDrains == Spec => StopDrainsWorkers
<1> DEFINE Step == stopSignal # NoSignal =>
                     \A w \in Workers : pc'[w] = "select" => pc[w] = "select"
<1>1. ASSUME TypeOK, Next PROVE Step
  <2> SUFFICES ASSUME stopSignal # NoSignal, NEW u \in Workers, pc'[u] = "select"
               PROVE  pc[u] = "select"
    BY Zenon
  <2>0. pc \in [Workers -> WorkerPC]
    BY <1>1, Zenon DEF TypeOK
  <2>1. CASE FeederStep \/ StarterStep \/ RunStep \/ MainStep \/ PumpStep \/ Environment \/ Exited
    BY <1>1, <2>0, <2>1, PoolStep, Zenon DEF SpawnWorker, StopWorker, Goto
  <2>2. ASSUME NEW w \in Workers, WorkerStep(w) PROVE pc[u] = "select"
    <3>1. CASE WorkerLoop(w)
      BY <2>0, <3>1, Zenon DEF WorkerLoop, Goto
    <3>2. ASSUME NEW v \in Workers, RequeueRunner(w, v) PROVE pc[u] = "select"
      BY <2>0, <3>2, Zenon DEF RequeueRunner
    <3>3. CASE pc[w] # "loop" /\ WorkerEdge(w)
      BY <2>0, <3>3, Zenon DEF WorkerEdge, Goto
    <3>4. pc[w] = "loop" => WorkerLoop(w)
      BY <2>2, Zenon DEF WorkerStep, TakeRunner, AcquireExecutor, AcquireBuild, RequestJob, JobAnswered,
           NewBuild, RequeueFailed, RequeueRunner, BuildFinished, BuildAborted, RemoveBuild,
           ReleaseBuild, ReleaseExecutor, Goto
    <3> QED BY <2>2, <3>1, <3>2, <3>3, <3>4, WorkerStepEdge
  <2> QED BY <1>1, <2>1, <2>2 DEF Next
<1>2. TypeOK /\ [Next]_vars => [Step]_vars
  BY <1>1, Zenon
<1> QED BY <1>2, TypeCorrect, PTL DEF Spec, StopDrainsWorkers

\* A worker leaves no job it got from GitLab unreported, on any path out of
\* processRunner.
THEOREM JobsAlwaysReported == Spec => JobsReported
<1> DEFINE Step == \A w \in Workers : job[w] = "open" => job'[w] # "none"
<1>1. ASSUME TypeOK, JobHeld, Next PROVE Step
  <2> SUFFICES ASSUME NEW u \in Workers, job[u] = "open"
               PROVE  job'[u] # "none"
    BY Zenon
  <2>0. job \in [Workers -> Job]
    BY <1>1, Zenon DEF TypeOK
  <2>1. CASE FeederStep \/ StarterStep \/ RunStep \/ MainStep \/ PumpStep \/ Environment \/ Exited
    BY <1>1, <2>1, PoolStep, Zenon
  <2>2. ASSUME NEW w \in Workers, WorkerStep(w) PROVE job'[u] # "none"
    <3>1. CASE ReleaseExecutor(w)
      <4>1. job[w] # "open"
        BY <1>1, <3>1, Zenon DEF ReleaseExecutor, Goto, JobHeld
      <4> QED BY <2>0, <3>1, <4>1 DEF ReleaseExecutor
    <3>2. CASE ~ReleaseExecutor(w)
      BY <2>0, <2>2, <3>2, Zenon DEF WorkerStep, WorkerLoop, TakeRunner, AcquireExecutor, AcquireBuild,
           RequestJob, JobAnswered, NewBuild, RequeueFailed, RequeueRunner, BuildFinished,
           BuildAborted, RemoveBuild, ReleaseBuild
    <3> QED BY <3>1, <3>2
  <2> QED BY <1>1, <2>1, <2>2 DEF Next
<1>2. TypeOK /\ JobHeld /\ [Next]_vars => [Step]_vars
  BY <1>1, Zenon
<1> QED BY <1>2, TypeCorrect, HeldCorrect, PTL DEF Spec, JobsReported

=============================================================================
