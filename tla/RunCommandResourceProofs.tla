---------------------- MODULE RunCommandResourceProofs ----------------------
(***************************************************************************)
(* What the workers hold: the counters of buildsHelper, the executors and  *)
(* the list of builds match it exactly, stay within the configured limits, *)
(* and are all given back when the process has finished; the list has one  *)
(* build for each worker that runs one, never more than `concurrent`, with *)
(* numbers that do not clash.                                              *)
(***************************************************************************)
EXTENDS RunCommandProofs


\* The tuples that actions leave unchanged.
USE DEF vars, buildsHelperVars, workerVars, runVars, mainVars, NotWorker, NotRun, NotMain

-----------------------------------------------------------------------------
(* How a move of worker w changes the set of workers holding something.    *)

\* The holders can be counted.
LEMMA HoldersFinite ==
  ASSUME NEW t, NEW S
  PROVE  /\ IsFiniteSet(Holders(t, S)) /\ Cardinality(Holders(t, S)) \in Nat
         /\ IsFiniteSet(Holders(t, S)') /\ Cardinality(Holders(t, S)') \in Nat
  BY WorkersAssumption, FS_Subset, FS_CardinalityType, Zenon DEF Holders

\* A move inside S, or outside it, changes nothing.
LEMMA MoveWithin ==
  ASSUME TypeOK, NEW w \in Workers, NEW from, NEW to, Goto(w, from, to),
         \A v \in Workers \ {w} : runner'[v] = runner[v],
         NEW S, from \in S <=> to \in S, from \in S => runner'[w] = runner[w],
         NEW t
  PROVE  Holders(t, S)' = Holders(t, S)
<1>1. pc \in [Workers -> WorkerPC]
  BY Zenon DEF TypeOK
<1> QED BY <1>1 DEF Holders, Goto

\* A move into S adds the worker.
LEMMA MoveInto ==
  ASSUME TypeOK, NEW w \in Workers, NEW from, NEW to, Goto(w, from, to),
         UNCHANGED runner, NEW S, from \notin S, to \in S, NEW t
  PROVE  Cardinality(Holders(t, S)') =
           Cardinality(Holders(t, S)) + (IF runner[w].token = t THEN 1 ELSE 0)
<1>0. pc \in [Workers -> WorkerPC]
  BY Zenon DEF TypeOK
<1>1. CASE runner[w].token = t
  <2>1. w \notin Holders(t, S) /\ Holders(t, S)' = Holders(t, S) \cup {w}
    BY <1>0, <1>1, Zenon DEF Holders, Goto
  <2> QED BY <1>1, <2>1, HoldersFinite, FS_AddElement, Zenon
<1>2. CASE runner[w].token # t
  <2>1. Holders(t, S)' = Holders(t, S)
    BY <1>0, <1>2, Zenon DEF Holders, Goto
  <2> QED BY <1>2, <2>1, HoldersFinite
<1> QED BY <1>1, <1>2

\* A move out of S removes it.
LEMMA MoveOutOf ==
  ASSUME TypeOK, NEW w \in Workers, NEW from, NEW to, Goto(w, from, to),
         \A v \in Workers \ {w} : runner'[v] = runner[v],
         NEW S, from \in S, to \notin S, NEW t
  PROVE  Cardinality(Holders(t, S)') =
           Cardinality(Holders(t, S)) - (IF runner[w].token = t THEN 1 ELSE 0)
<1>0. pc \in [Workers -> WorkerPC]
  BY Zenon DEF TypeOK
<1>1. CASE runner[w].token = t
  <2>1. w \in Holders(t, S) /\ Holders(t, S)' = Holders(t, S) \ {w}
    BY <1>0, <1>1, Zenon DEF Holders, Goto
  <2> QED BY <1>1, <2>1, HoldersFinite, FS_RemoveElement, Zenon
<1>2. CASE runner[w].token # t
  <2>1. Holders(t, S)' = Holders(t, S)
    BY <1>0, <1>2, Zenon DEF Holders, Goto
  <2> QED BY <1>2, <2>1, HoldersFinite
<1> QED BY <1>1, <1>2

\* Outside the workers' steps nobody holds more or less than before.
LEMMA PoolHolders ==
  ASSUME TypeOK, NEW S, S \subseteq HoldsExecutor, NEW t,
         FeederStep \/ StarterStep \/ RunStep \/ MainStep \/ PumpStep \/ Environment \/ Exited
  PROVE  Holders(t, S)' = Holders(t, S)
<1>0. pc \in [Workers -> WorkerPC]
  BY Zenon DEF TypeOK
<1> QED
  BY <1>0, PoolStep, Zenon DEF Holders, SpawnWorker, StopWorker, Goto, HoldsExecutor, HoldsBuild,
     HasBuild, HoldsRequest

-----------------------------------------------------------------------------
(* The counters and the executors                                          *)

\* What the counter operations do to each field.
LEMMA CounterFields ==
  ASSUME TypeOK, NEW r, r.token \in Tokens, NEW t \in Tokens
  PROVE  /\ counters[t].builds \in Nat /\ counters[t].requests \in Nat
         /\ acquireBuild(r) =>
              /\ counters'[t].builds = counters[t].builds + (IF r.token = t THEN 1 ELSE 0)
              /\ counters'[t].requests = counters[t].requests
         /\ releaseBuild(r) =>
              /\ counters'[t].builds = IF r.token = t /\ counters[t].builds > 0
                                       THEN counters[t].builds - 1 ELSE counters[t].builds
              /\ counters'[t].requests = counters[t].requests
         /\ acquireRequest(r) =>
              /\ counters'[t].requests = counters[t].requests + (IF r.token = t THEN 1 ELSE 0)
              /\ counters'[t].builds = counters[t].builds
         /\ releaseRequest(r) =>
              /\ counters'[t].requests = IF r.token = t /\ counters[t].requests > 0
                                         THEN counters[t].requests - 1 ELSE counters[t].requests
              /\ counters'[t].builds = counters[t].builds
<1> DEFINE k == r.token
<1>1. /\ counters \in [Tokens -> RunnerCounter]
      /\ counters[t] \in [builds: Nat, requests: Nat]
      /\ counters[k] \in [builds: Nat, requests: Nat] /\ k \in Tokens
  BY Zenon DEF TypeOK, RunnerCounter
<1> HIDE DEF k
<1>2. acquireBuild(r) =>
        /\ counters'[t].builds = counters[t].builds + (IF r.token = t THEN 1 ELSE 0)
        /\ counters'[t].requests = counters[t].requests
  BY <1>1 DEF acquireBuild, k
<1>3. releaseBuild(r) =>
        /\ counters'[t].builds = IF r.token = t /\ counters[t].builds > 0
                                 THEN counters[t].builds - 1 ELSE counters[t].builds
        /\ counters'[t].requests = counters[t].requests
  BY <1>1 DEF releaseBuild, k
<1>4. acquireRequest(r) =>
        /\ counters'[t].requests = counters[t].requests + (IF r.token = t THEN 1 ELSE 0)
        /\ counters'[t].builds = counters[t].builds
  BY <1>1 DEF acquireRequest, k
<1>5. releaseRequest(r) =>
        /\ counters'[t].requests = IF r.token = t /\ counters[t].requests > 0
                                   THEN counters[t].requests - 1 ELSE counters[t].requests
        /\ counters'[t].builds = counters[t].builds
  BY <1>1 DEF releaseRequest, k
<1> QED BY <1>1, <1>2, <1>3, <1>4, <1>5

\* Handing the runner on changes nothing.
LEMMA RequeueHolders ==
  ASSUME TypeOK, NEW w \in Workers, NEW v \in Workers, RequeueRunner(w, v), NEW t,
         NEW S \in {HoldsBuild, HoldsRequest, HoldsExecutor}
  PROVE  Holders(t, S)' = Holders(t, S)
<1>1. pc \in [Workers -> WorkerPC] /\ runner \in [Workers -> RunnerConfigs \cup {NoRunner}]
  BY Zenon DEF TypeOK
<1>2. "select" \notin S /\ "acquire" \notin S /\ ("requeue" \in S <=> "running" \in S)
  BY Zenon DEF HoldsExecutor, HoldsBuild, HasBuild, HoldsRequest
<1> QED BY <1>1, <1>2 DEF RequeueRunner, Holders

\* Each step of a worker changes the counters as it changes the holders.
LEMMA WorkerResources ==
  ASSUME TypeOK, RunnerHeld, ResourcesAccounted, NEW w \in Workers, WorkerStep(w)
  PROVE  ResourcesAccounted'
<1> SUFFICES ASSUME NEW t \in Tokens
             PROVE  /\ counters'[t].builds   = Cardinality(Holders(t, HoldsBuild)')
                    /\ counters'[t].requests = Cardinality(Holders(t, HoldsRequest)')
                    /\ acquired'[t]          = Cardinality(Holders(t, HoldsExecutor)')
  BY Zenon DEF ResourcesAccounted
<1> DEFINE B == Cardinality(Holders(t, HoldsBuild))
           R == Cardinality(Holders(t, HoldsRequest))
           E == Cardinality(Holders(t, HoldsExecutor))
           k == runner[w].token
<1>0. /\ counters[t].builds = B /\ counters[t].requests = R /\ acquired[t] = E
      /\ B \in Nat /\ R \in Nat /\ E \in Nat /\ B' \in Nat /\ R' \in Nat /\ E' \in Nat
  BY HoldersFinite, Zenon DEF ResourcesAccounted
<1>1. acquired \in [Tokens -> Int] /\ runner \in [Workers -> RunnerConfigs \cup {NoRunner}]
  BY Zenon DEF TypeOK
<1>2. pc[w] \in HoldsExecutor \cup {"acquire"} => k \in Tokens
  BY HolderHasToken, Zenon
\* Moves that keep to one side of S.
<1>w. ASSUME NEW from, NEW to, Goto(w, from, to), \A v \in Workers \ {w} : runner'[v] = runner[v],
             from \in HoldsExecutor => runner'[w] = runner[w] \/ to \notin HoldsExecutor
      PROVE  /\ (from \in HoldsBuild <=> to \in HoldsBuild)
                   /\ (from \in HoldsBuild => runner'[w] = runner[w]) => B' = B
             /\ (from \in HoldsRequest <=> to \in HoldsRequest)
                   /\ (from \in HoldsRequest => runner'[w] = runner[w]) => R' = R
             /\ (from \in HoldsExecutor <=> to \in HoldsExecutor) => E' = E
  BY <1>w, MoveWithin, Zenon
<1> HIDE DEF B, R, E, k
<1> USE DEF HoldsExecutor, HoldsBuild, HasBuild, HoldsRequest
<1>3. CASE AcquireExecutor(w)
  <2>1. CASE Goto(w, "acquire", "limit") /\ acquired' = [acquired EXCEPT ![k] = @ + 1] /\ UNCHANGED runner
    <3>1. B' = B /\ R' = R
      BY <2>1, <1>w
    <3>2. E' = E + (IF k = t THEN 1 ELSE 0)
      BY <2>1, MoveInto DEF E, k
    <3>3. k \in Tokens /\ acquired'[t] = acquired[t] + (IF k = t THEN 1 ELSE 0)
      BY <1>0, <1>1, <1>2, <2>1 DEF Goto
    <3> QED BY <1>0, <1>3, <3>1, <3>2, <3>3 DEF AcquireExecutor, B, R, E
  <2>2. CASE Goto(w, "acquire", "loop") /\ runner' = [runner EXCEPT ![w] = NoRunner] /\ UNCHANGED acquired
    <3>1. B' = B /\ R' = R /\ E' = E
      BY <1>1, <2>2, <1>w
    <3> QED BY <1>0, <1>3, <2>2, <3>1 DEF AcquireExecutor, B, R, E
  <2> QED BY <1>3, <2>1, <2>2 DEF AcquireExecutor, k
<1>4. CASE AcquireBuild(w)
  <2>1. CASE Goto(w, "limit", "request") /\ acquireBuild(runner[w])
    <3>1. UNCHANGED <<runner, acquired>>
      BY <1>4, Zenon DEF AcquireBuild
    <3>2. R' = R /\ E' = E
      BY <2>1, <3>1, <1>w
    <3>3. B' = B + (IF k = t THEN 1 ELSE 0)
      BY <2>1, <3>1, MoveInto DEF B, k
    <3>4. /\ counters'[t].builds = counters[t].builds + (IF k = t THEN 1 ELSE 0)
          /\ counters'[t].requests = counters[t].requests
      BY <1>2, <2>1, CounterFields, Zenon DEF Goto, k
    <3> QED BY <1>0, <3>1, <3>2, <3>3, <3>4 DEF B, R, E
  <2>2. CASE Goto(w, "limit", "releaseExecutor") /\ UNCHANGED buildsHelperVars
    <3>1. UNCHANGED <<runner, acquired>>
      BY <1>4, Zenon DEF AcquireBuild
    <3>2. B' = B /\ R' = R /\ E' = E
      BY <2>2, <3>1, <1>w
    <3> QED BY <1>0, <2>2, <3>1, <3>2 DEF B, R, E
  <2> QED BY <1>4, <2>1, <2>2 DEF AcquireBuild
<1>5. CASE RequestJob(w)
  <2>1. UNCHANGED <<runner, acquired>>
    BY <1>5, Zenon DEF RequestJob
  <2>2. CASE Goto(w, "request", "requesting") /\ acquireRequest(runner[w])
    <3>1. B' = B /\ E' = E
      BY <2>1, <2>2, <1>w, Zenon
    <3>2. R' = R + (IF k = t THEN 1 ELSE 0)
      BY <2>1, <2>2, MoveInto DEF R, k
    <3>3. /\ counters'[t].requests = counters[t].requests + (IF k = t THEN 1 ELSE 0)
          /\ counters'[t].builds = counters[t].builds
      BY <1>2, <2>2, CounterFields, Zenon DEF Goto, k
    <3> QED BY <1>0, <2>1, <3>1, <3>2, <3>3 DEF B, R, E
  <2>3. CASE Goto(w, "request", "release") /\ UNCHANGED buildsHelperVars
    <3>1. B' = B /\ R' = R /\ E' = E
      BY <2>1, <2>3, <1>w
    <3> QED BY <1>0, <2>1, <2>3, <3>1 DEF B, R, E
  <2> QED BY <1>5, <2>2, <2>3 DEF RequestJob
<1>6. CASE JobAnswered(w)
  <2>1. UNCHANGED <<runner, acquired>> /\ releaseRequest(runner[w])
    BY <1>6, Zenon DEF JobAnswered
  <2>2. PICK to \in {"build", "release"} : Goto(w, "requesting", to)
    BY <1>6, Zenon DEF JobAnswered
  <2>3. B' = B /\ E' = E
    BY <2>1, <2>2, <1>w, Zenon
  <2>4. R' = R - (IF k = t THEN 1 ELSE 0)
    BY <2>1, <2>2, MoveOutOf, Zenon DEF R, k
  <2>5. /\ counters'[t].requests = IF k = t /\ counters[t].requests > 0
                                   THEN counters[t].requests - 1 ELSE counters[t].requests
        /\ counters'[t].builds = counters[t].builds
    BY <1>2, <2>1, <2>2, CounterFields, Zenon DEF Goto, k
  <2> QED BY <1>0, <2>1, <2>3, <2>4, <2>5 DEF B, R, E
<1>7. CASE ReleaseBuild(w)
  <2>1. UNCHANGED <<runner, acquired>> /\ releaseBuild(runner[w]) /\ Goto(w, "release", "releaseExecutor")
    BY <1>7, Zenon DEF ReleaseBuild
  <2>2. R' = R /\ E' = E
    BY <2>1, <1>w
  <2>3. B' = B - (IF k = t THEN 1 ELSE 0)
    BY <2>1, MoveOutOf DEF B, k
  <2>4. /\ counters'[t].builds = IF k = t /\ counters[t].builds > 0
                                 THEN counters[t].builds - 1 ELSE counters[t].builds
        /\ counters'[t].requests = counters[t].requests
    BY <1>2, <2>1, CounterFields, Zenon DEF Goto, k
  <2> QED BY <1>0, <2>1, <2>2, <2>3, <2>4 DEF B, R, E
<1>8. CASE ReleaseExecutor(w)
  <2>1. /\ Goto(w, "releaseExecutor", "loop") /\ acquired' = [acquired EXCEPT ![k] = @ - 1]
        /\ runner' = [runner EXCEPT ![w] = NoRunner] /\ UNCHANGED buildsHelperVars
    BY <1>8, Zenon DEF ReleaseExecutor, k
  <2>2. \A v \in Workers \ {w} : runner'[v] = runner[v]
    BY <1>1, <2>1, Zenon
  <2>3. B' = B /\ R' = R
    BY <2>1, <2>2, <1>w
  <2>4. E' = E - (IF k = t THEN 1 ELSE 0)
    BY <2>1, <2>2, MoveOutOf DEF E, k
  <2>5. k \in Tokens /\ acquired'[t] = acquired[t] - (IF k = t THEN 1 ELSE 0)
    BY <1>0, <1>1, <1>2, <2>1 DEF Goto
  <2> QED BY <1>0, <2>1, <2>3, <2>4, <2>5 DEF B, R, E
<1>9. ASSUME NEW v \in Workers, RequeueRunner(w, v)
      PROVE  /\ counters'[t].builds   = Cardinality(Holders(t, HoldsBuild)')
             /\ counters'[t].requests = Cardinality(Holders(t, HoldsRequest)')
             /\ acquired'[t]          = Cardinality(Holders(t, HoldsExecutor)')
  <2>1. B' = B /\ R' = R /\ E' = E
    BY <1>9, RequeueHolders, Zenon DEF B, R, E
  <2> QED BY <1>0, <1>9, <2>1 DEF RequeueRunner, B, R, E
<1>10. CASE \/ WorkerLoop(w) \/ TakeRunner(w) \/ NewBuild(w) \/ RequeueFailed(w)
            \/ BuildFinished(w) \/ BuildAborted(w) \/ RemoveBuild(w)
  <2>1. UNCHANGED <<counters, acquired>>
    BY <1>10, Zenon DEF WorkerLoop, TakeRunner, NewBuild, RequeueFailed, BuildFinished, BuildAborted,
         RemoveBuild, addBuild, removeBuild
  <2>2. CASE TakeRunner(w)
    <3>1. Goto(w, "select", "acquire") /\ \A v \in Workers \ {w} : runner'[v] = runner[v]
      BY <1>1, <2>2, Zenon DEF TakeRunner
    <3>2. B' = B /\ R' = R /\ E' = E
      BY <3>1, <1>w
    <3> QED BY <1>0, <2>1, <3>2 DEF B, R, E
  <2>3. CASE ~TakeRunner(w)
    <3>1. UNCHANGED runner
      BY <1>10, <2>3, Zenon DEF WorkerLoop, NewBuild, RequeueFailed, BuildFinished, BuildAborted, RemoveBuild
    <3>2. PICK from, to :
            /\ Goto(w, from, to)
            /\ \/ from = "loop" /\ to \in {"select", "drain"}
               \/ from \in {"build", "requeue", "running", "remove"}
                    /\ to \in {"requeue", "running", "remove", "release"}
      BY <1>10, <2>3, Zenon DEF WorkerLoop, NewBuild, RequeueFailed, BuildFinished, BuildAborted, RemoveBuild
    <3>3. B' = B /\ R' = R /\ E' = E
      BY <3>1, <3>2, <1>w, Zenon
    <3> QED BY <1>0, <2>1, <3>3 DEF B, R, E
  <2> QED BY <2>2, <2>3
<1> QED
  BY <1>3, <1>4, <1>5, <1>6, <1>7, <1>8, <1>9, <1>10, Zenon DEF WorkerStep

\* So does every other step.
LEMMA NextResourcesAccounted ==
  ASSUME TypeOK, RunnerHeld, ResourcesAccounted, [Next]_vars
  PROVE  ResourcesAccounted'
<1>1. CASE UNCHANGED vars
  BY <1>1, Zenon DEF ResourcesAccounted, Holders
<1>2. CASE FeederStep \/ StarterStep \/ RunStep \/ MainStep \/ PumpStep \/ Environment \/ Exited
  <2>1. UNCHANGED <<counters, acquired>>
    BY <1>2, PoolStep, Zenon
  <2>2. \A t \in Tokens : /\ Holders(t, HoldsBuild)' = Holders(t, HoldsBuild)
                          /\ Holders(t, HoldsRequest)' = Holders(t, HoldsRequest)
                          /\ Holders(t, HoldsExecutor)' = Holders(t, HoldsExecutor)
    <3>1. HoldsBuild \subseteq HoldsExecutor /\ HoldsRequest \subseteq HoldsExecutor
      BY Zenon DEF HoldsExecutor, HoldsBuild, HoldsRequest
    <3> QED BY <1>2, <3>1, PoolHolders
  <2> QED BY <2>1, <2>2 DEF ResourcesAccounted
<1> QED BY <1>1, <1>2, WorkerResources DEF Next

\* At the start nothing is held.
LEMMA InitResourcesAccounted == Init => ResourcesAccounted
<1> SUFFICES ASSUME Init, NEW t \in Tokens
             PROVE  /\ counters[t].builds   = Cardinality(Holders(t, HoldsBuild))
                    /\ counters[t].requests = Cardinality(Holders(t, HoldsRequest))
                    /\ acquired[t]          = Cardinality(Holders(t, HoldsExecutor))
  BY Zenon DEF ResourcesAccounted
<1>1. Holders(t, HoldsBuild) = {} /\ Holders(t, HoldsRequest) = {} /\ Holders(t, HoldsExecutor) = {}
  BY Zenon DEF Init, Holders, HoldsExecutor, HoldsBuild, HasBuild, HoldsRequest
<1> QED BY <1>1, FS_EmptySet DEF Init, BuildsHelperInit

\* The counters and the executors taken are exactly what the workers hold, on
\* every path of processRunner, for any number of workers and tokens.
THEOREM ResourcesAlwaysAccounted == Spec => []ResourcesAccounted
<1>1. Init => ResourcesAccounted
  BY InitResourcesAccounted, Zenon
<1>2. TypeOK /\ RunnerHeld /\ ResourcesAccounted /\ [Next]_vars => ResourcesAccounted'
  BY NextResourcesAccounted, Zenon
<1> QED BY <1>1, <1>2, TypeCorrect, HeldCorrect, PTL DEF Spec

-----------------------------------------------------------------------------
(* The limits                                                              *)

\* Only acquireBuild raises the count of builds, and only acquireRequest that
\* of requests; both are called with a configured runner.
LEMMA CountersRise ==
  ASSUME TypeOK, RunnerHeld, [Next]_vars, NEW t \in Tokens
  PROVE  /\ \/ counters'[t].builds <= counters[t].builds
            \/ \E r \in RunnerConfigs : acquireBuild(r) /\ r.token = t
         /\ \/ counters'[t].requests <= counters[t].requests
            \/ \E r \in RunnerConfigs : acquireRequest(r) /\ r.token = t
<1>0. counters[t].builds \in Nat /\ counters[t].requests \in Nat
  BY Zenon DEF TypeOK, RunnerCounter
<1>1. CASE counters' = counters
  BY <1>0, <1>1
<1>2. ASSUME NEW w \in Workers, WorkerStep(w), counters' # counters
      PROVE  /\ \/ counters'[t].builds <= counters[t].builds
                \/ \E r \in RunnerConfigs : acquireBuild(r) /\ r.token = t
             /\ \/ counters'[t].requests <= counters[t].requests
                \/ \E r \in RunnerConfigs : acquireRequest(r) /\ r.token = t
  <2>1. \/ acquireBuild(runner[w]) /\ pc[w] = "limit"
        \/ releaseBuild(runner[w]) /\ pc[w] = "release"
        \/ acquireRequest(runner[w]) /\ pc[w] = "request"
        \/ releaseRequest(runner[w]) /\ pc[w] = "requesting"
    BY <1>2, Zenon DEF WorkerStep, WorkerLoop, TakeRunner, AcquireExecutor, AcquireBuild, RequestJob,
         JobAnswered, NewBuild, RequeueFailed, RequeueRunner, BuildFinished, BuildAborted,
         RemoveBuild, ReleaseBuild, ReleaseExecutor, addBuild, removeBuild, Goto
  <2>2. runner[w] \in RunnerConfigs /\ runner[w].token \in Tokens
    BY <2>1, HolderHasToken, Zenon DEF HoldsExecutor, HoldsBuild, HasBuild, HoldsRequest
  <2> DEFINE r == runner[w]
  <2>3. r \in RunnerConfigs /\ r.token \in Tokens
    BY <2>2, Zenon
  <2>4. acquireBuild(r) \/ releaseBuild(r) \/ acquireRequest(r) \/ releaseRequest(r)
    BY <2>1, Zenon
  <2> HIDE DEF r
  <2> QED BY <1>0, <2>3, <2>4, CounterFields
<1>3. ASSUME ~ \E w \in Workers : WorkerStep(w) PROVE counters' = counters
  BY <1>3, PoolStep, Zenon DEF Next
<1> QED BY <1>1, <1>2, <1>3

\* acquireBuild counts up only below the limit.
LEMMA NextLimitRespected ==
  ASSUME TypeOK, RunnerHeld, ResourcesAccounted, LimitRespected, [Next]_vars
  PROVE  LimitRespected'
<1> SUFFICES ASSUME NEW r \in RunnerConfigs,
                    \A q \in RunnerConfigs : q.token = r.token => 0 < q.limit /\ q.limit <= r.limit
             PROVE  Cardinality(Holders(r.token, HoldsBuild)') <= r.limit
  BY Zenon DEF LimitRespected
<1>1. r.token \in Tokens /\ r.limit \in Int /\ \A q \in RunnerConfigs : q.limit \in Int
  BY RunnerConfigsAssumption, Zenon
<1>2. counters[r.token].builds <= r.limit /\ counters[r.token].builds \in Nat
  BY <1>1, Zenon DEF LimitRespected, ResourcesAccounted, TypeOK, RunnerCounter
<1>3. counters'[r.token].builds = Cardinality(Holders(r.token, HoldsBuild)')
  BY <1>1, NextResourcesAccounted, Zenon DEF ResourcesAccounted
<1>4. Cardinality(Holders(r.token, HoldsBuild)') \in Nat
  BY HoldersFinite, Zenon
<1>5. CASE counters'[r.token].builds <= counters[r.token].builds
  BY <1>1, <1>2, <1>3, <1>4, <1>5
<1>6. ASSUME NEW q \in RunnerConfigs, acquireBuild(q), q.token = r.token
      PROVE  Cardinality(Holders(r.token, HoldsBuild)') <= r.limit
  <2>1. counters[r.token].builds < q.limit
    BY <1>1, <1>2, <1>6 DEF acquireBuild, BuildLimitMet
  <2>2. counters'[r.token].builds = counters[r.token].builds + 1
    BY <1>1, <1>6, CounterFields, Zenon
  <2>3. q.limit <= r.limit /\ q.limit \in Int
    BY <1>1, <1>6, Zenon
  <2> QED BY <1>1, <1>2, <1>3, <2>1, <2>2, <2>3
<1> QED BY <1>1, <1>5, <1>6, CountersRise

\* No token runs more jobs than the most generous limit it was ever given.
THEOREM LimitAlwaysRespected == Spec => []LimitRespected
<1>1. Init => LimitRespected
  <2> SUFFICES ASSUME Init, NEW r \in RunnerConfigs,
                      \A q \in RunnerConfigs : q.token = r.token => 0 < q.limit /\ q.limit <= r.limit
               PROVE  Cardinality(Holders(r.token, HoldsBuild)) <= r.limit
    BY Zenon DEF LimitRespected
  <2>1. r.token \in Tokens /\ r.limit \in Int /\ 0 < r.limit
    BY RunnerConfigsAssumption, Zenon
  <2>2. Cardinality(Holders(r.token, HoldsBuild)) = 0
    BY <2>1, InitResourcesAccounted, Zenon DEF ResourcesAccounted, Init, BuildsHelperInit
  <2> QED BY <2>1, <2>2
<1>2. TypeOK /\ RunnerHeld /\ ResourcesAccounted /\ LimitRespected /\ [Next]_vars => LimitRespected'
  BY NextLimitRespected, Zenon
<1> QED BY <1>1, <1>2, TypeCorrect, HeldCorrect, ResourcesAlwaysAccounted, PTL DEF Spec

\* GetRequestConcurrency is at least one.
LEMMA RequestConcurrencyInt ==
  ASSUME NEW r \in RunnerConfigs
  PROVE  GetRequestConcurrency(r) \in Int /\ GetRequestConcurrency(r) >= 1
  BY RunnerConfigsAssumption DEF GetRequestConcurrency

\* acquireRequest counts up only below request_concurrency.
LEMMA NextRequestConcurrency ==
  ASSUME TypeOK, RunnerHeld, ResourcesAccounted, RequestConcurrencyRespected, [Next]_vars
  PROVE  RequestConcurrencyRespected'
<1> SUFFICES ASSUME NEW r \in RunnerConfigs,
                    \A q \in RunnerConfigs :
                      q.token = r.token => GetRequestConcurrency(q) <= GetRequestConcurrency(r)
             PROVE  Cardinality(Holders(r.token, HoldsRequest)') <= GetRequestConcurrency(r)
  BY Zenon DEF RequestConcurrencyRespected
<1>1. r.token \in Tokens /\ GetRequestConcurrency(r) \in Int
  BY RunnerConfigsAssumption, RequestConcurrencyInt, Zenon
<1>2. counters[r.token].requests <= GetRequestConcurrency(r) /\ counters[r.token].requests \in Nat
  BY <1>1, Zenon DEF RequestConcurrencyRespected, ResourcesAccounted, TypeOK, RunnerCounter
<1>3. counters'[r.token].requests = Cardinality(Holders(r.token, HoldsRequest)')
  BY <1>1, NextResourcesAccounted, Zenon DEF ResourcesAccounted
<1>4. Cardinality(Holders(r.token, HoldsRequest)') \in Nat
  BY HoldersFinite, Zenon
<1>5. CASE counters'[r.token].requests <= counters[r.token].requests
  BY <1>1, <1>2, <1>3, <1>4, <1>5
<1>6. ASSUME NEW q \in RunnerConfigs, acquireRequest(q), q.token = r.token
      PROVE  Cardinality(Holders(r.token, HoldsRequest)') <= GetRequestConcurrency(r)
  <2>0. GetRequestConcurrency(q) <= GetRequestConcurrency(r) /\ GetRequestConcurrency(q) \in Int
    BY <1>6, RequestConcurrencyInt, Zenon
  <2>1. counters[r.token].requests < GetRequestConcurrency(q)
    BY <1>2, <1>6, <2>0 DEF acquireRequest, RequestConcurrencyMet
  <2>2. counters'[r.token].requests = counters[r.token].requests + 1
    BY <1>1, <1>6, CounterFields, Zenon
  <2> QED BY <1>1, <1>2, <1>3, <2>0, <2>1, <2>2
<1> QED BY <1>1, <1>5, <1>6, CountersRise

\* No token has more job requests in flight than the highest
\* request_concurrency it was ever given.
THEOREM RequestConcurrencyAlwaysRespected == Spec => []RequestConcurrencyRespected
<1>1. Init => RequestConcurrencyRespected
  <2> SUFFICES ASSUME Init, NEW r \in RunnerConfigs
               PROVE  Cardinality(Holders(r.token, HoldsRequest)) <= GetRequestConcurrency(r)
    BY Zenon DEF RequestConcurrencyRespected
  <2>1. r.token \in Tokens
    BY RunnerConfigsAssumption, Zenon
  <2>2. Cardinality(Holders(r.token, HoldsRequest)) = 0
    BY <2>1, InitResourcesAccounted, Zenon DEF ResourcesAccounted, Init, BuildsHelperInit
  <2> QED BY <2>2, RequestConcurrencyInt
<1>2. TypeOK /\ RunnerHeld /\ ResourcesAccounted /\ RequestConcurrencyRespected /\ [Next]_vars
        => RequestConcurrencyRespected'
  BY NextRequestConcurrency, Zenon
<1> QED BY <1>1, <1>2, TypeCorrect, HeldCorrect, ResourcesAlwaysAccounted, PTL DEF Spec

-----------------------------------------------------------------------------

\* The workers that have a build.
Builders == {w \in Workers : pc[w] \in HasBuild}

\* addBuild and removeBuild follow the worker.
LEMMA NextBuildsListed ==
  ASSUME TypeOK, RunnerHeld, BuildsListed, [Next]_vars
  PROVE  BuildsListed'
<1> USE DEF HasBuild
<1>0. /\ pc \in [Workers -> WorkerPC] /\ runner \in [Workers -> RunnerConfigs \cup {NoRunner}]
      /\ builds \subseteq Build
  BY Zenon DEF TypeOK
<1>w. \A b \in builds : b.worker \in Workers /\ pc[b.worker] \in HasBuild
  BY Zenon DEF BuildsListed
\* A step that leaves the list, the builders and their runners alone.
<1>s. ASSUME builds' = builds,
             \A v \in Workers : pc'[v] \in HasBuild <=> pc[v] \in HasBuild,
             \A v \in Workers : pc[v] \in HasBuild => runner'[v] = runner[v]
      PROVE  BuildsListed'
  <2>1. {b.worker : b \in builds'} = {v \in Workers : pc'[v] \in HasBuild}
    BY <1>s, Zenon DEF BuildsListed
  <2>2. \A b \in builds' : b.token = runner'[b.worker].token
    BY <1>s, <1>w, Zenon DEF BuildsListed
  <2>3. \A b, c \in builds' : b.worker = c.worker => b = c
    BY <1>s, Zenon DEF BuildsListed
  <2> QED BY <2>1, <2>2, <2>3 DEF BuildsListed
<1>1. CASE UNCHANGED vars
  BY <1>1, <1>s, Zenon
<1>2. CASE FeederStep \/ StarterStep \/ RunStep \/ MainStep \/ PumpStep \/ Environment \/ Exited
  <2>1. builds' = builds /\ runner' = runner
    BY <1>2, PoolStep, Zenon
  <2>2. \A v \in Workers : pc'[v] \in HasBuild <=> pc[v] \in HasBuild
    BY <1>0, <1>2, PoolStep, Zenon DEF SpawnWorker, StopWorker, Goto
  <2> QED BY <1>s, <2>1, <2>2
<1>3. ASSUME NEW w \in Workers, WorkerStep(w) PROVE BuildsListed'
  <2>1. CASE Goto(w, "build", "requeue") /\ NewBuild(w)
    <3>1. PICK p \in Projects : addBuild(w, runner[w].token, p)
      BY <1>0, <2>1, Zenon DEF NewBuild, Goto
    <3>2. PICK new : new.worker = w /\ new.token = runner[w].token /\ builds' = builds \cup {new}
      BY <3>1, Zenon DEF addBuild
    <3>3. UNCHANGED runner /\ pc' = [pc EXCEPT ![w] = "requeue"] /\ pc[w] = "build"
      BY <2>1, Zenon DEF NewBuild, Goto
    <3>4. \A b \in builds : b.worker # w
      BY <1>w, <3>3, Zenon
    <3>5. {b.worker : b \in builds'} = {v \in Workers : pc'[v] \in HasBuild}
      <4>1. {b.worker : b \in builds'} = {b.worker : b \in builds} \cup {w}
        BY <3>2, Zenon
      <4>2. {v \in Workers : pc'[v] \in HasBuild} = {v \in Workers : pc[v] \in HasBuild} \cup {w}
        BY <1>0, <3>3, Zenon
      <4> QED BY <4>1, <4>2 DEF BuildsListed
    <3>6. \A b \in builds' : b.token = runner'[b.worker].token
      BY <3>2, <3>3, Zenon DEF BuildsListed
    <3>7. \A b, c \in builds' : b.worker = c.worker => b = c
      BY <3>2, <3>4, Zenon DEF BuildsListed
    <3> QED BY <3>5, <3>6, <3>7 DEF BuildsListed
  <2>2. CASE RemoveBuild(w)
    <3>1. /\ UNCHANGED runner /\ pc' = [pc EXCEPT ![w] = "release"] /\ pc[w] = "remove"
          /\ builds' = {b \in builds : b.worker # w}
      BY <2>2, Zenon DEF RemoveBuild, Goto, removeBuild
    <3>2. {b.worker : b \in builds'} = {v \in Workers : pc'[v] \in HasBuild}
      <4>1. {b.worker : b \in builds'} = {b.worker : b \in builds} \ {w}
        BY <3>1, Zenon
      <4>2. {v \in Workers : pc'[v] \in HasBuild} = {v \in Workers : pc[v] \in HasBuild} \ {w}
        BY <1>0, <3>1, Zenon
      <4> QED BY <4>1, <4>2 DEF BuildsListed
    <3> QED BY <3>1, <3>2 DEF BuildsListed
  <2>3. ASSUME NEW v \in Workers, RequeueRunner(w, v) PROVE BuildsListed'
    <3>1. \A u \in Workers : pc'[u] \in HasBuild <=> pc[u] \in HasBuild
      BY <1>0, <2>3, Zenon DEF RequeueRunner
    <3>2. \A u \in Workers : pc[u] \in HasBuild => runner'[u] = runner[u]
      BY <1>0, <2>3, Zenon DEF RequeueRunner
    <3> QED BY <1>s, <2>3, <3>1, <3>2, Zenon DEF RequeueRunner
  <2>4. CASE TakeRunner(w) \/ AcquireExecutor(w) \/ ReleaseExecutor(w)
    <3>1. builds' = builds
      BY <2>4, Zenon DEF TakeRunner, AcquireExecutor, ReleaseExecutor
    <3>2. /\ pc[w] \notin HasBuild
          /\ \E to \in {"acquire", "limit", "loop"} : pc' = [pc EXCEPT ![w] = to]
      BY <2>4, Zenon DEF TakeRunner, AcquireExecutor, ReleaseExecutor, Goto
    <3>3. \A v \in Workers \ {w} : runner'[v] = runner[v]
      BY <1>0, <2>4, Zenon DEF TakeRunner, AcquireExecutor, ReleaseExecutor
    <3> QED BY <1>0, <1>s, <3>1, <3>2, <3>3
  <2>5. CASE \/ WorkerLoop(w) \/ AcquireBuild(w) \/ RequestJob(w) \/ JobAnswered(w)
             \/ NewBuild(w) /\ Goto(w, "build", "release")
             \/ RequeueFailed(w) \/ BuildFinished(w) \/ BuildAborted(w) \/ ReleaseBuild(w)
    <3>1. builds' = builds /\ runner' = runner
      BY <1>0, <2>5, Zenon DEF WorkerLoop, AcquireBuild, RequestJob, JobAnswered, NewBuild, RequeueFailed,
           BuildFinished, BuildAborted, ReleaseBuild, acquireBuild, acquireRequest,
           releaseRequest, releaseBuild, Goto
    <3>2. PICK to : /\ pc' = [pc EXCEPT ![w] = to]
                    /\ to \in HasBuild <=> pc[w] \in HasBuild
      BY <2>5, Zenon DEF WorkerLoop, AcquireBuild, RequestJob, JobAnswered, NewBuild, RequeueFailed,
           BuildFinished, BuildAborted, ReleaseBuild, Goto
    <3> QED BY <1>0, <1>s, <3>1, <3>2
  <2>6. NewBuild(w) => Goto(w, "build", "requeue") \/ Goto(w, "build", "release")
    BY Zenon DEF NewBuild
  <2> QED BY <1>3, <2>1, <2>2, <2>3, <2>4, <2>5, <2>6 DEF WorkerStep
<1> QED BY <1>1, <1>2, <1>3 DEF Next

\* One build is listed for each worker between addBuild and removeBuild.
THEOREM BuildsAlwaysListed == Spec => []BuildsListed
<1>1. Init => BuildsListed
  BY Zenon DEF Init, BuildsHelperInit, BuildsListed, HasBuild
<1>2. TypeOK /\ RunnerHeld /\ BuildsListed /\ [Next]_vars => BuildsListed'
  BY NextBuildsListed, Zenon
<1> QED BY <1>1, <1>2, TypeCorrect, HeldCorrect, PTL DEF Spec

-----------------------------------------------------------------------------
(* Builds are no more than workers                                         *)

\* They can be counted.
LEMMA BuildersFinite ==
  IsFiniteSet(Builders) /\ Cardinality(Builders) \in Nat
  BY WorkersAssumption, FS_Subset, FS_CardinalityType, Zenon DEF Builders

\* A listed build has a worker of its own.
LEMMA BuildsAreBuilders ==
  ASSUME BuildsListed
  PROVE  IsFiniteSet(builds) /\ Cardinality(builds) <= Cardinality(Builders)
<1> DEFINE f == [b \in builds |-> b.worker]
<1>1. f \in Injection(builds, Builders)
  BY Zenon DEF BuildsListed, Builders, Injection, IsInjective
<1> QED BY <1>1, BuildersFinite, FS_Injection

\* Every listed build takes a worker, and Run counts them.
LEMMA BuildsBounded ==
  ASSUME TypeOK, BuildsListed, WorkersAccounted
  PROVE  /\ Cardinality(builds) \in Nat /\ Cardinality(builds) <= currentWorkers
         /\ (LiveWorkers # Builders) => Cardinality(builds) < currentWorkers
<1>0. currentWorkers \in Nat
  BY Zenon DEF TypeOK
<1>1. Cardinality(builds) \in Nat /\ Cardinality(builds) <= Cardinality(Builders)
  BY BuildsAreBuilders, FS_CardinalityType, Zenon
<1>2. Builders \subseteq LiveWorkers
  BY Zenon DEF Builders, LiveWorkers, HasBuild
<1>3. /\ Cardinality(Builders) <= Cardinality(LiveWorkers)
      /\ Cardinality(Builders) = Cardinality(LiveWorkers) => Builders = LiveWorkers
  BY <1>2, LiveFinite, FS_Subset, Zenon
<1>4. Cardinality(LiveWorkers) <= currentWorkers
  BY LiveFinite DEF WorkersAccounted
<1> QED BY <1>0, <1>1, <1>3, <1>4, LiveFinite, BuildersFinite

\* Never more builds than the most generous configuration allows, and once
\* updateWorkers is through never more than the present one allows.
THEOREM ConcurrentAlwaysRespected == Spec => []ConcurrentRespected
<1>1. TypeOK /\ BuildsListed /\ WorkersAccounted /\ ControlInv => ConcurrentRespected
  <2> SUFFICES ASSUME TypeOK, BuildsListed, WorkersAccounted, ControlInv
               PROVE  ConcurrentRespected
    BY Zenon
  <2>1. \A c \in AllConfigs : c.concurrent \in Int
    BY ConfigsAssumption DEF AllConfigs, Config, NewConfig
  <2>2. currentWorkers \in Nat /\ config \in AllConfigs
    BY Zenon DEF TypeOK
  <2> QED BY <2>1, <2>2, BuildsBounded DEF ControlInv, WorkersBounded, ConcurrentRespected
<1> QED
  BY <1>1, TypeCorrect, BuildsAlwaysListed, WorkersAlwaysAccounted, ControlCorrect, PTL

-----------------------------------------------------------------------------
(* The numbers of the builds                                               *)

\* What addBuild adds, as its loops compute it.
LEMMA AddedBuild ==
  ASSUME TypeOK, NEW w \in Workers, NEW t \in Tokens, NEW p \in Projects, addBuild(w, t, p)
  PROVE  \E new \in Build :
           /\ builds' = builds \cup {new} /\ new.token = t /\ new.project = p /\ new.worker = w
           /\ new.runnerID <= Cardinality(builds) /\ new.projectRunnerID <= Cardinality(builds)
           /\ \A b \in builds : b.token = t => b.runnerID # new.runnerID
           /\ \A b \in builds : b.token = t /\ b.project = p =>
                b.projectRunnerID # new.projectRunnerID
<1> DEFINE runners        == {b \in builds : b.token = t}
           projectRunners == {b \in runners : b.project = p}
           ids            == {b.runnerID : b \in runners}
           pids           == {b.projectRunnerID : b \in projectRunners}
           id             == SmallestFree(ids)
           pid            == SmallestFree(pids)
           new            == [worker |-> w, token |-> t, project |-> p,
                              runnerID |-> id, projectRunnerID |-> pid]
<1>0. Cardinality(builds) \in Nat
  BY FS_CardinalityType, Zenon DEF TypeOK
<1>1. /\ runners \in SUBSET Build /\ IsFiniteSet(runners)
      /\ Cardinality(runners) <= Cardinality(builds)
      /\ projectRunners \in SUBSET Build /\ IsFiniteSet(projectRunners)
      /\ Cardinality(projectRunners) <= Cardinality(builds)
  BY FS_Subset, Zenon DEF TypeOK
<1>2. ids \in SUBSET Nat /\ IsFiniteSet(ids) /\ Cardinality(ids) <= Cardinality(runners)
  <2> HIDE DEF runners
  <2> QED BY <1>1, NumbersFinite, Zenon
<1>3. pids \in SUBSET Nat /\ IsFiniteSet(pids) /\ Cardinality(pids) <= Cardinality(projectRunners)
  <2> HIDE DEF projectRunners
  <2> QED BY <1>1, NumbersFinite, Zenon
<1>4. id \in Nat /\ id \notin ids /\ id <= Cardinality(builds)
  <2>1. id \in Nat /\ id \notin ids /\ id <= Cardinality(ids)
    <3> HIDE DEF ids
    <3> QED BY <1>2, SmallestFreeIsFree
  <2>2. Cardinality(ids) \in Nat /\ Cardinality(runners) \in Nat
    <3> HIDE DEF ids, runners
    <3> QED BY <1>1, <1>2, FS_CardinalityType
  <2> HIDE DEF id, ids, runners
  <2> QED BY <1>0, <1>1, <1>2, <2>1, <2>2
<1>5. pid \in Nat /\ pid \notin pids /\ pid <= Cardinality(builds)
  <2>1. pid \in Nat /\ pid \notin pids /\ pid <= Cardinality(pids)
    <3> HIDE DEF pids
    <3> QED BY <1>3, SmallestFreeIsFree
  <2>2. Cardinality(pids) \in Nat /\ Cardinality(projectRunners) \in Nat
    <3> HIDE DEF pids, projectRunners
    <3> QED BY <1>1, <1>3, FS_CardinalityType
  <2> HIDE DEF pid, pids, projectRunners
  <2> QED BY <1>0, <1>1, <1>3, <2>1, <2>2
<1>6. builds' = builds \cup {new}
  BY Zenon DEF addBuild
<1> HIDE DEF id, pid
<1>7. new \in Build
  BY <1>4, <1>5, Zenon DEF Build
<1>8. /\ \A b \in builds : b.token = t => b.runnerID # id
      /\ \A b \in builds : b.token = t /\ b.project = p => b.projectRunnerID # pid
  BY <1>4, <1>5, Zenon
<1> QED BY <1>4, <1>5, <1>6, <1>7, <1>8

\* addBuild takes numbers that are free and small.
LEMMA NextBuildNumbers ==
  ASSUME TypeOK, RunnerHeld, BuildsListed, WorkersAccounted, WorkersBounded,
         BuildNumbersDistinct, [Next]_vars
  PROVE  BuildNumbersDistinct'
<1>0. \A c \in AllConfigs : c.concurrent \in Int
  BY ConfigsAssumption DEF AllConfigs, Config, NewConfig
<1>1. CASE builds' \subseteq builds
  BY <1>1, Zenon DEF BuildNumbersDistinct
<1>2. ASSUME NEW w \in Workers, NEW p \in Projects, pc[w] = "build", addBuild(w, runner[w].token, p)
      PROVE  BuildNumbersDistinct'
  <2>1. runner[w].token \in Tokens
    BY <1>2, HolderHasToken, Zenon DEF HoldsExecutor, HoldsBuild
  <2>2. PICK new \in Build :
           /\ builds' = builds \cup {new} /\ new.token = runner[w].token /\ new.project = p
           /\ new.runnerID <= Cardinality(builds) /\ new.projectRunnerID <= Cardinality(builds)
           /\ \A b \in builds : b.token = runner[w].token => b.runnerID # new.runnerID
           /\ \A b \in builds : b.token = runner[w].token /\ b.project = p =>
                b.projectRunnerID # new.projectRunnerID
    BY <1>2, <2>1, AddedBuild
  <2>3. w \in LiveWorkers /\ w \notin Builders
    BY <1>2, Zenon DEF LiveWorkers, Builders, HasBuild
  <2>4. Cardinality(builds) \in Nat /\ Cardinality(builds) < currentWorkers
    BY <2>3, BuildsBounded, Zenon
  <2>5. PICK c \in AllConfigs : currentWorkers <= c.concurrent
    BY Zenon DEF WorkersBounded
  <2>6. new.runnerID < c.concurrent /\ new.projectRunnerID < c.concurrent
    <3>1. /\ new.runnerID \in Nat /\ new.projectRunnerID \in Nat
          /\ currentWorkers \in Nat /\ c.concurrent \in Int
          /\ new.runnerID <= Cardinality(builds) /\ new.projectRunnerID <= Cardinality(builds)
      BY <1>0, <2>2, <2>5, Zenon DEF Build, TypeOK
    <3> QED
      BY <2>4, <2>5, <3>1
  <2>7. \A b, d \in builds' : b # d /\ b.token = d.token =>
          /\ b.runnerID # d.runnerID
          /\ b.project = d.project => b.projectRunnerID # d.projectRunnerID
    BY <2>2 DEF BuildNumbersDistinct
  <2>8. \A b \in builds' : \E d \in AllConfigs :
          b.runnerID < d.concurrent /\ b.projectRunnerID < d.concurrent
    BY <2>2, <2>6, Zenon DEF BuildNumbersDistinct
  <2> QED BY <2>7, <2>8 DEF BuildNumbersDistinct
<1>3. ASSUME NEW w \in Workers, WorkerStep(w)
      PROVE  \/ builds' \subseteq builds
             \/ \E p \in Projects : pc[w] = "build" /\ addBuild(w, runner[w].token, p)
  BY <1>3, Zenon DEF WorkerStep, WorkerLoop, TakeRunner, AcquireExecutor, AcquireBuild, RequestJob,
     JobAnswered, NewBuild, RequeueFailed, RequeueRunner, BuildFinished, BuildAborted,
     RemoveBuild, ReleaseBuild, ReleaseExecutor, removeBuild, acquireBuild, releaseBuild,
     acquireRequest, releaseRequest, Goto
<1>4. CASE ~ \E w \in Workers : WorkerStep(w)
  <2>1. builds' = builds
    BY <1>4, PoolStep, Zenon DEF Next
  <2> QED BY <1>1, <2>1
<1> QED BY <1>1, <1>2, <1>3, <1>4

\* Builds running at once on one token have distinct numbers, each below the
\* highest `concurrent`.
THEOREM BuildNumbersAlwaysDistinct == Spec => []BuildNumbersDistinct
<1>1. Init => BuildNumbersDistinct
  BY Zenon DEF Init, BuildsHelperInit, BuildNumbersDistinct
<1>2. TypeOK /\ RunnerHeld /\ BuildsListed /\ WorkersAccounted /\ ControlInv
        /\ BuildNumbersDistinct /\ [Next]_vars => BuildNumbersDistinct'
  BY NextBuildNumbers, Zenon DEF ControlInv
<1> QED
  BY <1>1, <1>2, TypeCorrect, HeldCorrect, BuildsAlwaysListed, WorkersAlwaysAccounted,
     ControlCorrect, PTL DEF Spec

-----------------------------------------------------------------------------
(* The end                                                                 *)

\* When Run has finished no worker is left, every counter is back at zero and
\* no job is open, however the stop interleaved with jobs and reloads.
THEOREM AlwaysCleanExit == Spec => []CleanExit
<1>1. TypeOK /\ JobHeld /\ BuildsListed /\ WorkersAccounted /\ ResourcesAccounted /\ ControlInv
        => CleanExit
  <2> SUFFICES ASSUME TypeOK, JobHeld, BuildsListed, WorkersAccounted, ResourcesAccounted,
                      ControlInv, runFinished \/ exit = "finished"
               PROVE  /\ LiveWorkers = {} /\ starter # "spawn" /\ builds = {}
                      /\ \A t \in Tokens : counters[t] = [builds |-> 0, requests |-> 0] /\ acquired[t] = 0
                      /\ \A w \in Workers : job[w] = "none"
    BY Zenon DEF CleanExit
  <2>1. currentWorkers = 0
    BY Zenon DEF ControlInv, DoneEmpty
  <2>2. Cardinality(LiveWorkers) = 0 /\ starter # "spawn"
    BY <2>1, LiveFinite DEF WorkersAccounted
  <2>3. LiveWorkers = {}
    BY <2>2, LiveFinite, FS_EmptySet, Zenon
  <2>4. \A w \in Workers : pc[w] = "none"
    BY <2>3, Zenon DEF LiveWorkers
  <2>5. builds = {}
    BY <2>4 DEF BuildsListed, HasBuild
  <2>6. ASSUME NEW t \in Tokens
        PROVE  counters[t] = [builds |-> 0, requests |-> 0] /\ acquired[t] = 0
    <3>1. /\ Holders(t, HoldsBuild) = {} /\ Holders(t, HoldsRequest) = {}
          /\ Holders(t, HoldsExecutor) = {}
      BY <2>4, Zenon DEF Holders, HoldsExecutor, HoldsBuild, HasBuild, HoldsRequest
    <3>2. counters[t].builds = 0 /\ counters[t].requests = 0 /\ acquired[t] = 0
      BY <3>1, FS_EmptySet, Zenon DEF ResourcesAccounted
    <3>3. counters[t] \in [builds: Nat, requests: Nat]
      BY Zenon DEF TypeOK, RunnerCounter
    <3> QED BY <3>2, <3>3
  <2>7. \A w \in Workers : job[w] = "none"
    BY <2>4, Zenon DEF JobHeld
  <2> QED BY <2>2, <2>3, <2>5, <2>6, <2>7
<1> QED
  BY <1>1, TypeCorrect, HeldCorrect, BuildsAlwaysListed, WorkersAlwaysAccounted,
     ResourcesAlwaysAccounted, ControlCorrect, PTL

=============================================================================
