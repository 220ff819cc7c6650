------------------------------ MODULE BuildsHelper ------------------------------
(***************************************************************************)
(* commands/builds_helper.go: the counters that bound, per runner token,   *)
(* how many builds run and how many job requests are in flight, and the    *)
(* list of running builds from which a new build takes its numbers.        *)
(*                                                                         *)
(* Every function of the file holds b.lock from its first line to its      *)
(* return, so each is one atomic action here.  A counter is keyed by the   *)
(* token alone: it outlives the configuration a caller got its             *)
(* RunnerConfig from.  The metrics (jobsTotal, jobDurationHistogram,       *)
(* requestConcurrencyExceeded) are not modelled; nothing reads them back.  *)
(***************************************************************************)
EXTENDS Integers, FiniteSets

CONSTANTS
  Tokens,         \* runner tokens, the keys of the counters
  Projects,       \* JobInfo.ProjectID of the jobs GitLab hands out
  Workers,        \* worker goroutines: each runs at most one build at a time
  RunnerConfigs   \* every [[runners]] entry some configuration file holds

(***************************************************************************)
(* Of a [[runners]] entry only the token, limit and request_concurrency    *)
(* are read here; both numbers are plain ints of the TOML file.            *)
(***************************************************************************)
ASSUME RunnerConfigsAssumption ==
  RunnerConfigs \subseteq [token: Tokens, limit: Int, requestConcurrency: Int]

ASSUME WorkersAssumption == IsFiniteSet(Workers)

VARIABLES
  counters,       \* token -> runnerCounter{builds, requests}
  builds          \* the running builds, each named by the worker running it

buildsHelperVars == <<counters, builds>>

RunnerCounter == [builds: Nat, requests: Nat]

Build == [worker: Workers, token: Tokens, project: Projects,
          runnerID: Nat, projectRunnerID: Nat]

\* newBuildsHelper; getRunnerCounter makes a missing counter with both fields 0.
BuildsHelperInit ==
  /\ counters = [t \in Tokens |-> [builds |-> 0, requests |-> 0]]
  /\ builds = {}

-----------------------------------------------------------------------------

\* Variant of BuildLimitMet: one build too many.
BuildLimitMetOffByOne(runner) ==
  runner.limit > 0 /\ counters[runner.token].builds > runner.limit

\* The early return of acquireBuild: only a positive limit limits.
BuildLimitMet(runner) ==
  runner.limit > 0 /\ counters[runner.token].builds >= runner.limit

acquireBuild(runner) ==
  /\ ~BuildLimitMet(runner)
  /\ counters' = [counters EXCEPT ![runner.token].builds = @ + 1]
  /\ UNCHANGED builds

\* Variant of releaseBuild: it forgets the counter.
releaseBuildLost(runner) == UNCHANGED buildsHelperVars

releaseBuild(runner) ==
  /\ counters' = [counters EXCEPT ![runner.token].builds =
                    IF @ > 0 THEN @ - 1 ELSE @]
  /\ UNCHANGED builds

-----------------------------------------------------------------------------

GetRequestConcurrency(runner) ==
  IF runner.requestConcurrency <= 0 THEN 1 ELSE runner.requestConcurrency

RequestConcurrencyMet(runner) ==
  counters[runner.token].requests >= GetRequestConcurrency(runner)

\* Variant of acquireRequest: no limit.
acquireRequestUnchecked(runner) ==
  /\ counters' = [counters EXCEPT ![runner.token].requests = @ + 1]
  /\ UNCHANGED builds

acquireRequest(runner) ==
  /\ ~RequestConcurrencyMet(runner)
  /\ counters' = [counters EXCEPT ![runner.token].requests = @ + 1]
  /\ UNCHANGED builds

releaseRequest(runner) ==
  /\ counters' = [counters EXCEPT ![runner.token].requests =
                    IF @ > 0 THEN @ - 1 ELSE @]
  /\ UNCHANGED builds

-----------------------------------------------------------------------------

\* Variant of SmallestFree: the number of builds, which may be in use.
NextAfterCount(used) == Cardinality(used)

\* The first number from 0 up that is not in use: the loops of addBuild.  One
\* of 0..Cardinality(used) is always free.
SmallestFree(used) ==
  LET free == (0..Cardinality(used)) \ used
  IN  CHOOSE n \in free : \A m \in free : n <= m

addBuild(w, token, project) ==
  LET runners        == {b \in builds : b.token = token}
      projectRunners == {b \in runners : b.project = project}
  IN  /\ builds' = builds \cup
           {[worker |-> w, token |-> token, project |-> project,
             runnerID        |-> SmallestFree({b.runnerID : b \in runners}),
             projectRunnerID |-> SmallestFree({b.projectRunnerID : b \in projectRunners})]}
      /\ UNCHANGED counters

\* Variant of removeBuild: it looks for the number instead of the build.
removeBuildByNumber(w) ==
  /\ builds' = {b \in builds : \A c \in builds : c.worker = w => b.runnerID # c.runnerID}
  /\ UNCHANGED counters

removeBuild(w) ==
  /\ builds' = {b \in builds : b.worker # w}
  /\ UNCHANGED counters

=============================================================================
