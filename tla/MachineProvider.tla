----------------------------- MODULE MachineProvider -----------------------------
(***************************************************************************)
(* executors/docker/machine: the machines of one docker+machine runner.    *)
(* The workers of the run command take machines with Acquire, one at a     *)
(* time (acquireLock), and jobs take them with Use, under no common lock;  *)
(* every creation and every removal is a goroutine of its own.  m.lock     *)
(* only protects the map of details: the fields of a machineDetails are    *)
(* read and written outside of it.                                         *)
(*                                                                         *)
(* A machine is a number, in the order of creation, which is the order of  *)
(* docker-machine's directory.  Durations are left out: an idle machine    *)
(* may be over its IdleTime at any round.                                  *)
(***************************************************************************)
EXTENDS Integers, FiniteSets

CONSTANTS
  Workers,         \* goroutines of the run command that work for this runner
  NoWorker,
  MaxMachines,     \* bound: machines ever created
  Limit,           \* config.Limit, 0 for none
  IdleCount,       \* config.Machine.GetIdleCount()
  MaxBuilds,       \* config.Machine.MaxBuilds, 0 for none
  Tries,           \* rounds of retryUseMachine and PreparationRetries
  MaxRemovals      \* bound: goroutines that remove one machine

ASSUME MachineAssumption ==
  /\ MaxMachines \in Nat \ {0} /\ {Limit, IdleCount, MaxBuilds, Tries, MaxRemovals} \subseteq Nat
  /\ NoWorker \notin Workers

Machines == 1..MaxMachines

VARIABLES
  details,     \* m.details: state and UsedCount by name
  creation,    \* goroutine of create: the state it will set, then its error
  removals,    \* goroutines in finalizeRemoval, by name
  listed,      \* docker-machine: directories
  made,        \* docker-machine: those with a valid config.json
  up,          \* machines that answer
  cache,       \* machineCommand.cache: machines that have answered CanConnect
  worker,      \* workers: where they are and what they hold
  acquireLock, \* the worker inside Acquire
  data,        \* machinesData and validMachines of that worker
  born         \* names given so far

hostVars == <<listed, made, up, cache>>
vars == <<details, creation, removals, hostVars, worker, acquireLock, data, born>>

Absent == [state |-> "Absent", used |-> 0]
NoData == [name |-> 0, live |-> FALSE]   \* a nil *machineDetails

\* `live`: the pointer is the one in the map.  A machine removed under its
\* holder leaves it with details nobody else sees.
Pointer(m) == [name |-> m, live |-> TRUE]

Fresh == [pc |-> "wait", list |-> {}, cand |-> NoData, data |-> NoData, edata |-> NoData,
          tries |-> 0, prep |-> 0]
NoCounts == [idle |-> 0, available |-> 0, total |-> 0, valid |-> {}]

\* Machines a former process left are found on disk.
Init ==
  /\ details = [m \in Machines |-> Absent]
  /\ creation = [m \in Machines |-> "none"]
  /\ removals = [m \in Machines |-> 0]
  /\ born \in {0, 1}
  /\ listed = 1..born /\ made = listed /\ up \in SUBSET made /\ cache = {}
  /\ worker = [w \in Workers |-> Fresh]
  /\ acquireLock = NoWorker /\ data = NoCounts

Oldest(S) == CHOOSE m \in S : \A n \in S : m <= n
Newest(S) == CHOOSE m \in S : \A n \in S : n <= m

\* machineDetails: a name that is not known is taken for a used, idle machine.
machineDetails(m) == IF details[m] = Absent THEN [state |-> "Idle", used |-> 1] ELSE details[m]

\* remove: marks the machine, whatever its state, and starts finalizeRemoval;
\* with no details it only returns an error.
remove(m) ==
  IF details[m] = Absent
  THEN UNCHANGED <<details, removals>>
  ELSE /\ removals[m] < MaxRemovals
       /\ details' = [details EXCEPT ![m] = [state |-> "Removing", used |-> details[m].used]]
       /\ removals' = [removals EXCEPT ![m] = removals[m] + 1]

\* create, n times, up to its goroutine; `state` is set when the machine is there.
create(n, state) ==
  LET new == (born + 1)..(born + n)
  IN /\ details' = [m \in Machines |-> IF m \in new THEN [state |-> "Creating", used |-> 0]
                                                     ELSE details[m]]
     /\ creation' = [m \in Machines |-> IF m \in new THEN state ELSE creation[m]]
     /\ born' = born + n

\* CanConnect: only positive answers are kept, for five minutes, and skipCache
\* asks the machine.
CanConnect(m, skipCache) == {(m \in up), (m \in up \/ (~skipCache /\ m \in cache))}

\* Variant of Release: MaxBuilds is left to the next updateMachines.
ReleaseIdle(p) ==
  IF p.name # 0 /\ p.live
  THEN details' = [details EXCEPT ![p.name] = [state |-> "Idle", used |-> details[p.name].used]]
       /\ UNCHANGED removals
  ELSE UNCHANGED <<details, removals>>

\* Release: a machine with enough builds is removed, any other becomes idle,
\* even one that is being removed.  What a pointer out of the map holds is not
\* tracked: its UsedCount may have reached MaxBuilds or not.
Release(p) ==
  CASE p.name = 0 -> UNCHANGED <<details, removals>>
    [] p.name # 0 /\ p.live ->
         IF MaxBuilds > 0 /\ details[p.name].used >= MaxBuilds
         THEN remove(p.name)
         ELSE /\ details' = [details EXCEPT ![p.name] =
                               [state |-> "Idle", used |-> details[p.name].used]]
              /\ UNCHANGED removals
    [] OTHER -> UNCHANGED <<details, removals>> \/ (MaxBuilds > 0 /\ remove(p.name))

Go(w, r) == worker' = [worker EXCEPT ![w] = r]

-----------------------------------------------------------------------------
(* Acquire                                                                 *)

\* loadMachines, with the lock taken.  (When List fails Acquire returns.)
AcquireLoad(w) ==
  /\ worker[w].pc = "wait" /\ acquireLock = NoWorker
  /\ acquireLock' = w /\ data' = NoCounts
  /\ Go(w, [worker[w] EXCEPT !.pc = "update", !.list = listed])
  /\ UNCHANGED <<details, creation, removals, hostVars, born>>

\* data.Add
Add(d, state) ==
  [d EXCEPT !.total = d.total + 1,
            !.idle = IF state = "Idle" THEN d.idle + 1 ELSE d.idle,
            !.available = IF state \in {"Acquired", "Creating", "Idle"} THEN d.available + 1
                                                                        ELSE d.available]

\* updateMachine's reasons to remove an idle machine.
TooMany(d, overIdleTime) ==
  \/ MaxBuilds > 0 /\ d.used >= MaxBuilds
  \/ Limit > 0 /\ data.total >= Limit
  \/ overIdleTime /\ data.idle >= IdleCount

\* One round of updateMachines; what it decides here it does in the next step.
updateMachine(w) ==
  /\ worker[w].pc = "update" /\ worker[w].list # {}
  /\ LET m == Oldest(worker[w].list)
         d == machineDetails(m)
     IN /\ details' = [details EXCEPT ![m] = d]
        /\ \/ /\ d.state = "Idle" /\ \E overIdleTime \in BOOLEAN : TooMany(d, overIdleTime)
              /\ Go(w, [worker[w] EXCEPT !.pc = "doomed"])
              /\ UNCHANGED data
           \/ /\ d.state = "Idle" => ~TooMany(d, FALSE)
              /\ data' = [Add(data, d.state) EXCEPT !.valid = data.valid \cup {m}]
              /\ Go(w, [worker[w] EXCEPT !.list = worker[w].list \ {m}])
  /\ UNCHANGED <<creation, removals, hostVars, acquireLock, born>>

\* m.remove in updateMachines: the state is not looked at again.
updateMachines(w) ==
  /\ worker[w].pc = "doomed"
  /\ LET m == Oldest(worker[w].list)
     IN /\ remove(m)
        /\ data' = Add(data, "Removing")
        /\ Go(w, [worker[w] EXCEPT !.pc = "update", !.list = worker[w].list \ {m}])
  /\ UNCHANGED <<creation, hostVars, acquireLock, born>>

\* How many machines createMachines' loop creates (no more than there are names).
Missing ==
  LET wanted == IdleCount - data.available
      room   == IF Limit > 0 THEN Limit - data.total ELSE wanted
      n      == IF wanted <= room THEN wanted ELSE room
      names  == MaxMachines - born
  IN IF n < 0 THEN 0 ELSE IF n > names THEN names ELSE n

createMachines(w) ==
  /\ worker[w].pc = "update" /\ worker[w].list = {}
  /\ create(Missing, "Idle")
  /\ Go(w, [worker[w] EXCEPT !.pc = "find", !.list = data.valid])
  /\ UNCHANGED <<removals, hostVars, acquireLock, data>>

\* Variant of findFreeMachine: the machine is marked only once it has answered.
findFreeMachineUnmarked(w) ==
  /\ worker[w].pc = "find" /\ worker[w].list # {}
  /\ LET m == Newest(worker[w].list)
         d == machineDetails(m)
     IN /\ details' = [details EXCEPT ![m] = d]
        /\ Go(w, [worker[w] EXCEPT !.list = worker[w].list \ {m},
                    !.pc = IF d.state = "Idle" THEN "check" ELSE "find",
                    !.cand = IF d.state = "Idle" THEN Pointer(m) ELSE NoData])
  /\ UNCHANGED <<creation, removals, hostVars, acquireLock, data, born>>

\* findFreeMachine takes the newest idle machine of its list, under m.lock,
findFreeMachine(w) ==
  /\ worker[w].pc = "find" /\ worker[w].list # {}
  /\ LET m == Newest(worker[w].list)
         d == machineDetails(m)
     IN IF d.state = "Idle"
        THEN /\ details' = [details EXCEPT ![m] = [state |-> "Acquired", used |-> d.used]]
             /\ Go(w, [worker[w] EXCEPT !.pc = "check", !.list = worker[w].list \ {m},
                                        !.cand = Pointer(m)])
        ELSE /\ UNCHANGED details
             /\ Go(w, [worker[w] EXCEPT !.list = worker[w].list \ {m}])
  /\ UNCHANGED <<creation, removals, hostVars, acquireLock, data, born>>

\* and then asks it, the cache being good enough for Acquire.
CheckMachine(w) ==
  /\ worker[w].pc = "check"
  /\ LET m == worker[w].cand.name
         acquiring == acquireLock = w
     IN \E answers \in CanConnect(m, ~acquiring) :
        IF answers
        THEN /\ cache' = cache \cup {m}
             /\ IF acquiring THEN acquireLock' = NoWorker /\ data' = NoCounts
                             ELSE UNCHANGED <<acquireLock, data>>
             /\ Go(w, IF acquiring
                      THEN [worker[w] EXCEPT !.pc = "ready", !.list = {},
                                             !.data = worker[w].cand, !.cand = NoData]
                      ELSE [worker[w] EXCEPT !.pc = "credentials", !.list = {}])
             /\ UNCHANGED <<details, removals>>
        ELSE /\ remove(m)
             /\ Go(w, [worker[w] EXCEPT !.pc = "find", !.cand = NoData])
             /\ UNCHANGED <<cache, acquireLock, data>>
  /\ UNCHANGED <<creation, listed, made, up, born>>

\* Acquire without a machine: an error, or a job that will create its own.
AcquireNothing(w) ==
  /\ worker[w].pc = "find" /\ worker[w].list = {} /\ acquireLock = w
  /\ acquireLock' = NoWorker /\ data' = NoCounts
  /\ Go(w, [worker[w] EXCEPT !.pc = IF IdleCount # 0 /\ data.idle = 0 THEN "wait" ELSE "ready"])
  /\ UNCHANGED <<details, creation, removals, hostVars, born>>

-----------------------------------------------------------------------------
(* The worker, after Acquire.                                              *)

Jobs == {w \in Workers : worker[w].pc \notin {"wait", "update", "doomed", "ready"} /\ acquireLock # w}

\* processRunner gets no job, or the runner's limit is met.
NoJob(w) ==
  /\ worker[w].pc = "ready"
  /\ Release(worker[w].data)
  /\ Go(w, Fresh)
  /\ UNCHANGED <<creation, hostVars, acquireLock, data, born>>

\* The build calls Prepare.
Prepare(w) ==
  /\ worker[w].pc = "ready"
  /\ Limit > 0 => Cardinality(Jobs) < Limit
  /\ Go(w, [worker[w] EXCEPT !.pc = "use", !.prep = 1])
  /\ UNCHANGED <<details, creation, removals, hostVars, acquireLock, data, born>>

\* Use takes the machine of Acquire if it still is Acquired and answers.
Use(w) ==
  /\ worker[w].pc = "use"
  /\ LET p == worker[w].data
         usable == p.live /\ details[p.name].state = "Acquired" /\ TRUE \in CanConnect(p.name, TRUE)
     IN /\ Go(w, [worker[w] EXCEPT !.tries = 0, !.pc = IF usable THEN "credentials" ELSE "load"])
        /\ cache' = IF usable THEN cache \cup {p.name} ELSE cache
  /\ UNCHANGED <<details, creation, removals, listed, made, up, acquireLock, data, born>>

\* retryCreateExecutor: another attempt, or none (a BuildError, a cancelled
\* job, or the last attempt): the worker then releases the job's data.
AfterFailure(w) ==
  {[worker[w] EXCEPT !.pc = "release", !.cand = NoData, !.edata = NoData]} \cup
  (IF worker[w].prep < Tries
   THEN {[worker[w] EXCEPT !.pc = "use", !.prep = worker[w].prep + 1, !.cand = NoData, !.edata = NoData]}
   ELSE {})

\* The next round of retryUseMachine, or its failure.
NextTry(w) ==
  IF worker[w].tries + 1 < Tries
  THEN {[worker[w] EXCEPT !.pc = "load", !.tries = worker[w].tries + 1, !.cand = NoData]}
  ELSE AfterFailure(w)

\* useMachine lists the machines (or fails to).
useMachine(w) ==
  /\ worker[w].pc = "load"
  /\ \E r \in {[worker[w] EXCEPT !.pc = "find", !.list = listed]} \cup NextTry(w) : Go(w, r)
  /\ UNCHANGED <<details, creation, removals, hostVars, acquireLock, data, born>>

\* It finds none that is free, and creates one, past any limit.
createMachine(w) ==
  /\ worker[w].pc = "find" /\ worker[w].list = {} /\ acquireLock # w
  /\ born < MaxMachines
  /\ create(1, "Acquired")
  /\ Go(w, [worker[w] EXCEPT !.pc = "creating", !.cand = Pointer(born + 1)])
  /\ UNCHANGED <<removals, hostVars, acquireLock, data>>

\* err = <-errCh
Created(w) ==
  /\ worker[w].pc = "creating"
  /\ LET m == worker[w].cand.name
     IN /\ creation[m] \in {"ok", "failed"}
        /\ creation' = [creation EXCEPT ![m] = "none"]
        /\ IF creation[m] = "ok" THEN Go(w, [worker[w] EXCEPT !.pc = "credentials"])
                                 ELSE \E r \in NextTry(w) : Go(w, r)
  /\ UNCHANGED <<details, removals, hostVars, acquireLock, data, born>>

\* Variant of Credentials: on failure the new machine is not released.
CredentialsKept(w) ==
  /\ worker[w].pc = "credentials"
  /\ LET p == IF worker[w].cand # NoData THEN worker[w].cand ELSE worker[w].data
     IN \/ /\ p.name \in up
           /\ details' = IF p.live THEN [details EXCEPT ![p.name] =
                                          [state |-> "Used", used |-> details[p.name].used + 1]]
                                   ELSE details
           /\ Go(w, [worker[w] EXCEPT !.pc = "running", !.edata = worker[w].cand, !.cand = NoData])
        \/ \E r \in AfterFailure(w) : Go(w, r) /\ UNCHANGED details
  /\ UNCHANGED <<creation, removals, hostVars, acquireLock, data, born>>

\* The rest of Use: the machine becomes Used, or (no credentials) a machine
\* found or created here is released.
Credentials(w) ==
  /\ worker[w].pc = "credentials"
  /\ LET p == IF worker[w].cand # NoData THEN worker[w].cand ELSE worker[w].data
     IN \/ /\ p.name \in up
           /\ details' = IF p.live THEN [details EXCEPT ![p.name] =
                                          [state |-> "Used", used |-> details[p.name].used + 1]]
                                   ELSE details
           /\ Go(w, [worker[w] EXCEPT !.pc = "running", !.edata = worker[w].cand, !.cand = NoData])
           /\ UNCHANGED removals
        \/ /\ Release(worker[w].cand)
           /\ \E r \in AfterFailure(w) : Go(w, r)
  /\ UNCHANGED <<creation, hostVars, acquireLock, data, born>>

\* machineExecutor.Cleanup: the docker executor's own Prepare has failed, or the
\* job has ended.
Cleanup(w) ==
  /\ worker[w].pc = "running"
  /\ \E r \in AfterFailure(w) : Go(w, r)
  /\ Release(worker[w].edata)
  /\ UNCHANGED <<creation, hostVars, acquireLock, data, born>>

\* The run command releases what Acquire gave.
ReleaseExecutor(w) ==
  /\ worker[w].pc = "release"
  /\ Release(worker[w].data)
  /\ Go(w, Fresh)
  /\ UNCHANGED <<creation, hostVars, acquireLock, data, born>>

-----------------------------------------------------------------------------
(* Creation and removal: a goroutine each.                                 *)

\* docker-machine create makes the directory long before it is done.
CreateBegins(m) ==
  /\ creation[m] \in {"Idle", "Acquired"} /\ m \notin listed
  /\ listed' = listed \cup {m}
  /\ UNCHANGED <<details, creation, removals, made, up, cache, worker, acquireLock, data, born>>

\* Create, or one of three Provisions after it, succeeds.
CreateSucceeds(m) ==
  /\ creation[m] \in {"Idle", "Acquired"}
  /\ listed' = listed \cup {m} /\ made' = made \cup {m} /\ up' = up \cup {m}
  /\ details' = [details EXCEPT ![m] = [state |-> creation[m], used |-> details[m].used]]
  /\ creation' = [creation EXCEPT ![m] = IF creation[m] = "Acquired" THEN "ok" ELSE "none"]
  /\ UNCHANGED <<removals, cache, worker, acquireLock, data, born>>

\* All four fail; the host may or may not be there.
CreateFails(m) ==
  /\ creation[m] \in {"Idle", "Acquired"}
  /\ remove(m)
  /\ \E there \in SUBSET (listed \cap {m}) : made' = made \cup there
  /\ creation' = [creation EXCEPT ![m] = IF creation[m] = "Acquired" THEN "failed" ELSE "none"]
  /\ UNCHANGED <<listed, up, cache, worker, acquireLock, data, born>>

\* removeMachine: Stop and Remove.  (The lock for machines that resist only
\* spaces these commands out.)
removeMachine(m) ==
  /\ removals[m] > 0 /\ m \in made
  /\ \/ /\ listed' = listed \ {m} /\ made' = made \ {m} /\ up' = up \ {m} /\ cache' = cache \ {m}
     \/ /\ \E stopped \in SUBSET {m} : up' = up \ stopped
        /\ UNCHANGED <<listed, made, cache>>
  /\ UNCHANGED <<details, creation, removals, worker, acquireLock, data, born>>

\* Those who hold the machine are left with details that are not in the map.
Detached(p, m) == IF p.name = m THEN [name |-> m, live |-> FALSE] ELSE p

\* finalizeRemoval ends when the machine does not exist (any more).
finalizeRemoval(m) ==
  /\ removals[m] > 0 /\ m \notin made
  /\ removals' = [removals EXCEPT ![m] = removals[m] - 1]
  /\ details' = [details EXCEPT ![m] = Absent]
  /\ worker' = [w \in Workers |-> [worker[w] EXCEPT
                  !.cand = Detached(worker[w].cand, m), !.data = Detached(worker[w].data, m),
                  !.edata = Detached(worker[w].edata, m)]]
  /\ UNCHANGED <<creation, hostVars, acquireLock, data, born>>

\* A machine stops answering.
MachineFails(m) ==
  /\ m \in up /\ up' = up \ {m}
  /\ UNCHANGED <<details, creation, removals, listed, made, cache, worker, acquireLock, data, born>>

-----------------------------------------------------------------------------

Acquire(w) ==
  AcquireLoad(w) \/ updateMachine(w) \/ updateMachines(w) \/ createMachines(w) \/ AcquireNothing(w)

WorkerStep(w) ==
  \/ Acquire(w) \/ findFreeMachine(w) \/ CheckMachine(w)
  \/ NoJob(w) \/ Prepare(w) \/ Use(w) \/ useMachine(w) \/ createMachine(w) \/ Created(w)
  \/ Credentials(w) \/ Cleanup(w) \/ ReleaseExecutor(w)

Host(m) == CreateBegins(m) \/ CreateSucceeds(m) \/ CreateFails(m) \/ MachineFails(m)

Removal(m) == removeMachine(m) \/ finalizeRemoval(m)

Next == (\E w \in Workers : WorkerStep(w)) \/ (\E m \in Machines : Host(m) \/ Removal(m))

Spec == Init /\ [][Next]_vars

-----------------------------------------------------------------------------
(* Properties                                                              *)

\* The pointers in the map that a worker holds, and where it holds them.
Slots == {"cand", "data", "edata"}
Holds(w, s, m) == worker[w][s] = Pointer(m)
Held(m) == \E w \in Workers, s \in Slots : Holds(w, s, m)

\* No machine ever belongs to two jobs, nor twice to one job: Acquire and
\* useMachine search the same machines without a common lock.
MachineExclusive ==
  \A m \in Machines : \A w1, w2 \in Workers : \A s1, s2 \in Slots :
    Holds(w1, s1, m) /\ Holds(w2, s2, m) => w1 = w2 /\ s1 = s2

\* No machine is lost: one that is marked as taken is in somebody's hands, on
\* every error path of Use, of the creation and of the retried preparation.
NoMachineLost ==
  \A m \in Machines :
    /\ details[m].state \in {"Acquired", "Used"} => Held(m)
    /\ details[m].state = "Creating" => creation[m] \in {"Idle", "Acquired"}

\* docs/configuration/autoscale.md: "Each machine can handle up to 100 jobs in
\* a row (after this it will be removed)", for MaxBuilds = 100.
MaxBuildsRespected == MaxBuilds > 0 => \A m \in Machines : details[m].used <= MaxBuilds

JobMachineKeptStep ==
  \A m \in Machines : \A w \in Workers : \A s \in Slots :
    (/\ worker[w].pc = "running" /\ details[m].state = "Used"
     /\ Holds(w, s, m) /\ worker'[w][s] = Pointer(m)
     /\ removals'[m] > removals[m])
    => \E v \in Workers : worker[v].pc = "doomed" /\ m = Oldest(worker[v].list)

\* The machine a job runs on is marked for removal by no other worker, except
\* in updateMachines, which saw it idle and does not look again.
JobMachineKept == [][JobMachineKeptStep]_vars

-----------------------------------------------------------------------------
(* What the properties rest on: what each place in the code says about the *)
(* pointers of its worker, and about the machines they name.               *)

PCs == {"wait", "update", "doomed", "find", "check", "ready", "use", "load", "creating",
        "credentials", "running", "release"}
Ptr == [name: 0..MaxMachines, live: BOOLEAN]
WorkerState == [pc: PCs, list: SUBSET Machines, cand: Ptr, data: Ptr, edata: Ptr,
                tries: Nat, prep: Nat]
Counts == [idle: Nat, available: Nat, total: Nat, valid: SUBSET Machines]

MachineTypes ==
  /\ details \in [Machines -> [state: {"Absent", "Idle", "Creating", "Acquired", "Used", "Removing"},
                              used: Nat]]
  /\ creation \in [Machines -> {"none", "Idle", "Acquired", "ok", "failed"}]
  /\ removals \in [Machines -> Nat]
  /\ born \in 0..MaxMachines
  /\ worker \in [Workers -> WorkerState]
  /\ acquireLock \in Workers \cup {NoWorker}
  /\ data \in Counts

Creating(m) == creation[m] \in {"Idle", "Acquired"}

\* A name that was not given yet is nowhere.
NamesKnown ==
  /\ \A m \in Machines : m > born => details[m] = Absent /\ creation[m] = "none" /\ removals[m] = 0
  /\ listed \subseteq 1..born /\ made \subseteq 1..born /\ up \subseteq made
  /\ data.valid \subseteq 1..born
  /\ \A w \in Workers : /\ worker[w].list \subseteq 1..born
                        /\ \A s \in Slots : worker[w][s].name <= born

\* Which pointers a worker has at which place; a nil pointer is not live.
PointersPlaced ==
  \A w \in Workers :
    /\ \A s \in Slots : worker[w][s].name = 0 => worker[w][s] = NoData
    /\ worker[w].cand # NoData => worker[w].pc \in {"check", "creating", "credentials"}
    /\ worker[w].pc \in {"check", "creating"} => worker[w].cand # NoData
    /\ worker[w].edata # NoData => worker[w].pc = "running"
    /\ worker[w].data # NoData => worker[w].pc \notin {"wait", "update", "doomed"} /\ acquireLock # w
    /\ worker[w].pc = "doomed" => worker[w].list # {}

\* A machine is Creating while its goroutine runs, and meanwhile only the job
\* that waits for it has a pointer to it; nobody removes it.
CreatingKept ==
  /\ \A m \in Machines :
       /\ Creating(m) <=> details[m].state = "Creating"
       /\ Creating(m) => removals[m] = 0
       /\ creation[m] = "Acquired" =>
            \E w \in Workers : worker[w].pc = "creating" /\ Holds(w, "cand", m)
  /\ \A w \in Workers :
       /\ \A s \in Slots : \A m \in Machines :
            (worker[w][s].name = m /\ Creating(m)) =>
              /\ s = "cand" /\ worker[w].pc = "creating"
              /\ worker[w].cand.live /\ creation[m] = "Acquired"
       /\ worker[w].pc = "doomed" => ~Creating(Oldest(worker[w].list))
       /\ \A m \in Machines :
            (worker[w].pc = "creating" /\ Holds(w, "cand", m) /\ creation[m] = "failed") =>
              details[m].state = "Removing"

\* A machine in somebody's hands is not free, and one whose details were taken
\* out of the map under its holder is gone and runs no job.
HeldNotFree ==
  \A m \in Machines :
    /\ details[m].state = "Absent" => details[m] = Absent
    /\ \A w \in Workers : \A s \in Slots :
         /\ Holds(w, s, m) => details[m].state \notin {"Absent", "Idle"}
         /\ (worker[w][s].name = m /\ ~worker[w][s].live) =>
              m \notin made /\ details[m].state # "Used"

\* A machine that may be taken, or that a job is about to use, has a build left.
BuildsLeft ==
  MaxBuilds > 1 => \A m \in Machines :
    /\ details[m].state \in {"Idle", "Acquired", "Creating", "Absent"} => details[m].used < MaxBuilds
    /\ details[m].used <= MaxBuilds
    /\ \A w \in Workers :
         /\ Holds(w, "cand", m) => details[m].used < MaxBuilds
         /\ (Holds(w, "data", m) /\ worker[w].pc = "credentials" /\ worker[w].cand = NoData)
              => details[m].used < MaxBuilds

MachineInv ==
  /\ MachineTypes /\ NamesKnown /\ PointersPlaced /\ CreatingKept /\ HeldNotFree
  /\ MachineExclusive /\ NoMachineLost /\ BuildsLeft
=============================================================================
