-------------------------- MODULE MachineStepsProofs --------------------------
(***************************************************************************)
(* The steps that move no pointer to a machine, that release machines or   *)
(* mark them for removal, that create machines, end a creation or a        *)
(* removal, and those that find the machines of the map: each of them      *)
(* keeps MachineInv.                                                       *)
(***************************************************************************)
EXTENDS MachineProvider, TLAPS

USE MachineAssumption

\* A step in which pointers are only dropped.
Dropped == \A v \in Workers : \A s \in Slots : worker'[v][s] = worker[v][s] \/ worker'[v][s] = NoData

\* What happens to a machine's details in such a step.
Stays(n) == details'[n] = details[n] /\ \A v \in Workers : \A s \in Slots : Holds(v, s, n) => Holds(v, s, n)'
Leaves(n) == details'[n].state = "Removing" /\ details'[n].used = details[n].used
Freed(n) == /\ details'[n].state = "Idle" /\ (MaxBuilds > 1 => details'[n].used < MaxBuilds)
            /\ \A v \in Workers : \A s \in Slots : ~Holds(v, s, n)'

\* A worker that points to a machine still being created is the one that waits
\* for that creation.
LEMMA CreatingPointers ==
  MachineInv =>
    \A u \in Workers : \A t \in Slots : \A n \in Machines :
      (worker[u][t].name = n /\ Creating(n)) =>
        t = "cand" /\ worker[u].pc = "creating" /\ worker[u].cand.live /\ creation[n] = "Acquired"
BY DEF MachineInv, CreatingKept

\* One worker moves on.
LEMMA GoStep ==
  ASSUME MachineTypes, NEW w \in Workers, NEW r \in WorkerState, Go(w, r)
  PROVE  /\ worker' \in [Workers -> WorkerState]
         /\ worker'[w] = r
         /\ \A v \in Workers : v # w => worker'[v] = worker[v]
  BY Zenon DEF MachineTypes, Go

\* A worker that asks for, prepares or retries something holds nothing but what
\* Acquire gave it.
LEMMA Empty ==
  ASSUME MachineInv, NEW w \in Workers
  PROVE  /\ worker[w] \in WorkerState
         /\ worker[w].pc \notin {"check", "creating", "credentials"} => worker[w].cand = NoData
         /\ worker[w].pc # "running" => worker[w].edata = NoData
         /\ worker[w].pc \in {"wait", "update", "doomed"} => worker[w].data = NoData
         /\ listed \in SUBSET Machines /\ listed \subseteq 1..born
         /\ worker[w].list \subseteq 1..born /\ data.valid \subseteq 1..born
         /\ data \in Counts
         /\ NoCounts \in Counts
         /\ NoCounts.valid = {}
         /\ NoData \in Ptr
<1>0. listed \subseteq 1..born /\ data.valid \subseteq 1..born
  BY Zenon DEF MachineInv, NamesKnown
<1>a. 1..born \subseteq Machines
  BY DEF MachineInv, MachineTypes, Machines
<1>1. listed \in SUBSET Machines /\ listed \subseteq 1..born /\ data.valid \subseteq 1..born
  BY <1>0, <1>a, Zenon
<1>2. /\ worker[w] \in WorkerState /\ worker[w].list \subseteq 1..born
      /\ data \in Counts
  BY Zenon DEF MachineInv, MachineTypes, NamesKnown
<1>3. /\ worker[w].pc \notin {"check", "creating", "credentials"} => worker[w].cand = NoData
      /\ worker[w].pc # "running" => worker[w].edata = NoData
      /\ worker[w].pc \in {"wait", "update", "doomed"} => worker[w].data = NoData
  BY Zenon DEF MachineInv, PointersPlaced
<1>4. /\ NoCounts \in Counts
      /\ NoCounts.valid = {}
  BY Zenon DEF NoCounts, Counts
<1>5. NoData \in Ptr
  BY DEF NoData, Ptr
<1> QED
  BY <1>1, <1>2, <1>3, <1>4, <1>5, Zenon

\* A pointer tells its machine, and is not nil.
LEMMA PointerFacts ==
  /\ \A n : Pointer(n).name = n /\ Pointer(n).live = TRUE /\ Pointer(n) # NoData
  /\ \A m, n : Pointer(m) = Pointer(n) => m = n
<1>1. \A n : Pointer(n).name = n /\ Pointer(n).live = TRUE
  BY Zenon DEF Pointer
<1>2. NoData.live = FALSE
  BY Zenon DEF NoData
<1> QED
  BY <1>1, <1>2, Zenon

\* Where a failed attempt to use a machine leads.
LEMMA AfterFailureFields ==
  ASSUME MachineInv, NEW w \in Workers, NEW r \in AfterFailure(w)
  PROVE  /\ r \in WorkerState /\ r.pc \in {"release", "use"} /\ r.list = worker[w].list
         /\ r.cand = NoData /\ r.data = worker[w].data /\ r.edata = NoData
<1>1. {"release", "use"} \subseteq PCs
  BY Zenon DEF PCs
<1>2. worker[w].prep + 1 \in Nat
  BY Empty DEF WorkerState
<1>3. CASE r = [worker[w] EXCEPT !.pc = "release", !.cand = NoData, !.edata = NoData]
  BY <1>1, <1>3, Empty, Zenon DEF WorkerState
<1>4. CASE r = [worker[w] EXCEPT !.pc = "use", !.prep = worker[w].prep + 1, !.cand = NoData, !.edata = NoData]
  BY <1>1, <1>2, <1>4, Empty, Zenon DEF WorkerState
<1> QED
  BY <1>3, <1>4, Zenon DEF AfterFailure

\* Where a failed round of retryUseMachine leads.
LEMMA NextTryFields ==
  ASSUME MachineInv, NEW w \in Workers, worker[w].edata = NoData, NEW r \in NextTry(w)
  PROVE  /\ r \in WorkerState /\ r.pc \in {"load", "release", "use"} /\ r.list = worker[w].list
         /\ r.cand = NoData /\ r.data = worker[w].data /\ r.edata = NoData
<1>1. "load" \in PCs
  BY Zenon DEF PCs
<1>2. worker[w].tries + 1 \in Nat
  BY Empty DEF WorkerState
<1>3. CASE r = [worker[w] EXCEPT !.pc = "load", !.tries = worker[w].tries + 1, !.cand = NoData]
  BY <1>1, <1>2, <1>3, Empty, Zenon DEF WorkerState
<1>4. CASE r \in AfterFailure(w)
  BY <1>4, AfterFailureFields, Zenon
<1> QED
  BY <1>3, <1>4, Zenon DEF NextTry

\* remove marks one machine, if it is in the map.
LEMMA RemoveFacts ==
  ASSUME MachineTypes, HeldNotFree, NEW m \in Machines, remove(m)
  PROVE  /\ details' \in [Machines -> [state: {"Absent", "Idle", "Creating", "Acquired", "Used", "Removing"},
                                       used: Nat]]
         /\ removals' \in [Machines -> Nat]
         /\ \A n \in Machines : n # m => details'[n] = details[n] /\ removals'[n] = removals[n]
         /\ (details[m].state = "Absent" /\ details'[m] = details[m] /\ removals'[m] = removals[m]) \/ Leaves(m)
         /\ details[m] = Absent => details'[m] = details[m] /\ removals'[m] = removals[m]
<1>1. CASE details[m] = Absent
  BY <1>1 DEF MachineTypes, remove, Absent
<1>2. CASE details[m] # Absent
  <2>1. /\ details' = [details EXCEPT ![m] = [state |-> "Removing", used |-> details[m].used]]
        /\ removals' = [removals EXCEPT ![m] = removals[m] + 1]
    BY <1>2, Zenon DEF remove
  <2>2. details[m].used \in Nat /\ removals[m] + 1 \in Nat
    BY DEF MachineTypes
  <2>3. details'[m] = [state |-> "Removing", used |-> details[m].used]
    BY <2>1, Zenon DEF MachineTypes
  <2> QED
    BY <1>2, <2>1 DEF MachineTypes, Leaves
<1> QED
  BY <1>1, <1>2, Zenon

\* finalizeRemoval takes the machine out of the map, under those who hold it.
LEMMA finalizeRemovalStep ==
  ASSUME MachineInv, NEW m \in Machines, finalizeRemoval(m)
  PROVE  MachineInv'
<1>1. /\ removals[m] > 0 /\ m \notin made
      /\ removals' = [removals EXCEPT ![m] = removals[m] - 1]
      /\ details' = [details EXCEPT ![m] = Absent]
      /\ UNCHANGED <<creation, listed, made, up, acquireLock, data, born>>
  BY Zenon DEF finalizeRemoval, hostVars
<1>2. worker' = [w \in Workers |-> [worker[w] EXCEPT
                  !.cand = Detached(worker[w].cand, m), !.data = Detached(worker[w].data, m),
                  !.edata = Detached(worker[w].edata, m)]]
  BY Zenon DEF finalizeRemoval
<1>3. \A p \in Ptr : /\ Detached(p, m) \in Ptr /\ Detached(p, m).name = p.name
                     /\ p.name # m => Detached(p, m) = p
                     /\ p.name = m => ~Detached(p, m).live /\ p # NoData /\ Detached(p, m) # NoData
  BY DEF Detached, Ptr, NoData, Machines
<1>4. /\ worker' \in [Workers -> WorkerState]
      /\ \A w \in Workers : /\ worker'[w].pc = worker[w].pc /\ worker'[w].list = worker[w].list
                            /\ worker'[w].cand = Detached(worker[w].cand, m)
                            /\ worker'[w].data = Detached(worker[w].data, m)
                            /\ worker'[w].edata = Detached(worker[w].edata, m)
  <2> HIDE DEF Detached
  <2>1. \A w \in Workers : worker[w] \in WorkerState
    BY Empty, Zenon
  <2> QED
    BY <1>2, <1>3, <2>1, Zenon DEF WorkerState
<1>5. \A w \in Workers : \A s \in Slots :
        /\ worker[w][s] \in Ptr /\ worker'[w][s].name = worker[w][s].name
        /\ worker[w][s].name # m => worker'[w][s] = worker[w][s]
        /\ worker[w][s].name = m => ~worker'[w][s].live
        /\ worker'[w][s] = NoData <=> worker[w][s] = NoData
  <2>1. \A w \in Workers : \A s \in Slots : worker[w][s] \in Ptr
    BY Empty, Zenon DEF WorkerState, Slots
  <2>2. \A w \in Workers : \A s \in Slots : worker'[w][s] = Detached(worker[w][s], m)
    BY <1>4, Zenon DEF Slots
  <2> QED
    BY <1>3, <2>1, <2>2
<1>6. \A w \in Workers : \A s \in Slots : \A n \in Machines : Holds(w, s, n)' <=> n # m /\ Holds(w, s, n)
  <2>1. ASSUME NEW w \in Workers, NEW s \in Slots, NEW n \in Machines PROVE Holds(w, s, n)' <=> n # m /\ Holds(w, s, n)
    <3>1. CASE worker[w][s].name = m
      <4>1. ~Holds(w, s, n)'
        BY <1>5, <3>1, PointerFacts, Zenon DEF Holds
      <4>2. Holds(w, s, n) => n = m
        BY <3>1, PointerFacts, Zenon DEF Holds
      <4> QED
        BY <4>1, <4>2, Zenon
    <3>2. CASE worker[w][s].name # m
      BY <1>5, PointerFacts DEF Holds
    <3> QED
      BY <3>1, <3>2, Zenon
  <2> QED
    BY <2>1, Zenon
<1>7. /\ details' \in [Machines -> [state: {"Absent", "Idle", "Creating", "Acquired", "Used", "Removing"}, used: Nat]]
      /\ removals' \in [Machines -> Nat] /\ details'[m] = Absent
      /\ Absent.state = "Absent" /\ Absent.used = 0
      /\ \A n \in Machines : n # m => details'[n] = details[n] /\ removals'[n] = removals[n]
  BY <1>1 DEF MachineInv, MachineTypes, Absent
<1>8. /\ ~Creating(m)
      /\ \A n : Creating(n)' <=> Creating(n)
  <2>1. ~Creating(m)
    BY <1>1 DEF MachineInv, CreatingKept
  <2> QED
    BY <1>1, <2>1, Zenon DEF Creating
<1>9. MachineTypes'
  BY <1>1, <1>4, <1>7, Zenon DEF MachineInv, MachineTypes
<1>10. NamesKnown'
  <2>1. \A n \in Machines : n > born => n # m
    BY <1>1 DEF MachineInv, NamesKnown
  <2> QED
    BY <1>1, <1>4, <1>5 DEF MachineInv, NamesKnown
<1>11. PointersPlaced'
  <2>1. \A w \in Workers : \A s \in Slots : worker'[w][s].name = 0 => worker'[w][s] = NoData
    BY <1>5 DEF MachineInv, PointersPlaced
  <2> QED
    BY <1>1, <1>4, <1>5 DEF MachineInv, PointersPlaced, Slots
<1>12. CreatingKept'
  <2>1. \A n \in Machines : (/\ Creating(n) <=> details[n].state = "Creating"
                             /\ Creating(n) => removals[n] = 0)'
    BY <1>7, <1>8 DEF MachineInv, CreatingKept
  <2>2. \A n \in Machines : (creation[n] = "Acquired" =>
          \E v \in Workers : worker[v].pc = "creating" /\ Holds(v, "cand", n))'
    BY <1>1, <1>4, <1>6 DEF MachineInv, CreatingKept, Slots, Creating
  <2>3. ASSUME NEW v \in Workers, NEW s \in Slots, NEW n \in Machines, worker'[v][s].name = n, Creating(n)
        PROVE  s = "cand" /\ worker'[v].pc = "creating" /\ worker'[v].cand.live /\ creation[n] = "Acquired"
    <3>1. n # m /\ worker'[v][s] = worker[v][s]
      BY <1>5, <1>8, <2>3, Zenon
    <3>2. s = "cand" /\ worker[v].pc = "creating" /\ worker[v].cand.live /\ creation[n] = "Acquired"
      BY <2>3, <3>1 DEF MachineInv, CreatingKept
    <3> QED
      BY <1>4, <3>1, <3>2, Zenon
  <2>4. \A v \in Workers : worker'[v].pc = "doomed" => ~Creating(Oldest(worker'[v].list))
    BY <1>4 DEF MachineInv, CreatingKept
  <2>5. \A v \in Workers : \A n \in Machines :
          ((worker[v].pc = "creating" /\ Holds(v, "cand", n) /\ creation[n] = "failed") =>
             details[n].state = "Removing")'
    BY <1>1, <1>4, <1>6 DEF MachineInv, CreatingKept, Slots
  <2> QED
    BY <1>1, <1>8, <2>1, <2>2, <2>3, <2>4, <2>5 DEF CreatingKept
<1>13. HeldNotFree'
  <2>1. \A n \in Machines : (details[n].state = "Absent" => details[n] = Absent)'
    BY <1>7, Zenon DEF MachineInv, HeldNotFree
  <2>2. \A n \in Machines : \A v \in Workers : \A s \in Slots :
          (Holds(v, s, n) => details[n].state \notin {"Absent", "Idle"})'
    BY <1>6, <1>7, Zenon DEF MachineInv, HeldNotFree
  <2>3. \A n \in Machines : \A v \in Workers : \A s \in Slots :
          ((worker[v][s].name = n /\ ~worker[v][s].live) => n \notin made /\ details[n].state # "Used")'
    BY <1>1, <1>5, <1>7 DEF MachineInv, HeldNotFree
  <2> QED
    BY <2>1, <2>2, <2>3, Zenon DEF HeldNotFree
<1>14. MachineExclusive'
  BY <1>6 DEF MachineInv, MachineExclusive
<1>15. NoMachineLost'
  <2>1. \A n \in Machines : n # m /\ Held(n) => Held(n)'
    BY <1>6, Zenon DEF Held
  <2> QED
    BY <1>1, <1>7, <2>1, Zenon DEF MachineInv, NoMachineLost
<1>16. BuildsLeft'
  <2>1. MaxBuilds > 1 => 0 < MaxBuilds /\ 0 <= MaxBuilds
    OBVIOUS
  <2>2. \A w \in Workers : worker'[w].pc = worker[w].pc /\ (worker'[w].cand = NoData <=> worker[w].cand = NoData)
    BY <1>4, <1>5, Zenon DEF Slots
  <2> QED
    BY <1>6, <1>7, <2>2 DEF MachineInv, BuildsLeft, Slots
<1> QED
  BY <1>9, <1>10, <1>11, <1>12, <1>13, <1>14, <1>15, <1>16, Zenon DEF MachineInv

-----------------------------------------------------------------------------
(* Steps that move no pointer                                              *)

\* A step that leaves every pointer, the map and the goroutines alone, and in
\* which no worker begins to wait for a creation, ends waiting for one or dooms
\* a machine.
LEMMA PointersAlone ==
  ASSUME MachineInv, BuildsLeft',
         UNCHANGED <<details, creation, removals>>, made' \subseteq made,
         \A w \in Workers : \A s \in Slots : worker'[w][s] = worker[w][s],
         \A w \in Workers : worker'[w].pc = "creating" <=> worker[w].pc = "creating",
         \A w \in Workers : worker'[w].pc = "doomed" => worker[w].pc = "doomed" /\ worker'[w].list = worker[w].list
  PROVE  CreatingKept' /\ HeldNotFree' /\ MachineExclusive' /\ NoMachineLost'
<1>1. \A w \in Workers : \A s \in Slots : \A m \in Machines : Holds(w, s, m)' <=> Holds(w, s, m)
  BY Zenon DEF Holds
<1>2. \A w \in Workers : worker'[w].cand = worker[w].cand
  BY Zenon DEF Slots
<1>3. \A m : Creating(m)' <=> Creating(m)
  BY Zenon DEF Creating
<1>4. \A w \in Workers : worker'[w].pc = "doomed" => Oldest(worker'[w].list) = Oldest(worker[w].list)
  BY Zenon
<1>5. CreatingKept'
  BY <1>1, <1>3 DEF MachineInv, CreatingKept, Slots
<1>6. HeldNotFree'
  BY <1>1 DEF MachineInv, HeldNotFree
<1>7. MachineExclusive' /\ NoMachineLost'
  BY <1>1 DEF MachineInv, MachineExclusive, NoMachineLost, Held
<1> QED
  BY <1>5, <1>6, <1>7, Zenon

\* One worker moves on, with at most the pointer that Acquire gave it.
LEMMA WorkerMoves ==
  ASSUME MachineInv, NEW w \in Workers, NEW r \in WorkerState, Go(w, r),
         UNCHANGED <<details, creation, removals, listed, made, up, born>>,
         data' \in Counts,
         data'.valid \subseteq 1..born,
         acquireLock' \in {acquireLock, w, NoWorker},
         worker[w].cand = NoData, r.cand = NoData, worker[w].edata = NoData, r.edata = NoData,
         r.data = worker[w].data, r.list \subseteq 1..born,
         worker[w].pc # "creating", r.pc \notin {"check", "creating", "doomed"},
         r.data # NoData => r.pc \notin {"wait", "update"} /\ acquireLock' # w,
         (r.pc = "credentials" /\ r.data.live) => details[r.data.name].state = "Acquired"
  PROVE  MachineInv'
<1>1. /\ worker' \in [Workers -> WorkerState] /\ worker'[w] = r
      /\ \A v \in Workers : v # w => worker'[v] = worker[v]
  BY GoStep, Zenon DEF MachineInv
<1>2. \A v \in Workers : \A s \in Slots : worker'[v][s] = worker[v][s]
  BY <1>1, Zenon DEF Slots
<1>3. MachineTypes'
  BY <1>1, Zenon DEF MachineInv, MachineTypes
<1>4. NamesKnown'
  BY <1>1, <1>2 DEF MachineInv, NamesKnown
<1>5. PointersPlaced'
  BY <1>1, <1>2 DEF MachineInv, PointersPlaced
<1>6. BuildsLeft'
  BY <1>1 DEF MachineInv, BuildsLeft, Holds, Pointer
<1>7. \A v \in Workers : /\ worker'[v].pc = "creating" <=> worker[v].pc = "creating"
                         /\ worker'[v].pc = "doomed" => worker[v].pc = "doomed" /\ worker'[v].list = worker[v].list
  BY <1>1, Zenon
<1> QED
  BY <1>2, <1>3, <1>4, <1>5, <1>6, <1>7, PointersAlone, Zenon DEF MachineInv

\* Acquire takes its lock and lists the machines.
LEMMA AcquireLoadStep ==
  ASSUME MachineInv, NEW w \in Workers, AcquireLoad(w)
  PROVE  MachineInv'
<1> DEFINE r == [worker[w] EXCEPT !.pc = "update", !.list = listed]
<1>1. /\ r \in WorkerState /\ r.pc = "update" /\ r.list = listed
      /\ r.cand = worker[w].cand /\ r.data = worker[w].data /\ r.edata = worker[w].edata
  <2>1. "update" \in PCs
    BY Zenon DEF PCs
  <2> QED
    BY <2>1, Empty, Zenon DEF WorkerState
<1>2. /\ Go(w, r) /\ worker[w].pc = "wait" /\ acquireLock' = w /\ data' = NoCounts
      /\ UNCHANGED <<details, creation, removals, listed, made, up, born>>
  BY Zenon DEF AcquireLoad, hostVars
<1> HIDE DEF r
<1> QED
  BY <1>1, <1>2, Empty, WorkerMoves, Zenon

\* Acquire ends without a machine.
LEMMA AcquireNothingStep ==
  ASSUME MachineInv, NEW w \in Workers, AcquireNothing(w)
  PROVE  MachineInv'
<1> DEFINE p == IF IdleCount # 0 /\ data.idle = 0 THEN "wait" ELSE "ready"
           r == [worker[w] EXCEPT !.pc = p]
<1>1. p \in PCs /\ p \in {"wait", "ready"}
  BY Zenon DEF PCs
<1>2. /\ Go(w, r) /\ worker[w].pc = "find" /\ acquireLock = w /\ acquireLock' = NoWorker
      /\ data' = NoCounts /\ UNCHANGED <<details, creation, removals, listed, made, up, born>>
  BY Zenon DEF AcquireNothing, hostVars
<1>3. worker[w].data = NoData
  BY <1>2, Zenon DEF MachineInv, PointersPlaced
<1> HIDE DEF p
<1>4. /\ r \in WorkerState /\ r.pc = p /\ r.list = worker[w].list
      /\ r.cand = worker[w].cand /\ r.data = worker[w].data /\ r.edata = worker[w].edata
  BY <1>1, Empty, Zenon DEF WorkerState
<1> HIDE DEF r
<1> QED
  BY <1>1, <1>2, <1>3, <1>4, Empty, WorkerMoves, Zenon

\* A job begins with what Acquire gave it.
LEMMA PrepareStep ==
  ASSUME MachineInv, NEW w \in Workers, Prepare(w)
  PROVE  MachineInv'
<1> DEFINE r == [worker[w] EXCEPT !.pc = "use", !.prep = 1]
<1>1. /\ r \in WorkerState /\ r.pc = "use" /\ r.list = worker[w].list
      /\ r.cand = worker[w].cand /\ r.data = worker[w].data /\ r.edata = worker[w].edata
  <2>1. "use" \in PCs
    BY Zenon DEF PCs
  <2> QED
    BY <2>1, Empty, Zenon DEF WorkerState
<1>2. /\ Go(w, r) /\ worker[w].pc = "ready" /\ acquireLock' = acquireLock /\ data' = data
      /\ UNCHANGED <<details, creation, removals, listed, made, up, born>>
  BY Zenon DEF Prepare, hostVars
<1>3. worker[w].data # NoData => acquireLock # w
  BY Zenon DEF MachineInv, PointersPlaced
<1> HIDE DEF r
<1> QED
  BY <1>1, <1>2, <1>3, Empty, WorkerMoves, Zenon

\* Use takes the machine of Acquire only if it still is Acquired.
LEMMA UseStep ==
  ASSUME MachineInv, NEW w \in Workers, Use(w)
  PROVE  MachineInv'
<1> DEFINE d == worker[w].data
           usable == d.live /\ details[d.name].state = "Acquired" /\ TRUE \in CanConnect(d.name, TRUE)
           p == IF usable THEN "credentials" ELSE "load"
           r == [worker[w] EXCEPT !.tries = 0, !.pc = p]
<1>1. p \in PCs /\ p \in {"credentials", "load"} /\ (p = "credentials" => details[d.name].state = "Acquired")
  BY Zenon DEF PCs
<1>2. /\ Go(w, r) /\ worker[w].pc = "use" /\ acquireLock' = acquireLock /\ data' = data
      /\ UNCHANGED <<details, creation, removals, listed, made, up, born>>
  BY Zenon DEF Use
<1>3. worker[w].data # NoData => acquireLock # w
  BY Zenon DEF MachineInv, PointersPlaced
<1> HIDE DEF p
<1>4. /\ r \in WorkerState /\ r.pc = p /\ r.list = worker[w].list
      /\ r.cand = worker[w].cand /\ r.data = worker[w].data /\ r.edata = worker[w].edata
  BY <1>1, Empty, Zenon DEF WorkerState
<1> HIDE DEF r
<1> QED
  BY <1>1, <1>2, <1>3, <1>4, Empty, WorkerMoves, Zenon

\* useMachine lists the machines or fails to.
LEMMA useMachineStep ==
  ASSUME MachineInv, NEW w \in Workers, useMachine(w)
  PROVE  MachineInv'
<1> DEFINE found == [worker[w] EXCEPT !.pc = "find", !.list = listed]
<1>1. PICK r \in {found} \cup NextTry(w) : Go(w, r)
  BY Zenon DEF useMachine
<1>2. /\ worker[w].pc = "load" /\ acquireLock' = acquireLock /\ data' = data
      /\ UNCHANGED <<details, creation, removals, listed, made, up, born>>
  BY Zenon DEF useMachine, hostVars
<1>3. worker[w].data # NoData => acquireLock # w
  BY Zenon DEF MachineInv, PointersPlaced
<1>4. /\ r \in WorkerState /\ r.pc \in {"find", "load", "release", "use"} /\ r.list \subseteq 1..born
      /\ r.cand = NoData /\ r.data = worker[w].data /\ r.edata = NoData
  <2>1. CASE r = found
    <3>1. "find" \in PCs
      BY Zenon DEF PCs
    <3> QED
      BY <1>2, <2>1, <3>1, Empty, Zenon DEF WorkerState
  <2>2. CASE r \in NextTry(w)
    BY <1>2, <2>2, Empty, NextTryFields
  <2> QED
    BY <2>1, <2>2, Zenon
<1> QED
  BY <1>1, <1>2, <1>3, <1>4, Empty, WorkerMoves, Zenon

\* Steps of docker-machine and of the machines themselves.
LEMMA HostMoves ==
  ASSUME MachineInv, UNCHANGED <<details, creation, removals, worker, acquireLock, data, born>>,
         listed' \subseteq 1..born, made' \subseteq made, up' \subseteq made'
  PROVE  MachineInv'
<1>1. MachineTypes' /\ PointersPlaced' /\ BuildsLeft'
  BY Zenon DEF MachineInv, MachineTypes, PointersPlaced, BuildsLeft, Holds
<1>2. NamesKnown'
  BY Zenon DEF MachineInv, NamesKnown
<1> QED
  BY <1>1, <1>2, PointersAlone, Zenon DEF MachineInv

\* docker-machine makes a directory, removes a machine, or one dies.
LEMMA HostStep ==
  ASSUME MachineInv, NEW m \in Machines, CreateBegins(m) \/ MachineFails(m) \/ removeMachine(m)
  PROVE  MachineInv'
<1>1. CASE CreateBegins(m)
  <2>1. m \in 1..born
    BY <1>1 DEF MachineInv, MachineTypes, NamesKnown, CreateBegins, Machines
  <2>2. listed' \subseteq 1..born
    BY <1>1, <2>1, Zenon DEF MachineInv, NamesKnown, CreateBegins
  <2> QED
    BY <1>1, <2>2, HostMoves, Zenon DEF MachineInv, NamesKnown, CreateBegins
<1>2. CASE MachineFails(m)
  BY <1>2, HostMoves, Zenon DEF MachineInv, NamesKnown, MachineFails
<1>3. CASE removeMachine(m)
  BY <1>3, HostMoves, Zenon DEF MachineInv, NamesKnown, removeMachine
<1> QED
  BY <1>1, <1>2, <1>3, Zenon

-----------------------------------------------------------------------------
(* Steps that change the map: machines are found, released or marked for   *)
(* removal, and pointers are dropped.                                      *)

\* Such a step keeps what the map and the pointers say about each other.
LEMMA MapStep ==
  ASSUME MachineInv, MachineTypes', Dropped,
         UNCHANGED <<creation, made>>,
         \A n \in Machines : Stays(n) \/ (~Creating(n) /\ (Leaves(n) \/ Freed(n))),
         \A n \in Machines : Creating(n) => removals'[n] = removals[n],
         \A v \in Workers : worker'[v].pc = "creating" <=> worker[v].pc = "creating",
         \A v \in Workers : worker'[v].pc = "doomed" => ~Creating(Oldest(worker'[v].list)),
         \A v \in Workers : worker'[v].pc = "credentials" => worker[v].pc = "credentials" /\ worker'[v].cand = worker[v].cand
  PROVE  CreatingKept' /\ HeldNotFree' /\ MachineExclusive' /\ NoMachineLost' /\ BuildsLeft'
<1>1. \A v \in Workers : \A s \in Slots : \A n \in Machines : Holds(v, s, n)' => Holds(v, s, n)
  BY DEF Dropped, Holds, Pointer, NoData
<1>2. \A n : Creating(n)' <=> Creating(n)
  BY Zenon DEF Creating
<1>3. CreatingKept'
  <2>1. \A n \in Machines : (Creating(n) <=> details[n].state = "Creating")'
    BY <1>2 DEF MachineInv, CreatingKept, Stays, Leaves, Freed
  <2>2. \A n \in Machines : (Creating(n) => removals[n] = 0)'
    BY <1>2 DEF MachineInv, CreatingKept
  <2>3. ASSUME NEW n \in Machines, creation[n] = "Acquired"
        PROVE  \E v \in Workers : worker'[v].pc = "creating" /\ Holds(v, "cand", n)'
    <3>1. PICK v \in Workers : worker[v].pc = "creating" /\ Holds(v, "cand", n)
      BY <2>3, Zenon DEF MachineInv, CreatingKept
    <3>2. Stays(n)
      BY <2>3, Zenon DEF Creating
    <3> QED
      BY <3>1, <3>2, Zenon DEF Stays, Slots
  <2>4. ASSUME NEW v \in Workers, NEW s \in Slots, NEW n \in Machines, worker'[v][s].name = n, Creating(n)
        PROVE  s = "cand" /\ worker'[v].pc = "creating" /\ worker'[v].cand.live /\ creation[n] = "Acquired"
    <3>1. worker'[v][s] = worker[v][s]
      BY <2>4 DEF Dropped, NoData, Machines
    <3>2. s = "cand" /\ worker[v].pc = "creating" /\ worker[v].cand.live /\ creation[n] = "Acquired"
      BY <2>4, <3>1 DEF MachineInv, CreatingKept
    <3> QED
      BY <3>1, <3>2, Zenon
  <2>5. ASSUME NEW v \in Workers, NEW n \in Machines, worker'[v].pc = "creating", Holds(v, "cand", n)',
               creation[n] = "failed"
        PROVE  details'[n].state = "Removing"
    <3>1. details[n].state = "Removing"
      BY <1>1, <2>5, Zenon DEF MachineInv, CreatingKept, Slots
    <3> QED
      BY <2>5, <3>1, Zenon DEF Stays, Leaves, Freed, Slots
  <2> QED
    BY <1>2, <2>1, <2>2, <2>3, <2>4, <2>5 DEF CreatingKept
<1>4. HeldNotFree'
  <2>1. \A n \in Machines : (details[n].state = "Absent" => details[n] = Absent)'
    BY Zenon DEF MachineInv, HeldNotFree, Stays, Leaves, Freed
  <2>2. \A n \in Machines : \A v \in Workers : \A s \in Slots :
          (Holds(v, s, n) => details[n].state \notin {"Absent", "Idle"})'
    BY <1>1, Zenon DEF MachineInv, HeldNotFree, Stays, Leaves, Freed
  <2>3. ASSUME NEW n \in Machines, NEW v \in Workers, NEW s \in Slots,
               worker'[v][s].name = n, ~worker'[v][s].live
        PROVE  n \notin made /\ details'[n].state # "Used"
    <3>1. worker'[v][s] = worker[v][s]
      BY <2>3 DEF Dropped, NoData, Machines
    <3> QED
      BY <2>3, <3>1 DEF MachineInv, HeldNotFree, Stays, Leaves, Freed
  <2> QED
    BY <2>1, <2>2, <2>3, Zenon DEF HeldNotFree
<1>5. MachineExclusive'
  BY <1>1 DEF MachineInv, MachineExclusive
<1>6. NoMachineLost'
  BY Zenon DEF MachineInv, NoMachineLost, Held, Stays, Leaves, Freed
<1>7. BuildsLeft'
  <2> SUFFICES ASSUME MaxBuilds > 1, NEW n \in Machines
      PROVE  (/\ details[n].state \in {"Idle", "Acquired", "Creating", "Absent"} => details[n].used < MaxBuilds
              /\ details[n].used <= MaxBuilds
              /\ \A w \in Workers :
                   /\ Holds(w, "cand", n) => details[n].used < MaxBuilds
                   /\ (Holds(w, "data", n) /\ worker[w].pc = "credentials" /\ worker[w].cand = NoData)
                        => details[n].used < MaxBuilds)'
    BY Zenon DEF BuildsLeft
  <2>1. /\ details[n].state \in {"Idle", "Acquired", "Creating", "Absent"} => details[n].used < MaxBuilds
        /\ details[n].used <= MaxBuilds
        /\ \A w \in Workers :
             /\ Holds(w, "cand", n) => details[n].used < MaxBuilds
             /\ (Holds(w, "data", n) /\ worker[w].pc = "credentials" /\ worker[w].cand = NoData)
                   => details[n].used < MaxBuilds
    BY Zenon DEF MachineInv, BuildsLeft
  <2>2. details[n].used \in Nat /\ details'[n].used \in Nat
    BY Zenon DEF MachineInv, MachineTypes
  <2>3. CASE Stays(n) \/ Leaves(n)
    BY <1>1, <2>1, <2>3, Zenon DEF Stays, Leaves, Slots
  <2>4. CASE Freed(n)
    BY <2>2, <2>4 DEF Freed
  <2> QED
    BY <2>3, <2>4, Zenon
<1> QED
  BY <1>3, <1>4, <1>5, <1>6, <1>7, Zenon

\* No step but a creation gives a name.
LEMMA NamesStep ==
  ASSUME MachineInv, Dropped, UNCHANGED <<creation, listed, made, up, born>>,
         data'.valid \subseteq 1..born,
         \A n \in Machines : n > born => details'[n] = details[n] /\ removals'[n] = removals[n],
         \A v \in Workers : worker'[v].list \subseteq 1..born
  PROVE  NamesKnown'
<1>1. \A v \in Workers : \A s \in Slots : worker'[v][s].name <= born
  BY DEF MachineInv, MachineTypes, NamesKnown, Dropped, NoData
<1> QED
  BY <1>1, Zenon DEF MachineInv, NamesKnown

\* Release makes a machine idle or removes it; one that is out of the map it
\* can only remove, by its name.
LEMMA ReleaseFacts ==
  ASSUME MachineInv, NEW p \in Ptr, p.name = 0 => p = NoData, Release(p),
         p.live => details[p.name].state # "Absent"
  PROVE  /\ details' \in [Machines -> [state: {"Absent", "Idle", "Creating", "Acquired", "Used", "Removing"},
                                       used: Nat]]
         /\ removals' \in [Machines -> Nat]
         /\ \A n \in Machines : n # p.name => details'[n] = details[n] /\ removals'[n] = removals[n]
         /\ \A n \in Machines : n = p.name /\ p.live =>
              Leaves(n) \/ (details'[n].state = "Idle" /\ (MaxBuilds > 1 => details'[n].used < MaxBuilds))
         /\ \A n \in Machines : n = p.name /\ ~p.live =>
              (details'[n] = details[n] /\ removals'[n] = removals[n]) \/ (Leaves(n) /\ details[n] # Absent)
<1>0. MachineTypes /\ HeldNotFree
  BY Zenon DEF MachineInv
<1>1. CASE p.name = 0
  BY <1>0, <1>1 DEF Release, MachineTypes, Machines
<1>2. CASE p.name # 0
  <2>1. PICK m \in Machines : m = p.name
    BY <1>2 DEF Ptr, Machines
  <2>2. CASE remove(m)
    <3>1. p.live => Leaves(m)
      BY <1>0, <2>1, <2>2, RemoveFacts, Zenon
    <3>2. ~p.live => (details'[m] = details[m] /\ removals'[m] = removals[m]) \/ (Leaves(m) /\ details[m] # Absent)
      BY <1>0, <2>2, RemoveFacts, Zenon
    <3> QED
      BY <1>0, <2>1, <2>2, RemoveFacts, Zenon
  <2>3. CASE ~remove(m)
    <3>1. CASE p.live
      <4>1. /\ details' = [details EXCEPT ![m] = [state |-> "Idle", used |-> details[m].used]]
            /\ removals' = removals /\ ~(MaxBuilds > 0 /\ details[m].used >= MaxBuilds)
        BY <1>2, <2>1, <2>3, <3>1, Zenon DEF Release
      <4>2. details[m].used \in Nat
        BY <1>0, Zenon DEF MachineTypes
      <4>3. details'[m].state = "Idle" /\ details'[m].used = details[m].used
        BY <1>0, <4>1, Zenon DEF MachineTypes
      <4>4. MaxBuilds > 1 => details'[m].used < MaxBuilds
        BY <4>1, <4>2
      <4> QED
        BY <1>0, <2>1, <3>1, <4>1 DEF MachineTypes
    <3>2. CASE ~p.live
      <4>1. UNCHANGED <<details, removals>>
        BY <2>1, <2>3, <3>2, Zenon DEF Release
      <4> QED
        BY <1>0, <3>2, <4>1, Zenon DEF MachineTypes
    <3> QED
      BY <3>1, <3>2, Zenon
  <2> QED
    BY <2>2, <2>3, Zenon
<1> QED
  BY <1>1, <1>2, Zenon

\* A worker releases the machine of one of its pointers and drops the pointer.
LEMMA ReleaseStep ==
  ASSUME MachineInv, NEW w \in Workers, NEW slot \in Slots, NEW r \in WorkerState, Go(w, r),
         Release(worker[w][slot]), UNCHANGED <<creation, listed, made, up, acquireLock, data, born>>,
         r[slot] = NoData, \A s \in Slots : s # slot => r[s] = worker[w][s],
         r.cand = NoData, r.edata = NoData, r.list \subseteq 1..born,
         worker[w].pc # "creating", r.pc \notin {"check", "creating", "doomed", "credentials"},
         r.data # NoData => r.pc \notin {"wait", "update"}
  PROVE  MachineInv'
<1>1. /\ worker' \in [Workers -> WorkerState] /\ worker'[w] = r
      /\ \A v \in Workers : v # w => worker'[v] = worker[v]
  BY GoStep, Zenon DEF MachineInv
<1>2. PICK p \in Ptr : p = worker[w][slot]
  BY Zenon DEF MachineInv, MachineTypes, WorkerState, Slots
<1>3. /\ p.name = 0 => p = NoData
      /\ p.name <= born
      /\ \A n \in Machines : n = p.name => ~Creating(n)
  BY <1>2 DEF MachineInv, PointersPlaced, NamesKnown, CreatingKept
<1>4. \A n \in Machines : p.live /\ n = p.name => p = Pointer(n) /\ Holds(w, slot, n)
  BY <1>2, Zenon DEF Ptr, Pointer, Holds
<1>5. p.live => details[p.name].state # "Absent"
  <2> SUFFICES ASSUME p.live PROVE details[p.name].state # "Absent"
    BY Zenon
  <2>1. p.name \in Machines
    BY <1>3 DEF Ptr, Machines, NoData
  <2> QED
    BY <1>4, <2>1, Zenon DEF MachineInv, HeldNotFree
<1>6. Release(p)
  BY <1>2, Zenon
<1>7. Dropped
  BY <1>1, Zenon DEF Dropped
<1>8. \A n \in Machines : Stays(n) \/ (~Creating(n) /\ (Leaves(n) \/ Freed(n)))
  <2> SUFFICES ASSUME NEW n \in Machines PROVE Stays(n) \/ (~Creating(n) /\ (Leaves(n) \/ Freed(n)))
    BY Zenon
  <2>0. \A v \in Workers : \A s \in Slots : Holds(v, s, n)' <=> Holds(v, s, n) /\ ~(v = w /\ s = slot)
    BY <1>1 DEF Holds, Pointer, NoData
  <2>1. CASE n # p.name
    <3>1. ~Holds(w, slot, n)
      BY <1>2, <2>1 DEF Holds, Pointer
    <3> QED
      BY <1>3, <1>5, <1>6, <2>0, <2>1, <3>1, ReleaseFacts, Zenon DEF Stays
  <2>2. CASE n = p.name /\ p.live
    <3>1. \A v \in Workers : \A s \in Slots : ~Holds(v, s, n)'
      BY <1>4, <2>0, <2>2 DEF MachineInv, MachineExclusive
    <3> QED
      BY <1>3, <1>5, <1>6, <2>2, <3>1, ReleaseFacts, Zenon DEF Freed
  <2>3. CASE n = p.name /\ ~p.live
    <3>1. ~Holds(w, slot, n)
      BY <1>2, <2>3 DEF Holds, Pointer
    <3> QED
      BY <1>3, <1>6, <2>0, <2>3, <3>1, ReleaseFacts, Zenon DEF Stays
  <2> QED
    BY <2>1, <2>2, <2>3, Zenon
<1>9. MachineTypes'
  BY <1>1, <1>3, <1>5, <1>6, ReleaseFacts, Zenon DEF MachineInv, MachineTypes
<1>10. NamesKnown'
  <2>1. \A v \in Workers : worker'[v].list \subseteq 1..born
    BY <1>1, Empty, Zenon
  <2>2. \A n \in Machines : n > born => n # p.name
    BY <1>3 DEF MachineInv, MachineTypes, Ptr
  <2>3. \A n \in Machines : n > born => details'[n] = details[n] /\ removals'[n] = removals[n]
    BY <1>3, <1>5, <1>6, <2>2, ReleaseFacts, Zenon
  <2> QED
    BY <1>7, <2>1, <2>3, NamesStep, Empty, Zenon
<1>11. PointersPlaced'
  BY <1>1 DEF MachineInv, PointersPlaced, Slots
<1>12. \A n \in Machines : Creating(n) => removals'[n] = removals[n]
  BY <1>3, <1>5, <1>6, ReleaseFacts, Zenon
<1>13. \A v \in Workers : worker'[v].pc = "doomed" => ~Creating(Oldest(worker'[v].list))
  BY <1>1 DEF MachineInv, CreatingKept
<1>14. \A v \in Workers : worker'[v].pc = "credentials" => worker[v].pc = "credentials" /\ worker'[v].cand = worker[v].cand
  BY <1>1, Zenon
<1>15. \A v \in Workers : worker'[v].pc = "creating" <=> worker[v].pc = "creating"
  BY <1>1, Zenon
<1> QED
  BY <1>7, <1>8, <1>9, <1>10, <1>11, <1>12, <1>13, <1>14, <1>15, MapStep, Zenon DEF MachineInv

\* The run command releases what Acquire gave, without a job or after it.
LEMMA ReleaseDataStep ==
  ASSUME MachineInv, NEW w \in Workers, NoJob(w) \/ ReleaseExecutor(w)
  PROVE  MachineInv'
<1>1. /\ Release(worker[w].data) /\ Go(w, Fresh) /\ worker[w].pc \in {"ready", "release"}
      /\ UNCHANGED <<creation, listed, made, up, acquireLock, data, born>>
  BY Zenon DEF NoJob, ReleaseExecutor, hostVars
<1>2. /\ Fresh \in WorkerState /\ Fresh.pc = "wait" /\ Fresh.list = {}
      /\ Fresh.cand = NoData /\ Fresh.data = NoData /\ Fresh.edata = NoData
  <2>1. "wait" \in PCs
    BY Zenon DEF PCs
  <2> QED
    BY <2>1, Empty, Zenon DEF WorkerState, Fresh
<1>3. PICK slot \in Slots : slot = "data"
  BY Zenon DEF Slots
<1>4. Release(worker[w][slot]) /\ Fresh[slot] = NoData
  BY <1>1, <1>2, <1>3, Zenon
<1>5. \A s \in Slots : s # slot => Fresh[s] = worker[w][s]
  BY <1>1, <1>2, <1>3, Empty, Zenon DEF Slots
<1> QED
  BY <1>1, <1>2, <1>4, <1>5, ReleaseStep

\* The executor's Cleanup releases the machine that Use found.
LEMMA CleanupStep ==
  ASSUME MachineInv, NEW w \in Workers, Cleanup(w)
  PROVE  MachineInv'
<1>1. /\ Release(worker[w].edata) /\ worker[w].pc = "running"
      /\ UNCHANGED <<creation, listed, made, up, acquireLock, data, born>>
  BY Zenon DEF Cleanup, hostVars
<1>2. PICK r \in AfterFailure(w) : Go(w, r)
  BY Zenon DEF Cleanup
<1>3. PICK slot \in Slots : slot = "edata"
  BY Zenon DEF Slots
<1>4. Release(worker[w][slot]) /\ r[slot] = NoData
  BY <1>1, <1>3, AfterFailureFields, Zenon
<1>5. \A s \in Slots : s # slot => r[s] = worker[w][s]
  BY <1>1, <1>3, AfterFailureFields, Empty DEF Slots
<1> QED
  BY <1>1, <1>2, <1>4, <1>5, AfterFailureFields, Empty, ReleaseStep

\* Use fails on the credentials and releases the machine that it found.
LEMMA CredentialsFailStep ==
  ASSUME MachineInv, NEW w \in Workers, worker[w].pc = "credentials", Release(worker[w].cand),
         NEW r \in AfterFailure(w), Go(w, r),
         UNCHANGED <<creation, listed, made, up, acquireLock, data, born>>
  PROVE  MachineInv'
<1>3. PICK slot \in Slots : slot = "cand"
  BY Zenon DEF Slots
<1>4. Release(worker[w][slot]) /\ r[slot] = NoData
  BY <1>3, AfterFailureFields, Zenon
<1>5. \A s \in Slots : s # slot => r[s] = worker[w][s]
  BY <1>3, AfterFailureFields, Empty DEF Slots
<1> QED
  BY <1>4, <1>5, AfterFailureFields, Empty, ReleaseStep

\* A machine that findFreeMachine has marked and that does not answer is removed.
LEMMA CheckFailStep ==
  ASSUME MachineInv, NEW w \in Workers, worker[w].pc = "check", remove(worker[w].cand.name),
         Go(w, [worker[w] EXCEPT !.pc = "find", !.cand = NoData]),
         UNCHANGED <<creation, listed, made, up, acquireLock, data, born>>
  PROVE  MachineInv'
<1> DEFINE r == [worker[w] EXCEPT !.pc = "find", !.cand = NoData]
<1>1. /\ r \in WorkerState /\ r.pc = "find" /\ r.list = worker[w].list
      /\ r.cand = NoData /\ r.data = worker[w].data /\ r.edata = worker[w].edata
  <2>1. "find" \in PCs
    BY Zenon DEF PCs
  <2> QED
    BY <2>1, Empty, Zenon DEF WorkerState
<1> HIDE DEF r
<1>2. /\ worker' \in [Workers -> WorkerState] /\ worker'[w] = r
      /\ \A v \in Workers : v # w => worker'[v] = worker[v]
  BY <1>1, GoStep, Zenon DEF MachineInv, r
<1>3. worker[w].cand \in Ptr /\ worker[w].cand.name # 0
  BY Zenon DEF MachineInv, MachineTypes, PointersPlaced, WorkerState, Slots
<1>4. PICK m \in Machines : m = worker[w].cand.name
  BY <1>3 DEF Ptr, Machines
<1>5. m <= born /\ ~Creating(m)
  BY <1>4, Zenon DEF MachineInv, NamesKnown, CreatingKept, Slots
<1>6. remove(m) /\ MachineTypes /\ HeldNotFree
  BY <1>4, Zenon DEF MachineInv
<1>7. Dropped
  BY <1>1, <1>2, Zenon DEF Dropped, Slots
<1>8. \A n \in Machines : Stays(n) \/ (~Creating(n) /\ (Leaves(n) \/ Freed(n)))
  <2> SUFFICES ASSUME NEW n \in Machines, ~(~Creating(n) /\ Leaves(n)) PROVE Stays(n)
    BY Zenon
  <2>1. details'[n] = details[n] /\ (n = m => details[n].state = "Absent")
    BY <1>5, <1>6, RemoveFacts, Zenon
  <2>2. ~Holds(w, "cand", n)
    BY <1>4, <1>6, <2>1 DEF HeldNotFree, Holds, Pointer, Slots
  <2>3. \A v \in Workers : \A s \in Slots : Holds(v, s, n) => Holds(v, s, n)'
    BY <1>1, <1>2, <2>2, Zenon DEF Holds, Slots
  <2> QED
    BY <2>1, <2>3, Zenon DEF Stays
<1>9. MachineTypes'
  BY <1>2, <1>6, RemoveFacts, Zenon DEF MachineTypes
<1>10. NamesKnown'
  <2>1. \A v \in Workers : worker'[v].list \subseteq 1..born
    BY <1>1, <1>2, Empty
  <2>2. \A n \in Machines : n > born => n # m
    BY <1>5 DEF MachineInv, MachineTypes, Machines
  <2>3. \A n \in Machines : n > born => details'[n] = details[n] /\ removals'[n] = removals[n]
    BY <1>6, <2>2, RemoveFacts, Zenon
  <2> QED
    BY <1>7, <2>1, <2>3, NamesStep, Empty, Zenon
<1>11. PointersPlaced'
  BY <1>1, <1>2 DEF MachineInv, PointersPlaced, Slots
<1>12. \A n \in Machines : Creating(n) => removals'[n] = removals[n]
  BY <1>5, <1>6, RemoveFacts, Zenon
<1>13. \A v \in Workers : worker'[v].pc = "doomed" => ~Creating(Oldest(worker'[v].list))
  BY <1>1, <1>2 DEF MachineInv, CreatingKept
<1>14. \A v \in Workers : worker'[v].pc = "credentials" => worker[v].pc = "credentials" /\ worker'[v].cand = worker[v].cand
  BY <1>1, <1>2, Zenon
<1>15. \A v \in Workers : worker'[v].pc = "creating" <=> worker[v].pc = "creating"
  BY <1>1, <1>2, Zenon
<1> QED
  BY <1>7, <1>8, <1>9, <1>10, <1>11, <1>12, <1>13, <1>14, <1>15, MapStep, Zenon DEF MachineInv

\* What a sorted list is used for: a list that is not empty has an oldest and a
\* newest machine (Ordered, below the lemmas that assume it, says that it has).
ListsOrdered == \A S \in SUBSET Machines : S # {} => Oldest(S) \in S /\ Newest(S) \in S

-----------------------------------------------------------------------------
(* The creation of machines                                                *)

\* create gives new names, which nobody has heard of.
LEMMA CreateFacts ==
  ASSUME MachineInv, NEW k \in Nat, born + k <= MaxMachines, NEW state \in {"Idle", "Acquired"}, create(k, state)
  PROVE  /\ details' \in [Machines -> [state: {"Absent", "Idle", "Creating", "Acquired", "Used", "Removing"}, used: Nat]]
         /\ creation' \in [Machines -> {"none", "Idle", "Acquired", "ok", "failed"}]
         /\ born' \in 0..MaxMachines /\ born' = born + k
         /\ \A n \in Machines : n > born /\ n <= born + k =>
              /\ details'[n].state = "Creating" /\ details'[n].used = 0 /\ creation'[n] = state
              /\ details[n] = Absent /\ creation[n] = "none" /\ removals[n] = 0
         /\ \A n \in Machines : ~(n > born /\ n <= born + k) => details'[n] = details[n] /\ creation'[n] = creation[n]
<1> DEFINE new == (born + 1)..(born + k)
<1>0. MachineTypes /\ born \in Nat
  BY DEF MachineInv, MachineTypes
<1>1. /\ details' = [m \in Machines |-> IF m \in new THEN [state |-> "Creating", used |-> 0] ELSE details[m]]
      /\ creation' = [m \in Machines |-> IF m \in new THEN state ELSE creation[m]]
      /\ born' = born + k
  BY Zenon DEF create
<1>2. \A n \in Machines : n \in new <=> n > born /\ n <= born + k
  BY <1>0 DEF Machines
<1> HIDE DEF new
<1>3. \A n \in Machines : n \in new =>
        /\ details'[n].state = "Creating" /\ details'[n].used = 0 /\ creation'[n] = state
  BY <1>1, Zenon
<1>4. \A n \in Machines : n \notin new => details'[n] = details[n] /\ creation'[n] = creation[n]
  BY <1>1, Zenon
<1>5. \A n \in Machines : n > born => details[n] = Absent /\ creation[n] = "none" /\ removals[n] = 0
  BY Zenon DEF MachineInv, NamesKnown
<1>6. /\ details' \in [Machines -> [state: {"Absent", "Idle", "Creating", "Acquired", "Used", "Removing"}, used: Nat]]
      /\ creation' \in [Machines -> {"none", "Idle", "Acquired", "ok", "failed"}]
  BY <1>0, <1>1, Zenon DEF MachineTypes
<1>7. born' \in 0..MaxMachines
  BY <1>0, <1>1
<1> QED
  BY <1>1, <1>2, <1>5, <1>6, <1>7, Zenon

\* A worker creates machines; the one that a job waits for, it holds.
LEMMA CreateStep ==
  ASSUME MachineInv, ListsOrdered, NEW w \in Workers, NEW r \in WorkerState, NEW k \in Nat, NEW state \in {"Idle", "Acquired"},
         born + k <= MaxMachines, create(k, state), Go(w, r),
         UNCHANGED <<removals, listed, made, up, acquireLock, data>>,
         worker[w].pc # "creating", worker[w].cand = NoData, r.data = worker[w].data, r.edata = NoData,
         worker[w].edata = NoData, r.list \subseteq 1..born,
         r.data # NoData => acquireLock # w,
         \/ state = "Idle" /\ r.cand = NoData /\ r.pc = "find"
         \/ state = "Acquired" /\ r.cand = Pointer(born + 1) /\ r.pc = "creating" /\ k = 1
  PROVE  MachineInv'
<1> DEFINE new(n) == n > born /\ n <= born + k
           own(n) == state = "Acquired" /\ n = born + 1
<1>1. /\ worker' \in [Workers -> WorkerState] /\ worker'[w] = r
      /\ \A v \in Workers : v # w => worker'[v] = worker[v]
  BY GoStep, Zenon DEF MachineInv
<1>2. born \in Nat
  BY DEF MachineInv, MachineTypes
<1>3. \A n \in Machines : own(n) => new(n) /\ k = 1
  BY <1>2
<1>4. \A n \in Machines : state = "Acquired" /\ new(n) => own(n)
  BY <1>2 DEF Machines
<1>5. /\ details' \in [Machines -> [state: {"Absent", "Idle", "Creating", "Acquired", "Used", "Removing"}, used: Nat]]
      /\ creation' \in [Machines -> {"none", "Idle", "Acquired", "ok", "failed"}]
      /\ born' \in 0..MaxMachines /\ born' = born + k
      /\ \A n \in Machines : new(n) =>
           /\ details'[n].state = "Creating" /\ details'[n].used = 0 /\ creation'[n] = state
           /\ details[n] = Absent /\ creation[n] = "none" /\ removals[n] = 0
      /\ \A n \in Machines : ~new(n) => details'[n] = details[n] /\ creation'[n] = creation[n]
  BY CreateFacts
<1>6. \A v \in Workers : \A s \in Slots :
        worker'[v][s] = worker[v][s]
        \/ (v = w /\ s = "cand" /\ state = "Acquired" /\ worker'[v][s] = Pointer(born + 1) /\ r.pc = "creating")
  BY <1>1, Zenon DEF Slots
<1>7. state = "Acquired" => worker'[w].cand = Pointer(born + 1) /\ worker'[w].pc = "creating"
  BY <1>1, Zenon
<1>8. \A v \in Workers : \A s \in Slots : \A n \in Machines : new(n) => worker[v][s].name # n
  BY <1>2 DEF MachineInv, NamesKnown, Machines
<1>9. \A v \in Workers : \A s \in Slots : \A n \in Machines :
        Holds(v, s, n)' <=> Holds(v, s, n) \/ (v = w /\ s = "cand" /\ own(n))
  <2>1. \A n \in Machines : worker[w].cand # Pointer(n) /\ (Pointer(born + 1) = Pointer(n) <=> n = born + 1)
    BY PointerFacts, Zenon
  <2>2. \A v \in Workers : \A s \in Slots : (v = w /\ s = "cand") \/ worker'[v][s] = worker[v][s]
    BY <1>6, Zenon
  <2>3. worker'[w].cand = IF state = "Acquired" THEN Pointer(born + 1) ELSE NoData
    BY <1>1, Zenon
  <2>4. \A n \in Machines : NoData # Pointer(n)
    BY PointerFacts, Zenon
  <2> QED
    BY <2>1, <2>2, <2>3 DEF Holds
<1>10. \A v \in Workers : \A s \in Slots : \A n \in Machines : new(n) => ~Holds(v, s, n)
  BY <1>8 DEF Holds, Pointer
<1>11. \A n \in Machines : Creating(n)' <=> Creating(n) \/ new(n)
  BY <1>5, Zenon DEF Creating
<1> HIDE DEF new, own
<1>12. MachineTypes'
  BY <1>1, <1>5, Zenon DEF MachineInv, MachineTypes
<1>13. NamesKnown'
  <2>1. \A n \in Machines : n > born' => n > born /\ ~new(n)
    BY <1>2, <1>5 DEF new, Machines
  <2>2. 1..born \subseteq 1..born'
    BY <1>2, <1>5
  <2>3. \A v \in Workers : worker'[v].list \subseteq 1..born
    BY <1>1, Empty, Zenon
  <2>4. \A v \in Workers : \A s \in Slots : worker[v][s].name \in Nat /\ worker[v][s].name <= born
    BY DEF MachineInv, MachineTypes, NamesKnown, WorkerState, Ptr, Slots
  <2>5. \A v \in Workers : \A s \in Slots : worker'[v][s].name <= born'
    <3>1. state = "Acquired" => k = 1
      BY Zenon
    <3> QED
      BY <1>2, <1>5, <1>6, <2>4 DEF Pointer
  <2> QED
    BY <1>5, <2>1, <2>2, <2>3, <2>5 DEF MachineInv, NamesKnown
<1>14. PointersPlaced'
  <2>1. Pointer(born + 1) # NoData /\ Pointer(born + 1).name # 0
    BY <1>2 DEF Pointer, NoData
  <2> QED
    BY <1>1, <2>1 DEF MachineInv, PointersPlaced, Slots
<1>15. CreatingKept'
  <2>1. \A n \in Machines : (Creating(n) <=> details[n].state = "Creating")'
    BY <1>5, <1>11 DEF MachineInv, CreatingKept
  <2>2. \A n \in Machines : (Creating(n) => removals[n] = 0)'
    BY <1>5, <1>11 DEF MachineInv, CreatingKept
  <2>3. ASSUME NEW n \in Machines, creation'[n] = "Acquired"
        PROVE  \E v \in Workers : worker'[v].pc = "creating" /\ Holds(v, "cand", n)'
    <3>1. CASE new(n)
      BY <1>4, <1>5, <1>7, <1>9, <2>3, <3>1, Zenon DEF Slots
    <3>2. CASE ~new(n)
      <4>1. PICK v \in Workers : worker[v].pc = "creating" /\ Holds(v, "cand", n)
        BY <1>5, <2>3, <3>2 DEF MachineInv, CreatingKept
      <4> QED
        BY <1>1, <1>9, <4>1, Zenon DEF Slots
    <3> QED
      BY <3>1, <3>2, Zenon
  <2>4. ASSUME NEW v \in Workers, NEW s \in Slots, NEW n \in Machines, worker'[v][s].name = n, Creating(n)'
        PROVE  s = "cand" /\ worker'[v].pc = "creating" /\ worker'[v].cand.live /\ creation'[n] = "Acquired"
    <3>1. CASE worker'[v][s] = worker[v][s]
      <4>1. Creating(n) /\ ~new(n)
        BY <1>8, <1>11, <2>4, <3>1, Zenon
      <4>2. s = "cand" /\ worker[v].pc = "creating" /\ worker[v].cand.live /\ creation[n] = "Acquired"
        BY <2>4, <3>1, <4>1, CreatingPointers, Zenon
      <4> QED
        BY <1>1, <1>5, <4>2, Zenon
    <3>2. CASE v = w /\ s = "cand" /\ state = "Acquired" /\ worker'[v][s] = Pointer(born + 1) /\ r.pc = "creating"
      <4>1. own(n)
        BY <2>4, <3>2 DEF own, Pointer
      <4> QED
        <5>1. Pointer(born + 1).live
          BY DEF Pointer
        <5> QED
          BY <1>1, <1>3, <1>5, <3>2, <4>1, <5>1, Zenon
    <3> QED
      BY <1>6, <3>1, <3>2, Zenon
  <2>5. ASSUME NEW v \in Workers, NEW n \in Machines, worker'[v].pc = "creating", Holds(v, "cand", n)',
               creation'[n] = "failed"
        PROVE  details'[n].state = "Removing"
    <3>1. ~new(n) /\ ~own(n)
      BY <1>3, <1>5, <2>5, Zenon
    <3>2. Holds(v, "cand", n) /\ creation[n] = "failed"
      BY <1>5, <1>9, <2>5, <3>1, Zenon DEF Slots
    <3>3. v # w
      BY <3>2 DEF Holds, Pointer, NoData
    <3> QED
      BY <1>1, <1>5, <2>5, <3>2, <3>3 DEF MachineInv, CreatingKept
  <2>6. ASSUME NEW v \in Workers, worker'[v].pc = "doomed" PROVE (~Creating(Oldest(worker[v].list)))'
    <3>1. v # w /\ worker'[v] = worker[v]
      BY <1>1, <2>6, Zenon
    <3>2. PICK m \in Machines : m = Oldest(worker[v].list) /\ m \in 1..born /\ ~Creating(m)
      <4>0. worker[v].pc = "doomed"
        BY <2>6, <3>1, Zenon
      <4>1. worker[v].list \in SUBSET Machines /\ worker[v].list # {} /\ worker[v].list \subseteq 1..born
        <5>1. worker[v].list # {}
          BY <4>0, Zenon DEF MachineInv, PointersPlaced
        <5> QED
          BY <5>1, Empty, Zenon DEF WorkerState
      <4>2. ~Creating(Oldest(worker[v].list))
        BY <4>0, Zenon DEF MachineInv, CreatingKept
      <4>3. Oldest(worker[v].list) \in worker[v].list
        BY <4>1, Zenon DEF ListsOrdered
      <4> QED
        BY <4>1, <4>2, <4>3, Zenon
    <3>3. ~new(m)
      BY <1>2, <3>2 DEF new
    <3>4. ~Creating(m)'
      BY <1>11, <3>2, <3>3, Zenon
    <3> QED
      BY <3>1, <3>2, <3>4, Zenon
  <2> QED
    BY <2>1, <2>2, <2>3, <2>4, <2>5, <2>6 DEF CreatingKept
<1>16. HeldNotFree'
  <2>1. \A n \in Machines : (details[n].state = "Absent" => details[n] = Absent)'
    BY <1>5 DEF MachineInv, HeldNotFree
  <2>2. \A n \in Machines : \A v \in Workers : \A s \in Slots :
          (Holds(v, s, n) => details[n].state \notin {"Absent", "Idle"})'
    BY <1>3, <1>5, <1>9, Zenon DEF MachineInv, HeldNotFree
  <2>3. \A n \in Machines : \A v \in Workers : \A s \in Slots :
          ((worker[v][s].name = n /\ ~worker[v][s].live) => n \notin made /\ details[n].state # "Used")'
    <3>1. \A n \in Machines : \A v \in Workers : \A s \in Slots :
            (worker[v][s].name = n /\ ~worker[v][s].live) => n \notin made /\ details[n].state # "Used"
      BY Zenon DEF MachineInv, HeldNotFree
    <3>2. \A v \in Workers : \A s \in Slots : worker'[v][s] = worker[v][s] \/ worker'[v][s].live
      BY <1>6 DEF Pointer
    <3>3. \A n \in Machines : details'[n].state # "Used" \/ details'[n] = details[n]
      BY <1>5
    <3>4. SUFFICES ASSUME NEW n \in Machines, NEW v \in Workers, NEW s \in Slots,
                          worker'[v][s].name = n, ~worker'[v][s].live
                   PROVE  n \notin made' /\ details'[n].state # "Used"
      OBVIOUS
    <3>5. n \notin made /\ details[n].state # "Used"
      BY <3>1, <3>2, <3>4
    <3> QED
      BY <3>3, <3>5
  <2> QED
    BY <2>1, <2>2, <2>3, Zenon DEF HeldNotFree
<1>17. MachineExclusive'
  BY <1>3, <1>9, <1>10 DEF MachineInv, MachineExclusive
<1>18. NoMachineLost'
  <2>1. \A n \in Machines : Held(n) => Held(n)'
    BY <1>9, Zenon DEF Held
  <2> QED
    BY <1>5, <2>1, Zenon DEF MachineInv, NoMachineLost
<1>19. BuildsLeft'
  <2>1. \A v \in Workers : \A n \in Machines :
          Holds(v, "data", n)' /\ worker'[v].pc = "credentials" => v # w /\ Holds(v, "data", n) /\ worker'[v] = worker[v]
    BY <1>1, <1>9, Zenon DEF Slots
  <2>2. \A v \in Workers : \A n \in Machines : Holds(v, "cand", n)' => Holds(v, "cand", n) \/ new(n)
    BY <1>3, <1>9, Zenon DEF Slots
  <2>3. MaxBuilds > 1 => 0 < MaxBuilds /\ 0 <= MaxBuilds
    OBVIOUS
  <2> QED
    BY <1>5, <2>1, <2>2 DEF MachineInv, BuildsLeft
<1> QED
  BY <1>12, <1>13, <1>14, <1>15, <1>16, <1>17, <1>18, <1>19, Zenon DEF MachineInv

\* createMachines fills up the idle machines.
LEMMA createMachinesStep ==
  ASSUME MachineInv, ListsOrdered, NEW w \in Workers, createMachines(w)
  PROVE  MachineInv'
<1> DEFINE r == [worker[w] EXCEPT !.pc = "find", !.list = data.valid]
<1>1. /\ worker[w].pc = "update" /\ create(Missing, "Idle") /\ Go(w, r)
      /\ UNCHANGED <<removals, listed, made, up, acquireLock, data>>
  BY Zenon DEF createMachines, hostVars
<1>2. /\ r \in WorkerState /\ r.pc = "find" /\ r.list = data.valid
      /\ r.cand = worker[w].cand /\ r.data = worker[w].data /\ r.edata = worker[w].edata
  <2>1. "find" \in PCs /\ data.valid \in SUBSET Machines
    BY Empty, Zenon DEF PCs, Counts
  <2> QED
    BY <2>1, Empty, Zenon DEF WorkerState
<1> HIDE DEF r
<1>3. PICK k \in Nat : k = Missing /\ born + k <= MaxMachines
  <2>1. born \in 0..MaxMachines /\ data.available \in Nat /\ data.total \in Nat
    BY Zenon DEF MachineInv, MachineTypes, Counts
  <2> QED
    BY <2>1 DEF Missing
<1>4. PICK state \in {"Idle", "Acquired"} : state = "Idle"
  BY Zenon
<1>5. create(k, state)
  BY <1>1, <1>3, <1>4, Zenon
<1> QED
  BY <1>1, <1>2, <1>3, Empty, CreateStep, Zenon

\* useMachine creates a machine and waits for it.
LEMMA createMachineStep ==
  ASSUME MachineInv, ListsOrdered, NEW w \in Workers, createMachine(w)
  PROVE  MachineInv'
<1> DEFINE r == [worker[w] EXCEPT !.pc = "creating", !.cand = Pointer(born + 1)]
<1>0. born \in 0..MaxMachines
  BY Zenon DEF MachineInv, MachineTypes
<1>1. /\ worker[w].pc = "find" /\ worker[w].list = {} /\ create(1, "Acquired") /\ Go(w, r)
      /\ acquireLock # w /\ born < MaxMachines
      /\ UNCHANGED <<removals, listed, made, up, acquireLock, data>>
  BY Zenon DEF createMachine, hostVars
<1>2. /\ r \in WorkerState /\ r.pc = "creating" /\ r.list = {}
      /\ r.cand = Pointer(born + 1) /\ r.data = worker[w].data /\ r.edata = worker[w].edata
  <2>1. "creating" \in PCs /\ Pointer(born + 1) \in Ptr
    BY <1>0, <1>1 DEF PCs, Pointer, Ptr
  <2> QED
    BY <1>1, <2>1, Empty, Zenon DEF WorkerState
<1> HIDE DEF r
<1>3. PICK k \in Nat : k = 1 /\ born + k <= MaxMachines
  BY <1>0, <1>1
<1>4. PICK state \in {"Idle", "Acquired"} : state = "Acquired"
  BY Zenon
<1>5. create(k, state)
  BY <1>1, <1>3, <1>4, Zenon
<1> QED
  BY <1>1, <1>2, <1>3, Empty, CreateStep, Zenon

\* The job learns how the creation of its machine ended.
LEMMA CreatedStep ==
  ASSUME MachineInv, ListsOrdered, NEW w \in Workers, Created(w)
  PROVE  MachineInv'
<1>1. /\ worker[w].pc = "creating"
      /\ UNCHANGED <<details, removals, listed, made, up, acquireLock, data, born>>
  BY Zenon DEF Created, hostVars
<1>2. worker[w].cand \in Ptr /\ worker[w].cand.name # 0
  BY <1>1, Zenon DEF MachineInv, MachineTypes, PointersPlaced, WorkerState, Slots
<1>3. PICK m \in Machines : m = worker[w].cand.name
  BY <1>2 DEF Ptr, Machines
<1>4. creation[m] \in {"ok", "failed"} /\ creation' = [creation EXCEPT ![m] = "none"]
  BY <1>3, Zenon DEF Created
<1> DEFINE ok == [worker[w] EXCEPT !.pc = "credentials"]
<1>5. PICK r : /\ r \in WorkerState /\ Go(w, r) /\ r.list = worker[w].list
               /\ r.data = worker[w].data /\ r.edata = NoData
               /\ \/ r.cand = worker[w].cand /\ r.pc = "credentials"
                  \/ r.cand = NoData /\ r.pc \in {"load", "release", "use"} /\ creation[m] = "failed"
  <2>1. CASE creation[m] = "ok"
    <3>1. "credentials" \in PCs
      BY Zenon DEF PCs
    <3>2. /\ ok \in WorkerState /\ ok.pc = "credentials" /\ ok.list = worker[w].list
          /\ ok.cand = worker[w].cand /\ ok.data = worker[w].data /\ ok.edata = worker[w].edata
      BY <3>1, Empty, Zenon DEF WorkerState
    <3>3. Go(w, ok)
      BY <1>3, <2>1, Zenon DEF Created
    <3> HIDE DEF ok
    <3> QED
      BY <1>1, <3>2, <3>3, Empty, Zenon
  <2>2. CASE creation[m] = "failed"
    <3>1. PICK q \in NextTry(w) : Go(w, q)
      BY <1>3, <2>2, Zenon DEF Created
    <3> QED
      BY <1>1, <2>2, <3>1, NextTryFields, Empty, Zenon
  <2> QED
    BY <1>4, <2>1, <2>2, Zenon
<1> HIDE DEF ok
<1>6. /\ worker' \in [Workers -> WorkerState] /\ worker'[w] = r
      /\ \A v \in Workers : v # w => worker'[v] = worker[v]
  BY <1>5, GoStep, Zenon DEF MachineInv
<1>7. worker[w].cand # NoData /\ worker[w].edata = NoData /\ r # worker[w]
  BY <1>1, <1>2, <1>5, Empty DEF NoData
<1>8. Dropped
  BY <1>5, <1>6, Zenon DEF Dropped, Slots
<1>9. \A v \in Workers : \A s \in Slots : \A n \in Machines : Holds(v, s, n)' => Holds(v, s, n)
  BY <1>8, PointerFacts, Zenon DEF Dropped, Holds
<1>10. /\ creation' \in [Machines -> {"none", "Idle", "Acquired", "ok", "failed"}]
       /\ creation'[m] = "none" /\ \A n \in Machines : n # m => creation'[n] = creation[n]
  BY <1>4, Zenon DEF MachineInv, MachineTypes
<1>11. ~Creating(m) /\ \A n \in Machines : Creating(n)' <=> Creating(n)
  BY <1>4 DEF Creating
<1>12. MachineTypes'
  BY <1>1, <1>6, <1>10, Zenon DEF MachineInv, MachineTypes
<1>13. NamesKnown'
  <2>1. \A v \in Workers : worker'[v].list \subseteq 1..born
    BY <1>5, <1>6, Empty, Zenon
  <2>2. \A v \in Workers : \A s \in Slots : worker'[v][s].name <= born
    BY <1>8 DEF MachineInv, MachineTypes, NamesKnown, Dropped, NoData
  <2> QED
    BY <1>1, <1>10, <2>1, <2>2, Zenon DEF MachineInv, NamesKnown
<1>14. PointersPlaced'
  BY <1>1, <1>5, <1>6 DEF MachineInv, PointersPlaced, Slots
<1>15. CreatingKept'
  <2>1. \A n \in Machines : (Creating(n) <=> details[n].state = "Creating")'
    BY <1>1, <1>11, Zenon DEF MachineInv, CreatingKept
  <2>2. \A n \in Machines : (Creating(n) => removals[n] = 0)'
    BY <1>1, <1>11, Zenon DEF MachineInv, CreatingKept
  <2>3. ASSUME NEW n \in Machines, creation'[n] = "Acquired"
        PROVE  \E v \in Workers : worker'[v].pc = "creating" /\ Holds(v, "cand", n)'
    <3>1. n # m /\ creation[n] = "Acquired"
      BY <1>10, <2>3, Zenon
    <3>2. PICK v \in Workers : worker[v].pc = "creating" /\ Holds(v, "cand", n)
      BY <3>1, Zenon DEF MachineInv, CreatingKept
    <3>3. v # w
      BY <1>3, <3>1, <3>2, PointerFacts, Zenon DEF Holds
    <3> QED
      BY <1>6, <3>2, <3>3, Zenon DEF Holds
  <2>4. ASSUME NEW v \in Workers, NEW s \in Slots, NEW n \in Machines, worker'[v][s].name = n, Creating(n)
        PROVE  s = "cand" /\ worker'[v].pc = "creating" /\ worker'[v].cand.live /\ creation'[n] = "Acquired"
    <3>1. worker'[v][s] = worker[v][s]
      BY <1>8, <2>4 DEF Dropped, NoData, Machines
    <3>2. s = "cand" /\ worker[v].pc = "creating" /\ worker[v].cand.live /\ creation[n] = "Acquired"
      BY <2>4, <3>1 DEF MachineInv, CreatingKept
    <3>3. n # m
      BY <1>11, <2>4, Zenon
    <3>4. v # w
      BY <1>3, <2>4, <3>1, <3>2, <3>3, Zenon
    <3> QED
      BY <1>6, <1>10, <3>2, <3>3, <3>4, Zenon
  <2>5. ASSUME NEW v \in Workers, NEW n \in Machines, worker'[v].pc = "creating", Holds(v, "cand", n)',
               creation'[n] = "failed"
        PROVE  details'[n].state = "Removing"
    BY <1>1, <1>6, <1>9, <1>10, <2>5 DEF MachineInv, CreatingKept, Slots
  <2>6. ASSUME NEW v \in Workers, worker'[v].pc = "doomed" PROVE (~Creating(Oldest(worker[v].list)))'
    <3>1. v # w /\ worker'[v] = worker[v]
      BY <1>5, <1>6, <2>6, Zenon
    <3>2. worker[v].list \in SUBSET Machines /\ worker[v].list # {}
      <4>1. worker[v].list # {}
        BY <2>6, <3>1, Zenon DEF MachineInv, PointersPlaced
      <4> QED
        BY <4>1, Empty, Zenon DEF WorkerState
    <3>3. PICK k \in Machines : k = Oldest(worker[v].list)
      BY <3>2, Zenon DEF ListsOrdered
    <3>4. ~Creating(k)
      BY <2>6, <3>1, <3>3, Zenon DEF MachineInv, CreatingKept
    <3>5. ~Creating(k)'
      BY <1>11, <3>4, Zenon
    <3> QED
      BY <3>1, <3>3, <3>5, Zenon
  <2> QED
    BY <1>11, <2>1, <2>2, <2>3, <2>4, <2>5, <2>6 DEF CreatingKept
<1>16. HeldNotFree'
  <2>1. \A n \in Machines : \A v \in Workers : \A s \in Slots :
          ((worker[v][s].name = n /\ ~worker[v][s].live) => n \notin made /\ details[n].state # "Used")'
    BY <1>1, <1>8 DEF MachineInv, HeldNotFree, Dropped, NoData, Machines
  <2> QED
    BY <1>1, <1>9, <2>1, Zenon DEF MachineInv, HeldNotFree
<1>17. MachineExclusive'
  BY <1>9 DEF MachineInv, MachineExclusive
<1>18. NoMachineLost'
  <2>1. ASSUME NEW n \in Machines, details[n].state \in {"Acquired", "Used"} PROVE Held(n)'
    <3>1. PICK v \in Workers, s \in Slots : Holds(v, s, n)
      BY <2>1, Zenon DEF MachineInv, NoMachineLost, Held
    <3>2. CASE v = w /\ s = "cand"
      <4>1. n = m
        BY <1>3, <3>1, <3>2, PointerFacts, Zenon DEF Holds
      <4>2. creation[m] # "failed"
        BY <1>1, <2>1, <3>1, <3>2, <4>1, Zenon DEF MachineInv, CreatingKept
      <4> QED
        BY <1>5, <1>6, <3>1, <3>2, <4>2, Zenon DEF Held, Holds
    <3>3. CASE ~(v = w /\ s = "cand")
      <4>1. worker'[v][s] = worker[v][s]
        BY <1>5, <1>6, <1>7, <3>3, Zenon DEF Slots
      <4> QED
        BY <3>1, <4>1, Zenon DEF Held, Holds
    <3> QED
      BY <3>2, <3>3, Zenon
  <2>2. \A n \in Machines : details[n].state = "Creating" => Creating(n)'
    BY <1>11, Zenon DEF MachineInv, CreatingKept
  <2> QED
    BY <1>1, <2>1, <2>2, Zenon DEF NoMachineLost, Creating
<1>19. BuildsLeft'
  <2>1. \A v \in Workers : \A n \in Machines :
          (Holds(v, "data", n)' /\ worker'[v].pc = "credentials" /\ worker'[v].cand = NoData)
            => v # w /\ Holds(v, "data", n) /\ worker'[v] = worker[v]
    BY <1>5, <1>6, <1>7, <1>9, Zenon DEF Slots
  <2> QED
    BY <1>1, <1>9, <2>1, Zenon DEF MachineInv, BuildsLeft, Slots
<1> QED
  BY <1>12, <1>13, <1>14, <1>15, <1>16, <1>17, <1>18, <1>19, Zenon DEF MachineInv

-----------------------------------------------------------------------------
(* The end of a creation                                                   *)

\* What may happen when the creation of m ends: m leaves Creating, nobody moves.
LEMMA CreationEnds ==
  ASSUME MachineInv, ListsOrdered, NEW m \in Machines, Creating(m), UNCHANGED <<worker, acquireLock, data, born>>,
         MachineTypes', ~Creating(m)',
         \A n \in Machines : n # m => details'[n] = details[n] /\ creation'[n] = creation[n] /\ removals'[n] = removals[n],
         listed' \subseteq 1..born, made' \subseteq made \cup {m}, up' \subseteq made',
         details'[m].used = details[m].used,
         \/ creation[m] = "Acquired" /\ details'[m].state \in {"Acquired", "Removing"}
         \/ creation[m] = "Idle" /\ details'[m].state \in {"Idle", "Removing"},
         creation'[m] = "failed" => details'[m].state = "Removing"
  PROVE  MachineInv'
<1>0. ~(m > born)
  BY Zenon DEF MachineInv, NamesKnown, Creating
<1>1. m <= born
  BY <1>0 DEF MachineInv, MachineTypes, Machines
<1>2. /\ \A v \in Workers : \A s \in Slots : \A n \in Machines : Holds(v, s, n)' <=> Holds(v, s, n)
      /\ \A n \in Machines : n # m => (Creating(n)' <=> Creating(n))
      /\ \A n \in Machines : Held(n)' <=> Held(n)
  BY Zenon DEF Holds, Creating, Held
<1>3. /\ details[m].state = "Creating"
      /\ creation[m] = "Acquired" => Held(m)
      /\ \A v \in Workers : \A s \in Slots : worker[v][s].name = m =>
           s = "cand" /\ worker[v].pc = "creating" /\ worker[v].cand.live /\ creation[m] = "Acquired"
  BY DEF MachineInv, CreatingKept, Held, Slots
<1>4. NamesKnown'
  <2>1. \A n \in Machines : n > born => n # m
    BY <1>1 DEF MachineTypes, Machines
  <2>2. m \in 1..born
    BY <1>1 DEF Machines
  <2> QED
    BY <2>2, Zenon DEF MachineInv, NamesKnown
<1>5. PointersPlaced'
  BY Zenon DEF MachineInv, PointersPlaced
<1>6. CreatingKept'
  <2>1. \A n \in Machines : (/\ Creating(n) <=> details[n].state = "Creating"
                             /\ Creating(n) => removals[n] = 0)'
    <3>1. \A n \in Machines : Creating(n) <=> details[n].state = "Creating"
      BY Zenon DEF MachineInv, CreatingKept
    <3>2. \A n \in Machines : Creating(n) => removals[n] = 0
      BY Zenon DEF MachineInv, CreatingKept
    <3>3. details'[m].state # "Creating"
      OBVIOUS
    <3> QED
      BY <1>2, <3>1, <3>2, <3>3, Zenon
  <2>2. \A n \in Machines : (creation[n] = "Acquired" =>
          \E v \in Workers : worker[v].pc = "creating" /\ Holds(v, "cand", n))'
    BY <1>2, Zenon DEF MachineInv, CreatingKept, Slots, Creating
  <2>3. \A v \in Workers : \A s \in Slots : \A n \in Machines :
          ((worker[v][s].name = n /\ Creating(n)) =>
             /\ s = "cand" /\ worker[v].pc = "creating"
             /\ worker[v].cand.live /\ creation[n] = "Acquired")'
    <3>1. SUFFICES ASSUME NEW v \in Workers, NEW s \in Slots, NEW n \in Machines,
                          worker'[v][s].name = n, Creating(n)'
                   PROVE  s = "cand" /\ worker'[v].pc = "creating" /\ worker'[v].cand.live /\ creation'[n] = "Acquired"
      OBVIOUS
    <3>2. n # m
      BY <3>1
    <3>3. worker[v][s].name = n /\ Creating(n)
      BY <1>2, <3>1, <3>2
    <3>4. s = "cand" /\ worker[v].pc = "creating" /\ worker[v].cand.live /\ creation[n] = "Acquired"
      BY <3>3, CreatingPointers
    <3> QED
      BY <3>2, <3>4
  <2>4. ASSUME NEW v \in Workers, worker[v].pc = "doomed" PROVE (~Creating(Oldest(worker[v].list)))'
    <3>1. worker[v].list \in SUBSET Machines /\ worker[v].list # {}
      <4>1. worker[v].list # {}
        BY <2>4, Zenon DEF MachineInv, PointersPlaced
      <4> QED
        BY <4>1, Empty, Zenon DEF WorkerState
    <3>2. PICK k \in Machines : k = Oldest(worker[v].list)
      BY <3>1, Zenon DEF ListsOrdered
    <3>3. ~Creating(k)
      BY <2>4, <3>2, Zenon DEF MachineInv, CreatingKept
    <3>4. ~Creating(k)'
      BY <1>2, <3>3, Zenon
    <3> QED
      BY <3>2, <3>4, Zenon
  <2>5. \A v \in Workers : \A n \in Machines :
          ((worker[v].pc = "creating" /\ Holds(v, "cand", n) /\ creation[n] = "failed") =>
             details[n].state = "Removing")'
    BY <1>2 DEF MachineInv, CreatingKept, Slots
  <2> QED
    BY <2>1, <2>2, <2>3, <2>4, <2>5, Zenon DEF CreatingKept
<1>7. HeldNotFree'
  <2>1. \A n \in Machines : \A v \in Workers : \A s \in Slots :
          (Holds(v, s, n) => details[n].state \notin {"Absent", "Idle"})'
    <3>1. \A v \in Workers : \A s \in Slots : Holds(v, s, m) => creation[m] = "Acquired"
      BY <1>3, PointerFacts DEF Holds
    <3> QED
      BY <1>2, <3>1, Zenon DEF MachineInv, HeldNotFree
  <2>2. ASSUME NEW n \in Machines, NEW v \in Workers, NEW s \in Slots, worker[v][s].name = n, ~worker[v][s].live
        PROVE  n \notin made' /\ details'[n].state # "Used"
    <3>1. n # m
      BY <1>3, <2>2, Zenon
    <3> QED
      BY <2>2, <3>1, Zenon DEF MachineInv, HeldNotFree
  <2>3. \A n \in Machines : (details[n].state = "Absent" => details[n] = Absent)'
    BY Zenon DEF MachineInv, HeldNotFree
  <2> QED
    BY <2>1, <2>2, <2>3, Zenon DEF HeldNotFree
<1>8. MachineExclusive'
  BY <1>2 DEF MachineInv, MachineExclusive
<1>9. NoMachineLost'
  BY <1>2, <1>3, Zenon DEF MachineInv, NoMachineLost
<1>10. BuildsLeft'
  BY <1>2, <1>3, Zenon DEF MachineInv, BuildsLeft, Slots
<1> QED
  BY <1>4, <1>5, <1>6, <1>7, <1>8, <1>9, <1>10, Zenon DEF MachineInv

\* create ends with a machine.
LEMMA CreateSucceedsStep ==
  ASSUME MachineInv, ListsOrdered, NEW m \in Machines, CreateSucceeds(m)
  PROVE  MachineInv'
<1> DEFINE c == IF creation[m] = "Acquired" THEN "ok" ELSE "none"
<1>1. /\ creation[m] \in {"Idle", "Acquired"}
      /\ listed' = listed \cup {m} /\ made' = made \cup {m} /\ up' = up \cup {m}
      /\ details' = [details EXCEPT ![m] = [state |-> creation[m], used |-> details[m].used]]
      /\ creation' = [creation EXCEPT ![m] = c]
      /\ UNCHANGED <<removals, worker, acquireLock, data, born>>
  BY Zenon DEF CreateSucceeds
<1>2. c \in {"none", "ok"}
  BY Zenon
<1> HIDE DEF c
<1>3. MachineTypes'
  BY <1>1, <1>2, Zenon DEF MachineInv, MachineTypes
<1>4. /\ details'[m].state = creation[m] /\ details'[m].used = details[m].used /\ creation'[m] = c
      /\ \A n \in Machines : n # m => details'[n] = details[n] /\ creation'[n] = creation[n]
  BY <1>1, Zenon DEF MachineInv, MachineTypes
<1>5. m \in 1..born
  <2>1. creation[m] # "none" /\ born \in Nat
    BY <1>1 DEF MachineInv, MachineTypes
  <2> QED
    BY <2>1 DEF MachineInv, NamesKnown, Machines
<1>6. listed' \subseteq 1..born /\ up' \subseteq made'
  BY <1>1, <1>5, Zenon DEF MachineInv, NamesKnown
<1>7. Creating(m) /\ ~Creating(m)'
  BY <1>1, <1>2, <1>4, Zenon DEF Creating
<1> QED
  BY <1>1, <1>2, <1>3, <1>4, <1>6, <1>7, CreationEnds, Zenon

\* create ends without a machine and removes what is there.
LEMMA CreateFailsStep ==
  ASSUME MachineInv, ListsOrdered, NEW m \in Machines, CreateFails(m)
  PROVE  MachineInv'
<1> DEFINE c == IF creation[m] = "Acquired" THEN "failed" ELSE "none"
<1>1. /\ creation[m] \in {"Idle", "Acquired"} /\ remove(m)
      /\ made \subseteq made' /\ made' \subseteq made \cup {m}
      /\ creation' = [creation EXCEPT ![m] = c]
      /\ UNCHANGED <<listed, up, worker, acquireLock, data, born>>
  BY Zenon DEF CreateFails
<1>2. c \in {"none", "failed"}
  BY Zenon
<1> HIDE DEF c
<1>3. Creating(m) /\ details[m].state = "Creating" /\ MachineTypes /\ HeldNotFree
  BY <1>1, Zenon DEF MachineInv, CreatingKept, Creating
<1>4. /\ details'[m].state = "Removing" /\ details'[m].used = details[m].used
      /\ \A n \in Machines : n # m => details'[n] = details[n] /\ removals'[n] = removals[n]
  BY <1>1, <1>3, RemoveFacts, Zenon DEF Leaves
<1>5. creation'[m] = c /\ \A n \in Machines : n # m => creation'[n] = creation[n]
  BY <1>1, <1>3, Zenon DEF MachineTypes
<1>6. MachineTypes'
  <2>1. /\ details' \in [Machines -> [state: {"Absent", "Idle", "Creating", "Acquired", "Used", "Removing"}, used: Nat]]
        /\ removals' \in [Machines -> Nat]
    BY <1>1, <1>3, RemoveFacts, Zenon
  <2> QED
    BY <1>1, <1>2, <1>3, <2>1, Zenon DEF MachineTypes
<1>7. listed' \subseteq 1..born /\ up' \subseteq made'
  BY <1>1, Zenon DEF MachineInv, NamesKnown
<1>8. ~Creating(m)'
  BY <1>2, <1>5, Zenon DEF Creating
<1> QED
  BY <1>1, <1>3, <1>4, <1>6, <1>7, <1>8, CreationEnds

-----------------------------------------------------------------------------
(* The machines that Acquire finds in the map                              *)

\* data.Add counts, and leaves the list of valid machines alone.
LEMMA AddFacts ==
  ASSUME NEW d \in Counts, NEW state
  PROVE  Add(d, state) \in Counts /\ Add(d, state).valid = d.valid
<1> DEFINE t == d.total + 1
           i == IF state = "Idle" THEN d.idle + 1 ELSE d.idle
           a == IF state \in {"Acquired", "Creating", "Idle"} THEN d.available + 1 ELSE d.available
<1>1. t \in Nat /\ i \in Nat /\ a \in Nat
  BY DEF Counts
<1>2. Add(d, state) = [d EXCEPT !.total = t, !.idle = i, !.available = a]
  BY Zenon DEF Add
<1> HIDE DEF t, i, a
<1> QED
  BY <1>1, <1>2, Zenon DEF Counts

\* updateMachines removes what it decided to, whatever it has become.
LEMMA updateMachinesStep ==
  ASSUME MachineInv, ListsOrdered, NEW w \in Workers, updateMachines(w)
  PROVE  MachineInv'
<1>2. PICK m \in Machines : m = Oldest(worker[w].list) /\ m \in worker[w].list /\ ~Creating(m)
  BY DEF ListsOrdered, updateMachines, MachineInv, MachineTypes, WorkerState, PointersPlaced, CreatingKept
<1> DEFINE r == [worker[w] EXCEPT !.pc = "update", !.list = worker[w].list \ {m}]
<1>1. worker[w].pc = "doomed" /\ remove(m) /\ Go(w, r) /\ data' = Add(data, "Removing")
      /\ UNCHANGED <<creation, listed, made, up, acquireLock, born>>
  BY <1>2, Zenon DEF updateMachines, hostVars
<1>3. /\ r \in WorkerState /\ r.pc = "update" /\ r.list = worker[w].list \ {m}
      /\ r.cand = worker[w].cand /\ r.data = worker[w].data /\ r.edata = worker[w].edata
  <2>1. "update" \in PCs
    BY Zenon DEF PCs
  <2> QED
    BY <2>1, Empty, Zenon DEF WorkerState
<1> HIDE DEF r
<1>4. /\ worker' \in [Workers -> WorkerState] /\ worker'[w] = r
      /\ \A v \in Workers : v # w => worker'[v] = worker[v]
  BY <1>1, <1>3, GoStep, Zenon DEF MachineInv
<1>5. \A v \in Workers : \A s \in Slots : worker'[v][s] = worker[v][s]
  BY <1>3, <1>4, Zenon DEF Slots
<1>6. data' \in Counts /\ data'.valid = data.valid
  BY <1>1, AddFacts, Zenon DEF MachineInv, MachineTypes
<1>7. MachineTypes'
  BY <1>1, <1>4, <1>6, RemoveFacts, Zenon DEF MachineInv, MachineTypes
<1>8. \A n \in Machines : n > born => details'[n] = details[n] /\ removals'[n] = removals[n]
  BY <1>1, RemoveFacts, Zenon DEF MachineInv, NamesKnown
<1>9. NamesKnown'
  <2>1. \A v \in Workers : worker'[v].list \subseteq 1..born
    BY <1>3, <1>4, Empty, Zenon
  <2> QED
    BY <1>1, <1>5, <1>6, <1>8, <2>1, NamesStep, Empty, Zenon DEF Dropped
<1>10. PointersPlaced'
  BY <1>1, <1>3, <1>4, <1>5 DEF MachineInv, PointersPlaced
<1>11. \A n \in Machines : Stays(n) \/ (~Creating(n) /\ Leaves(n))
  BY <1>1, <1>2, <1>5, RemoveFacts, Zenon DEF MachineInv, Stays, Holds
<1>12. \A n \in Machines : Creating(n) => removals'[n] = removals[n]
  BY <1>1, <1>2, RemoveFacts, Zenon DEF MachineInv
<1>13. \A v \in Workers : worker'[v].pc = "doomed" => ~Creating(Oldest(worker'[v].list))
  BY <1>3, <1>4 DEF MachineInv, CreatingKept
<1> QED
  BY <1>1, <1>3, <1>4, <1>7, <1>9, <1>10, <1>11, <1>12, <1>13, MapStep, Zenon DEF MachineInv, Dropped, Slots

\* A round of updateMachines puts a machine it finds into the map.
LEMMA updateMachineStep ==
  ASSUME MachineInv, ListsOrdered, NEW w \in Workers, updateMachine(w)
  PROVE  MachineInv'
<1>2. PICK m \in Machines : m = Oldest(worker[w].list) /\ m \in worker[w].list
  BY Zenon DEF ListsOrdered, updateMachine, MachineInv, MachineTypes, WorkerState
<1> DEFINE d == machineDetails(m)
           doomed == [worker[w] EXCEPT !.pc = "doomed"]
           kept == [worker[w] EXCEPT !.list = worker[w].list \ {m}]
           added == [Add(data, d.state) EXCEPT !.valid = data.valid \cup {m}]
<1>1. /\ worker[w].pc = "update"
      /\ details' = [details EXCEPT ![m] = d]
      /\ UNCHANGED <<creation, removals, listed, made, up, acquireLock, born>>
      /\ \/ d.state = "Idle" /\ Go(w, doomed) /\ data' = data
         \/ Go(w, kept) /\ data' = added
  BY <1>2, Zenon DEF updateMachine, hostVars
<1>3. m \in 1..born
  BY <1>2, Empty, Zenon
<1>4. /\ d \in [state: {"Absent", "Idle", "Creating", "Acquired", "Used", "Removing"}, used: Nat]
      /\ d = details[m] \/ (details[m].state = "Absent" /\ d.state = "Idle" /\ d.used = 1)
  BY DEF MachineInv, MachineTypes, machineDetails, Absent
<1>6. d.state = "Idle" => ~Creating(m)
  BY <1>4, Zenon DEF MachineInv, CreatingKept
<1>8. added \in Counts /\ added.valid \subseteq 1..born
  <2> DEFINE a == Add(data, d.state)
  <2>1. a \in Counts /\ a.valid = data.valid /\ data.valid \cup {m} \in SUBSET Machines
    BY AddFacts, Empty, Zenon DEF Counts
  <2> HIDE DEF a
  <2>2. [a EXCEPT !.valid = data.valid \cup {m}] \in Counts
    BY <2>1, Zenon DEF Counts
  <2>3. [a EXCEPT !.valid = data.valid \cup {m}].valid = data.valid \cup {m}
    OBVIOUS
  <2>4. data.valid \cup {m} \subseteq 1..born
    BY <1>3, Empty, Zenon
  <2> QED
    BY <2>2, <2>4 DEF a
<1> HIDE DEF d, doomed, kept, added
<1>7. PICK r : /\ Go(w, r)
               /\ (r = doomed /\ ~Creating(m)) \/ r = kept
               /\ data' \in Counts /\ data'.valid \subseteq 1..born
  BY <1>1, <1>6, <1>8, Empty, Zenon
<1> USE DEF doomed, kept
<1>9. /\ r \in WorkerState /\ r.pc \in {"update", "doomed"} /\ r.list \subseteq worker[w].list
      /\ r.pc = "doomed" => r.list = worker[w].list /\ ~Creating(m)
      /\ r.cand = worker[w].cand /\ r.data = worker[w].data /\ r.edata = worker[w].edata
  <2>1. "doomed" \in PCs
    BY Zenon DEF PCs
  <2>2. CASE r = doomed /\ ~Creating(m)
    BY <2>1, <2>2, Empty, Zenon DEF WorkerState
  <2>3. CASE r = kept
    BY <1>1, <2>3, Empty, Zenon DEF WorkerState
  <2> QED
    BY <1>7, <2>2, <2>3, Zenon
<1>10. /\ worker' \in [Workers -> WorkerState] /\ worker'[w] = r
       /\ \A v \in Workers : v # w => worker'[v] = worker[v]
  BY <1>7, <1>9, GoStep, Zenon DEF MachineInv
<1>11. \A v \in Workers : \A s \in Slots : worker'[v][s] = worker[v][s]
  BY <1>9, <1>10, Zenon DEF Slots
<1>5. \A n \in Machines : Stays(n) \/ (~Creating(n) /\ Freed(n))
  <2>1. \A v \in Workers : \A s \in Slots : \A n \in Machines : Holds(v, s, n)' <=> Holds(v, s, n)
    BY <1>11, Zenon DEF Holds
  <2>2. \A n \in Machines : n # m => Stays(n)
    BY <1>1, <2>1 DEF Stays
  <2>3. CASE d = details[m]
    BY <1>1, <2>1, <2>3 DEF Stays
  <2>4. CASE details[m].state = "Absent" /\ d.state = "Idle" /\ d.used = 1
    <3>1. ~Creating(m) /\ \A v \in Workers : \A s \in Slots : ~Holds(v, s, m)
      BY <2>4, Zenon DEF MachineInv, CreatingKept, HeldNotFree
    <3>2. details'[m] = d
      BY <1>1, Zenon DEF MachineInv, MachineTypes
    <3>3. Freed(m)
      BY <2>1, <2>4, <3>1, <3>2, Zenon DEF Freed
    <3> QED
      BY <2>2, <3>1, <3>3, Zenon
  <2> QED
    BY <1>4, <2>3, <2>4, Zenon
<1>12. MachineTypes'
  BY <1>1, <1>4, <1>7, <1>10, Zenon DEF MachineInv, MachineTypes
<1>13. NamesKnown'
  <2>1. \A v \in Workers : worker'[v].list \subseteq 1..born
    BY <1>9, <1>10, Empty, Zenon
  <2>2. \A n \in Machines : n > born => details'[n] = details[n] /\ removals'[n] = removals[n]
    BY <1>1, <1>3 DEF MachineInv, MachineTypes
  <2> QED
    BY <1>1, <1>7, <1>11, <2>1, <2>2, NamesStep, Zenon DEF Dropped
<1>14. PointersPlaced'
  BY <1>1, <1>2, <1>9, <1>10, <1>11 DEF MachineInv, PointersPlaced
<1>15. \A v \in Workers : worker'[v].pc = "doomed" => ~Creating(Oldest(worker'[v].list))
  BY <1>2, <1>9, <1>10 DEF MachineInv, CreatingKept
<1> QED
  BY <1>1, <1>5, <1>9, <1>10, <1>12, <1>13, <1>14, <1>15, MapStep, Zenon DEF MachineInv, Dropped, Slots
===============================================================================
