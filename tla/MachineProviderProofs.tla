------------------------ MODULE MachineProviderProofs ------------------------
(***************************************************************************)
(* The machines of a runner, for every number of workers, machines, builds *)
(* and retries: MachineInv is inductive, and gives the properties.         *)
(***************************************************************************)
EXTENDS MachineStepsProofs, WellFoundedInduction

USE MachineAssumption

-----------------------------------------------------------------------------
(* Steps that take a machine: findFreeMachine, the end of Acquire and of   *)
(* Use, which hand it on.                                                  *)

\* The machine becomes Used, by worker w that holds it.
Taken(w, n) ==
  /\ details'[n].state = "Used" /\ details'[n].used = details[n].used + 1
  /\ n \in made /\ ~Creating(n) /\ (MaxBuilds > 1 => details[n].used < MaxBuilds)
  /\ \E s \in Slots : Holds(w, s, n)'

\* findFreeMachine marks a machine that nobody has.
LEMMA findFreeTakes ==
  ASSUME MachineInv, NEW w \in Workers, NEW m \in Machines, NEW u \in Nat, m <= born,
         worker[w].pc = "find", details[m].state \in {"Absent", "Idle"}, MaxBuilds > 1 => u < MaxBuilds,
         details' = [details EXCEPT ![m] = [state |-> "Acquired", used |-> u]],
         Go(w, [worker[w] EXCEPT !.pc = "check", !.list = worker[w].list \ {m}, !.cand = Pointer(m)]),
         UNCHANGED <<creation, removals, listed, made, up, acquireLock, data, born>>
  PROVE  MachineInv'
<1> DEFINE r == [worker[w] EXCEPT !.pc = "check", !.list = worker[w].list \ {m}, !.cand = Pointer(m)]
<1>1. /\ r \in WorkerState /\ r.pc = "check" /\ r.list = worker[w].list \ {m}
      /\ r.cand = Pointer(m) /\ r.data = worker[w].data /\ r.edata = worker[w].edata
  <2>1. "check" \in PCs /\ Pointer(m) \in Ptr
    BY DEF PCs, Pointer, Ptr, Machines
  <2> HIDE DEF Pointer
  <2> QED
    BY <2>1, Empty, Zenon DEF WorkerState
<1> HIDE DEF r
<1>2. /\ worker' \in [Workers -> WorkerState] /\ worker'[w] = r
      /\ \A v \in Workers : v # w => worker'[v] = worker[v]
  BY <1>1, GoStep, Zenon DEF MachineInv, r
<1>3. /\ details' \in [Machines -> [state: {"Absent", "Idle", "Creating", "Acquired", "Used", "Removing"}, used: Nat]]
      /\ \A n \in Machines : n # m => details'[n] = details[n]
      /\ details'[m].state = "Acquired" /\ details'[m].used = u
  BY Zenon DEF MachineInv, MachineTypes
<1>4. ~Creating(m) /\ \A v \in Workers : \A s \in Slots : ~Holds(v, s, m)
  BY Zenon DEF MachineInv, CreatingKept, HeldNotFree
<1>5. \A v \in Workers : \A s \in Slots : \A n \in Machines :
        Holds(v, s, n)' <=> Holds(v, s, n) \/ (v = w /\ s = "cand" /\ n = m)
  <2>1. \A n \in Machines : worker[w].cand # Pointer(n) /\ (Pointer(m) = Pointer(n) <=> n = m)
    BY Empty, PointerFacts, Zenon
  <2>2. \A v \in Workers : \A s \in Slots : (v = w /\ s = "cand") \/ worker'[v][s] = worker[v][s]
    BY <1>1, <1>2, Zenon DEF Slots
  <2>3. worker'[w].cand = Pointer(m)
    BY <1>1, <1>2, Zenon
  <2> QED
    BY <2>1, <2>2, <2>3, Zenon DEF Holds
<1>6. \A v \in Workers : \A s \in Slots :
        worker'[v][s] = worker[v][s] \/ (v = w /\ s = "cand" /\ worker'[v][s] = Pointer(m))
  BY <1>1, <1>2, Zenon DEF Slots
<1>7. \A n : Creating(n)' <=> Creating(n)
  BY Zenon DEF Creating
<1>8. MachineTypes'
  BY <1>2, Zenon DEF MachineInv, MachineTypes
<1>9. NamesKnown'
  <2>1. \A n \in Machines : n > born => n # m
    BY DEF MachineInv, MachineTypes, Machines
  <2>2. \A v \in Workers : worker'[v].list \subseteq 1..born
    BY <1>1, <1>2, Empty, Zenon
  <2>3. \A v \in Workers : \A s \in Slots : worker'[v][s].name <= born
    BY <1>6 DEF MachineInv, NamesKnown, Pointer
  <2> QED
    BY <2>1, <2>2, <2>3 DEF MachineInv, NamesKnown
<1>10. PointersPlaced'
  <2>1. Pointer(m) # NoData /\ Pointer(m).name # 0
    BY DEF Pointer, NoData, Machines
  <2> QED
    BY <1>1, <1>2, <2>1, Empty DEF MachineInv, PointersPlaced, Slots
<1>11. CreatingKept'
  <2>1. \A n \in Machines : (Creating(n) <=> details[n].state = "Creating")'
    BY <1>7 DEF MachineInv, CreatingKept
  <2>2. \A n \in Machines : (Creating(n) => removals[n] = 0)'
    BY <1>7, Zenon DEF MachineInv, CreatingKept
  <2>3. ASSUME NEW n \in Machines, creation[n] = "Acquired"
        PROVE  \E v \in Workers : worker'[v].pc = "creating" /\ Holds(v, "cand", n)'
    <3>1. PICK v \in Workers : worker[v].pc = "creating" /\ Holds(v, "cand", n)
      BY <2>3, Zenon DEF MachineInv, CreatingKept
    <3> QED
      BY <1>2, <1>5, <3>1, Zenon DEF Slots
  <2>4. ASSUME NEW v \in Workers, NEW s \in Slots, NEW n \in Machines, worker'[v][s].name = n, Creating(n)
        PROVE  s = "cand" /\ worker'[v].pc = "creating" /\ worker'[v].cand.live /\ creation[n] = "Acquired"
    <3>1. worker'[v][s] = worker[v][s]
      BY <1>4, <1>6, <2>4 DEF Pointer
    <3>2. s = "cand" /\ worker[v].pc = "creating" /\ worker[v].cand.live /\ creation[n] = "Acquired"
      BY <2>4, <3>1 DEF MachineInv, CreatingKept
    <3> QED
      BY <1>2, <3>2, Zenon
  <2>5. ASSUME NEW v \in Workers, NEW n \in Machines, worker'[v].pc = "creating", Holds(v, "cand", n)',
               creation[n] = "failed"
        PROVE  details'[n].state = "Removing"
    <3>1. v # w
      BY <1>1, <1>2, <2>5, Zenon
    <3>2. Holds(v, "cand", n) /\ worker[v].pc = "creating"
      BY <1>2, <1>5, <2>5, <3>1, Zenon DEF Slots
    <3>3. details[n].state = "Removing" /\ n # m
      BY <2>5, <3>2 DEF MachineInv, CreatingKept
    <3> QED
      BY <3>3
  <2>6. \A v \in Workers : worker'[v].pc = "doomed" => ~Creating(Oldest(worker'[v].list))
    BY <1>1, <1>2 DEF MachineInv, CreatingKept
  <2> QED
    BY <1>7, <2>1, <2>2, <2>3, <2>4, <2>5, <2>6 DEF CreatingKept
<1>12. HeldNotFree'
  <2>1. \A n \in Machines : (details[n].state = "Absent" => details[n] = Absent)'
    BY DEF MachineInv, HeldNotFree
  <2>2. \A n \in Machines : \A v \in Workers : \A s \in Slots :
          (Holds(v, s, n) => details[n].state \notin {"Absent", "Idle"})'
    BY <1>3, <1>5 DEF MachineInv, HeldNotFree
  <2>3. \A n \in Machines : \A v \in Workers : \A s \in Slots :
          ((worker[v][s].name = n /\ ~worker[v][s].live) => n \notin made /\ details[n].state # "Used")'
    BY <1>6 DEF MachineInv, HeldNotFree, Pointer
  <2> QED
    BY <2>1, <2>2, <2>3, Zenon DEF HeldNotFree
<1>13. MachineExclusive'
  BY <1>4, <1>5 DEF MachineInv, MachineExclusive
<1>14. NoMachineLost'
  <2>1. \A n \in Machines : Held(n) \/ n = m => Held(n)'
    BY <1>5, Zenon DEF Held, Slots
  <2> QED
    BY <2>1 DEF MachineInv, NoMachineLost
<1>15. BuildsLeft'
  <2>1. \A v \in Workers : \A n \in Machines :
          Holds(v, "data", n)' /\ worker'[v].pc = "credentials" => v # w /\ Holds(v, "data", n) /\ worker'[v] = worker[v]
    BY <1>1, <1>2, <1>5, Zenon DEF Slots
  <2>2. \A v \in Workers : \A n \in Machines : Holds(v, "cand", n)' => Holds(v, "cand", n) \/ n = m
    BY <1>5, Zenon DEF Slots
  <2>3. ASSUME MaxBuilds > 1 PROVE u <= MaxBuilds
    BY <2>3
  <2> QED
    BY <2>1, <2>2 DEF MachineInv, BuildsLeft
<1> QED
  BY <1>8, <1>9, <1>10, <1>11, <1>12, <1>13, <1>14, <1>15, Zenon DEF MachineInv

\* findFreeMachine looks at the newest machine of its list.
LEMMA findFreeMachineStep ==
  ASSUME MachineInv, ListsOrdered, NEW w \in Workers, findFreeMachine(w)
  PROVE  MachineInv'
<1>1. /\ worker[w].pc = "find" /\ worker[w].list # {}
      /\ UNCHANGED <<creation, removals, listed, made, up, acquireLock, data, born>>
  BY Zenon DEF findFreeMachine, hostVars
<1>2. worker[w].list \in SUBSET Machines
  BY Empty, Zenon DEF WorkerState
<1>3. PICK m \in Machines : m = Newest(worker[w].list)
  BY <1>1, <1>2, Zenon DEF ListsOrdered
<1>4. m <= born
  BY <1>1, <1>2, <1>3, Empty DEF ListsOrdered
<1>5. CASE machineDetails(m).state = "Idle"
  <2>1. PICK u \in Nat : u = machineDetails(m).used
    BY Zenon DEF machineDetails, MachineInv, MachineTypes
  <2>2. /\ details' = [details EXCEPT ![m] = [state |-> "Acquired", used |-> u]]
        /\ Go(w, [worker[w] EXCEPT !.pc = "check", !.list = worker[w].list \ {m}, !.cand = Pointer(m)])
    BY <1>3, <1>5, <2>1, Zenon DEF findFreeMachine
  <2>3. details[m].state \in {"Absent", "Idle"} /\ (MaxBuilds > 1 => u < MaxBuilds)
    <3>1. CASE details[m] = Absent
      BY <2>1, <3>1 DEF machineDetails, Absent
    <3>2. CASE details[m] # Absent
      BY <1>5, <2>1, <3>2, Zenon DEF machineDetails, MachineInv, BuildsLeft
    <3> QED
      BY <3>1, <3>2, Zenon
  <2> QED
    BY <1>1, <1>4, <2>2, <2>3, findFreeTakes, Zenon
<1>6. CASE machineDetails(m).state # "Idle"
  <2> DEFINE r == [worker[w] EXCEPT !.list = worker[w].list \ {m}]
  <2>1. /\ r \in WorkerState /\ r.pc = "find" /\ r.list = worker[w].list \ {m}
        /\ r.cand = worker[w].cand /\ r.data = worker[w].data /\ r.edata = worker[w].edata
    BY <1>1, Empty, Zenon DEF WorkerState
  <2>2. Go(w, r) /\ UNCHANGED details
    BY <1>3, <1>6, Zenon DEF findFreeMachine
  <2>3. worker[w].data # NoData => acquireLock # w
    BY Zenon DEF MachineInv, PointersPlaced
  <2> HIDE DEF r
  <2> QED
    BY <1>1, <2>1, <2>2, <2>3, Empty, WorkerMoves, Zenon
<1> QED
  BY <1>5, <1>6, Zenon

\* A worker keeps the machine it found, elsewhere.
LEMMA HandStep ==
  ASSUME MachineInv, NEW w \in Workers, NEW r \in WorkerState, NEW to \in {"data", "edata"}, Go(w, r),
         MachineTypes', UNCHANGED <<creation, removals, made>>,
         worker[w].pc # "creating", r.pc \notin {"creating", "doomed", "credentials"},
         r[to] = worker[w].cand, worker[w][to] = NoData, r.cand = NoData,
         \A s \in Slots : s \notin {to, "cand"} => r[s] = worker[w][s],
         \A n \in Machines : details'[n] = details[n] \/ Taken(w, n)
  PROVE  CreatingKept' /\ HeldNotFree' /\ MachineExclusive' /\ NoMachineLost' /\ BuildsLeft'
<1>1. /\ worker'[w] = r
      /\ \A v \in Workers : v # w => worker'[v] = worker[v]
  BY GoStep, Zenon DEF MachineInv
<1>2. /\ \A v \in Workers : \A s \in Slots : \A n \in Machines : v # w => (Holds(v, s, n)' <=> Holds(v, s, n))
      /\ \A s \in Slots : \A n \in Machines :
           Holds(w, s, n)' <=> (IF s = to THEN Holds(w, "cand", n) ELSE s # "cand" /\ Holds(w, s, n))
      /\ \A n \in Machines : ~Holds(w, to, n)
  BY <1>1 DEF Holds, Pointer, NoData
<1>3. \A n : Creating(n)' <=> Creating(n)
  BY Zenon DEF Creating
<1>4. CreatingKept'
  <2>1. \A n \in Machines : (Creating(n) <=> details[n].state = "Creating")'
    BY <1>3 DEF MachineInv, CreatingKept, Taken
  <2>2. \A n \in Machines : (Creating(n) => removals[n] = 0)'
    BY <1>3, Zenon DEF MachineInv, CreatingKept
  <2>3. ASSUME NEW n \in Machines, creation[n] = "Acquired"
        PROVE  \E v \in Workers : worker'[v].pc = "creating" /\ Holds(v, "cand", n)'
    <3>1. PICK v \in Workers : worker[v].pc = "creating" /\ Holds(v, "cand", n)
      BY <2>3, Zenon DEF MachineInv, CreatingKept
    <3> QED
      BY <1>1, <1>2, <3>1, Zenon DEF Slots
  <2>4. ASSUME NEW v \in Workers, NEW s \in Slots, NEW n \in Machines, worker'[v][s].name = n, Creating(n)
        PROVE  s = "cand" /\ worker'[v].pc = "creating" /\ worker'[v].cand.live /\ creation[n] = "Acquired"
    <3>1. v # w
      <4>1. \A t \in Slots : worker[w][t].name # n
        BY <2>4 DEF MachineInv, CreatingKept
      <4>2. worker'[w][s] = NoData \/ \E t \in Slots : worker'[w][s] = worker[w][t]
        BY <1>1, Zenon DEF Slots
      <4>3. worker'[w][s].name # n
        BY <4>1, <4>2 DEF NoData, Machines
      <4> QED
        BY <2>4, <4>3, Zenon
    <3> QED
      BY <1>1, <2>4, <3>1 DEF MachineInv, CreatingKept
  <2>5. ASSUME NEW v \in Workers, NEW n \in Machines, worker'[v].pc = "creating", Holds(v, "cand", n)',
               creation[n] = "failed"
        PROVE  details'[n].state = "Removing"
    <3>1. v # w
      BY <1>1, <2>5, Zenon
    <3>2. details[n].state = "Removing" /\ Holds(v, "cand", n)
      BY <1>1, <1>2, <2>5 DEF MachineInv, CreatingKept, Slots
    <3>3. ~Taken(w, n)
      BY <1>2, <3>1, <3>2 DEF MachineInv, MachineExclusive, Taken, Slots
    <3> QED
      BY <3>2, <3>3, Zenon
  <2>6. \A v \in Workers : worker'[v].pc = "doomed" => ~Creating(Oldest(worker'[v].list))
    BY <1>1 DEF MachineInv, CreatingKept
  <2> QED
    BY <1>3, <2>1, <2>2, <2>3, <2>4, <2>5, <2>6 DEF CreatingKept
<1>5. HeldNotFree'
  <2>1. \A n \in Machines : (details[n].state = "Absent" => details[n] = Absent)'
    BY DEF MachineInv, HeldNotFree, Taken
  <2>2. \A n \in Machines : \A v \in Workers : \A s \in Slots :
          (Holds(v, s, n) => details[n].state \notin {"Absent", "Idle"})'
    BY <1>2 DEF MachineInv, HeldNotFree, Taken, Slots
  <2>3. ASSUME NEW n \in Machines, NEW v \in Workers, NEW s \in Slots,
               worker'[v][s].name = n, ~worker'[v][s].live
        PROVE  n \notin made /\ details'[n].state # "Used"
    <3>1. worker'[v][s] = NoData \/ \E t \in Slots : worker'[v][s] = worker[v][t]
      BY <1>1, Zenon DEF Slots
    <3>2. n \notin made /\ details[n].state # "Used"
      BY <2>3, <3>1 DEF MachineInv, HeldNotFree, NoData, Machines
    <3> QED
      BY <3>2, Zenon DEF Taken
  <2> QED
    BY <2>1, <2>2, <2>3, Zenon DEF HeldNotFree
<1>6. MachineExclusive'
  <2> SUFFICES ASSUME NEW n \in Machines, NEW v1 \in Workers, NEW v2 \in Workers,
                      NEW s1 \in Slots, NEW s2 \in Slots, Holds(v1, s1, n)', Holds(v2, s2, n)'
               PROVE  v1 = v2 /\ s1 = s2
    BY Zenon DEF MachineExclusive
  <2>1. \A v \in Workers : \A s \in Slots : Holds(v, s, n)' =>
          \E t \in Slots : Holds(v, t, n) /\ (IF v = w /\ s = to THEN t = "cand" ELSE t = s /\ (v = w => t # "cand"))
    BY <1>2 DEF Slots
  <2> QED
    BY <2>1 DEF MachineInv, MachineExclusive
<1>7. NoMachineLost'
  <2>1. \A n \in Machines : Held(n) => Held(n)'
    BY <1>2, Zenon DEF Held, Slots
  <2>2. \A n \in Machines : Taken(w, n) => Held(n)'
    BY Zenon DEF Held, Taken
  <2> QED
    BY <2>1, <2>2, Zenon DEF MachineInv, NoMachineLost, Taken
<1>8. BuildsLeft'
  <2> SUFFICES ASSUME MaxBuilds > 1, NEW n \in Machines
      PROVE  (/\ details[n].state \in {"Idle", "Acquired", "Creating", "Absent"} => details[n].used < MaxBuilds
              /\ details[n].used <= MaxBuilds
              /\ \A v \in Workers :
                   /\ Holds(v, "cand", n) => details[n].used < MaxBuilds
                   /\ (Holds(v, "data", n) /\ worker[v].pc = "credentials" /\ worker[v].cand = NoData)
                        => details[n].used < MaxBuilds)'
    BY Zenon DEF BuildsLeft
  <2>1. /\ details[n].state \in {"Idle", "Acquired", "Creating", "Absent"} => details[n].used < MaxBuilds
        /\ details[n].used <= MaxBuilds
        /\ \A v \in Workers :
             /\ Holds(v, "cand", n) => details[n].used < MaxBuilds
             /\ (Holds(v, "data", n) /\ worker[v].pc = "credentials" /\ worker[v].cand = NoData)
                   => details[n].used < MaxBuilds
    BY Zenon DEF MachineInv, BuildsLeft
  <2>2. details[n].used \in Nat
    BY Zenon DEF MachineInv, MachineTypes
  <2>3. \A v \in Workers : Holds(v, "cand", n)' => v # w /\ Holds(v, "cand", n)
    BY <1>2, Zenon DEF Slots
  <2>4. \A v \in Workers : Holds(v, "data", n)' /\ worker'[v].pc = "credentials" =>
          v # w /\ Holds(v, "data", n) /\ worker'[v] = worker[v]
    BY <1>1, <1>2, Zenon DEF Slots
  <2>5. CASE details'[n] = details[n]
    BY <2>1, <2>3, <2>4, <2>5, Zenon
  <2>6. CASE Taken(w, n)
    <3>1. \A v \in Workers : v # w => \A s \in Slots : ~Holds(v, s, n)
      BY <1>2, <2>6 DEF MachineInv, MachineExclusive, Taken, Slots
    <3>2. details'[n].state = "Used" /\ details'[n].used <= MaxBuilds
      BY <2>2, <2>6 DEF Taken
    <3> QED
      BY <2>3, <2>4, <3>1, <3>2, Zenon DEF Slots
  <2> QED
    BY <2>5, <2>6, Zenon
<1> QED
  BY <1>4, <1>5, <1>6, <1>7, <1>8, Zenon

\* Acquire ends with the machine that it found.
LEMMA CheckAcquiredStep ==
  ASSUME MachineInv, NEW w \in Workers, worker[w].pc = "check", acquireLock = w,
         acquireLock' = NoWorker, data' = NoCounts,
         Go(w, [worker[w] EXCEPT !.pc = "ready", !.list = {}, !.data = worker[w].cand, !.cand = NoData]),
         UNCHANGED <<details, creation, removals, listed, made, up, born>>
  PROVE  MachineInv'
<1> DEFINE r == [worker[w] EXCEPT !.pc = "ready", !.list = {}, !.data = worker[w].cand, !.cand = NoData]
<1>1. /\ r \in WorkerState /\ r.pc = "ready" /\ r.list = {}
      /\ r.cand = NoData /\ r.data = worker[w].cand /\ r.edata = worker[w].edata
  <2>1. "ready" \in PCs
    BY Zenon DEF PCs
  <2> QED
    BY <2>1, Empty, Zenon DEF WorkerState
<1> HIDE DEF r
<1>2. /\ worker' \in [Workers -> WorkerState] /\ worker'[w] = r
      /\ \A v \in Workers : v # w => worker'[v] = worker[v]
  BY <1>1, GoStep, Zenon DEF MachineInv, r
<1>3. worker[w].data = NoData
  BY Zenon DEF MachineInv, PointersPlaced
<1>4. MachineTypes'
  BY <1>2, Empty, Zenon DEF MachineInv, MachineTypes
<1>5. NamesKnown'
  BY <1>1, <1>2, Empty DEF MachineInv, NamesKnown, Slots
<1>6. PointersPlaced'
  BY <1>1, <1>2, Empty DEF MachineInv, MachineTypes, PointersPlaced, Slots
<1>7. PICK to \in {"data", "edata"} : to = "data"
  BY Zenon
<1>8. /\ r[to] = worker[w].cand /\ worker[w][to] = NoData
      /\ \A s \in Slots : s \notin {to, "cand"} => r[s] = worker[w][s]
  BY <1>1, <1>3, <1>7, Zenon DEF Slots
<1>9. Go(w, r)
  BY Zenon DEF r
<1> QED
  BY <1>1, <1>4, <1>5, <1>6, <1>8, <1>9, HandStep DEF MachineInv

\* useMachine goes on to the credentials with the machine that it found.
LEMMA CheckFoundStep ==
  ASSUME MachineInv, NEW w \in Workers, worker[w].pc = "check",
         Go(w, [worker[w] EXCEPT !.pc = "credentials", !.list = {}]),
         UNCHANGED <<details, creation, removals, listed, made, up, acquireLock, data, born>>
  PROVE  MachineInv'
<1> DEFINE r == [worker[w] EXCEPT !.pc = "credentials", !.list = {}]
<1>1. /\ r \in WorkerState /\ r.pc = "credentials" /\ r.list = {}
      /\ r.cand = worker[w].cand /\ r.data = worker[w].data /\ r.edata = worker[w].edata
  <2>1. "credentials" \in PCs
    BY Zenon DEF PCs
  <2> QED
    BY <2>1, Empty, Zenon DEF WorkerState
<1> HIDE DEF r
<1>2. /\ worker' \in [Workers -> WorkerState] /\ worker'[w] = r
      /\ \A v \in Workers : v # w => worker'[v] = worker[v]
  BY <1>1, GoStep, Zenon DEF MachineInv, r
<1>3. \A v \in Workers : \A s \in Slots : worker'[v][s] = worker[v][s]
  BY <1>1, <1>2, Zenon DEF Slots
<1>4. MachineTypes'
  BY <1>2, Zenon DEF MachineInv, MachineTypes
<1>5. NamesKnown'
  BY <1>1, <1>2, <1>3, Zenon DEF MachineInv, NamesKnown
<1>6. PointersPlaced'
  BY <1>1, <1>2, <1>3 DEF MachineInv, PointersPlaced
<1>7. BuildsLeft'
  <2>1. worker'[w].cand # NoData
    BY <1>1, <1>2, Zenon DEF MachineInv, PointersPlaced
  <2> QED
    BY <1>2, <1>3, <2>1 DEF MachineInv, BuildsLeft, Holds, Slots
<1>8. \A v \in Workers : /\ worker'[v].pc = "creating" <=> worker[v].pc = "creating"
                         /\ worker'[v].pc = "doomed" => worker[v].pc = "doomed" /\ worker'[v].list = worker[v].list
  BY <1>1, <1>2, Zenon
<1> QED
  BY <1>3, <1>4, <1>5, <1>6, <1>7, <1>8, PointersAlone, Zenon DEF MachineInv

\* findFreeMachine asks the machine that it marked.
LEMMA CheckMachineStep ==
  ASSUME MachineInv, NEW w \in Workers, CheckMachine(w)
  PROVE  MachineInv'
<1>1. worker[w].pc = "check" /\ UNCHANGED <<creation, listed, made, up, born>>
  BY Zenon DEF CheckMachine
<1>2. \/ /\ acquireLock = w /\ acquireLock' = NoWorker /\ data' = NoCounts
         /\ Go(w, [worker[w] EXCEPT !.pc = "ready", !.list = {}, !.data = worker[w].cand, !.cand = NoData])
         /\ UNCHANGED <<details, removals>>
      \/ /\ Go(w, [worker[w] EXCEPT !.pc = "credentials", !.list = {}])
         /\ UNCHANGED <<details, removals, acquireLock, data>>
      \/ /\ remove(worker[w].cand.name)
         /\ Go(w, [worker[w] EXCEPT !.pc = "find", !.cand = NoData])
         /\ UNCHANGED <<acquireLock, data>>
  BY Zenon DEF CheckMachine
<1> QED
  BY <1>1, <1>2, CheckAcquiredStep, CheckFoundStep, CheckFailStep, Zenon

\* Use ends: the job runs on the machine of Acquire or on the one Use found.
LEMMA CredentialsStep ==
  ASSUME MachineInv, NEW w \in Workers, Credentials(w)
  PROVE  MachineInv'
<1> DEFINE r == [worker[w] EXCEPT !.pc = "running", !.edata = worker[w].cand, !.cand = NoData]
<1>0. /\ worker[w].pc = "credentials"
      /\ UNCHANGED <<creation, listed, made, up, acquireLock, data, born>>
  BY Zenon DEF Credentials, hostVars
<1>1. PICK p \in Ptr : p = IF worker[w].cand # NoData THEN worker[w].cand ELSE worker[w].data
  BY Empty, Zenon DEF WorkerState
<1>2. CASE Release(worker[w].cand) /\ \E q \in AfterFailure(w) : Go(w, q)
  BY <1>0, <1>2, CredentialsFailStep, Zenon
<1>3. CASE /\ p.name \in up
           /\ details' = IF p.live THEN [details EXCEPT ![p.name] =
                                          [state |-> "Used", used |-> details[p.name].used + 1]]
                                   ELSE details
           /\ Go(w, r) /\ UNCHANGED removals
  <2>1. /\ r \in WorkerState /\ r.pc = "running" /\ r.list = worker[w].list
        /\ r.cand = NoData /\ r.data = worker[w].data /\ r.edata = worker[w].cand
    <3>1. "running" \in PCs
      BY Zenon DEF PCs
    <3> QED
      BY <3>1, Empty, Zenon DEF WorkerState
  <2> HIDE DEF r
  <2>2. /\ worker' \in [Workers -> WorkerState] /\ worker'[w] = r
        /\ \A v \in Workers : v # w => worker'[v] = worker[v]
    BY <1>3, <2>1, GoStep, Zenon DEF MachineInv
  <2>0. p.name \in made /\ p.name \in 1..born
    BY <1>3, Zenon DEF MachineInv, NamesKnown
  <2>3. PICK m \in Machines : m = p.name
    BY <2>0 DEF MachineInv, MachineTypes, Machines
  <2>4. m \in made /\ m <= born
    BY <2>0, <2>3
  <2>5. details[m].used \in Nat
    BY Zenon DEF MachineInv, MachineTypes
  <2>6. /\ details' \in [Machines -> [state: {"Absent", "Idle", "Creating", "Acquired", "Used", "Removing"}, used: Nat]]
        /\ \A n \in Machines : n # m => details'[n] = details[n]
        /\ ~p.live => details' = details
        /\ p.live => details'[m].state = "Used" /\ details'[m].used = details[m].used + 1
    BY <1>3, <2>3 DEF MachineInv, MachineTypes
  <2>7. p.live => Taken(w, m)
    <3> SUFFICES ASSUME p.live PROVE Taken(w, m)
      BY Zenon
    <3>1. p = Pointer(m)
      BY <2>3, Zenon DEF Ptr, Pointer
    <3>2. \E s \in Slots : Holds(w, s, m)'
      BY <1>1, <2>1, <2>2, <3>1, Zenon DEF Holds, Slots
    <3>3. ~Creating(m)
      BY <1>0, <1>1, <2>3, Zenon DEF MachineInv, CreatingKept, Slots
    <3>4. MaxBuilds > 1 => details[m].used < MaxBuilds
      BY <1>0, <1>1, <3>1, Zenon DEF MachineInv, BuildsLeft, Holds
    <3> QED
      BY <2>4, <2>6, <3>2, <3>3, <3>4, Zenon DEF Taken
  <2>8. MachineTypes'
    BY <1>0, <1>3, <2>2, <2>6, Zenon DEF MachineInv, MachineTypes
  <2>9. NamesKnown'
    <3>1. \A n \in Machines : n > born => n # m
      BY <2>4 DEF MachineInv, MachineTypes, Machines
    <3>2. \A v \in Workers : worker[v].list \subseteq 1..born /\ \A s \in Slots : worker[v][s].name <= born
      BY Zenon DEF MachineInv, NamesKnown
    <3>3. \A v \in Workers : worker'[v].list \subseteq 1..born
      BY <2>1, <2>2, <3>2, Zenon
    <3>4. 0 <= born
      BY DEF MachineInv, MachineTypes
    <3>5. r.cand.name <= born /\ r.data.name <= born /\ r.edata.name <= born
      BY <2>1, <3>2, <3>4 DEF Slots, NoData
    <3>6. \A v \in Workers : \A s \in Slots : worker'[v][s].name <= born
      BY <2>2, <3>2, <3>5, Zenon DEF Slots
    <3>7. \A n \in Machines : n > born => details'[n] = details[n]
      BY <2>6, <3>1, Zenon
    <3> QED
      BY <1>0, <1>3, <3>3, <3>6, <3>7, Zenon DEF MachineInv, NamesKnown
  <2>10. PointersPlaced'
    BY <1>0, <2>1, <2>2, Empty DEF MachineInv, PointersPlaced, Slots
  <2>11. PICK to \in {"data", "edata"} : to = "edata"
    BY Zenon
  <2>12. /\ r[to] = worker[w].cand /\ worker[w][to] = NoData
         /\ \A s \in Slots : s \notin {to, "cand"} => r[s] = worker[w][s]
    BY <1>0, <2>1, <2>11, Empty, Zenon DEF Slots
  <2>13. \A n \in Machines : details'[n] = details[n] \/ Taken(w, n)
    BY <2>6, <2>7, Zenon
  <2> QED
    BY <1>0, <1>3, <2>1, <2>8, <2>9, <2>10, <2>12, <2>13, HandStep, Zenon DEF MachineInv
<1> QED
  BY <1>1, <1>2, <1>3, Zenon DEF Credentials

-----------------------------------------------------------------------------
(* The theorems                                                            *)

\* newMachineProvider: no worker has a machine, the map is empty.
LEMMA InitInv == Init => MachineInv
<1> SUFFICES ASSUME Init PROVE MachineInv
  BY Zenon
<1>1. MachineTypes
  BY DEF Init, MachineTypes, Absent, Fresh, NoData, NoCounts, Ptr, PCs, WorkerState, Counts
<1>2. \A w \in Workers : \A s \in Slots : worker[w][s] = NoData
  BY DEF Init, Fresh, Slots
<1>3. NamesKnown
  BY <1>2 DEF Init, NamesKnown, Fresh, NoData, NoCounts
<1>4. PointersPlaced
  BY <1>2, Zenon DEF Init, PointersPlaced, Fresh
<1>5. CreatingKept
  BY Zenon DEF Init, CreatingKept, Creating, Fresh, Absent
<1>6. HeldNotFree /\ MachineExclusive
  BY <1>2 DEF Init, HeldNotFree, MachineExclusive, Holds, Pointer, Absent, Machines, NoData, Slots
<1>7. NoMachineLost /\ BuildsLeft
  BY DEF Init, NoMachineLost, BuildsLeft, Absent
<1> QED
  BY <1>1, <1>3, <1>4, <1>5, <1>6, <1>7, Zenon DEF MachineInv

\* The oldest machine of a list is in it.
LEMMA OldestInList ==
  ASSUME NEW S \in SUBSET Machines, S # {}
  PROVE  Oldest(S) \in S
<1> DEFINE R == OpToRel(<, Nat)
<1>1. S \subseteq Nat
  BY DEF Machines
<1>2. PICK n \in S : \A m \in S : ~ (<<m, n>> \in R)
  <2>1. IsWellFoundedOn(R, Nat)
    BY NatLessThanWellFounded, Zenon
  <2> HIDE DEF R
  <2> QED
    BY <1>1, <2>1, WFMin, Zenon
<1>3. \A m \in S : n <= m
  <2> SUFFICES ASSUME NEW m \in S PROVE n <= m
    BY Zenon
  <2>1. <<m, n>> \in Nat \X Nat /\ ~ (<<m, n>> \in R)
    BY <1>1, <1>2, Zenon
  <2>2. ~ (m < n)
    BY <2>1, Zenon DEF OpToRel
  <2> QED
    BY <1>1, <2>2
<1> QED
  BY <1>3, Zenon DEF Oldest

\* The newest machine of a list is in it.
LEMMA NewestInList ==
  ASSUME NEW S \in SUBSET Machines, S # {}
  PROVE  Newest(S) \in S
<1> DEFINE R == OpToRel(<, Nat)
           T == {MaxMachines - m : m \in S}
<1>0. \A m \in S : m \in Nat /\ MaxMachines - m \in Nat
  BY DEF Machines
<1>1. T \subseteq Nat /\ T # {} /\ S \subseteq Nat
  BY <1>0, Zenon
<1>2. PICK t \in T : \A u \in T : ~ (<<u, t>> \in R)
  <2>1. IsWellFoundedOn(R, Nat)
    BY NatLessThanWellFounded, Zenon
  <2> HIDE DEF R, T
  <2> QED
    BY <1>1, <2>1, WFMin, Zenon
<1>3. PICK n \in S : t = MaxMachines - n
  BY Zenon
<1>4. \A m \in S : m <= n
  <2> SUFFICES ASSUME NEW m \in S PROVE m <= n
    BY Zenon
  <2>1. MaxMachines - m \in T
    BY Zenon
  <2>2. <<MaxMachines - m, t>> \in Nat \X Nat /\ ~ (<<MaxMachines - m, t>> \in R)
    BY <1>1, <1>2, Zenon
  <2>3. ~ (MaxMachines - m < t)
    BY <2>2, Zenon DEF OpToRel
  <2> QED
    BY <1>1, <1>3, <2>3
<1> QED
  BY <1>4, Zenon DEF Newest

\* Every list that is not empty has an oldest and a newest machine.
LEMMA Ordered == ListsOrdered
  BY OldestInList, NewestInList, Zenon DEF ListsOrdered

\* MachineInv is kept by every step of the provider.
LEMMA NextInv == MachineInv /\ [Next]_vars => MachineInv'
<1> SUFFICES ASSUME MachineInv, [Next]_vars PROVE MachineInv'
  BY Zenon
<1>1. CASE UNCHANGED vars
  BY <1>1, HostMoves, Zenon DEF vars, hostVars, MachineInv, NamesKnown
<1>2. ASSUME NEW w \in Workers, WorkerStep(w) PROVE MachineInv'
  BY <1>2, Ordered, AcquireLoadStep, updateMachineStep, updateMachinesStep, createMachinesStep, AcquireNothingStep,
     findFreeMachineStep, CheckMachineStep, ReleaseDataStep, PrepareStep, UseStep, useMachineStep, createMachineStep,
     CreatedStep, CredentialsStep, CleanupStep, Zenon DEF WorkerStep, Acquire
<1>3. ASSUME NEW m \in Machines, Host(m) \/ Removal(m) PROVE MachineInv'
  BY <1>3, Ordered, HostStep, CreateSucceedsStep, CreateFailsStep, finalizeRemovalStep, Zenon DEF Host, Removal
<1> QED
  BY <1>1, <1>2, <1>3, Zenon DEF Next

\* What the code says about every machine holds for every number of workers,
\* machines, builds and retries.
THEOREM MachineInvHolds == Spec => []MachineInv
  BY InitInv, NextInv, PTL DEF Spec

\* No machine belongs to two jobs, or twice to one: Acquire and useMachine take
\* machines under no common lock, findFreeMachine marks them under m.lock.
THEOREM MachineAlwaysExclusive == Spec => []MachineExclusive
<1>1. MachineInv => MachineExclusive
  BY Zenon DEF MachineInv
<1> QED
  BY <1>1, MachineInvHolds, PTL

\* A machine marked Acquired or Used is in somebody's hands, on every error path
\* of Use, of the creation and of the retried preparation.
THEOREM NoMachineEverLost == Spec => []NoMachineLost
<1>1. MachineInv => NoMachineLost
  BY Zenon DEF MachineInv
<1> QED
  BY <1>1, MachineInvHolds, PTL

\* No machine runs more than MaxBuilds jobs, for any MaxBuilds but 1 (a machine
\* found on disk counts as used once, which leaves it no build when 1 is allowed).
THEOREM MaxBuildsAlwaysRespected ==
  ASSUME MaxBuilds # 1
  PROVE  Spec => []MaxBuildsRespected
<1>1. MachineInv => MaxBuildsRespected
  BY DEF MachineInv, BuildsLeft, MaxBuildsRespected
<1> QED
  BY <1>1, MachineInvHolds, PTL

\* Who else could remove the machine a job runs on holds it, and lets go of it,
\* or holds one that is out of the map and runs no job.
LEMMA ReleasedByHolder ==
  ASSUME MachineInv, NEW m \in Machines, NEW w \in Workers, NEW s \in Slots, Holds(w, s, m),
         details[m].state = "Used", worker'[w][s] = Pointer(m),
         NEW v \in Workers, NEW slot \in Slots, worker'[v][slot] = NoData, Release(worker[v][slot])
  PROVE  removals'[m] = removals[m]
<1>1. PICK p \in Ptr : p = worker[v][slot]
  BY Empty, Zenon DEF WorkerState, Slots
<1>2. /\ p.name = 0 => p = NoData
      /\ p.live => details[p.name].state # "Absent"
  <2>1. p.name = 0 => p = NoData
    BY <1>1, Zenon DEF MachineInv, PointersPlaced
  <2>2. ASSUME p.live PROVE details[p.name].state # "Absent"
    <3>1. p.name \in Machines
      BY <2>1, <2>2 DEF Ptr, Machines, NoData
    <3>2. p = Pointer(p.name)
      BY <2>2, Zenon DEF Ptr, Pointer
    <3> QED
      BY <1>1, <3>1, <3>2, Zenon DEF MachineInv, HeldNotFree, Holds
  <2> QED
    BY <2>1, <2>2, Zenon
<1>3. p.name # m
  <2> SUFFICES ASSUME p.name = m PROVE FALSE
    BY Zenon
  <2>1. p.live
    BY <1>1, Zenon DEF MachineInv, HeldNotFree
  <2>2. Holds(v, slot, m)
    BY <1>1, <2>1, Zenon DEF Ptr, Pointer, Holds
  <2>3. v = w /\ slot = s
    BY <2>2, Zenon DEF MachineInv, MachineExclusive
  <2> QED
    BY <2>3, PointerFacts, Zenon
<1> QED
  BY <1>1, <1>2, <1>3, ReleaseFacts, Zenon

\* Of the steps of workers only updateMachines removes the machine of a job.
LEMMA KeptByWorker ==
  ASSUME MachineInv, NEW m \in Machines, NEW w \in Workers, NEW s \in Slots, Holds(w, s, m),
         worker[w].pc = "running", details[m].state = "Used", worker'[w][s] = Pointer(m),
         NEW v \in Workers, WorkerStep(v), removals'[m] > removals[m]
  PROVE  worker[v].pc = "doomed" /\ m = Oldest(worker[v].list)
<1>0. /\ removals'[m] # removals[m] /\ removals' # removals
      /\ MachineTypes /\ HeldNotFree
  BY DEF MachineInv, MachineTypes
<1>1. CASE updateMachines(v)
  <2>1. worker[v].pc = "doomed" /\ worker[v].list \in SUBSET Machines /\ worker[v].list # {}
    BY <1>1, Empty, Zenon DEF updateMachines, WorkerState, MachineInv, PointersPlaced
  <2>2. PICK n \in Machines : n = Oldest(worker[v].list)
    BY <2>1, OldestInList, Zenon
  <2>3. remove(n)
    BY <1>1, <2>2, Zenon DEF updateMachines
  <2> QED
    BY <1>0, <2>1, <2>2, <2>3, RemoveFacts, Zenon
<1>2. CASE CheckMachine(v)
  <2>1. worker[v].pc = "check" /\ remove(worker[v].cand.name)
    BY <1>0, <1>2, Zenon DEF CheckMachine
  <2>2. worker[v].cand \in Ptr /\ worker[v].cand.name # 0
    BY <2>1, Zenon DEF MachineInv, MachineTypes, PointersPlaced, WorkerState, Slots
  <2>3. PICK n \in Machines : n = worker[v].cand.name
    BY <2>2 DEF Ptr, Machines
  <2>4. n = m
    BY <1>0, <2>1, <2>3, RemoveFacts, Zenon
  <2>5. worker[v].cand.live
    BY <1>0, <2>3, <2>4, Zenon DEF HeldNotFree, Slots
  <2>6. Holds(v, "cand", m)
    BY <2>2, <2>3, <2>4, <2>5, Zenon DEF Ptr, Pointer, Holds
  <2>7. v = w
    BY <2>6 DEF MachineInv, MachineExclusive, Slots
  <2> QED
    BY <2>1, <2>7, Zenon
<1>3. CASE NoJob(v) \/ ReleaseExecutor(v)
  <2>1. Release(worker[v].data) /\ Go(v, Fresh)
    BY <1>3, Zenon DEF NoJob, ReleaseExecutor
  <2>2. worker'[v].data = NoData
    BY <1>0, <2>1, Zenon DEF Go, Fresh, MachineTypes
  <2>3. PICK slot \in Slots : slot = "data"
    BY Zenon DEF Slots
  <2> QED
    BY <1>0, <2>1, <2>2, <2>3, ReleasedByHolder, Zenon
<1>4. CASE Cleanup(v)
  <2>1. PICK r \in AfterFailure(v) : Go(v, r)
    BY <1>4, Zenon DEF Cleanup
  <2>2. worker'[v].edata = NoData /\ Release(worker[v].edata)
    BY <1>0, <1>4, AfterFailureFields, GoStep DEF Cleanup
  <2>3. PICK slot \in Slots : slot = "edata"
    BY Zenon DEF Slots
  <2> QED
    BY <1>0, <2>2, <2>3, ReleasedByHolder, Zenon
<1>5. CASE Credentials(v)
  <2>1. Release(worker[v].cand) /\ \E r \in AfterFailure(v) : Go(v, r)
    BY <1>0, <1>5, Zenon DEF Credentials
  <2>2. worker'[v].cand = NoData
    BY <1>0, <2>1, AfterFailureFields, GoStep
  <2>3. PICK slot \in Slots : slot = "cand"
    BY Zenon DEF Slots
  <2> QED
    BY <1>0, <2>1, <2>2, <2>3, ReleasedByHolder, Zenon
<1>6. CASE \/ AcquireLoad(v) \/ updateMachine(v) \/ createMachines(v) \/ AcquireNothing(v)
           \/ findFreeMachine(v) \/ Prepare(v) \/ Use(v) \/ useMachine(v) \/ createMachine(v) \/ Created(v)
  BY <1>0, <1>6, Zenon DEF AcquireLoad, updateMachine, createMachines, AcquireNothing, findFreeMachine, Prepare, Use,
     useMachine, createMachine, Created
<1> QED
  BY <1>1, <1>2, <1>3, <1>4, <1>5, <1>6, Zenon DEF WorkerStep, Acquire

\* No goroutine of create or remove marks the machine of a job.
LEMMA KeptByHost ==
  ASSUME MachineInv, NEW m \in Machines, details[m].state = "Used", NEW n \in Machines, Host(n) \/ Removal(n)
  PROVE  ~(removals'[m] > removals[m])
<1>0. removals[m] \in Nat /\ MachineTypes /\ HeldNotFree
  BY Zenon DEF MachineInv, MachineTypes
<1>1. CASE CreateFails(n)
  <2>1. n # m /\ remove(n)
    BY <1>1, Zenon DEF CreateFails, MachineInv, CreatingKept, Creating
  <2> QED
    BY <1>0, <2>1, RemoveFacts
<1>2. CASE finalizeRemoval(n)
  <2>1. removals' = [removals EXCEPT ![n] = removals[n] - 1]
    BY <1>2, Zenon DEF finalizeRemoval
  <2> QED
    BY <1>0, <2>1
<1>3. CASE CreateBegins(n) \/ CreateSucceeds(n) \/ MachineFails(n) \/ removeMachine(n)
  <2>1. removals' = removals
    BY <1>3, Zenon DEF CreateBegins, CreateSucceeds, MachineFails, removeMachine
  <2> QED
    BY <1>0, <2>1
<1> QED
  BY <1>1, <1>2, <1>3, Zenon DEF Host, Removal

\* The machine a job runs on is marked for removal by nobody but the job's own
\* worker, except by the remove of updateMachines, which does not look at the
\* state again.
THEOREM JobMachineAlwaysKept == Spec => JobMachineKept
<1>1. MachineInv /\ [Next]_vars => [JobMachineKeptStep]_vars
  <2> SUFFICES ASSUME MachineInv, Next PROVE JobMachineKeptStep
    BY Zenon
  <2> SUFFICES ASSUME NEW m \in Machines, NEW w \in Workers, NEW s \in Slots,
                      worker[w].pc = "running", details[m].state = "Used",
                      Holds(w, s, m), worker'[w][s] = Pointer(m), removals'[m] > removals[m]
               PROVE  \E v \in Workers : worker[v].pc = "doomed" /\ m = Oldest(worker[v].list)
    BY Zenon DEF JobMachineKeptStep
  <2>1. PICK v \in Workers : WorkerStep(v)
    BY KeptByHost, Zenon DEF Next
  <2> QED
    BY <2>1, KeptByWorker, Zenon
<1> QED
  BY <1>1, MachineInvHolds, PTL DEF Spec, JobMachineKept

=============================================================================
