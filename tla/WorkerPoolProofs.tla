-------------------------- MODULE WorkerPoolProofs --------------------------
(***************************************************************************)
(* TLAPS proofs about WorkerPool, for any number of permutations, any work *)
(* list and any number of jobs.                                            *)
(***************************************************************************)
EXTENDS WorkerPool, FiniteSetTheorems, TLAPS

Parallel == NThreads > 1

Exited == {t \in Threads : at[t] = "exited"}

\* Positions below the counter were handed out: each is compiled or in the
\* hands of a worker. Positions from the counter on are untouched.
Handout ==
    Parallel =>
        \A p \in Positions :
            /\ p < nextIdx => \/ results[ToCompile[p]] # "empty"
                              \/ \E t \in Threads : Compiling(t) /\ k[t] = p
            /\ p >= nextIdx => results[ToCompile[p]] = "empty"

\* A compiling worker holds a position nobody else holds or has compiled.
Holding ==
    /\ \A t \in Threads : Compiling(t) =>
          k[t] \in Positions /\ k[t] < nextIdx /\ results[ToCompile[k[t]]] = "empty"
    /\ \A s, t \in Threads : Compiling(s) /\ Compiling(t) /\ s # t => k[s] # k[t]

\* Threads are started in order, and a worker leaves only when the counter
\* has passed the list.
Lifecycle ==
    /\ \A t \in Threads : at[t] = "unstarted" <=> t >= spawned
    /\ \A t \in Threads : at[t] = "exited" => nextIdx >= NCompile
    /\ \A t \in Threads : t < joined => at[t] = "exited"
    /\ nextIdx > 0 => Parallel

\* Which branch the calling thread is in, and how far it is.
MainThread ==
    /\ main = "serial" => ~Parallel
    /\ main \in {"spawn", "join"} => Parallel
    /\ main = "join" => spawned = NThreads
    /\ main = "done" /\ Parallel => spawned = NThreads /\ joined = NThreads
    /\ main = "done" /\ ~Parallel => pos = NCompile
    /\ ~Parallel => spawned = 0

\* The serial loop has compiled exactly what it has passed.
SerialProgress ==
    ~Parallel => \A p \in Positions : p < pos <=> results[ToCompile[p]] # "empty"

\* A slot outside the work list keeps its reused result.
ReusedKept == \A i \in Slots \ Items : results[i] = "reused"

\* Each worker that left took the counter past the list by one.
Overshoot == nextIdx <= NCompile + Cardinality(Exited)

IInv ==
    /\ TypeOK
    /\ Handout
    /\ Holding
    /\ Lifecycle
    /\ MainThread
    /\ SerialProgress
    /\ ReusedKept

-----------------------------------------------------------------------------

\* std::max and std::min in nThreads: at least one, and never more threads
\* than work when there is more than one.
LEMMA NThreadsBounds ==
    ASSUME jobs \in Nat \ {0}
    PROVE  /\ NThreads \in Nat \ {0}
           /\ Parallel => 0 .. NThreads - 1 \subseteq Threads
BY PoolAssumption DEF NThreads, Parallel, Threads, Positions

LEMMA ItemFacts ==
    /\ Items \subseteq Slots
    /\ \A p \in Positions : ToCompile[p] \in Items
BY PoolAssumption DEF Items

LEMMA WriteTyped ==
    ASSUME NEW D, NEW R, NEW f \in [D -> R], NEW i, NEW o \in R
    PROVE  [f EXCEPT ![i] = o] \in [D -> R]
OBVIOUS

LEMMA InitTypeOK == Init => TypeOK
<1> SUFFICES ASSUME Init PROVE TypeOK
  OBVIOUS
<1>1. jobs \in Nat \ {0}
  BY PoolAssumption DEF Init, SetJobs
<1>2. NThreads \in Nat \ {0}
  BY <1>1, NThreadsBounds
<1>3. results \in [Slots -> {"empty", "reused"} \cup Outcomes]
  BY DEF Init
<1>4. at \in [Threads -> {"unstarted", "construct", "claim", "compile", "exited"}]
  BY DEF Init
<1>5. k \in [Threads -> Nat]
  BY DEF Init
<1>6. main \in {"serial", "spawn", "join"} \cup Ended
  BY DEF Init
<1>7. QED
  BY <1>1, <1>2, <1>3, <1>4, <1>5, <1>6, PoolAssumption DEF Init, TypeOK

\* Writing an outcome into a slot keeps results well typed.
LEMMA StepTypeOK == TypeOK /\ [Next]_vars => TypeOK'
<1> SUFFICES ASSUME TypeOK, [Next]_vars PROVE TypeOK'
  OBVIOUS
<1>0. NThreads \in Nat \ {0}
  BY NThreadsBounds DEF TypeOK
<1>j. jobs' = jobs => NThreads' = NThreads
  BY DEF NThreads
<1> USE PoolAssumption
<1>1. ASSUME SerialCompile PROVE TypeOK'
  <2>1. PICK o \in Outcomes : results' = [results EXCEPT ![ToCompile[pos]] = o]
    BY <1>1 DEF SerialCompile
  <2>2. o \in {"empty", "reused"} \cup Outcomes
    OBVIOUS
  <2>3. results' \in [Slots -> {"empty", "reused"} \cup Outcomes]
    BY <2>1, <2>2 DEF TypeOK
  <2>4. QED
    BY <1>1, <2>3, <1>0, <1>j DEF SerialCompile, TypeOK
<1>2. ASSUME SerialDone PROVE TypeOK'
  BY <1>2, <1>0, <1>j DEF SerialDone, TypeOK, Ended
<1>3. ASSUME Spawn PROVE TypeOK'
  <2>1. at' \in [Threads -> {"unstarted", "construct", "claim", "compile", "exited"}]
    BY <1>3, WriteTyped, Zenon DEF Spawn, TypeOK
  <2>2. QED
    BY <1>3, <2>1, <1>0, <1>j DEF Spawn, TypeOK
<1>4. ASSUME SpawnFails PROVE TypeOK'
  BY <1>4, <1>0, <1>j DEF SpawnFails, TypeOK, Ended
<1>5. ASSUME AllSpawned PROVE TypeOK'
  BY <1>5, <1>0, <1>j DEF AllSpawned, TypeOK
<1>6. ASSUME Join PROVE TypeOK'
  BY <1>6, <1>0, <1>j DEF Join, TypeOK
<1>7. ASSUME AllJoined PROVE TypeOK'
  BY <1>7, <1>0, <1>j DEF AllJoined, TypeOK, Ended
<1>8. ASSUME NEW t \in Threads, Construct(t) PROVE TypeOK'
  BY <1>8, <1>0, <1>j DEF Construct, TypeOK
<1>9. ASSUME NEW t \in Threads, ConstructFails(t) PROVE TypeOK'
  BY <1>9, <1>0, <1>j DEF ConstructFails, TypeOK, Ended
<1>10. ASSUME NEW t \in Threads, Claim(t) PROVE TypeOK'
  BY <1>10, <1>0, <1>j DEF Claim, TypeOK
<1>11. ASSUME NEW t \in Threads, CompileItem(t) PROVE TypeOK'
  <2>1. PICK o \in Outcomes : results' = [results EXCEPT ![ToCompile[k[t]]] = o]
    BY <1>11 DEF CompileItem
  <2>2. o \in {"empty", "reused"} \cup Outcomes
    OBVIOUS
  <2>3. results' \in [Slots -> {"empty", "reused"} \cup Outcomes]
    BY <2>1, <2>2 DEF TypeOK
  <2>4. QED
    BY <1>11, <2>3, <1>0, <1>j DEF CompileItem, TypeOK
<1>12. CASE UNCHANGED vars
  BY <1>12, <1>0, <1>j DEF vars, TypeOK
<1>13. QED
  BY <1>1, <1>2, <1>3, <1>4, <1>5, <1>6, <1>7, <1>8, <1>9, <1>10, <1>11, <1>12
     DEF Next, Serial, MainStep, Worker, Stopped

\* Every reachable state is well typed.
THEOREM TypeCorrect == Spec => []TypeOK
BY InitTypeOK, StepTypeOK, PTL DEF Spec

-----------------------------------------------------------------------------

LEMMA InitIInv == Init => IInv
<1> SUFFICES ASSUME Init PROVE IInv
  OBVIOUS
<1>1. TypeOK
  BY InitTypeOK
<1>2. NThreads \in Nat \ {0}
  BY <1>1, NThreadsBounds DEF TypeOK
<1>3. \A p \in Positions : results[ToCompile[p]] = "empty"
  BY ItemFacts DEF Init
<1>4. Handout /\ Holding /\ SerialProgress
  BY <1>3 DEF Init, Handout, Holding, SerialProgress, Compiling, Positions
<1>5. Lifecycle /\ MainThread
  BY <1>2, PoolAssumption DEF Init, Lifecycle, MainThread, Parallel, Threads, Positions
<1>6. ReusedKept
  BY DEF Init, ReusedKept
<1>7. QED
  BY <1>1, <1>4, <1>5, <1>6 DEF IInv

\* The steps of the serial loop.
LEMMA SerialIInv == IInv /\ TypeOK' /\ Serial => IInv'
<1> SUFFICES ASSUME IInv, TypeOK', Serial PROVE IInv'
  OBVIOUS
<1> USE PoolAssumption, ItemFacts
<1>0. NThreads' = NThreads /\ NThreads \in Nat \ {0} /\ (Parallel' <=> Parallel)
  BY NThreadsBounds DEF IInv, TypeOK, Serial, SerialCompile, SerialDone, NThreads, Parallel
<1>1. ~Parallel
  BY DEF IInv, MainThread, Serial, SerialCompile, SerialDone
<1>2. nextIdx = 0 /\ nextIdx' = 0 /\ at' = at /\ k' = k
  BY <1>1 DEF IInv, TypeOK, Lifecycle, Serial, SerialCompile, SerialDone
<1>3. \A t \in Threads : ~Compiling(t)
  BY <1>2 DEF IInv, Holding, Compiling, Positions
<1>4. Handout' /\ Holding' /\ Lifecycle'
  BY <1>0, <1>1, <1>2, <1>3 DEF IInv, Handout, Holding, Lifecycle, Compiling, Serial,
     SerialCompile, SerialDone
<1>5. CASE SerialCompile
  <2>1. MainThread'
    BY <1>5, <1>0, <1>1 DEF IInv, MainThread, SerialCompile
  <2>2. PICK o \in Outcomes : results' = [results EXCEPT ![ToCompile[pos]] = o]
    BY <1>5 DEF SerialCompile
  <2>3. pos \in Positions /\ pos' = pos + 1
    BY <1>5 DEF SerialCompile, IInv, TypeOK, Positions
  <2>4. SerialProgress'
    <3> SUFFICES ASSUME NEW p \in Positions
                 PROVE  p < pos + 1 <=> results'[ToCompile[p]] # "empty"
      BY <2>3, <1>0 DEF SerialProgress
    <3>1. ToCompile[p] \in Slots /\ ToCompile[pos] \in Slots
      BY <2>3
    <3>2. CASE p = pos
      BY <2>2, <3>1, <3>2 DEF IInv, TypeOK, Outcomes
    <3>3. CASE p # pos
      <4>1. ToCompile[p] # ToCompile[pos]
        BY <3>3, <2>3
      <4>2. results'[ToCompile[p]] = results[ToCompile[p]]
        BY <4>1, <2>2, <3>1 DEF IInv, TypeOK
      <4>3. QED
        BY <4>2, <3>3, <2>3, <1>1 DEF IInv, SerialProgress, Positions
    <3>4. QED
      BY <3>2, <3>3, <2>3 DEF Positions
  <2>5. ReusedKept'
    BY <2>2, <2>3 DEF IInv, TypeOK, ReusedKept
  <2>6. QED
    BY <2>1, <2>4, <2>5, <1>4 DEF IInv
<1>6. CASE SerialDone
  <2>1. MainThread'
    BY <1>6, <1>0, <1>1 DEF IInv, MainThread, SerialDone
  <2>2. SerialProgress' /\ ReusedKept'
    BY <1>6, <1>0 DEF IInv, SerialProgress, ReusedKept, SerialDone
  <2>3. QED
    BY <2>1, <2>2, <1>4 DEF IInv
<1>7. QED
  BY <1>5, <1>6 DEF Serial

\* The steps of the calling thread in the parallel branch.
LEMMA MainIInv == IInv /\ TypeOK' /\ MainStep => IInv'
<1> SUFFICES ASSUME IInv, TypeOK', MainStep PROVE IInv'
  OBVIOUS
<1> USE PoolAssumption
<1>0. /\ jobs' = jobs /\ NThreads' = NThreads /\ NThreads \in Nat \ {0}
      /\ (Parallel' <=> Parallel)
  BY NThreadsBounds DEF IInv, TypeOK, MainStep, Spawn, SpawnFails, AllSpawned, Join,
     AllJoined, NThreads, Parallel
<1>1. Parallel /\ 0 .. NThreads - 1 \subseteq Threads
  BY NThreadsBounds DEF IInv, TypeOK, MainThread, MainStep, Spawn, SpawnFails, AllSpawned,
     Join, AllJoined
<1>2. results' = results /\ k' = k /\ nextIdx' = nextIdx /\ pos' = pos
  BY DEF MainStep, Spawn, SpawnFails, AllSpawned, Join, AllJoined
<1>3. SerialProgress' /\ ReusedKept'
  BY <1>0, <1>2 DEF IInv, SerialProgress, ReusedKept
<1>4. CASE Spawn
  <2>1. spawned \in Threads /\ at[spawned] = "unstarted"
    BY <1>4, <1>1 DEF Spawn, IInv, TypeOK, Lifecycle
  <2>2. \A t \in Threads : at'[t] = IF t = spawned THEN "construct" ELSE at[t]
    BY <1>4, <2>1 DEF Spawn, IInv, TypeOK
  <2>3. Handout'
    BY <2>1, <2>2, <1>0, <1>2 DEF IInv, Handout, Compiling
  <2>4. Holding'
    BY <2>2, <1>2 DEF IInv, Holding, Compiling
  <2>5. Lifecycle'
    <3>1. \A t \in Threads : t \in Nat
      BY DEF Threads, Positions
    <3>2. spawned \in Nat /\ spawned' = spawned + 1 /\ joined' = joined
      BY <1>4 DEF Spawn, IInv, TypeOK
    <3>3. \A t \in Threads : at'[t] = "unstarted" <=> t >= spawned'
      BY <2>1, <2>2, <3>1, <3>2 DEF IInv, Lifecycle
    <3>4. QED
      BY <2>1, <2>2, <3>2, <3>3, <1>0, <1>2 DEF IInv, Lifecycle
  <2>6. MainThread'
    BY <1>4, <1>0, <1>1 DEF Spawn, IInv, MainThread
  <2>7. QED
    BY <2>3, <2>4, <2>5, <2>6, <1>3 DEF IInv
<1>5. ASSUME SpawnFails \/ AllSpawned \/ Join \/ AllJoined PROVE IInv'
  <2>1. at' = at /\ spawned' = spawned
    BY <1>5 DEF SpawnFails, AllSpawned, Join, AllJoined
  <2>2. Handout' /\ Holding'
    BY <2>1, <1>0, <1>2 DEF IInv, Handout, Holding, Compiling
  <2>3. Lifecycle'
    <3>1. \A t \in Threads : t < joined' => at[t] = "exited"
      BY SMTT(60), <1>5 DEF SpawnFails, AllSpawned, Join, AllJoined, IInv, TypeOK, Lifecycle, Threads,
         Positions
    <3>2. QED
      BY <3>1, <2>1, <1>0, <1>2 DEF IInv, Lifecycle
  <2>4. MainThread'
    BY <1>5, <1>0, <1>1 DEF SpawnFails, AllSpawned, Join, AllJoined, IInv, MainThread
  <2>5. QED
    BY <2>2, <2>3, <2>4, <1>3 DEF IInv
<1>6. QED
  BY <1>4, <1>5 DEF MainStep

\* The steps of a worker.
LEMMA WorkerIInv == ASSUME IInv, TypeOK', NEW t \in Threads, Worker(t) PROVE IInv'
<1> USE PoolAssumption, ItemFacts
<1>0. /\ jobs' = jobs /\ NThreads' = NThreads /\ (Parallel' <=> Parallel)
      /\ spawned' = spawned /\ joined' = joined /\ pos' = pos
  BY DEF Worker, Construct, ConstructFails, Claim, CompileItem, NThreads, Parallel
<1>1. at[t] # "unstarted" /\ Alive
  BY DEF Worker, Construct, ConstructFails, Claim, CompileItem
<1>2. Parallel /\ main \in {"spawn", "join"}
  <2>1. spawned > 0
    BY <1>1 DEF IInv, Lifecycle, TypeOK, Threads, Positions
  <2>2. QED
    BY <2>1, <1>1 DEF IInv, MainThread, TypeOK, Alive, Ended
<1>3. SerialProgress'
  BY <1>0, <1>2 DEF SerialProgress
<1>4. nextIdx \in Nat /\ \A s \in Threads : k[s] \in Nat
  BY DEF IInv, TypeOK
<1>5. CASE Construct(t)
  <2>1. results' = results /\ k' = k /\ nextIdx' = nextIdx /\ main' = main
    BY <1>5 DEF Construct
  <2>2. \A s \in Threads : at'[s] = IF s = t THEN "claim" ELSE at[s]
    BY <1>5 DEF Construct, IInv, TypeOK
  <2>3. at[t] = "construct"
    BY <1>5 DEF Construct
  <2>4. \A s \in Threads : Compiling(s)' <=> Compiling(s)
    BY <2>2, <2>3 DEF Compiling
  <2>5. Handout' /\ Holding'
    BY <2>1, <2>4, <1>0 DEF IInv, Handout, Holding
  <2>6. Lifecycle'
    BY <2>1, <2>2, <2>3, <1>0 DEF IInv, Lifecycle
  <2>7. MainThread' /\ ReusedKept'
    BY <2>1, <1>0 DEF IInv, MainThread, ReusedKept
  <2>8. QED
    BY <2>5, <2>6, <2>7, <1>3 DEF IInv
<1>6. CASE ConstructFails(t)
  <2>1. results' = results /\ k' = k /\ nextIdx' = nextIdx /\ main' = "terminated" /\ at' = at
    BY <1>6 DEF ConstructFails
  <2>2. Handout' /\ Holding' /\ Lifecycle'
    BY <2>1, <1>0 DEF IInv, Handout, Holding, Lifecycle, Compiling
  <2>3. MainThread' /\ ReusedKept'
    BY <2>1, <1>0, <1>2 DEF IInv, MainThread, ReusedKept
  <2>4. QED
    BY <2>2, <2>3, <1>3 DEF IInv
<1>7. CASE Claim(t)
  <2>1. results' = results /\ nextIdx' = nextIdx + 1 /\ main' = main
    BY <1>7 DEF Claim
  <2>2. \A s \in Threads : k'[s] = IF s = t THEN nextIdx ELSE k[s]
    BY <1>7 DEF Claim, IInv, TypeOK
  <2>3. \A s \in Threads : at'[s] = IF s # t THEN at[s]
                                    ELSE IF nextIdx >= NCompile THEN "exited" ELSE "compile"
    BY <1>7 DEF Claim, IInv, TypeOK
  <2>4. at[t] = "claim"
    BY <1>7 DEF Claim
  <2>5. nextIdx < NCompile <=> nextIdx \in Positions
    BY <1>4 DEF Positions
  <2>6. Handout'
    <3> SUFFICES ASSUME NEW p \in Positions
                 PROVE  /\ p < nextIdx + 1 =>
                             \/ results[ToCompile[p]] # "empty"
                             \/ \E s \in Threads : Compiling(s)' /\ k'[s] = p
                        /\ p >= nextIdx + 1 => results[ToCompile[p]] = "empty"
      BY <2>1 DEF Handout
    <3>1. p \in Int
      BY DEF Positions
    <3>2. CASE p = nextIdx
      BY <3>2, <2>2, <2>3, <2>5, <1>4 DEF Compiling, Positions
    <3>3. CASE p < nextIdx
      <4>1. \A s \in Threads : Compiling(s) => Compiling(s)' /\ k'[s] = k[s]
        BY <2>2, <2>3, <2>4 DEF Compiling
      <4>2. QED
        BY <4>1, <3>3, <3>1, <1>2, <1>4 DEF IInv, Handout
    <3>4. CASE p > nextIdx
      BY <3>4, <3>1, <1>2, <1>4 DEF IInv, Handout
    <3>5. QED
      BY <3>1, <3>2, <3>3, <3>4, <1>4
  <2>7. Holding'
    <3>1. \A s \in Threads : Compiling(s)' /\ s # t => Compiling(s) /\ k'[s] = k[s]
      BY <2>2, <2>3 DEF Compiling
    <3>2. Compiling(t)' => nextIdx \in Positions /\ results[ToCompile[nextIdx]] = "empty"
      BY <2>3, <2>5, <1>2, <1>4 DEF Compiling, IInv, Handout
    <3>3. \A s \in Threads : Compiling(s)' =>
            k'[s] \in Positions /\ k'[s] < nextIdx + 1 /\ results[ToCompile[k'[s]]] = "empty"
      BY <3>1, <3>2, <2>2, <1>4 DEF IInv, Holding
    <3>4. \A s \in Threads : Compiling(s)' /\ s # t => k'[s] < nextIdx /\ k'[t] = nextIdx
      BY <3>1, <2>2 DEF IInv, Holding
    <3>5. \A r, s \in Threads : Compiling(r)' /\ Compiling(s)' /\ r # s => k'[r] # k'[s]
      <4> SUFFICES ASSUME NEW r \in Threads, NEW s \in Threads,
                          Compiling(r)', Compiling(s)', r # s
                   PROVE  k'[r] # k'[s]
        OBVIOUS
      <4>1. CASE r # t /\ s # t
        BY <4>1, <3>1 DEF IInv, Holding
      <4>2. CASE r = t \/ s = t
        BY <4>2, <3>4, <1>4, <2>2
      <4>3. QED
        BY <4>1, <4>2
    <3>6. QED
      BY <3>3, <3>5, <2>1 DEF Holding
  <2>8. Lifecycle'
    BY <2>1, <2>3, <2>4, <1>0, <1>2, <1>4 DEF IInv, Lifecycle
  <2>9. MainThread' /\ ReusedKept'
    BY <2>1, <1>0 DEF IInv, MainThread, ReusedKept
  <2>10. QED
    BY <2>6, <2>7, <2>8, <2>9, <1>3 DEF IInv
<1>8. CASE CompileItem(t)
  <2>1. k' = k /\ nextIdx' = nextIdx /\ main' = main
    BY <1>8 DEF CompileItem
  <2>2. \A s \in Threads : at'[s] = IF s = t THEN "claim" ELSE at[s]
    BY <1>8 DEF CompileItem, IInv, TypeOK
  <2>3. Compiling(t) /\ k[t] \in Positions /\ k[t] < nextIdx
    BY <1>8 DEF CompileItem, Compiling, IInv, Holding
  <2>4. PICK o \in Outcomes : results' = [results EXCEPT ![ToCompile[k[t]]] = o]
    BY <1>8 DEF CompileItem
  <2>5. \A p \in Positions : results'[ToCompile[p]] = IF p = k[t] THEN o
                                                      ELSE results[ToCompile[p]]
    BY <2>3, <2>4 DEF IInv, TypeOK
  <2>6. o # "empty"
    BY DEF Outcomes
  <2>7. \A s \in Threads : Compiling(s)' <=> Compiling(s) /\ s # t
    BY <2>2 DEF Compiling
  <2>8. Handout'
    <3> SUFFICES ASSUME NEW p \in Positions
                 PROVE  /\ p < nextIdx =>
                             \/ results'[ToCompile[p]] # "empty"
                             \/ \E s \in Threads : Compiling(s)' /\ k[s] = p
                        /\ p >= nextIdx => results'[ToCompile[p]] = "empty"
      BY <2>1 DEF Handout
    <3>1. CASE p = k[t]
      BY <3>1, <2>3, <2>5, <2>6, <1>4
    <3>2. CASE p # k[t]
      BY <3>2, <2>5, <2>7, <1>2 DEF IInv, Handout
    <3>3. QED
      BY <3>1, <3>2
  <2>9. Holding'
    BY <2>1, <2>3, <2>5, <2>7 DEF IInv, Holding
  <2>10. Lifecycle'
    BY <2>1, <2>2, <2>3, <1>0 DEF IInv, Lifecycle, Compiling
  <2>11. MainThread'
    BY <2>1, <1>0 DEF IInv, MainThread
  <2>12. ReusedKept'
    BY <2>3, <2>4 DEF IInv, TypeOK, ReusedKept
  <2>13. QED
    BY <2>8, <2>9, <2>10, <2>11, <2>12, <1>3 DEF IInv
<1>9. QED
  BY <1>5, <1>6, <1>7, <1>8 DEF Worker

LEMMA StutterIInv == IInv /\ UNCHANGED vars => IInv'
BY DEF vars, IInv, TypeOK, Handout, Holding, Lifecycle, MainThread, SerialProgress,
   ReusedKept, Compiling, Parallel, NThreads

LEMMA StepIInv == IInv /\ [Next]_vars => IInv'
BY StepTypeOK, SerialIInv, MainIInv, WorkerIInv, StutterIInv DEF Next, Stopped, IInv

\* The inductive invariant.
THEOREM Inductive == Spec => []IInv
BY InitIInv, StepIInv, PTL DEF Spec

\* No data race on results, however many workers there are.
THEOREM NoSharedSlotHolds == Spec => []NoSharedSlot
<1>1. IInv => NoSharedSlot
  BY PoolAssumption DEF IInv, Holding, NoSharedSlot
<1>2. QED
  BY <1>1, Inductive, PTL

LEMMA Complete == IInv => DoneMeansComplete
<1> SUFFICES ASSUME IInv, main = "done", NEW i \in Slots PROVE results[i] # "empty"
  BY DEF DoneMeansComplete
<1>1. CASE i \notin Items
  BY <1>1 DEF IInv, ReusedKept
<1>2. CASE i \in Items
  <2>1. PICK p \in Positions : i = ToCompile[p]
    BY <1>2 DEF Items
  <2>2. CASE ~Parallel
    BY <2>1, <2>2, PoolAssumption DEF IInv, MainThread, SerialProgress, Positions
  <2>3. CASE Parallel
    <3>1. \A t \in Threads : ~Compiling(t)
      BY <2>3 DEF IInv, TypeOK, MainThread, Lifecycle, Compiling, Threads, Positions
    <3>2. 0 \in Threads /\ 0 < joined
      BY <2>3, NThreadsBounds DEF IInv, TypeOK, MainThread, Parallel
    <3>3. nextIdx >= NCompile
      BY <3>2 DEF IInv, Lifecycle
    <3>4. QED
      BY <2>1, <2>3, <3>1, <3>3, PoolAssumption DEF IInv, TypeOK, Handout, Positions
  <2>4. QED
    BY <2>2, <2>3
<1>3. QED
  BY <1>1, <1>2

LEMMA StepComplete == IInv /\ [Next]_vars => DoneMeansComplete'
BY StepIInv, Complete, PTL

\* After the join loop every permutation has a result.
THEOREM DoneMeansCompleteHolds == Spec => []DoneMeansComplete
BY Complete, Inductive, PTL

-----------------------------------------------------------------------------

LEMMA ExitedFinite ==
    ASSUME IInv
    PROVE  IsFiniteSet(Exited) /\ Cardinality(Exited) \in Nat /\ Cardinality(Exited) <= NThreads
<1>1. NThreads \in Nat \ {0} /\ spawned \in 0 .. NThreads
  BY NThreadsBounds DEF IInv, TypeOK
<1>2. Exited \subseteq 0 .. NThreads - 1
  BY <1>1 DEF IInv, Lifecycle, Exited, Threads, Positions
<1>3. IsFiniteSet(0 .. NThreads - 1) /\ Cardinality(0 .. NThreads - 1) = NThreads
  BY <1>1, FS_Interval
<1>4. QED
  BY <1>1, <1>2, <1>3, FS_Subset, FS_CardinalityType

LEMMA OvershootStep == IInv /\ Overshoot /\ [Next]_vars => Overshoot'
<1> SUFFICES ASSUME IInv, Overshoot, [Next]_vars PROVE Overshoot'
  OBVIOUS
<1>1. IsFiniteSet(Exited) /\ Cardinality(Exited) \in Nat
  BY ExitedFinite
<1>2. CASE \E t \in Threads : Claim(t)
  <2>1. PICK t \in Threads : Claim(t)
    BY <1>2
  <2>2. nextIdx' = nextIdx + 1 /\ nextIdx \in Nat /\ at[t] = "claim"
    BY <2>1 DEF Claim, IInv, TypeOK
  <2>3. \A s \in Threads : at'[s] = IF s # t THEN at[s]
                                    ELSE IF nextIdx >= NCompile THEN "exited" ELSE "compile"
    BY <2>1 DEF Claim, IInv, TypeOK
  <2>4. CASE nextIdx >= NCompile
    <3>1. Exited' = Exited \cup {t} /\ t \notin Exited
      BY <2>2, <2>3, <2>4 DEF Exited
    <3>2. Cardinality(Exited') = Cardinality(Exited) + 1
      BY <3>1, <1>1, FS_AddElement
    <3>3. QED
      BY <3>2, <2>2, <1>1, PoolAssumption DEF Overshoot
  <2>5. CASE nextIdx < NCompile
    <3>1. Exited' = Exited
      BY <2>2, <2>3, <2>5, PoolAssumption DEF Exited
    <3>2. QED
      BY <3>1, <2>2, <2>5, <1>1, PoolAssumption DEF Overshoot
  <2>6. QED
    BY <2>2, <2>4, <2>5, PoolAssumption
<1>3. CASE ~ \E t \in Threads : Claim(t)
  <2>1. nextIdx' = nextIdx
    BY <1>3 DEF Next, vars, Stopped, Serial, SerialCompile, SerialDone, MainStep, Spawn,
       SpawnFails, AllSpawned, Join, AllJoined, Worker, Construct, ConstructFails, CompileItem
  <2>2. \A t \in Threads : at'[t] = "exited" <=> at[t] = "exited"
    <3>1. CASE Spawn
      <4>1. spawned \in Threads => at[spawned] = "unstarted"
        BY DEF IInv, TypeOK, Lifecycle
      <4>2. QED
        BY <3>1, <4>1 DEF Spawn, IInv, TypeOK
    <3>2. CASE \E t \in Threads : Construct(t) \/ CompileItem(t)
      BY <3>2 DEF Construct, CompileItem, IInv, TypeOK
    <3>3. CASE at' = at
      BY <3>3
    <3>4. QED
      BY <1>3, <3>1, <3>2, <3>3 DEF Next, vars, Stopped, Serial, SerialCompile, SerialDone,
         MainStep, SpawnFails, AllSpawned, Join, AllJoined, Worker, ConstructFails
  <2>3. QED
    BY <2>1, <2>2 DEF Overshoot, Exited
<1>4. QED
  BY <1>2, <1>3

\* The shared int counter stays within nCompile + nThreads.
THEOREM CounterBoundedHolds == Spec => []CounterBounded
<1>1. Init => Overshoot
  <2> SUFFICES ASSUME Init PROVE Overshoot
    OBVIOUS
  <2>1. Cardinality(Exited) \in Nat
    BY InitIInv, ExitedFinite
  <2>2. QED
    BY <2>1, PoolAssumption DEF Init, Overshoot
<1>2. IInv /\ Overshoot => CounterBounded
  <2> SUFFICES ASSUME IInv, Overshoot PROVE CounterBounded
    OBVIOUS
  <2>1. Cardinality(Exited) \in Nat /\ Cardinality(Exited) <= NThreads
    BY ExitedFinite
  <2>2. NThreads \in Nat /\ nextIdx \in Nat
    BY NThreadsBounds DEF IInv, TypeOK
  <2>3. QED
    BY <2>1, <2>2, PoolAssumption DEF Overshoot, CounterBounded
<1>3. QED
  BY <1>1, <1>2, OvershootStep, Inductive, PTL DEF Spec

-----------------------------------------------------------------------------

\* A compile step of the pool, serial or not, is one Do of the parallel for.
LEMMA CompileIsDo ==
    ASSUME NEW i \in Items, main \notin Ended, UNCHANGED main, results[i] = "empty",
           \E o \in Outcomes : results' = [results EXCEPT ![i] = o]
    PROVE  Abstract!Next
<1>1. Abstract!Do(i)
  BY DEF Abstract!Do, Ended
<1>2. QED
  BY <1>1 DEF Abstract!Next

\* Every step of the pool is a step of the parallel for, or a stutter.
LEMMA StepRefines == IInv /\ [Next]_vars => [Abstract!Next]_(Abstract!vars)
<1> SUFFICES ASSUME IInv, [Next]_vars PROVE [Abstract!Next]_(Abstract!vars)
  OBVIOUS
<1>1. CASE SerialCompile
  <2>1. pos \in Positions /\ ~Parallel
    BY <1>1, PoolAssumption DEF SerialCompile, IInv, TypeOK, MainThread, Positions
  <2>2. results[ToCompile[pos]] = "empty"
    BY <2>1 DEF IInv, SerialProgress, Positions
  <2>3. QED
    BY <1>1, <2>1, <2>2, ItemFacts, CompileIsDo DEF SerialCompile, Ended
<1>2. CASE \E t \in Threads : CompileItem(t)
  <2>1. PICK t \in Threads : CompileItem(t)
    BY <1>2
  <2>2. k[t] \in Positions /\ results[ToCompile[k[t]]] = "empty"
    BY <2>1 DEF CompileItem, Compiling, IInv, Holding
  <2>3. QED
    BY <2>1, <2>2, ItemFacts, CompileIsDo DEF CompileItem, Alive
<1>3. CASE SerialDone \/ AllJoined
  <2>1. DoneMeansComplete'
    BY StepComplete
  <2>2. results' = results /\ main' = "done" /\ main \in {"serial", "join"}
    BY <1>3 DEF SerialDone, AllJoined
  <2>3. \A i \in Items : results[i] # "empty"
    BY <2>1, <2>2, ItemFacts DEF DoneMeansComplete
  <2>4. Abstract!Return
    BY <2>2, <2>3 DEF Abstract!Return
  <2>5. QED
    BY <2>4 DEF Abstract!Next
<1>4. CASE SpawnFails \/ \E t \in Threads : ConstructFails(t)
  <2>1. results' = results /\ main' \in {"threw", "terminated"} /\ main \notin Ended
    BY <1>4 DEF SpawnFails, ConstructFails, Alive, Ended
  <2>2. Abstract!Fail
    BY <2>1 DEF Abstract!Fail, Ended
  <2>3. QED
    BY <2>2 DEF Abstract!Next
<1>5. CASE Spawn \/ AllSpawned \/ Join \/ \E t \in Threads : Construct(t) \/ Claim(t)
  <2>1. /\ results' = results
        /\ main' = main \/ (main = "spawn" /\ main' = "join")
    BY <1>5 DEF Spawn, AllSpawned, Join, Construct, Claim
  <2>2. QED
    BY <2>1 DEF Abstract!vars
<1>6. CASE UNCHANGED vars
  BY <1>6 DEF vars, Abstract!vars
<1>7. QED
  BY <1>1, <1>2, <1>3, <1>4, <1>5, <1>6 DEF Next, Serial, MainStep, Worker, Stopped

\* The compile phase implements ParallelFor, serial or parallel, for every
\* work list and every number of jobs (its fairness is checked by TLC).
THEOREM Refinement == Spec => Abstract!Init /\ [][Abstract!Next]_(Abstract!vars)
<1>1. Init => Abstract!Init
  BY DEF Init, Abstract!Init
<1>2. QED
  BY <1>1, StepRefines, Inductive, PTL DEF Spec

=============================================================================
