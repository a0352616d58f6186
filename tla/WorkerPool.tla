----------------------------- MODULE WorkerPool -----------------------------
(***************************************************************************)
(* The compile phase of BatchCompiler::compileFile                         *)
(* (src/src/slangmake_batch.cpp:188-225): with one thread a plain loop     *)
(* over toCompile, otherwise nThreads workers that claim positions of      *)
(* toCompile from an atomic counter, each with a Compiler of its own, and  *)
(* a main thread that starts them all and then joins them in order.        *)
(***************************************************************************)
EXTENDS Integers

CONSTANTS NPerms,      \* perms.size()
          NCompile,    \* nCompile, the length of toCompile
          ToCompile,   \* position in the work list -> index into results
          JobsArgs     \* the arguments setJobs may have been called with

Slots     == 0 .. NPerms - 1
Positions == 0 .. NCompile - 1
Items     == {ToCompile[k] : k \in Positions}

\* Compiler::compile always returns a Result; `success` is the part of it
\* that could have mattered to the loop, and does not.
Outcomes == {"success", "failure"}

\* toCompile lists distinct permutation indices (it is built by one pass
\* over perms, slangmake_batch.cpp:148-186).
ASSUME PoolAssumption ==
    /\ NPerms \in Nat /\ NCompile \in Nat
    /\ JobsArgs \subseteq Int
    /\ ToCompile \in [Positions -> Slots]
    /\ \A j, k \in Positions : ToCompile[j] = ToCompile[k] => j = k

\* nThreads is at most nCompile whenever the parallel branch is taken.
Threads == Positions

VARIABLES
    jobs,      \* m_jobs; fixed before compileFile is called
    main,      \* where the calling thread is
    spawned,   \* threads.size()
    joined,    \* how many threads the join loop has passed
    pos,       \* position of the serial loop
    nextIdx,   \* the atomic counter the workers share
    at,        \* worker -> where it is
    k,         \* worker -> the position it claimed last
    results    \* slot -> "empty", "reused" or an outcome

vars == <<jobs, main, spawned, joined, pos, nextIdx, at, k, results>>

\* Mutant: setJobs without the clamp.
SetJobsUnclamped(n) == n

\* m_jobs = n < 1 ? 1 : n
SetJobs(n) == IF n < 1 THEN 1 ELSE n

\* std::max(1, std::min(m_jobs, nCompile))
NThreads ==
    LET wanted == IF jobs < NCompile THEN jobs ELSE NCompile
    IN  IF wanted < 1 THEN 1 ELSE wanted

\* The end of the phase: normal, by an exception out of compileFile, or by
\* std::terminate.
Ended == {"done", "threw", "terminated"}

Init ==
    /\ \E n \in JobsArgs : jobs = SetJobs(n)
    /\ main = IF NThreads <= 1 THEN "serial" ELSE "spawn"
    /\ spawned = 0 /\ joined = 0 /\ pos = 0 /\ nextIdx = 0
    /\ at = [t \in Threads |-> "unstarted"]
    /\ k = [t \in Threads |-> 0]
    /\ results = [i \in Slots |-> IF i \in Items THEN "empty" ELSE "reused"]

-----------------------------------------------------------------------------
(* One thread: for (int i : toCompile) results[i] = m_compiler.compile(..) *)

SerialCompile ==
    /\ main = "serial"
    /\ pos < NCompile
    /\ \E o \in Outcomes : results' = [results EXCEPT ![ToCompile[pos]] = o]
    /\ pos' = pos + 1
    /\ UNCHANGED <<jobs, main, spawned, joined, nextIdx, at, k>>

SerialDone ==
    /\ main = "serial"
    /\ pos = NCompile
    /\ main' = "done"
    /\ UNCHANGED <<jobs, spawned, joined, pos, nextIdx, at, k, results>>

-----------------------------------------------------------------------------
(* The calling thread of the parallel branch.                              *)

Spawn ==
    /\ main = "spawn"
    /\ spawned < NThreads
    /\ spawned' = spawned + 1
    /\ at' = [at EXCEPT ![spawned] = "construct"]
    /\ UNCHANGED <<jobs, main, joined, pos, nextIdx, k, results>>

\* std::thread's constructor throws: unwinding destroys `threads`, and the
\* destructor of a joinable thread calls std::terminate.
SpawnFails ==
    /\ main = "spawn"
    /\ spawned < NThreads
    /\ main' = IF spawned = 0 THEN "threw" ELSE "terminated"
    /\ UNCHANGED <<jobs, spawned, joined, pos, nextIdx, at, k, results>>

\* Mutant: the loops disagree on how many threads there are.
AllSpawnedOfJobs ==
    /\ main = "spawn"
    /\ spawned = jobs
    /\ main' = "join"
    /\ UNCHANGED <<jobs, spawned, joined, pos, nextIdx, at, k, results>>

AllSpawned ==
    /\ main = "spawn"
    /\ spawned = NThreads
    /\ main' = "join"
    /\ UNCHANGED <<jobs, spawned, joined, pos, nextIdx, at, k, results>>

\* Mutant: the threads are detached.
Detach ==
    /\ main = "join"
    /\ joined < NThreads
    /\ joined' = joined + 1
    /\ UNCHANGED <<jobs, main, spawned, pos, nextIdx, at, k, results>>

\* for (auto& t : threads) t.join(): in creation order.
Join ==
    /\ main = "join"
    /\ joined < NThreads
    /\ at[joined] = "exited"
    /\ joined' = joined + 1
    /\ UNCHANGED <<jobs, main, spawned, pos, nextIdx, at, k, results>>

AllJoined ==
    /\ main = "join"
    /\ joined = NThreads
    /\ main' = "done"
    /\ UNCHANGED <<jobs, spawned, joined, pos, nextIdx, at, k, results>>

-----------------------------------------------------------------------------
(* A worker. std::terminate ends every thread with the process.            *)

Alive == main \notin Ended

\* Compiler localCompiler; creates a Slang global session of its own.
Construct(t) ==
    /\ Alive
    /\ at[t] = "construct"
    /\ at' = [at EXCEPT ![t] = "claim"]
    /\ UNCHANGED <<jobs, main, spawned, joined, pos, nextIdx, k, results>>

\* The constructor throws (slangmake_compiler.cpp:26-27) out of a thread.
ConstructFails(t) ==
    /\ Alive
    /\ at[t] = "construct"
    /\ main' = "terminated"
    /\ UNCHANGED <<jobs, spawned, joined, pos, nextIdx, at, k, results>>

\* Mutant: nextIdx is a plain int, and an increment can be lost.
ClaimLosesUpdate(t) ==
    /\ Alive
    /\ at[t] = "claim"
    /\ k' = [k EXCEPT ![t] = nextIdx]
    /\ nextIdx' \in {nextIdx, nextIdx + 1}
    /\ at' = [at EXCEPT ![t] = IF nextIdx >= NCompile THEN "exited" ELSE "compile"]
    /\ UNCHANGED <<jobs, main, spawned, joined, pos, results>>

\* Mutant: a worker with nothing left polls the counter again.
ClaimPolls(t) ==
    /\ Alive
    /\ at[t] = "claim"
    /\ k' = [k EXCEPT ![t] = nextIdx]
    /\ nextIdx' = nextIdx + 1
    /\ at' = [at EXCEPT ![t] = IF nextIdx >= NCompile THEN "claim" ELSE "compile"]
    /\ UNCHANGED <<jobs, main, spawned, joined, pos, results>>

\* k = nextIdx.fetch_add(1); if (k >= nCompile) break;
Claim(t) ==
    /\ Alive
    /\ at[t] = "claim"
    /\ k' = [k EXCEPT ![t] = nextIdx]
    /\ nextIdx' = nextIdx + 1
    /\ at' = [at EXCEPT ![t] = IF nextIdx >= NCompile THEN "exited" ELSE "compile"]
    /\ UNCHANGED <<jobs, main, spawned, joined, pos, results>>

\* Mutant: the position is used as the slot.
CompileItemAtPosition(t) ==
    /\ Alive
    /\ at[t] = "compile"
    /\ \E o \in Outcomes : results' = [results EXCEPT ![k[t]] = o]
    /\ at' = [at EXCEPT ![t] = "claim"]
    /\ UNCHANGED <<jobs, main, spawned, joined, pos, nextIdx, k>>

\* results[toCompile[k]] = localCompiler.compile(opts, perms[i])
CompileItem(t) ==
    /\ Alive
    /\ at[t] = "compile"
    /\ \E o \in Outcomes : results' = [results EXCEPT ![ToCompile[k[t]]] = o]
    /\ at' = [at EXCEPT ![t] = "claim"]
    /\ UNCHANGED <<jobs, main, spawned, joined, pos, nextIdx, k>>

-----------------------------------------------------------------------------

Serial    == SerialCompile \/ SerialDone
MainStep  == Spawn \/ SpawnFails \/ AllSpawned \/ Join \/ AllJoined
Worker(t) == Construct(t) \/ ConstructFails(t) \/ Claim(t) \/ CompileItem(t)

\* The phase is over: nothing more happens.
Stopped == main \in Ended /\ UNCHANGED vars

Next == Serial \/ MainStep \/ (\E t \in Threads : Worker(t)) \/ Stopped

\* The operating system schedules every started thread, the caller's too,
\* and Compiler::compile returns.
Fairness ==
    /\ WF_vars(Serial)
    /\ WF_vars(MainStep)
    /\ \A t \in Threads : WF_vars(Worker(t))

Spec == Init /\ [][Next]_vars /\ Fairness

-----------------------------------------------------------------------------
(* Properties.                                                             *)

TypeOK ==
    /\ jobs \in Nat \ {0}
    /\ main \in {"serial", "spawn", "join"} \cup Ended
    /\ spawned \in 0 .. NThreads
    /\ joined \in 0 .. NThreads
    /\ pos \in 0 .. NCompile
    /\ nextIdx \in Nat
    /\ at \in [Threads -> {"unstarted", "construct", "claim", "compile", "exited"}]
    /\ k \in [Threads -> Nat]
    /\ results \in [Slots -> {"empty", "reused"} \cup Outcomes]

Compiling(t) == at[t] = "compile"

\* No two workers are ever inside compile for the same element of results,
\* and the element a worker is about to write has not been written before:
\* the unsynchronised write results[i] = ... races with nothing.
NoSharedSlot ==
    /\ \A s, t \in Threads :
          Compiling(s) /\ Compiling(t) /\ s # t => ToCompile[k[s]] # ToCompile[k[t]]
    /\ \A t \in Threads : Compiling(t) => results[ToCompile[k[t]]] = "empty"

\* When the phase ends normally no permutation is left uncompiled: the loop
\* after it (slangmake_batch.cpp:260) never reads a default-constructed
\* Result, which it would report as a failure with no diagnostics.
DoneMeansComplete == main = "done" => \A i \in Slots : results[i] # "empty"

\* `int nextIdx` passes nCompile by at most one per worker, so it overflows
\* only when nCompile + nThreads does.
CounterBounded == nextIdx <= NCompile + NThreads

\* The phase always ends: the join loop waits on no worker forever.
Returns == <>(main \in Ended)

\* Whatever the interleaving, the phase behaves as a parallel for.
Abstract ==
    INSTANCE ParallelFor WITH
        status <- CASE main = "done"                  -> "done"
                    [] main \in {"threw", "terminated"} -> "failed"
                    [] OTHER                          -> "running"

ImplementsParallelFor == Abstract!Spec
=============================================================================
