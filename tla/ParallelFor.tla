---------------------------- MODULE ParallelFor ----------------------------
(***************************************************************************)
(* What compileFile needs from its compile phase, whichever way it runs    *)
(* (slangmake_batch.cpp:188-225): every permutation of the work list is    *)
(* compiled once, the result lands in that permutation's own slot, no      *)
(* other slot is touched, and control comes back only when the list is     *)
(* exhausted or an exception ended the phase.                              *)
(*                                                                         *)
(* WorkerPool implements this specification; BatchCompiler uses it: its    *)
(* action CompileOne is Do below.                                          *)
(***************************************************************************)

CONSTANTS Slots,     \* indices of `results`, one per permutation
          Items,     \* the slots named by `toCompile`; a subset of Slots
          Outcomes   \* what Compiler::compile can return

VARIABLES results,   \* slot -> "empty", "reused" or an outcome
          status     \* "running", "done", "failed"

vars == <<results, status>>

Init ==
    /\ results = [i \in Slots |-> IF i \in Items THEN "empty" ELSE "reused"]
    /\ status = "running"

Do(i) ==
    /\ status = "running"
    /\ results[i] = "empty"
    /\ \E o \in Outcomes : results' = [results EXCEPT ![i] = o]
    /\ UNCHANGED status

Return ==
    /\ status = "running"
    /\ \A i \in Items : results[i] # "empty"
    /\ status' = "done"
    /\ UNCHANGED results

\* A thread or a Compiler could not be created.
Fail ==
    /\ status = "running"
    /\ status' = "failed"
    /\ UNCHANGED results

Next == (\E i \in Items : Do(i)) \/ Return \/ Fail

Spec == Init /\ [][Next]_vars /\ WF_vars(Next)
=============================================================================
