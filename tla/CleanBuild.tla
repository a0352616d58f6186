----------------------------- MODULE CleanBuild -----------------------------
(***************************************************************************)
(* What a caller of BatchCompiler::compileFile may believe: a call either  *)
(* leaves the blob alone or replaces it by the blob that a build from      *)
(* scratch, on the files as they are now, would have produced.  There is   *)
(* no cache here, no previous blob and no dependency table.  The blob can  *)
(* also be lost: the file is truncated before it is rewritten.             *)
(***************************************************************************)
EXTENDS BuildInputs

VARIABLES
    files,    \* path -> content
    store,    \* the code in the output file, or None
    answer    \* the Output of the call that has just returned

vars == <<files, store, answer>>

Init ==
    /\ files \in FileStates
    /\ store = None
    /\ answer = None

-----------------------------------------------------------------------------

\* What compiling every permutation of the source now gives.
Perm(call)  == Script(files[call.source], call.override).perms
Opts(call)  == EffectiveOptions(call, files[call.source])
Compiled(call, i) == Slang(Opts(call), Perm(call)[i], files)
Failed(call) == {i \in DOMAIN Perm(call) : ~Compiled(call, i).success}

\* The enumeration of some of the numbers 1 to n in increasing order: the one
\* member of the set.
InOrder(n, indices) ==
    {s \in UNION {[1 .. m -> indices] : m \in 0 .. n} :
       /\ \A j, k \in DOMAIN s : j < k => s[j] < s[k]
       /\ \A i \in indices : \E j \in DOMAIN s : s[j] = i}

\* The permutations, and the entries, at the indices in s.
Listed(call, s)  == [j \in DOMAIN s |-> Perm(call)[s[j]]]
Entered(call, s) == [j \in DOMAIN s |->
    [key |-> Key(Perm(call)[s[j]]), code |-> Compiled(call, s[j]).code]]

CleanBlob(call, good) ==
    [target |-> call.target, optionsHash |-> Fingerprint(Opts(call)),
     entries |-> Entered(call, good)]

-----------------------------------------------------------------------------

\* The build completes; the blob is in place unless the write fell short.
Build(call) ==
    /\ answer = None
    /\ ~Script(files[call.source], call.override).dup
    /\ call.keepGoing \/ Failed(call) = {}
    /\ \E good \in InOrder(Len(Perm(call)), DOMAIN Perm(call) \ Failed(call)),
          bad  \in InOrder(Len(Perm(call)), Failed(call)) :
          /\ store' \in {CleanBlob(call, good), None}
          /\ answer' = [compiled |-> Listed(call, good), failures |-> Listed(call, bad)]
    /\ UNCHANGED files

\* A permutation failed and the caller did not ask to keep going: the output
\* file keeps what it held, and the answer ends with that permutation.
Abort(call) ==
    /\ answer = None
    /\ ~Script(files[call.source], call.override).dup
    /\ ~call.keepGoing
    /\ \E first \in Failed(call) :
          /\ \A i \in Failed(call) : first <= i
          /\ answer' = [compiled |-> [i \in 1 .. first - 1 |-> Perm(call)[i]],
                        failures |-> <<Perm(call)[first]>>]
    /\ UNCHANGED <<files, store>>

\* Two axes of the merged list have one name.
Reject(call) ==
    /\ answer = None
    /\ Script(files[call.source], call.override).dup
    /\ answer' = [compiled |-> <<>>, failures |-> <<None>>]
    /\ UNCHANGED <<files, store>>

\* The output file was opened for writing.
Lose ==
    /\ answer = None
    /\ store' = None
    /\ UNCHANGED <<files, answer>>

Collect ==
    /\ answer # None
    /\ answer' = None
    /\ UNCHANGED <<files, store>>

Edit(path) ==
    /\ \E c \in Versions[path] : files' = [files EXCEPT ![path] = c]
    /\ UNCHANGED <<store, answer>>

Next ==
    \/ \E call \in Calls : Build(call) \/ Abort(call) \/ Reject(call)
    \/ Lose
    \/ Collect
    \/ \E path \in Paths : Edit(path)

Spec == Init /\ [][Next]_vars
=============================================================================
