------------------------------- MODULE Loops --------------------------------
(***************************************************************************)
(* A loop of the C++ code that fills a vector.                             *)
(***************************************************************************)
EXTENDS Naturals, Sequences

\* A loop over 1 .. n that does push_back(xs[k]) for each k in DOMAIN xs.
PushBacks(xs, n) ==
    LET out[k \in 0 .. n] ==
          IF k = 0 THEN <<>>
          ELSE IF k \in DOMAIN xs THEN Append(out[k - 1], xs[k]) ELSE out[k - 1]
    IN  out[n]
=============================================================================
