--------------------------- MODULE MCCallPipeline ---------------------------
(***************************************************************************)
(* Two workers and up to three messages: a call that SQS may store twice,  *)
(* and a body nobody can read; for the liveness run the call is stored     *)
(* once.                                                                   *)
(***************************************************************************)
EXTENDS CallPipeline, TLC

CONSTANTS c1, m1, m2, p1, w1, w2

\* One call, stored twice at worst.
OneCall       == {c1}
TwoCopies     == {m1, m2, p1}
TwoCopiesBody == (m1 :> c1) @@ (m2 :> c1) @@ (p1 :> Malformed)

\* The smallest system with a batch of several messages.
CallAndPoison     == {m1, p1}
CallAndPoisonBody == (m1 :> c1) @@ (p1 :> Malformed)

TwoWorkers == {w1, w2}

\* Sound for the safety run: nothing tells the workers or the copies apart.
Symmetry == Permutations(TwoWorkers) \union Permutations({m1, m2})
=============================================================================
