-------------------------------- MODULE Sums --------------------------------
(***************************************************************************)
(* Sums of balances.                                                       *)
(***************************************************************************)
EXTENDS Integers, FiniteSets

\* The points below the graph of f over S, up to height bound.
Below(f, S, bound) == {u \in S \X (1 .. bound) : u[2] <= f[u[1]]}

\* The sum of f[s] over the members s of S, for values in 0 .. bound, as the
\* number of points below the graph of f: written so, it can be reasoned about
\* without induction over S.
Sum(f, S, bound) == Cardinality(Below(f, S, bound))
=============================================================================
