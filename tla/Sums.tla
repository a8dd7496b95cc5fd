-------------------------------- MODULE Sums --------------------------------
(* Sums of the values of a function: of the first ones, or over a finite set. *)
EXTENDS Integers, FiniteSets

\* g[1] + ... + g[n]
SumTo(g, n) ==
  LET sum[i \in 0..n] == IF i = 0 THEN 0 ELSE sum[i - 1] + g[i]
  IN  sum[n]

\* The sum of g over S, whose elements may be counted in any order.
SumOver(g, S) ==
  LET n == Cardinality(S)
      nth == CHOOSE e \in [1..n -> S] : \A i, j \in 1..n : e[i] = e[j] => i = j
  IN  SumTo([i \in 1..n |-> g[nth[i]]], n)
=============================================================================
