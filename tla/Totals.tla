------------------------------- MODULE Totals -------------------------------
(***************************************************************************)
(* The sum of a function with natural values over a finite set, written as *)
(* the cardinality of the set of its units: account a with balance n       *)
(* contributes the n units <<a, 1>>, ..., <<a, n>>.                        *)
(***************************************************************************)
EXTENDS Integers, FiniteSets

\* The units of the accounts in S under the balances f.
Units(f, S) == UNION {{a} \X (1..f[a]) : a \in S}

\* The sum of f[a] for a \in S.
Total(f, S) == Cardinality(Units(f, S))

=============================================================================
