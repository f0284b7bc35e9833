----------------------------- MODULE LeadsToRules -----------------------------
(***************************************************************************)
(* Two rules of temporal logic, for predicates with a parameter.  Both are *)
(* true of every behaviour, whatever P and Q are.  The proof backends know *)
(* neither induction nor a quantifier over temporal formulas, so that the  *)
(* theorems about leads-to properties name the instances they use.         *)
(***************************************************************************)
EXTENDS Naturals

(* The LATTICE rule, for the natural numbers: what comes nearer to Q as     *)
(* long as it has not got there gets there.                                 *)
LatticeRule(P(_), Q) ==
    (\A k \in Nat : P(k) ~> (Q \/ \E j \in 1..k - 1 : P(j)))
        => ((\E k \in Nat : P(k)) ~> Q)

(* Cases: what each of the elements of S leads to, some element leads to.   *)
CaseRule(S, P(_), Q) ==
    (\A p \in S : P(p) ~> Q) => ((\E p \in S : P(p)) ~> Q)
===============================================================================
