------------------------------ MODULE TagCheck ------------------------------
(***************************************************************************)
(* tag_check of MPC/code/utils.py: whether two tags are equal, as one      *)
(* product over all bits. Neighbours are multiplied, round by round, and   *)
(* an odd last factor is carried over.                                     *)
(***************************************************************************)
EXTENDS Integers, Sequences

CONSTANT Deltas     \* the differences of two tags: sequences of bits

ASSUME DeltasAssumption ==
  \A delta \in Deltas : delta \in Seq({0, 1}) /\ Len(delta) > 0

VARIABLES
  delta,      \* the bits in which the tags differ
  factors,    \* delta_bits: the factors that are left
  verdict     \* what has been returned: nothing, or a bit

vars == <<delta, factors, verdict>>

\* One more than a bit is one exactly when the bit is zero.
Init ==
  /\ delta \in Deltas
  /\ factors = [k \in 1..Len(delta) |-> 1 - delta[k]]
  /\ verdict = << >>

\* Slip: the last factor of an odd number is left out.
MultipliedEven(f) == [k \in 1..(Len(f) \div 2) |-> f[2 * k - 1] * f[2 * k]]

\* Slip: the last factor is carried over whether the number is odd or not.
MultipliedAlways(f) ==
  [k \in 1..((Len(f) \div 2) + 1) |->
     IF k <= Len(f) \div 2 THEN f[2 * k - 1] * f[2 * k] ELSE f[Len(f)]]

\* Slip: neighbours are added.
MultipliedSum(f) ==
  [k \in 1..((Len(f) + 1) \div 2) |->
     IF 2 * k <= Len(f) THEN f[2 * k - 1] + f[2 * k] ELSE f[2 * k - 1]]

\* The products of neighbours, and behind them the last factor of an odd number.
Multiplied(f) ==
  [k \in 1..((Len(f) + 1) \div 2) |->
     IF 2 * k <= Len(f) THEN f[2 * k - 1] * f[2 * k] ELSE f[2 * k - 1]]

Multiply ==
  /\ Len(factors) > 1
  /\ factors' = Multiplied(factors)
  /\ UNCHANGED <<delta, verdict>>

Return ==
  /\ Len(factors) = 1 /\ verdict = << >>
  /\ verdict' = factors
  /\ UNCHANGED <<delta, factors>>

Next == Multiply \/ Return

\* A sequential program goes on as long as it can.
Spec == Init /\ [][Next]_vars /\ WF_vars(Next)

\* Bits, and at least one factor.
TypeOK ==
  /\ delta \in Deltas
  /\ factors \in Seq({0, 1}) /\ Len(factors) > 0
  /\ verdict \in {<< >>, <<0>>, <<1>>}

\* The tags are accepted if and only if they agree in every bit: no factor is
\* lost on the way through the rounds, however many bits there are.
Verdict ==
  verdict # << >> => (verdict = <<1>> <=> \A k \in 1..Len(delta) : delta[k] = 0)

\* The number of factors falls to one.
Terminates == <>(verdict # << >>)
=============================================================================
