-------------------------------- MODULE Sums --------------------------------
(* Sums of natural numbers.                                                  *)
EXTENDS Naturals, Sequences

(* The sums of the first n numbers. *)
PartialSums(numbers) ==
  LET sum[n \in 0 .. Len(numbers)] == IF n = 0 THEN 0 ELSE sum[n - 1] + numbers[n] IN sum

Sum(numbers) == PartialSums(numbers)[Len(numbers)]

(* The sum of the numbers at the places in S. *)
SumAt(numbers, S) == Sum([i \in DOMAIN numbers |-> IF i \in S THEN numbers[i] ELSE 0])
=============================================================================
