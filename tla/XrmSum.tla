------------------------------- MODULE XrmSum -------------------------------
(***************************************************************************)
(* Sums over an initial segment of an array, the form every load total of  *)
(* the daemon has: a loop that adds up one field of a fixed-size array.    *)
(* Written as a recursive function, so that theorems can use it.           *)
(***************************************************************************)
EXTENDS Integers

(* f[0] + ... + f[n-1] *)
SumTo(f, n) ==
    LET s[i \in 0..n] == IF i = 0 THEN 0 ELSE s[i - 1] + f[i - 1]
    IN  s[n]

=============================================================================
