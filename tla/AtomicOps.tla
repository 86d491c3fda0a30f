------------------------------ MODULE AtomicOps ------------------------------
(***************************************************************************)
(* The operations of Atomic<unsigned long> and the arithmetic of an        *)
(* unsigned long, for the promised counter and for the one that is built.  *)
(***************************************************************************)
EXTENDS Integers

CONSTANTS
  Threads,
  Ops,     \* operations the threads call
  Modulus  \* 2^w for a w-bit unsigned long

Prefix == {"++x", "--x"}
Postfix == {"x++", "x--"}
NoOp == "none"
NoNumber == -1

ASSUME OpsAssumption ==
  /\ Ops \subseteq Prefix \cup Postfix \cup {"Add"}
  /\ Modulus \in Nat \ {0, 1}

\* Numbers of the type, and what each operation adds (Add is called with 1).
Longs == 0 .. Modulus - 1
Delta(o) == IF o \in {"--x", "x--"} THEN -1 ELSE 1

\* A number at most one step away from Longs, reduced.
Wrap(n) == IF n < 0 THEN n + Modulus ELSE IF n >= Modulus THEN n - Modulus ELSE n
=============================================================================
