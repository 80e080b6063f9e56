------------------------------ MODULE CppArith ------------------------------
(***************************************************************************)
(* C++ integer arithmetic where it differs from TLA+'s: division of signed *)
(* integers truncates toward zero, and a conversion to a narrower signed   *)
(* type keeps the low-order bits.                                          *)
(***************************************************************************)
EXTENDS Integers

\* a / b, for b # 0.
Quot(a, b) ==
  IF (a >= 0) = (b > 0) THEN (IF a >= 0 THEN a ELSE -a) \div (IF b > 0 THEN b ELSE -b)
                        ELSE -((IF a >= 0 THEN a ELSE -a) \div (IF b > 0 THEN b ELSE -b))

\* static_cast to a signed integer type with 2*half values.
Narrow(a, half) == ((a + half) % (2 * half)) - half
=============================================================================
