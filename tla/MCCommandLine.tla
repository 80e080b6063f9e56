--------------------------- MODULE MCCommandLine ----------------------------
(* CommandLine, for the model checker: five benchmarks, in a category of   *)
(* two that are not neighbours and two of one, with one between them that  *)
(* is in none, and a category without any.                                 *)
EXTENDS CommandLine

MCMap == (1 :> {1, 4}) @@ (2 :> {3}) @@ (4 :> {5})
=============================================================================
