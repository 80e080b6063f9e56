------------------------------ MODULE Handover ------------------------------
(***************************************************************************)
(* What struct Peer of bench/thread_benchmarks.cpp promises: a client hands *)
(* items over to a peer thread, one at a time and never one on top of       *)
(* another, until it closes the exchange; the peer takes every item, but    *)
(* may drop the last one when the exchange is closed.                       *)
(***************************************************************************)
EXTENDS Naturals

VARIABLES put, taken,  \* items handed over, items taken
          open, ended  \* not closed yet; the peer has left

vars == <<put, taken, open, ended>>

Init == put = 0 /\ taken = 0 /\ open = TRUE /\ ended = FALSE

Put ==
  /\ open
  /\ put = taken
  /\ put' = put + 1
  /\ UNCHANGED <<taken, open, ended>>

Take ==
  /\ ~ended
  /\ taken < put
  /\ taken' = taken + 1
  /\ UNCHANGED <<put, open, ended>>

Close ==
  /\ open
  /\ open' = FALSE
  /\ UNCHANGED <<put, taken, ended>>

Leave ==
  /\ ~open
  /\ ~ended
  /\ ended' = TRUE
  /\ UNCHANGED <<put, taken, open>>

Next == Put \/ Take \/ Close \/ Leave

Spec == Init /\ [][Next]_vars /\ WF_vars(Take \/ Leave)
=============================================================================
