---------------------------- MODULE MCMultiQueue ----------------------------
(* Model-checking instance of MultiQueue: the three queues of the library   *)
(* with a shared end, chosen in the initial state, so that one run covers   *)
(* them all.  Threads of one side are interchangeable except that the       *)
(* single-threaded ends use CHOOSE, so there is no symmetry reduction.      *)
EXTENDS MultiQueue

MPMC == [mp |-> TRUE, mc |-> TRUE]
MPSC == [mp |-> TRUE, mc |-> FALSE]
SPMC == [mp |-> FALSE, mc |-> TRUE]

SharedKinds == {MPMC, MPSC, SPMC}
OnlyMPSC == {MPSC}
=============================================================================
