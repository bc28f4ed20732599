------------------------------- MODULE Mailbox -------------------------------
(***************************************************************************)
(* What a stage thread promises to those who push events to it: the events *)
(* it accepts are handled one by one in the order of acceptance, up to the *)
(* quit event; then the thread ends, and whoever joins it may go on.       *)
(***************************************************************************)
EXTENDS Naturals, Sequences

CONSTANTS Events, Quit

VARIABLES accepted, \* the events accepted, oldest first
          handled,  \* the events handled, oldest first
          state     \* "running", then "closed", then "joined"

mvars == <<accepted, handled, state>>

MInit == accepted = << >> /\ handled = << >> /\ state = "running"

Accept == /\ \E e \in Events \cup {Quit} : accepted' = Append(accepted, e)
          /\ UNCHANGED <<handled, state>>

Handle == /\ state = "running"
          /\ Len(handled) < Len(accepted)
          /\ LET e == accepted[Len(handled) + 1]
             IN  /\ handled' = Append(handled, e)
                 /\ state' = IF e = Quit THEN "closed" ELSE "running"
          /\ UNCHANGED accepted

Join == state = "closed" /\ state' = "joined" /\ UNCHANGED <<accepted, handled>>

MNext == Accept \/ Handle \/ Join

MSafety == MInit /\ [][MNext]_mvars

MSpec == MSafety /\ WF_mvars(Handle) /\ WF_mvars(Join)
=============================================================================
