------------------------------ MODULE WorkPool ------------------------------
(***************************************************************************)
(* What the edge promises about the works it is handed (main.go:405-410):  *)
(* a work runs at most once, never more than Capacity works run at a time, *)
(* and no work starts once the edge has stopped taking work. How a work is *)
(* obtained, advertised for, canceled or lost on the way is left out:      *)
(* PollLoop is shown to implement this module.                             *)
(***************************************************************************)
EXTENDS Integers, FiniteSets

CONSTANTS Works,     \* the works the control plane may forward
          Capacity   \* how many of them may run at the same time

VARIABLES phase,     \* phase[w]: "new", "running" or "finished"
          open       \* whether the edge still takes work

vars == <<phase, open>>

Running == {w \in Works : phase[w] = "running"}

Init == /\ phase = [w \in Works |-> "new"]
        /\ open = TRUE

Start(w) == /\ open
            /\ phase[w] = "new"
            /\ Cardinality(Running) < Capacity
            /\ phase' = [phase EXCEPT ![w] = "running"]
            /\ UNCHANGED open

Finish(w) == /\ phase[w] = "running"
             /\ phase' = [phase EXCEPT ![w] = "finished"]
             /\ UNCHANGED open

Close == /\ open
         /\ open' = FALSE
         /\ UNCHANGED phase

Next == Close \/ \E w \in Works : Start(w) \/ Finish(w)

Spec == Init /\ [][Next]_vars
=============================================================================
