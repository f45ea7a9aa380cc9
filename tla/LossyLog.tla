------------------------------ MODULE LossyLog ------------------------------
(***************************************************************************)
(* What the log streamer promises of a work's output (logstream.go:25-27,  *)
(* 83-97): a queue that may lose but never reorders, repeats or invents    *)
(* output, and that owes the reader a mark for what it lost. Bytes are     *)
(* numbered as they are written. Where a chunk ends, who flushes and how a *)
(* post fails are left out: LogStream is shown to implement this module.   *)
(***************************************************************************)
EXTENDS Integers, Sequences

VARIABLES written,   \* how many bytes were written
          pending,   \* those that are to be sent, in order
          received,  \* those the control plane has
          gone,      \* those it will never have
          due,       \* a mark is owed for some of them
          marked     \* the control plane has a mark

vars == <<written, pending, received, gone, due, marked>>

First(k) == SubSeq(pending, 1, k)
Drop(k) == pending' = SubSeq(pending, k + 1, Len(pending))

Init == /\ written = 0 /\ pending = <<>> /\ received = <<>>
        /\ gone = {} /\ due = FALSE /\ marked = FALSE

\* What is written is kept whole, at the end, or refused whole.
Keep == /\ written' > written
        /\ pending' = pending \o [i \in 1..written' - written |-> written + i]
        /\ UNCHANGED <<received, gone, due, marked>>

Refuse == /\ written' > written
          /\ gone' = gone \cup written + 1..written'
          /\ due' = TRUE
          /\ UNCHANGED <<pending, received, marked>>

\* The first k bytes go. Who sent them may not know that they arrived.
Send(k) == /\ Drop(k)
           /\ received' = received \o First(k)
           /\ due' \in {due, TRUE}
           /\ UNCHANGED <<written, gone, marked>>

Lose(k) == /\ Drop(k)
           /\ gone' = gone \cup {pending[i] : i \in 1..k}
           /\ due' = TRUE
           /\ UNCHANGED <<written, received, marked>>

\* The mark comes after all the output there is.
Mark == /\ due /\ pending = <<>>
        /\ marked' = TRUE
        /\ due' \in BOOLEAN
        /\ UNCHANGED <<written, pending, received, gone>>

Next == \/ Keep \/ Refuse \/ Mark
        \/ \E k \in 1..Len(pending) : Send(k) \/ Lose(k)

Spec == Init /\ [][Next]_vars
=============================================================================
