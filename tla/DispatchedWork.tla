--------------------------- MODULE DispatchedWork ---------------------------
(***************************************************************************)
(* pollLoop with one of its works run in full: runWork (run.go) in place   *)
(* of the single step PollLoop takes for it, under the context pollLoop    *)
(* gave it (main.go:494-508). Self is any of the works, so what holds of   *)
(* it holds of each; the others are as in PollLoop.                        *)
(*                                                                         *)
(* What the processes of a work do once the edge is gone, after a 401, is  *)
(* left out.                                                               *)
(***************************************************************************)
EXTENDS PollLoop

CONSTANT Self  \* the work

ASSUME SelfAssumption == Self \in Works

VARIABLES stage, res, plaklet, out, heir, terminal, ka, kaStop, streamer, buffered,
          sending, posts, status, late

Run == INSTANCE RunWork WITH ctxDone <- CtxDone(Self)

runVars == <<stage, res, plaklet, out, heir, terminal, ka, kaStop, streamer, buffered,
             sending, posts, status, late>>
allVars == <<vars, runVars>>

DispatchedInit == Init /\ Run!Init

\* runWork returns to the goroutine of the work.
SelfReturns == RunWorkReturns(Self) /\ stage = "returned" /\ UNCHANGED runVars

\* What pollLoop and the other goroutines do, and this one after runWork. A cancel
\* of Self and a SIGTERM are among it: they end the context runWork runs under.
Around == /\ \/ LoopStep \/ ServerStep \/ Shutdown \/ Terminated
             \/ \E w \in Works \ {Self} : RunWorkReturns(w)
             \/ \E v \in Works : Unregister(v) \/ FreeSlot(v)
          /\ UNCHANGED runVars

\* runWork runs from the start of its goroutine to its return, in the edge's process.
During(A) == pc # "fatal" /\ work[Self] = "running" /\ UNCHANGED vars /\ A

Within == \/ Run!MainStep \/ Run!JobEnds \/ Run!Feed \/ Run!FeedFails \/ Run!Process
          \/ Run!KeepAlivePost \/ Run!KeepAliveNext \/ Run!Flush \/ Run!StreamerExits
          \/ \E s \in Run!Senders : Run!Deliver(s) \/ Run!Lose(s)

DispatchedNext == Around \/ SelfReturns \/ During(Within)

\* That of PollLoop, but for the return of Self, and that of RunWork in its place. The
\* end of the last flush's chunks is not needed: a canceled work's first post ends it.
DispatchedFairness ==
  /\ WF_allVars(LoopStep /\ UNCHANGED runVars)
  /\ \A w \in Works \ {Self} :
       WF_allVars(/\ (CtxDone(w) /\ RunWorkReturns(w)) \/ Unregister(w) \/ FreeSlot(w)
                  /\ UNCHANGED runVars)
  /\ WF_allVars(\/ During(Run!MainStep) \/ SelfReturns
                \/ (Unregister(Self) \/ FreeSlot(Self)) /\ UNCHANGED runVars)
  /\ WF_allVars(During(Run!StdinGone /\ Run!FeedFails))
  /\ WF_allVars(During(Run!KeepAlivePost \/ Run!KeepAliveNext))
  /\ SF_allVars(During(Run!StreamerExits))
  /\ WF_allVars(During(Run!MustEnd /\ Run!JobEnds))
  /\ WF_allVars(During(Run!MustKill /\ Run!PlakletExits))
  /\ \A s \in Run!Senders : WF_allVars(During(CtxDone(Self) /\ Run!Lose(s)))

DispatchedSpec == DispatchedInit /\ [][DispatchedNext]_allVars
DispatchedFairSpec == DispatchedSpec /\ DispatchedFairness

-----------------------------------------------------------------------------

\* A slot that is given back stands for a work that is over, on this machine and at
\* the control plane: no plaklet, no descendant that holds a pipe of its, no goroutine
\* and no post of it is left, and the terminal reply was posted unless somebody asked
\* for the work to be canceled, or SIGTERM came (main.go:405-410 and 498-514 with
\* run.go:44-47, 52-53 and 272-296). So at most MaxParallel works have processes, and
\* those of a work that was not canceled are never cut off by the cancel of another.
SlotMeansOver ==
  work[Self] \in {"returned", "unregistered", "done"} =>
    /\ plaklet # "running" /\ ~heir /\ ka = "off" /\ streamer = "done"
    /\ \A s \in Run!Senders : Run!Free(s)
    /\ posts = 1 \/ Self \in asked \/ shutdown

\* The loop with a real work keeps what PollLoop promises, its fairness included: a
\* canceled work gives its slot back since runWork ends, which PollLoop takes for
\* granted (main.go:479-514, run.go:272-296). Assumed, as in RunWork: no descendant
\* holds a pipe for ever, the payload fits in the pipe of stdin, and a plaklet that
\* closes its stdin before it is written ends by itself, for nobody kills it.
ImplementsPollLoop ==
  /\ Spec
  /\ Run!Bystanders /\ WF_allVars(During(Run!Feed)) => Fairness
=============================================================================
