-------------------------- MODULE DispatchedProofs --------------------------
(***************************************************************************)
(* pollLoop with a work run in full takes the steps of PollLoop, and the   *)
(* work those of RunWork, so what PollLoopProofs and RunWorkProofs say     *)
(* holds of them together. The two meet in Lockstep, from which a slot     *)
(* that is given back stands for a work that is over.                      *)
(***************************************************************************)
EXTENDS DispatchedWork, PollLoopProofs

RunP == INSTANCE RunWorkProofs WITH ctxDone <- CtxDone(Self)

Before == {"queued", "sent", "lost", "taken"}
After == {"returned", "unregistered", "done"}

\* The work has a process, or a post on its way.
Alive == plaklet = "running" \/ heir \/ \E s \in Run!Senders : ~Run!Free(s)

\* runWork has not begun before the work is dispatched, and has returned when its
\* goroutine goes on.
Lockstep == /\ work[Self] \in Before => ~Alive
            /\ work[Self] \in After => stage = "returned"

-----------------------------------------------------------------------------
(* The loop.                                                               *)

\* A step of the loop with its work is one of the loop, or none.
LEMMA LoopRefines == [DispatchedNext]_allVars => [Next]_vars
  BY SelfAssumption
  DEF DispatchedNext, Around, SelfReturns, During, allVars, Next, Goroutine

\* pollLoop behaves as PollLoop says, whatever its work does (main.go:405-516).
THEOREM LoopIsPollLoop == DispatchedSpec => Spec
<1>1. DispatchedInit => Init
  BY DEF DispatchedInit
<1>. QED
  BY <1>1, LoopRefines, PTL DEF DispatchedSpec, Spec

-----------------------------------------------------------------------------
(* The work.                                                               *)

\* RunP is Run, with its theorems.
LEMMA SameInit == Run!Init => RunP!Init
  BY DEF Run!Init, RunP!Init, Run!Jobs, RunP!Jobs, Run!Senders, RunP!Senders

\* A step within runWork is the same step for RunP.
LEMMA SameWithin == Within => RunP!Next
<1> USE DEF Run!Free, Run!Post, Run!Jobs, Run!Senders, Run!Terminals, Run!Kinds,
            Run!mainVars, Run!procVars, Run!kaVars, Run!logVars, Run!serverVars,
            Run!Goto, Run!StartsKeepAlive, Run!PostCounted,
            RunP!Free, RunP!Post, RunP!Jobs, RunP!Senders, RunP!Terminals, RunP!Kinds,
            RunP!mainVars, RunP!procVars, RunP!kaVars, RunP!logVars, RunP!serverVars,
            RunP!Goto, RunP!StartsKeepAlive, RunP!PostCounted
<1>1. Run!JobEnds => RunP!JobEnds
  BY DEF Run!JobEnds, RunP!JobEnds
<1>2. Run!Feed \/ Run!FeedFails => RunP!Feed \/ RunP!FeedFails
  BY DEF Run!Feed, RunP!Feed, Run!FeedFails, RunP!FeedFails
<1>3. ASSUME NEW s \in Run!Senders
      PROVE  Run!Deliver(s) \/ Run!Lose(s) => RunP!Deliver(s) \/ RunP!Lose(s)
  BY DEF Run!Deliver, RunP!Deliver, Run!Lose, RunP!Lose
<1>4. Run!Process => RunP!Process
  BY DEF Run!Process, RunP!Process, Run!Prints, RunP!Prints, Run!Fork, RunP!Fork,
         Run!HeirExits, RunP!HeirExits, Run!WriteLog, RunP!WriteLog,
         Run!PlakletExits, RunP!PlakletExits, Run!HookRuns, RunP!HookRuns
<1>5. Run!KeepAlivePost \/ Run!KeepAliveNext => RunP!KeepAlivePost \/ RunP!KeepAliveNext
  BY DEF Run!KeepAlivePost, RunP!KeepAlivePost, Run!KeepAliveNext, RunP!KeepAliveNext
<1>6. Run!Flush \/ Run!StreamerExits => RunP!Flush \/ RunP!StreamerExits
  BY DEF Run!Flush, RunP!Flush, Run!StreamerExits, RunP!StreamerExits
<1>7. Run!MainStep => RunP!MainStep
  <2>1. Run!JobDone => RunP!JobDone
    BY DEF Run!JobDone, RunP!JobDone, Run!StopReturns, RunP!StopReturns,
           Run!AfterJob, RunP!AfterJob
  <2>2. Run!Spawn \/ Run!Wait => RunP!Spawn \/ RunP!Wait
    BY DEF Run!Spawn, RunP!Spawn, Run!Wait, RunP!Wait
  <2>3. Run!Decode => RunP!Decode
    BY DEF Run!Decode, RunP!Decode, Run!HeldBack, RunP!HeldBack,
           Run!AfterTerminal, RunP!AfterTerminal
  <2>4. Run!DecodeFails \/ Run!PumpEOF => RunP!DecodeFails \/ RunP!PumpEOF
    BY DEF Run!DecodeFails, RunP!DecodeFails, Run!AfterPump, RunP!AfterPump,
           Run!PumpEOF, RunP!PumpEOF
  <2>5. Run!CloseStops \/ Run!CloseFlushes => RunP!CloseStops \/ RunP!CloseFlushes
    BY DEF Run!CloseStops, RunP!CloseStops, Run!CloseFlushes, RunP!CloseFlushes,
           Run!CanFlush, RunP!CanFlush
  <2>6. Run!Report => RunP!Report
    BY DEF Run!Report, RunP!Report, Run!ReportKind, RunP!ReportKind
  <2>7. Run!Last \/ Run!Return => RunP!Last \/ RunP!Return
    BY DEF Run!Last, RunP!Last, Run!Outcome, RunP!Outcome, Run!Return, RunP!Return
  <2>. QED
    BY <2>1, <2>2, <2>3, <2>4, <2>5, <2>6, <2>7 DEF Run!MainStep, RunP!MainStep
<1>. QED
  BY <1>1, <1>2, <1>3, <1>4, <1>5, <1>6, <1>7 DEF Within, RunP!Next

\* Nothing undoes a cancel or a SIGTERM.
LEMMA DoneForGood == [Next]_vars => (CtxDone(Self) => CtxDone(Self)')
<1> SUFFICES ASSUME [Next]_vars, CtxDone(Self) PROVE CtxDone(Self)'
  OBVIOUS
<1> USE DEF CtxDone, workVars, serverVars
<1>1. CASE LoopStep
  BY <1>1 DEF LoopStep, LeaveTop, Prepare, PollReturns, AbortPoll, PollFails,
     ClearInterrupt, HandleError, Backoff, HandleNoWork, HandleCancel, CallCancel,
     TakeSlot, Dispatch, Exit
<1>2. CASE ServerStep
  BY <1>2 DEF ServerStep, AnswerOther, DropPoll, PollFails, AskCancel, AnswerWork,
     AnswerCancel
<1>3. CASE Shutdown \/ UNCHANGED vars
  BY <1>3 DEF Shutdown, vars
<1>4. ASSUME NEW w \in Works, Goroutine(w) PROVE CtxDone(Self)'
  BY <1>4 DEF Goroutine, RunWorkReturns, Unregister, FreeSlot
<1>. QED
  BY <1>1, <1>2, <1>3, <1>4 DEF Next, Terminated

\* A step around the work is a step of it only if it ends its context.
LEMMA WorkRefines == [DispatchedNext]_allVars => [RunP!Next]_(RunP!vars)
<1> SUFFICES ASSUME [DispatchedNext]_allVars PROVE [RunP!Next]_(RunP!vars)
  OBVIOUS
<1>1. CASE UNCHANGED runVars
  <2>1. CASE CtxDone(Self)' = CtxDone(Self)
    BY <1>1, <2>1
    DEF runVars, RunP!vars, RunP!mainVars, RunP!procVars, RunP!kaVars, RunP!logVars,
        RunP!serverVars
  <2>2. CASE ~CtxDone(Self) /\ CtxDone(Self)'
    BY <1>1, <2>2
    DEF runVars, RunP!Next, RunP!Cancel, RunP!mainVars, RunP!procVars, RunP!kaVars,
        RunP!logVars, RunP!serverVars
  <2>3. CtxDone(Self)' = CtxDone(Self) \/ (~CtxDone(Self) /\ CtxDone(Self)')
    BY LoopRefines, DoneForGood DEF CtxDone
  <2>. QED
    BY <2>1, <2>2, <2>3
<1>2. CASE During(Within)
  BY <1>2, SameWithin DEF During
<1>. QED
  BY <1>1, <1>2 DEF DispatchedNext, Around, SelfReturns, allVars

\* The work behaves as RunWork says, whatever the loop and the other works do
\* (run.go:54-151).
THEOREM WorkIsRunWork == DispatchedSpec => RunP!Spec
<1>1. DispatchedInit => RunP!Init
  BY SameInit DEF DispatchedInit
<1>. QED
  BY <1>1, WorkRefines, PTL DEF DispatchedSpec, RunP!Spec

-----------------------------------------------------------------------------
(* Both together.                                                          *)

\* Around the work, a work does not go back to before its dispatch, and is over only
\* if it was.
LEMMA AroundKeepsPhase ==
  ASSUME TypeOK, WorkInHand, Around \/ UNCHANGED vars
  PROVE  /\ work[Self]' \in Before => work[Self] \in Before
         /\ work[Self]' \in After => work[Self] \in After
<1> USE SelfAssumption DEF TypeOK, Before, After, pollVars, workVars, serverVars
<1> DEFINE Kept == /\ work[Self]' \in Before => work[Self] \in Before
                   /\ work[Self]' \in After => work[Self] \in After
<1>1. CASE TakeSlot
  <2>1. work[item] = "sent" /\ work' = [work EXCEPT ![item] = "taken"]
    BY <1>1 DEF TakeSlot, HasWork, WorkInHand, InFlight
  <2>. QED
    BY <2>1
<1>2. CASE Dispatch
  BY <1>2 DEF Dispatch
<1>3. CASE PollFails
  <2>1. CASE poll = "work"
    <3>1. work[item] = "sent" /\ work' = [work EXCEPT ![item] = "lost"]
      BY <1>3, <2>1 DEF PollFails, WorkInHand, InFlight
    <3>. QED
      BY <3>1
  <2>2. CASE poll # "work"
    BY <1>3, <2>2 DEF PollFails
  <2>. QED
    BY <2>1, <2>2
<1>4. ASSUME NEW w \in Works, AskCancel(w) \/ AnswerWork(w) \/ AnswerCancel(w)
      PROVE  Kept
  BY <1>4 DEF AskCancel, AnswerWork, AnswerCancel
<1>5. ASSUME NEW w \in Works \ {Self}, RunWorkReturns(w) PROVE Kept
  BY <1>5 DEF RunWorkReturns
<1>6. ASSUME NEW v \in Works, Unregister(v) \/ FreeSlot(v) PROVE Kept
  BY <1>6 DEF Unregister, FreeSlot
<1>7. ASSUME UNCHANGED work PROVE Kept
  BY <1>7
<1>8. LoopStep => UNCHANGED work \/ PollFails \/ TakeSlot \/ Dispatch
  BY DEF LoopStep, LeaveTop, Prepare, PollReturns, AbortPoll, ClearInterrupt, HandleError,
         Backoff, HandleNoWork, HandleCancel, CallCancel, Exit
<1>9. ServerStep => \/ UNCHANGED work \/ PollFails
                    \/ \E w \in Works : AskCancel(w) \/ AnswerWork(w) \/ AnswerCancel(w)
  BY DEF ServerStep, AnswerOther, DropPoll
<1>10. Shutdown \/ Terminated \/ UNCHANGED vars => UNCHANGED work
  BY DEF Shutdown, Terminated, vars
<1>. QED
  BY <1>1, <1>2, <1>3, <1>4, <1>5, <1>6, <1>7, <1>8, <1>9, <1>10 DEF Around

\* A step of the loop, of the work or of both keeps the two together.
LEMMA NextLockstep ==
  ASSUME TypeOK, WorkInHand, Lockstep, [DispatchedNext]_allVars
  PROVE  Lockstep'
<1>1. CASE (Around \/ UNCHANGED vars) /\ UNCHANGED runVars
  <2>1. Alive' = Alive /\ stage' = stage
    BY <1>1 DEF Alive, runVars, Run!Free
  <2>. QED
    BY <1>1, <2>1, AroundKeepsPhase DEF Lockstep
<1>2. CASE SelfReturns
  BY <1>2, SelfAssumption
  DEF SelfReturns, RunWorkReturns, TypeOK, Lockstep, Before, runVars
<1>3. CASE During(Within)
  BY <1>3 DEF During, vars, Lockstep, Before, After
<1>. QED
  BY <1>1, <1>2, <1>3 DEF DispatchedNext, Around, allVars

\* The work is run between its dispatch and the return to its goroutine.
THEOREM WorkInLockstep == DispatchedSpec => []Lockstep
<1>1. DispatchedInit => Lockstep
  BY SelfAssumption
  DEF DispatchedInit, Init, Run!Init, Lockstep, Alive, Before, After, Run!Free
<1>2. IInv => TypeOK /\ WorkInHand
  BY DEF IInv, Control
<1>3. IInv /\ Lockstep /\ [DispatchedNext]_allVars => Lockstep'
  BY <1>2, NextLockstep
<1>. QED
  BY <1>1, <1>3, LoopIsPollLoop, Invariance, PTL DEF DispatchedSpec

\* A slot that is given back stands for a work of which nothing is left, and whose end
\* the control plane was told, unless somebody asked to cancel that very work or SIGTERM
\* came (main.go:405-410, 498-514, run.go:44-53).
THEOREM SlotsMeanOver == DispatchedSpec => []SlotMeansOver
<1>1. IInv /\ Lockstep /\ RunP!NothingLeft /\ RunP!OneTerminal => SlotMeansOver
  <2> SUFFICES ASSUME IInv, Lockstep, RunP!NothingLeft, RunP!OneTerminal,
                      work[Self] \in After
               PROVE  /\ plaklet # "running" /\ ~heir /\ ka = "off" /\ streamer = "done"
                      /\ \A s \in Run!Senders : Run!Free(s)
                      /\ posts = 1 \/ Self \in asked \/ shutdown
    BY DEF SlotMeansOver, After
  <2>1. stage = "returned"
    BY DEF Lockstep
  <2>2. CtxDone(Self) => Self \in asked \/ shutdown
    BY DEF CtxDone, IInv, Control, OnlyAsked
  <2>3. ~CtxDone(Self) => posts = 1
    BY <2>1 DEF RunP!OneTerminal
  <2>. QED
    BY <2>1, <2>2, <2>3
    DEF RunP!NothingLeft, RunP!Free, RunP!Senders, Run!Free, Run!Senders
<1>. QED
  BY <1>1, LoopIsPollLoop, WorkIsRunWork, WorkInLockstep, Invariance,
     RunP!WorkLeavesNothing, RunP!OneTerminalReply, PTL

\* A work has processes, and posts, only while it holds one of the slots, of which there
\* are MaxParallel at most: no more plaklets run side by side (main.go:405-410).
THEOREM ProcessesHaveSlots ==
  DispatchedSpec => [](Alive => Self \in Holding /\ WithinLimit)
<1>1. TypeOK /\ Lockstep /\ SlotMeansOver /\ WithinLimit
      => (Alive => Self \in Holding /\ WithinLimit)
  BY SelfAssumption
  DEF TypeOK, Lockstep, SlotMeansOver, Alive, Before, Holding, Stages
<1>. QED
  BY <1>1, LoopIsPollLoop, TypeCorrect, NeverOverLimit, WorkInLockstep, SlotsMeanOver, PTL
=============================================================================
