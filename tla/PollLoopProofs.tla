--------------------------- MODULE PollLoopProofs ---------------------------
(***************************************************************************)
(* Proofs about PollLoop: its safety properties hold for every set of      *)
(* works and every MaxParallel, and it implements WorkPool.                *)
(*                                                                         *)
(* SlotsConserved and NoMissedWakeup are not inductive alone. What makes   *)
(* them so is that only the loop takes slots, so that those it advertised  *)
(* are still free when the answer arrives (Advertised), and that interrupt *)
(* and wakeup agree on which poll is in flight (Armed).                    *)
(***************************************************************************)
EXTENDS PollLoop, FiniteSetTheorems, TLAPS

InFlight == pc \in {"polling", "returned", "handle"}

\* Slots only grow between a poll and the handling of its answer.
Advertised == InFlight => 0 <= advertised /\ advertised <= slots

\* What the loop has in hand.
WorkInHand ==
  /\ InFlight /\ poll = "work" =>
       item \in Works /\ work[item] = "sent" /\ advertised > 0
  /\ pc = "dispatch" => item \in Works /\ work[item] = "taken"

CancelInHand ==
  /\ toCancel \subseteq asked
  /\ InFlight /\ poll = "cancel" => item \in asked
  /\ pc = "canceling" => item \in asked

\* A poll can be interrupted from Prepare to ClearInterrupt, and only then.
Armed == /\ interruptPoll <=> pc \in {"polling", "returned"}
         /\ pollCtx = "none" <=> pc \notin {"polling", "returned"}
         /\ pollCtx = "interrupted" => advertised = 0

ExitEmpty == pc = "exited" => Holding = {}

SlotsNat == slots \in Nat

\* The invariant of the control state, without the count of slots.
Control == /\ Advertised /\ WorkInHand /\ CancelInHand /\ Armed /\ ExitEmpty
           /\ SlotsNat /\ NoMissedWakeup /\ CancelReaches /\ NoLeak /\ OnlyAsked

IInv == TypeOK /\ Control /\ SlotsConserved

-----------------------------------------------------------------------------

\* Capacity is a positive integer: every MaxParallel is clamped (main.go:428).
LEMMA CapacityPos == Capacity \in Nat \ {0}
  BY PollLoopAssumption DEF Capacity

\* The goroutines that hold a slot are finitely many.
LEMMA HoldingFinite ==
  /\ IsFiniteSet(Holding)
  /\ Cardinality(Holding) \in Nat
<1>1. IsFiniteSet(Works) /\ Holding \subseteq Works
  BY PollLoopAssumption DEF Holding
<1>2. IsFiniteSet(Holding)
  BY <1>1, FS_Subset
<1>. QED
  BY <1>2, FS_CardinalityType

-----------------------------------------------------------------------------
(* Type correctness.                                                       *)

\* The initial state has the types.
LEMMA InitType == Init => TypeOK
<1> SUFFICES ASSUME Init PROVE TypeOK
  OBVIOUS
<1>1. slots \in Int
  BY CapacityPos DEF Init
<1>2. work \in [Works -> Stages]
  BY DEF Init, Stages
<1>3. interruptPoll \in BOOLEAN /\ shutdown \in BOOLEAN
  BY DEF Init
<1>. QED
  BY <1>1, <1>2, <1>3 DEF Init, TypeOK

\* Every step keeps the types, given that the answer in hand is what it says.
LEMMA NextType == TypeOK /\ WorkInHand /\ CancelInHand /\ [Next]_vars => TypeOK'
<1> SUFFICES ASSUME TypeOK, WorkInHand, CancelInHand, [Next]_vars
             PROVE  TypeOK'
  OBVIOUS
<1> USE PollLoopAssumption
<1> USE DEF TypeOK, Stages, pollVars, workVars, serverVars
<1>1. CASE LeaveTop BY <1>1 DEF LeaveTop
<1>2. CASE Prepare BY <1>2 DEF Prepare, FreeSlots
<1>3. CASE PollReturns BY <1>3 DEF PollReturns
<1>4. CASE AbortPoll BY <1>4 DEF AbortPoll, PollFails
<1>5. CASE ClearInterrupt BY <1>5 DEF ClearInterrupt
<1>6. CASE HandleError BY <1>6 DEF HandleError
<1>7. CASE Backoff BY <1>7 DEF Backoff
<1>8. CASE HandleNoWork BY <1>8 DEF HandleNoWork
<1>9. CASE HandleCancel BY <1>9 DEF HandleCancel
<1>10. CASE CallCancel BY <1>10 DEF CallCancel, CancelInHand
<1>11. CASE TakeSlot BY <1>11 DEF TakeSlot, HasWork, WorkInHand, InFlight
<1>12. CASE Dispatch BY <1>12 DEF Dispatch, Registered, WorkInHand
<1>13. CASE Exit BY <1>13 DEF Exit
<1>14. CASE AnswerOther BY <1>14 DEF AnswerOther
<1>15. CASE DropPoll BY <1>15 DEF DropPoll, PollFails
<1>16. ASSUME NEW w \in Works, AskCancel(w) \/ AnswerWork(w) \/ AnswerCancel(w)
       PROVE  TypeOK'
  BY <1>16 DEF AskCancel, AnswerWork, AnswerCancel, Held
<1>17. CASE Shutdown BY <1>17 DEF Shutdown
<1>18. CASE UNCHANGED vars BY <1>18 DEF vars
<1>19. ASSUME NEW w \in Works, Goroutine(w)
       PROVE  TypeOK'
  BY <1>19 DEF Goroutine, RunWorkReturns, Unregister, FreeSlot, Deleted
<1>. QED
  BY <1>1, <1>2, <1>3, <1>4, <1>5, <1>6, <1>7, <1>8, <1>9, <1>10, <1>11,
     <1>12, <1>13, <1>14, <1>15, <1>16, <1>17, <1>18, <1>19
  DEF Next, LoopStep, ServerStep, Terminated
-----------------------------------------------------------------------------
(* The control state.                                                      *)

\* Nothing is in hand at first.
LEMMA InitControl == Init => Control
<1> SUFFICES ASSUME Init PROVE Control
  OBVIOUS
<1>1. SlotsNat
  BY CapacityPos DEF Init, SlotsNat
<1>2. Armed
  BY DEF Init, Armed
<1>. QED
  BY <1>1, <1>2 DEF Init, Control, Advertised, InFlight, WorkInHand, CancelInHand,
     ExitEmpty, NoMissedWakeup, CancelReaches, NoLeak, OnlyAsked

\* Every step keeps what the loop knows of the work, the cancel and the slots it deals with.
LEMMA NextControl == TypeOK /\ Control /\ [Next]_vars => Control'
<1> SUFFICES ASSUME TypeOK, Control, [Next]_vars
             PROVE  Control'
  OBVIOUS
<1> USE PollLoopAssumption
<1> USE DEF TypeOK, Stages, pollVars, workVars, serverVars, Control, Advertised,
            InFlight, WorkInHand, CancelInHand, Armed, ExitEmpty, SlotsNat,
            NoMissedWakeup, CancelReaches, NoLeak, OnlyAsked, Holding
<1>1. CASE LeaveTop BY <1>1 DEF LeaveTop
<1>2. CASE Prepare BY <1>2 DEF Prepare, FreeSlots
<1>3. CASE PollReturns BY <1>3 DEF PollReturns
<1>4. CASE AbortPoll BY <1>4 DEF AbortPoll, PollFails
<1>5. CASE ClearInterrupt BY <1>5 DEF ClearInterrupt, Failed
<1>6. CASE HandleError BY <1>6 DEF HandleError, Failed
<1>7. CASE Backoff BY <1>7 DEF Backoff
<1>8. CASE HandleNoWork BY <1>8 DEF HandleNoWork
<1>9. CASE HandleCancel BY <1>9 DEF HandleCancel
<1>10. CASE CallCancel BY <1>10 DEF CallCancel
<1>11. CASE TakeSlot BY <1>11 DEF TakeSlot, HasWork
<1>12. CASE Dispatch BY <1>12 DEF Dispatch, Registered
<1>13. CASE Exit BY <1>13 DEF Exit
<1>14. CASE AnswerOther BY <1>14 DEF AnswerOther, Held
<1>15. CASE DropPoll BY <1>15 DEF DropPoll, PollFails
<1>16. ASSUME NEW w \in Works, AskCancel(w)
       PROVE  Control'
  BY <1>16 DEF AskCancel
<1>17. ASSUME NEW w \in Works, AnswerWork(w)
       PROVE  Control'
  BY <1>17 DEF AnswerWork, Held
<1>18. ASSUME NEW w \in Works, AnswerCancel(w)
       PROVE  Control'
  BY <1>18 DEF AnswerCancel, Held
<1>19. CASE Shutdown BY <1>19 DEF Shutdown
<1>20. CASE UNCHANGED vars BY <1>20 DEF vars
<1>21. ASSUME NEW w \in Works, RunWorkReturns(w)
       PROVE  Control'
  BY <1>21 DEF RunWorkReturns
<1>22. ASSUME NEW w \in Works, Unregister(w)
       PROVE  Control'
  BY <1>22 DEF Unregister, Deleted
<1>23. ASSUME NEW w \in Works, FreeSlot(w)
       PROVE  Control'
  BY <1>23 DEF FreeSlot, WakesPoll
<1>. QED
  BY <1>1, <1>2, <1>3, <1>4, <1>5, <1>6, <1>7, <1>8, <1>9, <1>10, <1>11, <1>12,
     <1>13, <1>14, <1>15, <1>16, <1>17, <1>18, <1>19, <1>20, <1>21, <1>22, <1>23
  DEF Next, LoopStep, ServerStep, Goroutine, Terminated
-----------------------------------------------------------------------------
(* The count of slots.                                                     *)

\* All slots are free at first.
LEMMA InitSlots == Init => SlotsConserved
<1> SUFFICES ASSUME Init PROVE SlotsConserved
  OBVIOUS
<1>1. Holding = {}
  BY DEF Init, Holding
<1>2. Cardinality(Holding) = 0
  BY <1>1, FS_EmptySet
<1>. QED
  BY <1>2, CapacityPos DEF Init, SlotsConserved

\* Only TakeSlot and FreeSlot change who holds a slot, by one goroutine each.
LEMMA NextHolding ==
  ASSUME TypeOK, Control, [Next]_vars
  PROVE  \/ TakeSlot /\ item \notin Holding /\ Holding' = Holding \cup {item}
         \/ \E w \in Holding : FreeSlot(w) /\ Holding' = Holding \ {w}
         \/ slots' = slots /\ Holding' = Holding
<1> USE DEF TypeOK, Holding, Control, WorkInHand, InFlight, pollVars, workVars,
            serverVars
<1>1. CASE TakeSlot
  BY <1>1 DEF TakeSlot, HasWork
<1>2. ASSUME NEW w \in Works, FreeSlot(w)
      PROVE  w \in Holding /\ Holding' = Holding \ {w}
  BY <1>2 DEF FreeSlot
<1>3. ASSUME NEW w \in Works, AskCancel(w) \/ AnswerWork(w) \/ AnswerCancel(w)
                              \/ RunWorkReturns(w) \/ Unregister(w)
      PROVE  slots' = slots /\ Holding' = Holding
  BY <1>3 DEF AskCancel, AnswerWork, AnswerCancel, RunWorkReturns, Unregister
<1>4. CASE \/ LeaveTop \/ Prepare \/ PollReturns \/ ClearInterrupt \/ HandleError
           \/ Backoff \/ HandleNoWork \/ HandleCancel \/ CallCancel \/ Exit
           \/ AnswerOther \/ Shutdown \/ UNCHANGED vars
  BY <1>4 DEF LeaveTop, Prepare, PollReturns, ClearInterrupt, HandleError, Backoff,
              HandleNoWork, HandleCancel, CallCancel, Exit, AnswerOther, Shutdown,
              vars
<1>5. CASE AbortPoll \/ DropPoll
  BY <1>5 DEF AbortPoll, DropPoll, PollFails
<1>6. CASE Dispatch
  BY <1>6 DEF Dispatch
<1>. QED
  BY <1>1, <1>2, <1>3, <1>4, <1>5, <1>6
  DEF Next, LoopStep, ServerStep, Goroutine, Terminated

\* Every step keeps the count of slots.
LEMMA NextSlots == IInv /\ [Next]_vars => SlotsConserved'
<1> SUFFICES ASSUME IInv, [Next]_vars PROVE SlotsConserved'
  OBVIOUS
<1> USE DEF IInv, TypeOK, SlotsConserved
<1>1. CASE TakeSlot /\ item \notin Holding /\ Holding' = Holding \cup {item}
  <2>1. Cardinality(Holding') = Cardinality(Holding) + 1
    BY <1>1, HoldingFinite, FS_AddElement
  <2>. QED
    BY <1>1, <2>1, HoldingFinite, CapacityPos DEF TakeSlot, HasWork, Capacity
<1>2. ASSUME NEW w \in Holding, FreeSlot(w), Holding' = Holding \ {w}
      PROVE  SlotsConserved'
  <2>1. Cardinality(Holding') = Cardinality(Holding) - 1
    BY <1>2, HoldingFinite, FS_RemoveElement
  <2>. QED
    BY <1>2, <2>1, HoldingFinite, CapacityPos DEF FreeSlot, Capacity
<1>3. CASE slots' = slots /\ Holding' = Holding
  BY <1>3 DEF Capacity
<1>. QED
  BY <1>1, <1>2, <1>3, NextHolding

-----------------------------------------------------------------------------
(* The theorems.                                                           *)

\* The invariant holds initially.
LEMMA InitIInv == Init => IInv
  BY InitType, InitControl, InitSlots DEF IInv

\* Every step keeps the invariant.
LEMMA NextIInv == IInv /\ [Next]_vars => IInv'
  BY NextType, NextControl, NextSlots DEF IInv, Control

\* The inductive invariant is an invariant.
THEOREM Invariance == Spec => []IInv
  BY InitIInv, NextIInv, PTL DEF Spec

\* Every variable of pollLoop keeps its type.
THEOREM TypeCorrect == Spec => []TypeOK
<1>1. IInv => TypeOK
  BY DEF IInv
<1>. QED
  BY <1>1, Invariance, PTL

\* No slot is lost or made up, however works end (main.go:493, 510).
THEOREM SlotsAreConserved == Spec => []SlotsConserved
<1>1. IInv => SlotsConserved
  BY DEF IInv
<1>. QED
  BY <1>1, Invariance, PTL

\* Never more works than slots, however stale the slots advertised (main.go:442).
THEOREM NeverOverLimit == Spec => []WithinLimit
<1>1. IInv => WithinLimit
  BY HoldingFinite, CapacityPos
  DEF IInv, Control, SlotsNat, SlotsConserved, WithinLimit
<1>. QED
  BY <1>1, Invariance, PTL

\* The promise of the comment of main.go:430-432: no wakeup is missed.
THEOREM WakeupsAreSafe == Spec => []NoMissedWakeup
<1>1. IInv => NoMissedWakeup
  BY DEF IInv, Control
<1>. QED
  BY <1>1, Invariance, PTL

\* The interruption of main.go:510-512 never throws a work away.
THEOREM InterruptsAreSafe == Spec => []InterruptLosesNoWork
<1>1. IInv => InterruptLosesNoWork
  BY DEF IInv, Control, Armed, WorkInHand, InFlight, InterruptLosesNoWork
<1>. QED
  BY <1>1, Invariance, PTL

\* A running work can be canceled until somebody has (main.go:479-486).
THEOREM CancelsReach == Spec => []CancelReaches
<1>1. IInv => CancelReaches
  BY DEF IInv, Control
<1>. QED
  BY <1>1, Invariance, PTL

\* No cancel outlives its work in the map (main.go:482, 502).
THEOREM CancelsAreReleased == Spec => []NoLeak
<1>1. IInv => NoLeak
  BY DEF IInv, Control
<1>. QED
  BY <1>1, Invariance, PTL

\* The map of cancels and the works that run agree (main.go:479-486, 502).
THEOREM CancelsTrack == Spec => []CancelsTrackWorks
  BY CancelsReach, CancelsAreReleased, PTL DEF CancelsTrackWorks

\* A cancel reaches only the work it names (main.go:408-409, 479-491).
THEOREM CancelsAreExact == Spec => []OnlyAsked
<1>1. IInv => OnlyAsked
  BY DEF IInv, Control
<1>. QED
  BY <1>1, Invariance, PTL

\* pollLoop returns only once every work has given its slot back (main.go:426).
THEOREM ExitsQuiescent == Spec => []ExitQuiescent
<1>1. IInv => ExitQuiescent
  <2> SUFFICES ASSUME IInv, pc = "exited" PROVE slots = Capacity /\ cancels = {}
    BY DEF ExitQuiescent
  <2>1. Holding = {} /\ Cardinality(Holding) = 0
    BY FS_EmptySet DEF IInv, Control, ExitEmpty
  <2>2. slots = Capacity
    BY <2>1, CapacityPos DEF IInv, TypeOK, SlotsConserved
  <2>3. cancels = {}
    BY <2>1 DEF IInv, TypeOK, Control, NoLeak, Holding
  <2>. QED
    BY <2>2, <2>3
<1>. QED
  BY <1>1, Invariance, PTL
-----------------------------------------------------------------------------
(* Refinement.                                                             *)

\* The initial states are those of WorkPool.
LEMMA InitRefines == Init => WP!Init
<1> SUFFICES ASSUME Init PROVE WP!Init
  OBVIOUS
<1>1. \A w \in Works : Phase(w) = "new"
  BY DEF Init, Phase, Holding
<1>2. pc \notin {"drain", "exited", "fatal"}
  BY DEF Init
<1>. QED
  BY <1>1, <1>2 DEF WP!Init

\* The works that run, for WorkPool, are those that hold a slot.
LEMMA RunningIsHolding == TypeOK => WP!Running = Holding
<1> SUFFICES ASSUME TypeOK PROVE WP!Running = Holding
  OBVIOUS
<1>1. \A w \in Works : Phase(w) = "running" <=> w \in Holding
  BY DEF Phase, Holding
<1>. QED
  BY <1>1 DEF WP!Running, Holding

\* WorkPool's Cardinality is the one the lemmas above speak of.
LEMMA SameCardinality == \A S : WP!Cardinality(S) = Cardinality(S)
  BY DEF WP!Cardinality, Cardinality

\* A step that starts no work, ends none and lets none in is a stutter.
LEMMA SamePhases ==
  ASSUME \A w \in Works : Phase(w)' = Phase(w)
  PROVE  [w \in Works |-> Phase(w)]' = [w \in Works |-> Phase(w)]
  OBVIOUS

\* Every step of the loop is one of WorkPool, or none.
LEMMA NextRefines == IInv /\ [Next]_vars => [WP!Next]_WP!vars
<1> SUFFICES ASSUME IInv, [Next]_vars
             PROVE  [WP!Next]_WP!vars
  OBVIOUS
<1> DEFINE phase == [w \in Works |-> Phase(w)]
           open  == pc \notin {"drain", "exited", "fatal"}
<1> USE DEF pollVars, workVars, serverVars
<1>1. CASE TakeSlot
  <2>1. open /\ open' /\ item \in Works /\ work[item] = "sent" /\ slots > 0
    BY <1>1 DEF TakeSlot, HasWork, IInv, TypeOK, Control, WorkInHand, InFlight, Advertised
  <2>2. Cardinality(WP!Running) < Capacity
    BY <2>1, RunningIsHolding, HoldingFinite, CapacityPos
    DEF IInv, TypeOK, SlotsConserved
  <2>3. Phase(item) = "new" /\ phase' = [phase EXCEPT ![item] = "running"]
    BY <1>1, <2>1 DEF TakeSlot, HasWork, Phase, Holding, IInv, TypeOK
  <2>4. WP!Start(item)
    BY <2>1, <2>2, <2>3, SameCardinality DEF WP!Start
  <2>. QED
    BY <2>1, <2>4 DEF WP!Next
<1>2. ASSUME NEW w \in Works, FreeSlot(w)
      PROVE  WP!Next
  <2>1. Phase(w) = "running" /\ phase' = [phase EXCEPT ![w] = "finished"]
    BY <1>2 DEF FreeSlot, Phase, Holding, IInv, TypeOK
  <2>2. WP!Finish(w)
    BY <1>2, <2>1 DEF FreeSlot, WP!Finish
  <2>. QED
    BY <2>2 DEF WP!Next
<1>3. ASSUME NEW w \in Works, AskCancel(w) \/ AnswerWork(w) \/ AnswerCancel(w)
                              \/ RunWorkReturns(w) \/ Unregister(w)
      PROVE  UNCHANGED WP!vars
  <2>1. \A v \in Works : Phase(v)' = Phase(v)
    BY <1>3 DEF AskCancel, AnswerWork, AnswerCancel, RunWorkReturns, Unregister,
                Phase, Holding, IInv, TypeOK
  <2>2. UNCHANGED pc
    BY <1>3 DEF AskCancel, AnswerWork, AnswerCancel, RunWorkReturns, Unregister
  <2>. QED
    BY <2>1, <2>2, SamePhases DEF WP!vars
<1>4. CASE \/ Prepare \/ PollReturns \/ ClearInterrupt \/ HandleNoWork
           \/ HandleCancel \/ CallCancel \/ Exit \/ AnswerOther \/ Shutdown
           \/ UNCHANGED vars
  <2>1. UNCHANGED work /\ open' = open
    BY <1>4 DEF Prepare, PollReturns, ClearInterrupt, HandleNoWork, HandleCancel,
                CallCancel, Exit, AnswerOther, Shutdown, vars, Held
  <2>2. phase' = phase
    BY <2>1 DEF Phase, Holding
  <2>. QED
    BY <2>1, <2>2 DEF WP!vars
<1>5. CASE LeaveTop \/ HandleError \/ Backoff
  <2>1. UNCHANGED work /\ open
    BY <1>5 DEF LeaveTop, HandleError, Backoff
  <2>2. phase' = phase
    BY <2>1 DEF Phase, Holding
  <2>3. CASE open'
    BY <2>1, <2>2, <2>3 DEF WP!vars
  <2>4. CASE ~open'
    BY <2>1, <2>2, <2>4 DEF WP!Next, WP!Close
  <2>. QED
    BY <2>3, <2>4
<1>6. CASE AbortPoll \/ DropPoll \/ Dispatch
  <2>1. \A v \in Works : Phase(v)' = Phase(v)
    BY <1>6 DEF AbortPoll, DropPoll, PollFails, Dispatch, Phase, Holding, IInv, TypeOK,
                Control, WorkInHand, InFlight
  <2>2. open' = open
    BY <1>6 DEF AbortPoll, DropPoll, PollFails, Dispatch
  <2>. QED
    BY <2>1, <2>2, SamePhases DEF WP!vars
<1>. QED
  BY <1>1, <1>2, <1>3, <1>4, <1>5, <1>6
  DEF Next, LoopStep, ServerStep, Goroutine, Terminated

\* pollLoop implements WorkPool: at most Capacity works at a time, each at most
\* once, none started once the loop has stopped (main.go:405-410).
THEOREM Refinement == Spec => ImplementsWorkPool
  BY Invariance, InitRefines, NextRefines, PTL DEF Spec, ImplementsWorkPool, WP!Spec
=============================================================================
