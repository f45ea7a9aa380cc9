------------------------------ MODULE PollLoop ------------------------------
(***************************************************************************)
(* pollLoop (main.go:405-516): one thread long-polls the control plane and *)
(* starts a goroutine per work; the goroutines give their slot back and    *)
(* wake the loop when it polls with no slot. slots is an atomic, cancels   *)
(* and interruptPoll are guarded by mu: one critical section of the code   *)
(* is one action here.                                                     *)
(*                                                                         *)
(* Simplifications: runWork is a single step that returns (RunWork models  *)
(* it); a work id is handed out once; an abandoned poll takes the answer   *)
(* already given to it with it; the items of a poll other than slots, and  *)
(* the lengths of hold and backoff, are left out.                          *)
(***************************************************************************)
EXTENDS Integers, FiniteSets

CONSTANTS Works,        \* the works the control plane has for this edge
          MaxParallel,  \* Config.MaxParallel, any integer
          None          \* the item of a poll that has none

ASSUME PollLoopAssumption ==
  IsFiniteSet(Works) /\ MaxParallel \in Int /\ None \notin Works

\* The initial value of slots: MaxParallel, clamped to at least 1.
CapacityUnclamped == MaxParallel
Capacity == IF MaxParallel < 1 THEN 1 ELSE MaxParallel

VARIABLES
  pc,             \* where the loop is
  poll,           \* the poll: "held" by the server, its answer, or "error"
  item,           \* the work the answer names
  slots,          \* free slots
  advertised,     \* poll.Slots, as sent
  interruptPoll,  \* interruptPoll # nil
  pollCtx,        \* "none", "live", or why it is done: "interrupted", "shutdown"
  cancels,        \* the keys of the cancels map
  canceled,       \* works whose own context was canceled by a cancel item
  work,           \* work[w]: how far w is (see Stages)
  asked,          \* control plane: works somebody asked to cancel
  toCancel,       \* control plane: cancels not yet handed to a poll
  shutdown        \* rootCtx is done (SIGTERM)

vars == <<pc, poll, item, slots, advertised, interruptPoll, pollCtx, cancels,
          canceled, work, asked, toCancel, shutdown>>
pollVars == <<poll, item, advertised, interruptPoll, pollCtx>>
workVars == <<slots, cancels, canceled, work>>
serverVars == <<asked, toCancel, shutdown>>

\* "queued" at the control plane, "sent" in an answer, "lost" with it, "taken"
\* when its slot is taken, "running" in runWork, "returned" from it,
\* "unregistered" from cancels, "done" once the slot is free again.
Stages == {"queued", "sent", "lost", "taken", "running", "returned",
           "unregistered", "done"}

Stopped == pc \in {"exited", "fatal"}
Failed  == poll \in {"error", "unauthorized"}
Holding == {w \in Works :
              work[w] \in {"taken", "running", "returned", "unregistered"}}

\* The context of w is a child of rootCtx with a cancel of its own.
CtxDoneOwn(w) == w \in canceled
CtxDone(w) == shutdown \/ w \in canceled

Init == /\ pc = "top" /\ poll = "empty" /\ item = None
        /\ slots = Capacity /\ advertised = 0
        /\ interruptPoll = FALSE /\ pollCtx = "none"
        /\ cancels = {} /\ canceled = {}
        /\ work = [w \in Works |-> "queued"]
        /\ asked = {} /\ toCancel = {} /\ shutdown = FALSE

-----------------------------------------------------------------------------
(* The control plane: it queues cancels, hands out works only to a poll    *)
(* that has slots, and answers the poll it holds in one of five ways.      *)

AskCancel(w) == /\ w \notin asked /\ work[w] # "queued" /\ ~Stopped
                /\ asked' = asked \cup {w}
                /\ toCancel' = toCancel \cup {w}
                /\ UNCHANGED <<pc, shutdown>> /\ UNCHANGED pollVars
                /\ UNCHANGED workVars

Held == pc = "polling" /\ poll = "held"

AnswerWork(w) == /\ Held /\ advertised > 0 /\ work[w] = "queued"
                 /\ poll' = "work" /\ item' = w
                 /\ work' = [work EXCEPT ![w] = "sent"]
                 /\ UNCHANGED <<pc, advertised, interruptPoll, pollCtx>>
                 /\ UNCHANGED <<slots, cancels, canceled>>
                 /\ UNCHANGED serverVars

AnswerCancel(w) == /\ Held /\ w \in toCancel
                   /\ poll' = "cancel" /\ item' = w
                   /\ toCancel' = toCancel \ {w}
                   /\ UNCHANGED <<pc, advertised, interruptPoll, pollCtx>>
                   /\ UNCHANGED <<asked, shutdown>> /\ UNCHANGED workVars

AnswerOther == /\ Held
               /\ poll' \in {"empty", "error", "unauthorized"}
               /\ UNCHANGED <<pc, item, advertised, interruptPoll, pollCtx>>
               /\ UNCHANGED workVars /\ UNCHANGED serverVars

\* SIGTERM: rootCtx is done and, with it, the contexts derived from it.
Shutdown == /\ ~shutdown /\ ~Stopped
            /\ shutdown' = TRUE
            /\ pollCtx' = IF pollCtx = "live" THEN "shutdown" ELSE pollCtx
            /\ UNCHANGED <<pc, poll, item, advertised, interruptPoll>>
            /\ UNCHANGED workVars /\ UNCHANGED <<asked, toCancel>>

-----------------------------------------------------------------------------
(* The loop.                                                               *)

LeaveTop == /\ pc = "top" /\ shutdown
            /\ pc' = "drain"
            /\ UNCHANGED pollVars /\ UNCHANGED workVars /\ UNCHANGED serverVars

\* Under mu: read slots into the poll and arm interruptPoll; then send it.
FreeSlotsFloor == IF slots < 1 THEN 1 ELSE slots
FreeSlots == slots
Prepare == /\ pc = "top" /\ ~shutdown
           /\ pc' = "polling" /\ poll' = "held" /\ item' = None
           /\ advertised' = FreeSlots
           /\ interruptPoll' = TRUE /\ pollCtx' = "live"
           /\ UNCHANGED workVars /\ UNCHANGED serverVars

\* clt.Poll returns the answer, even if its context is done by now.
PollReturns == /\ pc = "polling" /\ poll # "held"
               /\ pc' = "returned"
               /\ UNCHANGED pollVars /\ UNCHANGED workVars
               /\ UNCHANGED serverVars

\* clt.Poll fails without an answer; the one on its way, if any, is lost.
PollFails == /\ pc = "polling"
             /\ pc' = "returned" /\ poll' = "error" /\ item' = None
             /\ work' = IF poll = "work" THEN [work EXCEPT ![item] = "lost"]
                                         ELSE work
             /\ UNCHANGED <<advertised, interruptPoll, pollCtx>>
             /\ UNCHANGED <<slots, cancels, canceled>>
             /\ UNCHANGED serverVars

\* A network error or the client's own timeout, and a context that is done.
DropPoll  == pollCtx = "live" /\ PollFails
AbortPoll == pollCtx # "live" /\ PollFails

\* Under mu: interruptPoll = nil. Nobody can interrupt this poll any more, so
\* whether it was interrupted is decided here.
ClearInterrupt ==
  /\ pc = "returned"
  /\ interruptPoll' = FALSE /\ pollCtx' = "none"
  /\ pc' = IF Failed /\ pollCtx = "interrupted" THEN "top" ELSE "handle"
  /\ UNCHANGED <<poll, item, advertised>>
  /\ UNCHANGED workVars /\ UNCHANGED serverVars

HandleError == /\ pc = "handle" /\ Failed
               /\ pc' = IF shutdown THEN "drain"
                        ELSE IF poll = "unauthorized" THEN "fatal" ELSE "backoff"
               /\ UNCHANGED pollVars /\ UNCHANGED workVars
               /\ UNCHANGED serverVars

\* The backoff ends with its timer or with rootCtx.
Backoff == /\ pc = "backoff"
           /\ \/ pc' = "top"
              \/ shutdown /\ pc' = "drain"
           /\ UNCHANGED pollVars /\ UNCHANGED workVars /\ UNCHANGED serverVars

HandleNoWork == /\ pc = "handle" /\ poll = "empty"
                /\ pc' = "top"
                /\ UNCHANGED pollVars /\ UNCHANGED workVars
                /\ UNCHANGED serverVars

\* A cancel item, under mu: look the work up and delete its entry.
HandleCancel == /\ pc = "handle" /\ poll = "cancel"
                /\ cancels' = cancels \ {item}
                /\ pc' = IF item \in cancels THEN "canceling" ELSE "top"
                /\ UNCHANGED pollVars /\ UNCHANGED <<slots, canceled, work>>
                /\ UNCHANGED serverVars

\* ... then, outside mu, call what was found.
CallCancel == /\ pc = "canceling"
              /\ canceled' = canceled \cup {item}
              /\ pc' = "top"
              /\ UNCHANGED pollVars /\ UNCHANGED <<slots, cancels, work>>
              /\ UNCHANGED serverVars

\* A work item: slots.Add(-1), not under mu.
HasWorkOrNil == poll \in {"work", "empty"}
HasWork == poll = "work"
TakeSlot == /\ pc = "handle" /\ HasWork
            /\ slots' = slots - 1
            /\ work' = [work EXCEPT ![item] = "taken"]
            /\ pc' = "dispatch"
            /\ UNCHANGED pollVars /\ UNCHANGED <<cancels, canceled>>
            /\ UNCHANGED serverVars

\* ... then, under mu, register its cancel and start its goroutine.
RegisteredNone(w) == cancels
Registered(w) == cancels \cup {w}
Dispatch == /\ pc = "dispatch"
            /\ cancels' = Registered(item)
            /\ work' = [work EXCEPT ![item] = "running"]
            /\ pc' = "top"
            /\ UNCHANGED pollVars /\ UNCHANGED <<slots, canceled>>
            /\ UNCHANGED serverVars

\* The deferred wg.Wait.
Exit == /\ pc = "drain" /\ Holding = {}
        /\ pc' = "exited"
        /\ UNCHANGED pollVars /\ UNCHANGED workVars /\ UNCHANGED serverVars

-----------------------------------------------------------------------------
(* The goroutine of a work.                                                *)

RunWorkReturns(w) == /\ pc # "fatal" /\ work[w] = "running"
                     /\ work' = [work EXCEPT ![w] = "returned"]
                     /\ UNCHANGED <<pc, slots, cancels, canceled>>
                     /\ UNCHANGED pollVars /\ UNCHANGED serverVars

\* Under mu: delete the entry. The cancel found, if any, is the work's own,
\* and the work is over: calling it changes nothing.
DeletedNone(w) == cancels
Deleted(w) == cancels \ {w}
Unregister(w) == /\ pc # "fatal" /\ work[w] = "returned"
                 /\ cancels' = Deleted(w)
                 /\ work' = [work EXCEPT ![w] = "unregistered"]
                 /\ UNCHANGED <<pc, slots, canceled>>
                 /\ UNCHANGED pollVars /\ UNCHANGED serverVars

\* Under mu: free the slot and, if there was none, interrupt the poll.
WakesPollStale == slots = 1 /\ interruptPoll /\ pollCtx = "live"
WakesPollAlways == interruptPoll /\ pollCtx = "live"
WakesPoll == slots + 1 = 1 /\ interruptPoll /\ pollCtx = "live"
FreeSlotUnlessCanceled(w) ==
  /\ pc # "fatal" /\ work[w] = "unregistered"
  /\ slots' = IF w \in canceled THEN slots ELSE slots + 1
  /\ pollCtx' = IF WakesPoll THEN "interrupted" ELSE pollCtx
  /\ work' = [work EXCEPT ![w] = "done"]
  /\ UNCHANGED <<pc, poll, item, advertised, interruptPoll, cancels, canceled>>
  /\ UNCHANGED serverVars
FreeSlot(w) ==
  /\ pc # "fatal" /\ work[w] = "unregistered"
  /\ slots' = slots + 1
  /\ pollCtx' = IF WakesPoll THEN "interrupted" ELSE pollCtx
  /\ work' = [work EXCEPT ![w] = "done"]
  /\ UNCHANGED <<pc, poll, item, advertised, interruptPoll, cancels, canceled>>
  /\ UNCHANGED serverVars

-----------------------------------------------------------------------------

LoopStep == \/ LeaveTop \/ Prepare \/ PollReturns \/ AbortPoll
            \/ ClearInterrupt \/ HandleError \/ Backoff \/ HandleNoWork
            \/ HandleCancel \/ CallCancel \/ TakeSlot \/ Dispatch \/ Exit

ServerStep == \/ AnswerOther \/ DropPoll
              \/ \E w \in Works : AskCancel(w) \/ AnswerWork(w) \/ AnswerCancel(w)

Goroutine(w) == RunWorkReturns(w) \/ Unregister(w) \/ FreeSlot(w)

Terminated == Stopped /\ UNCHANGED vars

Next == \/ LoopStep \/ ServerStep \/ Shutdown \/ Terminated
        \/ \E w \in Works : Goroutine(w)

\* The scheduler runs the loop and every goroutine that can take a step. A
\* work whose context is done returns: plaklet is sent SIGTERM and killed
\* after a minute, the post-job hook has one minute. Nothing is assumed of
\* the server, the network, or a work nobody cancels.
Fairness == /\ WF_vars(LoopStep)
            /\ \A w \in Works :
                 WF_vars((CtxDone(w) /\ RunWorkReturns(w)) \/ Unregister(w) \/ FreeSlot(w))

Spec == Init /\ [][Next]_vars
FairSpec == Spec /\ Fairness
-----------------------------------------------------------------------------
(* Safety.                                                                 *)

\* Every variable keeps its type; advertised is what a JSON int can carry.
TypeOK ==
  /\ pc \in {"top", "polling", "returned", "handle", "backoff", "canceling",
             "dispatch", "drain", "exited", "fatal"}
  /\ poll \in {"empty", "held", "work", "cancel", "error", "unauthorized"}
  /\ item \in Works \cup {None}
  /\ slots \in Int /\ advertised \in Int
  /\ interruptPoll \in BOOLEAN
  /\ pollCtx \in {"none", "live", "interrupted", "shutdown"}
  /\ cancels \subseteq Works /\ canceled \subseteq Works
  /\ work \in [Works -> Stages]
  /\ asked \subseteq Works /\ toCancel \subseteq Works
  /\ shutdown \in BOOLEAN

\* No slot is lost or made up: a slot is free, or one goroutine holds it,
\* whatever way the work ends (main.go:493 against main.go:510).
SlotsConserved == slots + Cardinality(Holding) = Capacity

\* A work is only taken on a slot that is free, although the answer may have
\* been given to slots advertised long before (main.go:442 against main.go:493).
WithinLimit == Cardinality(Holding) <= Capacity

\* The comment of main.go:430-432: a work ending while a poll is prepared is not
\* missed. A poll sent without a slot is never left to run its hold once a slot
\* is free.
NoMissedWakeup ==
  pc = "polling" /\ advertised = 0 /\ slots > 0 => pollCtx # "live"

\* Interrupting a poll (main.go:510-512) may throw its answer away, and the
\* control plane hands a work out once: no work is in an interrupted poll.
InterruptLosesNoWork == pollCtx = "interrupted" => poll # "work"

\* A work in runWork can be canceled for as long as nobody has: its cancel is in
\* the map, or the loop has taken it out and is about to call it (main.go:479-486).
CancelReaches ==
  \A w \in Works :
    work[w] = "running" /\ w \notin canceled =>
      w \in cancels \/ (pc = "canceling" /\ item = w)

\* No cancel outlives its work in the map, whichever of the cancel item and the
\* end of the work comes first (main.go:482, main.go:502).
NoLeak == \A w \in cancels : work[w] \in {"running", "returned"}

\* "so it can be canceled individually" (main.go:408-409): a cancel item reaches
\* the work it names and no other.
OnlyAsked == canceled \subseteq asked

\* The map has the cancel of a work for as long as it is of use, and no longer.
CancelsTrackWorks == CancelReaches /\ NoLeak

\* "On shutdown the loop waits for running works" (main.go:409-410): pollLoop has
\* returned only when every slot is free and every cancel released.
ExitQuiescent == pc = "exited" => slots = Capacity /\ cancels = {}

-----------------------------------------------------------------------------
(* Liveness, under FairSpec.                                               *)

\* SIGTERM ends pollLoop, whatever the loop, the works and the control plane are
\* doing (main.go:436, 456, 468-472 and runWork's own handling of its context).
ShutdownExits == shutdown ~> Stopped

\* A slot freed under a poll that advertised none is advertised, or the loop
\* stops: the interrupted poll is not waited for (main.go:507-512).
FreedSlotAdvertised ==
  pc = "polling" /\ advertised = 0 /\ slots > 0
    ~> (pc = "polling" /\ advertised > 0) \/ pc \in {"drain", "exited", "fatal"}

\* An edge that runs nothing asks for work, takes what it got, or stops, even when
\* MaxParallel is zero or negative (main.go:428) and whatever polls failed before.
IdleEdgeAsks ==
  Holding = {} ~> \/ pc = "polling" /\ advertised > 0
                  \/ Holding # {}
                  \/ pc \in {"drain", "exited", "fatal"}

\* A cancel item that reaches the loop ends the work it names (main.go:479-491).
CancelEndsWork ==
  \A w \in Works :
    pc = "handle" /\ poll = "cancel" /\ item = w /\ work[w] = "running"
      ~> work[w] = "done" \/ pc = "fatal"

-----------------------------------------------------------------------------
(* Refinement.                                                             *)

Phase(w) == IF w \in Holding THEN "running"
            ELSE IF work[w] \in {"queued", "sent", "lost"} THEN "new"
            ELSE "finished"

WP == INSTANCE WorkPool WITH
        phase <- [w \in Works |-> Phase(w)],
        open  <- pc \notin {"drain", "exited", "fatal"}

\* pollLoop keeps the promises of WorkPool: at most Capacity works at a time,
\* each at most once, none started once the loop has stopped (main.go:405-410).
ImplementsWorkPool == WP!Spec
=============================================================================
