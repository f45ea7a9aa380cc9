--------------------------- MODULE RunWorkProofs ---------------------------
(***************************************************************************)
(* Proofs about RunWork: the control plane gets at most one terminal       *)
(* reply, a truthful one, and nothing after it; the post-job hook follows  *)
(* a pre-job hook that went well; and nothing outlives runWork.            *)
(*                                                                         *)
(* Three threads post. That none is late rests on what each says of itself *)
(* (KeepAliveQuiet, StreamerQuiet, MainSays), and on the order in which    *)
(* runWork waits for the others. That the reply is truthful rests on the   *)
(* order of the stages (Flow).                                             *)
(***************************************************************************)
EXTENDS RunWork, TLAPS

Ending == {"report", "last", "replied", "returned"}
Over == Ending \cup {"closing"}
Told == {"replied", "returned"}

\* The jobs that ended by the time a stage is reached.
Flow ==
  /\ stage = "fetch" => res.pre = "no" /\ res.post = "no"
  /\ stage = "pre" => res.fetch = "ok" /\ res.post = "no"
  /\ stage \in {"spawn", "feed", "reap", "pump", "wait", "post"} =>
       res.fetch = "ok" /\ res.pre = "ok"
  /\ stage \in Over => (res.post # "no" <=> res.pre = "ok")
  /\ res.pre # "no" => res.fetch = "ok"

\* The processes that may run at a stage.
Processes ==
  /\ stage \in {"fetch", "pre", "spawn"} => plaklet = "no"
  /\ stage \in {"post"} \cup Over => plaklet # "running"
  /\ stage \in {"fetch", "spawn"} \cup Over => ~heir
  /\ stage \in Jobs /\ res[stage] # "no" => ~heir
  /\ out \in Terminals => terminal = "none"

KeepAliveQuiet ==
  /\ sending["keepalive"] \in {"none", "info"}
  /\ ka \in {"started", "waiting", "off"} => Free("keepalive")
  /\ stage \notin Jobs => ka = "off"

\* Close flushes once the streamer is done, and nothing of runWork is on its way then.
StreamerQuiet ==
  /\ sending["logs"] \in {"none", "log"}
  /\ streamer = "done" => Free("logs")
  /\ stage = "closing" /\ ~Free("main") => streamer = "done"
  /\ stage \in Ending => streamer = "done"

MainSays ==
  /\ stage \notin Told => posts = 0
  /\ stage \in Told => posts <= 1 /\ (~ctxDone => posts = 1)
  /\ sending["main"] \in Terminals => stage = "replied"
  /\ ~Free("main") => stage \in {"pump", "closing", "last", "replied"}

\* What a terminal reply must say.
Success == terminal = "success" /\ \A j \in Jobs : res[j] = "ok"

Reply ==
  /\ sending["main"] \in Terminals => (sending["main"] = "success" <=> Success)
  /\ status # "open" => stage \in Told /\ Free("main") /\ (status = "success" <=> Success)
  /\ ~late

Progress == Flow /\ Processes
Posting == KeepAliveQuiet /\ StreamerQuiet /\ MainSays /\ Reply

IInv == TypeOK /\ Progress /\ Posting

-----------------------------------------------------------------------------
(* Type correctness and the order of the stages.                           *)

\* Every step keeps the types.
LEMMA NextType == TypeOK /\ MainSays /\ [Next]_vars => TypeOK'
<1> SUFFICES ASSUME TypeOK, MainSays, [Next]_vars PROVE TypeOK'
  OBVIOUS
<1> USE DEF TypeOK, Jobs, Stages, Senders, Terminals, Kinds, Free, mainVars, procVars, kaVars, logVars, serverVars
<1>1. ASSUME NEW s \in Senders, Deliver(s) PROVE TypeOK'
  <2>1. sending' \in [Senders -> Kinds \cup {"none"}]
    BY <1>1 DEF Deliver
  <2>2. status' \in Terminals \cup {"open"} /\ late' \in BOOLEAN
    BY <1>1 DEF Deliver
  <2>. QED
    BY <1>1, <2>1, <2>2 DEF Deliver
<1>2. ASSUME NEW s \in Senders, Lose(s) PROVE TypeOK' BY <1>2 DEF Lose
<1>3. CASE Cancel BY <1>3 DEF Cancel
<1>4. CASE KeepAlivePost BY <1>4 DEF KeepAlivePost, Post
<1>5. CASE KeepAliveNext BY <1>5 DEF KeepAliveNext
<1>6. CASE Fork BY <1>6 DEF Fork, HookRuns
<1>7. CASE HeirExits
  <2>1. heir' \in BOOLEAN
    BY <1>7 DEF HeirExits
  <2>. QED
    BY <1>7, <2>1 DEF HeirExits
<1>8. CASE WriteLog BY <1>8 DEF WriteLog, HookRuns
<1>9. ASSUME NEW kind \in (Kinds \ {"log"}) \cup {"garbage"}, Prints(kind)
      PROVE  TypeOK'
  BY <1>9 DEF Prints
<1>10. CASE PlakletExits BY <1>10 DEF PlakletExits
<1>11. CASE Flush BY <1>11 DEF Flush, Post
<1>12. CASE StreamerExits BY <1>12 DEF StreamerExits
<1>13. CASE JobEnds BY <1>13 DEF JobEnds
<1>14. CASE JobDone
  <2>1. stage' \in Stages
    BY <1>14 DEF JobDone, AfterJob
  <2>2. ka' \in {"started", "off"} /\ kaStop' \in BOOLEAN
    BY <1>14 DEF JobDone, AfterJob, StartsKeepAlive, StopReturns
  <2>. QED
    BY <1>14, <2>1, <2>2 DEF JobDone
<1>15. CASE Spawn
  <2>1. stage' \in Stages /\ plaklet' \in {"no", "running", "exited"}
    BY <1>15 DEF Spawn
  <2>2. ka' \in {"started", ka} /\ kaStop' \in BOOLEAN
    BY <1>15 DEF Spawn, StartsKeepAlive
  <2>. QED
    BY <1>15, <2>1, <2>2 DEF Spawn
<1>16. CASE Feed BY <1>16 DEF Feed, Goto
<1>17. CASE FeedFails BY <1>17 DEF FeedFails, Goto
<1>18. CASE Decode BY <1>18 DEF Decode, HeldBack, AfterTerminal, PostCounted, Post
<1>19. CASE DecodeFails BY <1>19 DEF DecodeFails, AfterPump
<1>20. CASE PumpEOF BY <1>20 DEF PumpEOF, Goto
<1>21. CASE Wait BY <1>21 DEF Wait, StartsKeepAlive
<1>22. CASE CloseStops BY <1>22 DEF CloseStops
<1>23. CASE CloseFlushes
  <2>1. sending' \in [Senders -> Kinds \cup {"none"}]
    BY <1>23 DEF CloseFlushes, Post
  <2>2. buffered' \in BOOLEAN /\ stage' \in Stages
    BY <1>23 DEF CloseFlushes
  <2>. QED
    BY <1>23, <2>1, <2>2 DEF CloseFlushes
<1>24. CASE Report BY <1>24 DEF Report, ReportKind, PostCounted, Post
<1>25. CASE Last BY <1>25 DEF Last, Outcome, PostCounted, Post
<1>26. CASE Return BY <1>26 DEF Return, Goto
<1>27. CASE UNCHANGED vars BY <1>27 DEF vars
<1>. QED
  BY <1>1, <1>2, <1>3, <1>4, <1>5, <1>6, <1>7, <1>8, <1>9, <1>10, <1>11, <1>12,
     <1>13, <1>14, <1>15, <1>16, <1>17, <1>18, <1>19, <1>20, <1>21, <1>22,
     <1>23, <1>24, <1>25, <1>26, <1>27
  DEF Next, MainStep, Process, Terminated

\* The stages come in their order.
LEMMA NextFlow == TypeOK /\ Flow /\ MainSays /\ [Next]_vars => Flow'
<1> SUFFICES ASSUME TypeOK, Flow, MainSays, [Next]_vars PROVE Flow'
  OBVIOUS
<1> USE DEF TypeOK, Flow, Over, Ending, Jobs, Stages, Senders, Terminals, Kinds, mainVars, procVars, kaVars, logVars, serverVars
<1>1. ASSUME NEW s \in Senders, Deliver(s) PROVE Flow' BY <1>1 DEF Deliver
<1>2. ASSUME NEW s \in Senders, Lose(s) PROVE Flow' BY <1>2 DEF Lose
<1>3. CASE Cancel BY <1>3 DEF Cancel
<1>4. CASE KeepAlivePost BY <1>4 DEF KeepAlivePost, Post
<1>5. CASE KeepAliveNext BY <1>5 DEF KeepAliveNext
<1>6. CASE Fork BY <1>6 DEF Fork, HookRuns
<1>7. CASE HeirExits BY <1>7 DEF HeirExits
<1>8. CASE WriteLog BY <1>8 DEF WriteLog, HookRuns
<1>9. ASSUME NEW kind \in (Kinds \ {"log"}) \cup {"garbage"}, Prints(kind)
      PROVE  Flow'
  BY <1>9 DEF Prints
<1>10. CASE PlakletExits BY <1>10 DEF PlakletExits
<1>11. CASE Flush BY <1>11 DEF Flush, Post
<1>12. CASE StreamerExits BY <1>12 DEF StreamerExits
<1>13. CASE JobEnds BY <1>13 DEF JobEnds
<1>14. CASE JobDone BY <1>14 DEF JobDone, AfterJob, StartsKeepAlive, StopReturns
<1>15. CASE Spawn BY <1>15 DEF Spawn, StartsKeepAlive
<1>16. CASE Feed BY <1>16 DEF Feed, Goto
<1>17. CASE FeedFails BY <1>17 DEF FeedFails, Goto
<1>18. CASE Decode BY <1>18 DEF Decode, HeldBack, AfterTerminal, PostCounted, Post
<1>19. CASE DecodeFails BY <1>19 DEF DecodeFails, AfterPump
<1>20. CASE PumpEOF BY <1>20 DEF PumpEOF, Goto
<1>21. CASE Wait BY <1>21 DEF Wait, StartsKeepAlive
<1>22. CASE CloseStops BY <1>22 DEF CloseStops
<1>23. CASE CloseFlushes BY <1>23 DEF CloseFlushes, CanFlush, Post
<1>24. CASE Report BY <1>24 DEF Report, ReportKind, PostCounted, Post
<1>25. CASE Last BY <1>25 DEF Last, Outcome, PostCounted, Post
<1>26. CASE Return BY <1>26 DEF Return, Goto
<1>27. CASE UNCHANGED vars BY <1>27 DEF vars
<1>. QED
  BY <1>1, <1>2, <1>3, <1>4, <1>5, <1>6, <1>7, <1>8, <1>9, <1>10, <1>11, <1>12,
     <1>13, <1>14, <1>15, <1>16, <1>17, <1>18, <1>19, <1>20, <1>21, <1>22,
     <1>23, <1>24, <1>25, <1>26, <1>27
  DEF Next, MainStep, Process, Terminated

\* The processes run when they may.
LEMMA NextProcesses == TypeOK /\ Processes /\ [Next]_vars => Processes'
<1> SUFFICES ASSUME TypeOK, Processes, [Next]_vars PROVE Processes'
  OBVIOUS
<1> USE DEF TypeOK, Processes, Over, Ending, Jobs, Stages, Senders, Terminals, Kinds, mainVars, procVars, kaVars, logVars, serverVars
<1>1. ASSUME NEW s \in Senders, Deliver(s) PROVE Processes' BY <1>1 DEF Deliver
<1>2. ASSUME NEW s \in Senders, Lose(s) PROVE Processes' BY <1>2 DEF Lose
<1>3. CASE Cancel BY <1>3 DEF Cancel
<1>4. CASE KeepAlivePost BY <1>4 DEF KeepAlivePost, Post
<1>5. CASE KeepAliveNext BY <1>5 DEF KeepAliveNext
<1>6. CASE Fork BY <1>6 DEF Fork, HookRuns
<1>7. CASE HeirExits BY <1>7 DEF HeirExits
<1>8. CASE WriteLog BY <1>8 DEF WriteLog, HookRuns
<1>9. ASSUME NEW kind \in (Kinds \ {"log"}) \cup {"garbage"}, Prints(kind)
      PROVE  Processes'
  BY <1>9 DEF Prints
<1>10. CASE PlakletExits BY <1>10 DEF PlakletExits
<1>11. CASE Flush BY <1>11 DEF Flush, Post
<1>12. CASE StreamerExits BY <1>12 DEF StreamerExits
<1>13. CASE JobEnds BY <1>13 DEF JobEnds
<1>14. CASE JobDone BY <1>14 DEF JobDone, AfterJob, StartsKeepAlive, StopReturns
<1>15. CASE Spawn BY <1>15 DEF Spawn, StartsKeepAlive
<1>16. CASE Feed BY <1>16 DEF Feed, Goto
<1>17. CASE FeedFails BY <1>17 DEF FeedFails, Goto
<1>18. CASE Decode BY <1>18 DEF Decode, HeldBack, AfterTerminal, PostCounted, Post
<1>19. CASE DecodeFails BY <1>19 DEF DecodeFails, AfterPump
<1>20. CASE PumpEOF BY <1>20 DEF PumpEOF, Goto
<1>21. CASE Wait BY <1>21 DEF Wait, StartsKeepAlive
<1>22. CASE CloseStops BY <1>22 DEF CloseStops
<1>23. CASE CloseFlushes BY <1>23 DEF CloseFlushes, CanFlush, Post
<1>24. CASE Report BY <1>24 DEF Report, ReportKind, PostCounted, Post
<1>25. CASE Last BY <1>25 DEF Last, Outcome, PostCounted, Post
<1>26. CASE Return BY <1>26 DEF Return, Goto
<1>27. CASE UNCHANGED vars BY <1>27 DEF vars
<1>. QED
  BY <1>1, <1>2, <1>3, <1>4, <1>5, <1>6, <1>7, <1>8, <1>9, <1>10, <1>11, <1>12,
     <1>13, <1>14, <1>15, <1>16, <1>17, <1>18, <1>19, <1>20, <1>21, <1>22,
     <1>23, <1>24, <1>25, <1>26, <1>27
  DEF Next, MainStep, Process, Terminated

-----------------------------------------------------------------------------
(* Who posts when.                                                         *)

\* The keepalive goroutine posts only while the stage that started it lasts.
LEMMA NextKeepAlive == TypeOK /\ KeepAliveQuiet /\ [Next]_vars => KeepAliveQuiet'
<1> SUFFICES ASSUME TypeOK, KeepAliveQuiet, [Next]_vars PROVE KeepAliveQuiet'
  OBVIOUS
<1> USE DEF TypeOK, KeepAliveQuiet, Jobs, Senders, Free, mainVars, procVars, kaVars, logVars, serverVars
<1>1. ASSUME NEW s \in Senders, Deliver(s) PROVE KeepAliveQuiet'
  BY <1>1 DEF Deliver
<1>2. ASSUME NEW s \in Senders, Lose(s) PROVE KeepAliveQuiet'
  BY <1>2 DEF Lose
<1>3. CASE Cancel BY <1>3 DEF Cancel
<1>4. CASE KeepAlivePost BY <1>4 DEF KeepAlivePost, Post
<1>5. CASE KeepAliveNext BY <1>5 DEF KeepAliveNext
<1>6. CASE Fork BY <1>6 DEF Fork, HookRuns
<1>7. CASE HeirExits BY <1>7 DEF HeirExits
<1>8. CASE WriteLog BY <1>8 DEF WriteLog, HookRuns
<1>9. ASSUME NEW kind \in (Kinds \ {"log"}) \cup {"garbage"}, Prints(kind)
      PROVE  KeepAliveQuiet'
  BY <1>9 DEF Prints
<1>10. CASE PlakletExits BY <1>10 DEF PlakletExits
<1>11. CASE Flush BY <1>11 DEF Flush, Post
<1>12. CASE StreamerExits BY <1>12 DEF StreamerExits
<1>13. CASE JobEnds BY <1>13 DEF JobEnds
<1>14. CASE JobDone BY <1>14 DEF JobDone, AfterJob, StartsKeepAlive, StopReturns
<1>15. CASE Spawn BY <1>15 DEF Spawn, StartsKeepAlive
<1>16. CASE Feed BY <1>16 DEF Feed, Goto
<1>17. CASE FeedFails BY <1>17 DEF FeedFails, Goto
<1>18. CASE Decode BY <1>18 DEF Decode, HeldBack, AfterTerminal, PostCounted, Post
<1>19. CASE DecodeFails BY <1>19 DEF DecodeFails, AfterPump
<1>20. CASE PumpEOF BY <1>20 DEF PumpEOF, Goto
<1>21. CASE Wait BY <1>21 DEF Wait, StartsKeepAlive
<1>22. CASE CloseStops BY <1>22 DEF CloseStops
<1>23. CASE CloseFlushes BY <1>23 DEF CloseFlushes, CanFlush, Post
<1>24. CASE Report BY <1>24 DEF Report, ReportKind, PostCounted, Post
<1>25. CASE Last BY <1>25 DEF Last, Outcome, PostCounted, Post
<1>26. CASE Return BY <1>26 DEF Return, Goto
<1>27. CASE UNCHANGED vars BY <1>27 DEF vars
<1>. QED
  BY <1>1, <1>2, <1>3, <1>4, <1>5, <1>6, <1>7, <1>8, <1>9, <1>10, <1>11, <1>12,
     <1>13, <1>14, <1>15, <1>16, <1>17, <1>18, <1>19, <1>20, <1>21, <1>22,
     <1>23, <1>24, <1>25, <1>26, <1>27
  DEF Next, MainStep, Process, Terminated

\* The streamer has posted its last chunk when it is done, which it is at the end.
LEMMA NextStreamer == TypeOK /\ StreamerQuiet /\ MainSays /\ [Next]_vars => StreamerQuiet'
<1> SUFFICES ASSUME TypeOK, StreamerQuiet, MainSays, [Next]_vars PROVE StreamerQuiet'
  OBVIOUS
<1> USE DEF TypeOK, StreamerQuiet, MainSays, Ending, Jobs, Senders, Free, mainVars, procVars, kaVars, logVars, serverVars
<1>1. ASSUME NEW s \in Senders, Deliver(s) PROVE StreamerQuiet'
  BY <1>1 DEF Deliver
<1>2. ASSUME NEW s \in Senders, Lose(s) PROVE StreamerQuiet'
  BY <1>2 DEF Lose
<1>3. CASE Cancel BY <1>3 DEF Cancel
<1>4. CASE KeepAlivePost BY <1>4 DEF KeepAlivePost, Post
<1>5. CASE KeepAliveNext BY <1>5 DEF KeepAliveNext
<1>6. CASE Fork BY <1>6 DEF Fork, HookRuns
<1>7. CASE HeirExits BY <1>7 DEF HeirExits
<1>8. CASE WriteLog BY <1>8 DEF WriteLog, HookRuns
<1>9. ASSUME NEW kind \in (Kinds \ {"log"}) \cup {"garbage"}, Prints(kind)
      PROVE  StreamerQuiet'
  BY <1>9 DEF Prints
<1>10. CASE PlakletExits BY <1>10 DEF PlakletExits
<1>11. CASE Flush BY <1>11 DEF Flush, Post
<1>12. CASE StreamerExits BY <1>12 DEF StreamerExits
<1>13. CASE JobEnds BY <1>13 DEF JobEnds
<1>14. CASE JobDone BY <1>14 DEF JobDone, AfterJob, StartsKeepAlive, StopReturns
<1>15. CASE Spawn BY <1>15 DEF Spawn, StartsKeepAlive
<1>16. CASE Feed BY <1>16 DEF Feed, Goto
<1>17. CASE FeedFails BY <1>17 DEF FeedFails, Goto
<1>18. CASE Decode BY <1>18 DEF Decode, HeldBack, AfterTerminal, PostCounted, Post
<1>19. CASE DecodeFails BY <1>19 DEF DecodeFails, AfterPump
<1>20. CASE PumpEOF BY <1>20 DEF PumpEOF, Goto
<1>21. CASE Wait BY <1>21 DEF Wait, StartsKeepAlive
<1>22. CASE CloseStops BY <1>22 DEF CloseStops
<1>23. CASE CloseFlushes BY <1>23 DEF CloseFlushes, CanFlush, Post
<1>24. CASE Report BY <1>24 DEF Report, ReportKind, PostCounted, Post
<1>25. CASE Last BY <1>25 DEF Last, Outcome, PostCounted, Post
<1>26. CASE Return BY <1>26 DEF Return, Goto
<1>27. CASE UNCHANGED vars BY <1>27 DEF vars
<1>. QED
  BY <1>1, <1>2, <1>3, <1>4, <1>5, <1>6, <1>7, <1>8, <1>9, <1>10, <1>11, <1>12,
     <1>13, <1>14, <1>15, <1>16, <1>17, <1>18, <1>19, <1>20, <1>21, <1>22,
     <1>23, <1>24, <1>25, <1>26, <1>27
  DEF Next, MainStep, Process, Terminated

\* runWork posts a terminal reply in the end, and no sooner.
LEMMA NextMain == TypeOK /\ MainSays /\ Processes /\ [Next]_vars => MainSays'
<1> SUFFICES ASSUME TypeOK, MainSays, Processes, [Next]_vars PROVE MainSays'
  OBVIOUS
<1> USE DEF TypeOK, MainSays, Processes, Told, Jobs, Terminals, Senders, Free, mainVars, procVars, kaVars, logVars, serverVars
<1>1. ASSUME NEW s \in Senders, Deliver(s) PROVE MainSays'
  BY <1>1 DEF Deliver
<1>2. ASSUME NEW s \in Senders, Lose(s) PROVE MainSays'
  BY <1>2 DEF Lose
<1>3. CASE Cancel BY <1>3 DEF Cancel
<1>4. CASE KeepAlivePost BY <1>4 DEF KeepAlivePost, Post
<1>5. CASE KeepAliveNext BY <1>5 DEF KeepAliveNext
<1>6. CASE Fork BY <1>6 DEF Fork, HookRuns
<1>7. CASE HeirExits BY <1>7 DEF HeirExits
<1>8. CASE WriteLog BY <1>8 DEF WriteLog, HookRuns
<1>9. ASSUME NEW kind \in (Kinds \ {"log"}) \cup {"garbage"}, Prints(kind)
      PROVE  MainSays'
  BY <1>9 DEF Prints
<1>10. CASE PlakletExits BY <1>10 DEF PlakletExits
<1>11. CASE Flush BY <1>11 DEF Flush, Post
<1>12. CASE StreamerExits BY <1>12 DEF StreamerExits
<1>13. CASE JobEnds BY <1>13 DEF JobEnds
<1>14. CASE JobDone BY <1>14 DEF JobDone, AfterJob, StartsKeepAlive, StopReturns
<1>15. CASE Spawn BY <1>15 DEF Spawn, StartsKeepAlive
<1>16. CASE Feed BY <1>16 DEF Feed, Goto
<1>17. CASE FeedFails BY <1>17 DEF FeedFails, Goto
<1>18. CASE Decode BY <1>18 DEF Decode, HeldBack, AfterTerminal, PostCounted, Post
<1>19. CASE DecodeFails BY <1>19 DEF DecodeFails, AfterPump
<1>20. CASE PumpEOF BY <1>20 DEF PumpEOF, Goto
<1>21. CASE Wait BY <1>21 DEF Wait, StartsKeepAlive
<1>22. CASE CloseStops BY <1>22 DEF CloseStops
<1>23. CASE CloseFlushes BY <1>23 DEF CloseFlushes, CanFlush, Post
<1>24. CASE Report BY <1>24 DEF Report, ReportKind, PostCounted, Post
<1>25. CASE Last BY <1>25 DEF Last, Outcome, PostCounted, Post
<1>26. CASE Return BY <1>26 DEF Return, Goto
<1>27. CASE UNCHANGED vars BY <1>27 DEF vars
<1>. QED
  BY <1>1, <1>2, <1>3, <1>4, <1>5, <1>6, <1>7, <1>8, <1>9, <1>10, <1>11, <1>12,
     <1>13, <1>14, <1>15, <1>16, <1>17, <1>18, <1>19, <1>20, <1>21, <1>22,
     <1>23, <1>24, <1>25, <1>26, <1>27
  DEF Next, MainStep, Process, Terminated

\* What the control plane is told, and that it is told nothing later.
LEMMA NextReply == IInv /\ [Next]_vars => Reply'
<1> SUFFICES ASSUME IInv, [Next]_vars PROVE Reply'
  OBVIOUS
<1> USE DEF IInv, TypeOK, Progress, Posting, Flow, KeepAliveQuiet, StreamerQuiet, MainSays, Reply, Success, Ending, Over, Told, Jobs, Terminals, Senders, Free, mainVars, procVars, kaVars, logVars, serverVars
<1>1. ASSUME NEW s \in Senders, Deliver(s) PROVE Reply'
  BY <1>1 DEF Deliver
<1>2. ASSUME NEW s \in Senders, Lose(s) PROVE Reply'
  BY <1>2 DEF Lose
<1>3. CASE Cancel BY <1>3 DEF Cancel
<1>4. CASE KeepAlivePost BY <1>4 DEF KeepAlivePost, Post
<1>5. CASE KeepAliveNext BY <1>5 DEF KeepAliveNext
<1>6. CASE Fork BY <1>6 DEF Fork, HookRuns
<1>7. CASE HeirExits BY <1>7 DEF HeirExits
<1>8. CASE WriteLog BY <1>8 DEF WriteLog, HookRuns
<1>9. ASSUME NEW kind \in (Kinds \ {"log"}) \cup {"garbage"}, Prints(kind)
      PROVE  Reply'
  BY <1>9 DEF Prints
<1>10. CASE PlakletExits BY <1>10 DEF PlakletExits
<1>11. CASE Flush BY <1>11 DEF Flush, Post
<1>12. CASE StreamerExits BY <1>12 DEF StreamerExits
<1>13. CASE JobEnds BY <1>13 DEF JobEnds
<1>14. CASE JobDone BY <1>14 DEF JobDone, AfterJob, StartsKeepAlive, StopReturns
<1>15. CASE Spawn BY <1>15 DEF Spawn, StartsKeepAlive
<1>16. CASE Feed BY <1>16 DEF Feed, Goto
<1>17. CASE FeedFails BY <1>17 DEF FeedFails, Goto
<1>18. CASE Decode
  <2>1. stage = "pump" /\ stage' \notin Told /\ status' = status /\ late' = late
    BY <1>18 DEF Decode, AfterTerminal
  <2>2. status' = "open" /\ ~late'
    BY <2>1
  <2>3. sending'["main"] \notin Terminals
    <3>1. sending["main"] = "none"
      BY <1>18 DEF Decode
    <3>2. CASE out \in Terminals
      BY <1>18, <3>1, <3>2 DEF Decode, HeldBack, Processes
    <3>3. CASE out \notin Terminals
      BY <1>18, <3>1, <3>3 DEF Decode, HeldBack, PostCounted, Post
    <3>. QED
      BY <3>2, <3>3
  <2>. QED
    BY <2>2, <2>3
<1>19. CASE DecodeFails BY <1>19 DEF DecodeFails, AfterPump
<1>20. CASE PumpEOF BY <1>20 DEF PumpEOF, Goto
<1>21. CASE Wait BY <1>21 DEF Wait, StartsKeepAlive
<1>22. CASE CloseStops BY <1>22 DEF CloseStops
<1>23. CASE CloseFlushes BY <1>23 DEF CloseFlushes, CanFlush, Post
<1>24. CASE Report BY <1>24 DEF Report, ReportKind, PostCounted, Post
<1>25. CASE Last BY <1>25 DEF Last, Outcome, PostCounted, Post
<1>26. CASE Return BY <1>26 DEF Return, Goto
<1>27. CASE UNCHANGED vars BY <1>27 DEF vars
<1>. QED
  BY <1>1, <1>2, <1>3, <1>4, <1>5, <1>6, <1>7, <1>8, <1>9, <1>10, <1>11, <1>12,
     <1>13, <1>14, <1>15, <1>16, <1>17, <1>18, <1>19, <1>20, <1>21, <1>22,
     <1>23, <1>24, <1>25, <1>26, <1>27
  DEF Next, MainStep, Process, Terminated

\* Of a work that begins nothing was posted, and no process runs.
LEMMA InitInv == Init => IInv
<1> SUFFICES ASSUME Init PROVE IInv
  OBVIOUS
<1> USE DEF Init, Jobs, Senders, Terminals, Kinds, Free
<1>1. TypeOK
  <2>1. kaStop \in BOOLEAN /\ buffered \in BOOLEAN /\ heir \in BOOLEAN /\ late \in BOOLEAN
    OBVIOUS
  <2>. QED
    BY <2>1 DEF TypeOK, Stages
<1>2. Progress
  BY DEF Progress, Flow, Processes, Over, Ending
<1>3. Posting
  BY DEF Posting, KeepAliveQuiet, StreamerQuiet, MainSays, Reply, Ending, Told
<1>. QED
  BY <1>1, <1>2, <1>3 DEF IInv

\* The invariant every theorem of this module rests on.
THEOREM Invariance == Spec => []IInv
<1>1. IInv /\ [Next]_vars => IInv'
  BY NextType, NextFlow, NextProcesses, NextKeepAlive, NextStreamer, NextMain, NextReply
  DEF IInv, Progress, Posting
<1>. QED
  BY InitInv, <1>1, PTL DEF Spec

-----------------------------------------------------------------------------

\* Every variable keeps its type.
THEOREM WorkTypeCorrect == Spec => []TypeOK
<1>1. IInv => TypeOK
  BY DEF IInv
<1>. QED
  BY Invariance, <1>1, PTL

\* A work posts at most one terminal reply, and one if it is not canceled, whatever
\* failed on the way (run.go:52-53).
THEOREM OneTerminalReply == Spec => []OneTerminal
<1>1. IInv => OneTerminal
  BY DEF IInv, Posting, MainSays, Told, TypeOK, OneTerminal
<1>. QED
  BY Invariance, <1>1, PTL

\* None of the three senders posts after the terminal reply (run.go:59-60).
THEOREM TerminalReplyIsLast == Spec => []NothingLate
<1>1. IInv => NothingLate
  BY DEF IInv, Posting, Reply, NothingLate
<1>. QED
  BY Invariance, <1>1, PTL

\* The control plane is told "success" of a work all of whose parts went well, and of
\* no other (run.go:125-146).
THEOREM TerminalReplyIsTruthful == Spec => []Truthful
<1>1. IInv => Truthful
  BY DEF IInv, Posting, Reply, Success, Truthful
<1>. QED
  BY Invariance, <1>1, PTL

\* What a pre-job hook did is undone, after plaklet is gone (run.go:86-106).
THEOREM PostHookFollows == Spec => []PostHookUndoes
<1>1. IInv => PostHookUndoes
  BY DEF IInv, Progress, Flow, Processes, Over, Ending, PostHookUndoes
<1>. QED
  BY Invariance, <1>1, PTL

\* Nobody outlives runWork: no plaklet, no descendant that holds a pipe of its, no
\* goroutine and no post, whatever failed, the write of the payload included
\* (run.go:44-47, 63, 268-272, 319; logstream.go:86-92).
THEOREM WorkLeavesNothing == Spec => []NothingLeft
<1>1. IInv => NothingLeft
  BY DEF IInv, Progress, Posting, Processes, KeepAliveQuiet, StreamerQuiet, MainSays,
         Over, Ending, Jobs, Senders, NothingLeft
<1>. QED
  BY Invariance, <1>1, PTL
=============================================================================
