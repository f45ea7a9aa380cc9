------------------------------ MODULE SSHAgent ------------------------------
(***************************************************************************)
(* startSSHAgent (sshagent.go): main starts an ssh-agent and waits for its *)
(* socket, while a supervisor goroutine restarts the agent when it dies    *)
(* and removes its directory in the end. The process of the agent outlives *)
(* the edge when nobody stops it.                                          *)
(*                                                                         *)
(* The module has no behaviour of its own: Edge composes it with Daemon,   *)
(* which gives it the state of the process and of its context. Each boot   *)
(* has a directory of its own, so what an earlier boot left is of no       *)
(* consequence to this one and is forgotten.                               *)
(***************************************************************************)

VARIABLES
  up,        \* the edge's process runs (read only)
  called,    \* main is in startSSHAgent (read only)
  ctxDone,   \* rootCtx is done (read only)
  starter,   \* main, in startSSHAgent
  sup,       \* the supervisor goroutine
  agent,     \* the process: "no", "starting", "serving", or "told" to end
  sock,      \* there is a socket
  dir,       \* there is a directory
  exited     \* the channel is closed: the first agent died

agentVars == <<starter, sup, agent, sock, dir, exited>>
fileVars == <<sock, dir>>

Fresh == /\ starter = "idle" /\ sup = "off" /\ agent = "no"
         /\ sock = FALSE /\ dir = FALSE /\ exited = FALSE

\* A new process knows nothing of the agent of another.
NewProcess == /\ starter' = "idle" /\ sup' = "off" /\ agent' = "no"
              /\ sock' = FALSE /\ dir' = FALSE /\ exited' = FALSE

\* What main gets: cfg.SSHAuthSock is set, or is not.
Returned == starter \in {"found", "failed"}

-----------------------------------------------------------------------------
(* main.                                                                   *)

\* LookPath and MkdirTemp, which may fail.
MakeDir == /\ called /\ starter = "idle"
           /\ \/ starter' = "start" /\ dir' = TRUE
              \/ starter' = "failed" /\ UNCHANGED dir
           /\ UNCHANGED <<sup, agent, sock, exited>>

\* cmd.Start refuses a context that is done, and may fail.
Start == /\ called /\ starter = "start"
         /\ \/ /\ ~ctxDone
               /\ starter' = "stat" /\ sup' = "wait" /\ agent' = "starting"
               /\ UNCHANGED dir
            \/ starter' = "failed" /\ dir' = FALSE /\ UNCHANGED <<sup, agent>>
         /\ UNCHANGED <<sock, exited>>

Look == /\ called /\ starter = "stat"
        /\ starter' = IF sock THEN "found" ELSE "select"
        /\ UNCHANGED <<sup, agent, fileVars, exited>>

\* The select: time passes, and then there is another look or the deadline is
\* over; or the first agent died, or the context is done.
Again == /\ called /\ starter = "select" /\ starter' = "stat"
         /\ UNCHANGED <<sup, agent, fileVars, exited>>

DeadlineNever == exited \/ ctxDone
Deadline == TRUE
GiveUp == /\ called /\ starter = "select" /\ Deadline
          /\ starter' = "failed"
          /\ UNCHANGED <<sup, agent, fileVars, exited>>

-----------------------------------------------------------------------------
(* The supervisor.                                                         *)

AfterWait == IF ctxDone THEN "leave" ELSE "sleep"
SupWait == /\ up /\ sup = "wait" /\ agent = "no"
           /\ exited' = TRUE
           /\ sup' = AfterWait
           /\ UNCHANGED <<starter, agent, fileVars>>

SupSleep == /\ up /\ sup = "sleep"
            /\ sup' = IF ctxDone THEN "leave" ELSE "restart"
            /\ UNCHANGED <<starter, agent, fileVars, exited>>

\* mkcmd removes the socket a killed agent left behind, then the agent is started
\* again. An agent that cannot be started is not tried again.
StaleKept == sock
Stale == FALSE
SupRestart == /\ up /\ sup = "restart"
              /\ sock' = Stale
              /\ \/ ~ctxDone /\ sup' = "wait" /\ agent' = "starting"
                 \/ sup' = "leave" /\ UNCHANGED agent
              /\ UNCHANGED <<starter, dir, exited>>

\* os.RemoveAll, whatever the reason to leave.
CleanUpNothing == UNCHANGED fileVars
CleanUp == sock' = FALSE /\ dir' = FALSE
SupLeave == /\ up /\ sup = "leave" /\ sup' = "done"
            /\ CleanUp
            /\ UNCHANGED <<starter, agent, exited>>

\* The goroutine of exec sends SIGTERM when the context is done.
Signal == /\ up /\ ctxDone /\ agent \in {"starting", "serving"}
          /\ agent' = "told"
          /\ UNCHANGED <<starter, sup, fileVars, exited>>

-----------------------------------------------------------------------------
(* The process of the agent. It refuses to bind over a socket. It removes  *)
(* its socket when it ends by itself, and leaves it when it is killed.     *)

Bind == /\ agent = "starting"
        /\ agent' = IF sock THEN "no" ELSE "serving"
        /\ sock' = TRUE
        /\ UNCHANGED <<starter, sup, dir, exited>>

Quit == /\ agent # "no" /\ agent' = "no"
        /\ sock' = (sock /\ agent = "starting")
        /\ UNCHANGED <<starter, sup, dir, exited>>

Killed == /\ agent # "no" /\ agent' = "no"
          /\ UNCHANGED <<starter, sup, fileVars, exited>>

-----------------------------------------------------------------------------

MainStep == MakeDir \/ Start \/ Look
Supervise == SupWait \/ SupSleep \/ SupRestart \/ SupLeave \/ Signal
AgentStep == Bind \/ Quit \/ Killed

AgentNext == MainStep \/ Again \/ GiveUp \/ Supervise \/ AgentStep

\* The threads run, the five seconds end, and an agent that is told to end does.
\* Nothing is assumed of an agent that makes no socket.
Fairness == /\ WF_agentVars(MainStep) /\ WF_agentVars(Again \/ GiveUp)
            /\ SF_agentVars(GiveUp)
            /\ WF_agentVars(Supervise)
            /\ WF_agentVars(agent = "told" /\ Quit)

-----------------------------------------------------------------------------

\* Every variable keeps its type.
AgentTypeOK ==
  /\ starter \in {"idle", "start", "stat", "select", "found", "failed"}
  /\ sup \in {"off", "wait", "sleep", "restart", "leave", "done"}
  /\ agent \in {"no", "starting", "serving", "told"}
  /\ sock \in BOOLEAN /\ dir \in BOOLEAN /\ exited \in BOOLEAN

\* Every agent is waited for by the supervisor, in a directory that is there: there
\* are never two agents, nor one whose directory is gone. A supervisor that has left,
\* and a start that failed before it, leave no file (sshagent.go:62-88).
Supervised == /\ agent # "no" => sup = "wait" /\ dir
              /\ sup = "done" => ~sock /\ ~dir
              /\ starter = "failed" /\ sup = "off" => ~dir
=============================================================================
