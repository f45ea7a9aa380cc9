----------------------------- MODULE EdgeProofs -----------------------------
(***************************************************************************)
(* Proofs about Edge: the daemon with its ssh-agent takes the steps of the *)
(* daemon alone, so that what DaemonProofs says holds of it, and no agent  *)
(* is ever without its supervisor and its directory.                       *)
(***************************************************************************)
EXTENDS Edge, DaemonProofs

\* Before the first agent, and from then on, while the supervisor is there.
NotStarted == sup = "off" => agent = "no" /\ ~sock
Starter == /\ starter = "idle" => sup = "off" /\ ~dir
           /\ starter = "start" => sup = "off" /\ dir
           /\ starter \in {"stat", "select", "found"} => sup # "off"
WithDir == sup \in {"wait", "sleep", "restart", "leave"} => dir

AInv == Agent!AgentTypeOK /\ Agent!Supervised /\ NotStarted /\ Starter /\ WithDir

-----------------------------------------------------------------------------

\* A process that just booted has no agent yet.
LEMMA FreshInv == Agent!Fresh => AInv
  BY DEF Agent!Fresh, AInv, Agent!AgentTypeOK, Agent!Supervised, NotStarted, Starter,
         WithDir

\* A boot resets the agent of the edge.
LEMMA NewProcessInv == Agent!NewProcess => AInv'
  BY DEF Agent!NewProcess, AInv, Agent!AgentTypeOK, Agent!Supervised, NotStarted, Starter,
         WithDir

\* A step of the daemon leaves the agent alone.
LEMMA StutterInv == AInv /\ UNCHANGED agentVars => AInv'
  BY DEF agentVars, AInv, Agent!AgentTypeOK, Agent!Supervised, NotStarted, Starter,
         WithDir

\* Every step of the agent, its supervisor or main waiting for it keeps the invariant.
LEMMA AgentStepInv == AInv /\ Agent!AgentNext => AInv'
<1> SUFFICES ASSUME AInv, Agent!AgentNext PROVE AInv'
  OBVIOUS
<1> USE DEF AInv, Agent!AgentTypeOK, Agent!Supervised, NotStarted, Starter, WithDir,
            Agent!fileVars
<1>1. CASE Agent!MakeDir
  <2>1. CASE starter' = "start" /\ dir' = TRUE BY <1>1, <2>1 DEF Agent!MakeDir
  <2>2. CASE starter' = "failed" /\ dir' = dir BY <1>1, <2>2 DEF Agent!MakeDir
  <2>. QED
    BY <1>1, <2>1, <2>2 DEF Agent!MakeDir
<1>2. CASE Agent!Start
  <2>1. CASE starter' = "stat" BY <1>2, <2>1 DEF Agent!Start
  <2>2. CASE starter' = "failed" BY <1>2, <2>2 DEF Agent!Start
  <2>. QED
    BY <1>2, <2>1, <2>2 DEF Agent!Start
<1>3. CASE Agent!Look BY <1>3 DEF Agent!Look
<1>4. CASE Agent!Again BY <1>4 DEF Agent!Again
<1>5. CASE Agent!GiveUp BY <1>5 DEF Agent!GiveUp
<1>6. CASE Agent!SupWait BY <1>6 DEF Agent!SupWait, Agent!AfterWait
<1>7. CASE Agent!SupSleep BY <1>7 DEF Agent!SupSleep
<1>8. CASE Agent!SupRestart BY <1>8 DEF Agent!SupRestart, Agent!Stale
<1>9. CASE Agent!SupLeave BY <1>9 DEF Agent!SupLeave, Agent!CleanUp
<1>10. CASE Agent!Signal BY <1>10 DEF Agent!Signal
<1>11. CASE Agent!Bind BY <1>11 DEF Agent!Bind
<1>12. CASE Agent!Quit BY <1>12 DEF Agent!Quit
<1>13. CASE Agent!Killed BY <1>13 DEF Agent!Killed
<1>. QED
  BY <1>1, <1>2, <1>3, <1>4, <1>5, <1>6, <1>7, <1>8, <1>9, <1>10, <1>11, <1>12, <1>13
  DEF Agent!AgentNext, Agent!MainStep, Agent!Supervise, Agent!AgentStep

\* A step of the edge is one of the daemon, or one of its agent.
LEMMA EdgeStep == [EdgeNext]_edgeVars => [Next]_vars
  BY DEF EdgeNext, edgeVars, EdgeBoot, EdgeServe, Unconcerned, AgentSteps, Next

\* So does every step of the composition.
LEMMA EdgeAgentStep == AInv /\ [EdgeNext]_edgeVars => AInv'
<1> SUFFICES ASSUME AInv, [EdgeNext]_edgeVars PROVE AInv'
  OBVIOUS
<1>1. Agent!NewProcess \/ Agent!AgentNext \/ UNCHANGED agentVars
  BY DEF EdgeNext, edgeVars, EdgeBoot, EdgeServe, Unconcerned, AgentSteps
<1>. QED
  BY <1>1, NewProcessInv, AgentStepInv, StutterInv

\* The invariant of the agent is one of every behaviour of the composition.
LEMMA AgentInvariance == EdgeSpec => []AInv
<1>1. EdgeInit => AInv
  BY FreshInv DEF EdgeInit
<1>. QED
  BY <1>1, EdgeAgentStep, PTL DEF EdgeSpec

-----------------------------------------------------------------------------

\* The daemon with its agent behaves as the daemon: startSSHAgent changes nothing
\* of what main keeps (main.go:284-288). That it is no later is checked by TLC.
THEOREM EdgeRefinesDaemon == EdgeSpec => Spec
<1>1. EdgeInit => Init
  BY DEF EdgeInit
<1>. QED
  BY <1>1, EdgeStep, PTL DEF EdgeSpec, Spec

\* Every variable keeps its type.
THEOREM EdgeTypeCorrect == EdgeSpec => []EdgeTypeOK
<1>1. TypeOK /\ AInv => EdgeTypeOK
  BY DEF AInv, EdgeTypeOK
<1>. QED
  BY <1>1, EdgeRefinesDaemon, DaemonTypeCorrect, AgentInvariance, PTL

\* Every agent is waited for, in a directory that is there, and a supervisor that
\* has left leaves no file (sshagent.go:62-88).
THEOREM AgentsAreSupervised == EdgeSpec => []Supervised
<1>1. AInv => Supervised
  BY DEF AInv, Supervised
<1>. QED
  BY <1>1, AgentInvariance, PTL

\* A ready edge is enrolled also when an agent was waited for in between.
THEOREM ReadyEdgeIsEnrolled == EdgeSpec => []ReadyIsEnrolled
  BY EdgeRefinesDaemon, ReadyHasIdentity, PTL

\* No identity is replaced, agent or no agent.
THEOREM EdgeKeepsIdentity == EdgeSpec => IdentityKept
  BY EdgeRefinesDaemon, IdentityIsKept, PTL
=============================================================================
