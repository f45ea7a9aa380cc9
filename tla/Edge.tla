-------------------------------- MODULE Edge --------------------------------
(***************************************************************************)
(* The daemon with its ssh-agent: main calls startSSHAgent between the     *)
(* enrollment and the poll loop (main.go:284-288), and the agent and its   *)
(* supervisor live next to it from then on, under the same context.        *)
(***************************************************************************)
EXTENDS Daemon

VARIABLES starter, sup, agent, sock, dir, exited

Agent == INSTANCE SSHAgent WITH up <- pc \notin Down,
                                called <- pc = "agent",
                                ctxDone <- shutdown

agentVars == <<starter, sup, agent, sock, dir, exited>>
edgeVars == <<vars, agentVars>>

EdgeInit == Init /\ Agent!Fresh

\* What another boot left is of no consequence to this one: see SSHAgent.
EdgeBoot == Boot /\ Agent!NewProcess

\* startSSHAgent returns to main.
EdgeServe == Serve /\ Agent!Returned /\ UNCHANGED agentVars

Unconcerned == (Outside \/ Step \/ Answer) /\ UNCHANGED agentVars

AgentSteps == Agent!AgentNext /\ UNCHANGED vars

EdgeNext == EdgeBoot \/ EdgeServe \/ Unconcerned \/ AgentSteps

EdgeFairness == /\ WF_edgeVars(Step /\ UNCHANGED agentVars)
                /\ WF_edgeVars(EdgeServe)
                /\ WF_edgeVars(shutdown /\ Answer /\ UNCHANGED agentVars)
                /\ WF_edgeVars(shutdown /\ working /\ Works /\ UNCHANGED agentVars)
                /\ Agent!Fairness

EdgeSpec == EdgeInit /\ [][EdgeNext]_edgeVars
EdgeFairSpec == EdgeSpec /\ EdgeFairness

-----------------------------------------------------------------------------

\* Every variable keeps its type.
EdgeTypeOK == TypeOK /\ Agent!AgentTypeOK

Supervised == Agent!Supervised

\* The daemon with its agent does what Daemon promises, and no later: an agent that
\* is missing, dies, or never makes its socket is "not fatal" (main.go:282-283) and
\* holds nothing up for ever.
ImplementsDaemon == FairSpec

\* An agent that dies is restarted and serves again, also after it was killed and
\* left its socket behind (sshagent.go:50-54, 77-87), unless it cannot be started.
\* Assumed: an agent that is started over and over gets to bind once.
AgentRestarts ==
  SF_agentVars(Agent!Bind) =>
    ((sup # "off" /\ agent # "serving")
       ~> (agent = "serving" \/ sup \in {"leave", "done"} \/ shutdown \/ pc \in Down))

\* "startSSHAgent runs an ssh-agent owned by the edge for as long as ctx lives"
\* (sshagent.go:17), "for its lifetime" (README.md:121): once the edge has stopped,
\* its agent ends.
AgentEndsWithEdge == pc \in {"stopped", "fatal"} ~> agent = "no"
=============================================================================
