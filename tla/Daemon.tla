------------------------------- MODULE Daemon -------------------------------
(***************************************************************************)
(* The life of the daemon (main, enroll, loadState, saveState in main.go): *)
(* boot, load the identity or enroll for one, persist it, serve, drain and *)
(* exit; with crashes, restarts, answers lost on the network and the file  *)
(* of the identity, which saveState first truncates and then writes.       *)
(*                                                                         *)
(* Simplifications: one edge name and one key, for a pool as for an        *)
(* organization; flags other than the credentials, and the supervision     *)
(* server other than its ready flag, are left out; of the works, only      *)
(* whether some run. Edge adds the ssh-agent.                              *)
(***************************************************************************)
EXTENDS Integers

CONSTANTS MaxEdges   \* bound: how many edges the control plane creates

ASSUME DaemonAssumption == MaxEdges \in Nat \ {0}

VARIABLES
  pc,        \* where the process is
  disk,      \* the file of the identity: 0 for none, Partial, or an edge
  id,        \* the identity in memory, 0 for none
  creds,     \* where this boot's credentials enroll: "none", a pool or an organization
  ready,     \* health.ready
  working,   \* some work runs
  shutdown,  \* SIGTERM received: rootCtx is done
  keyOk,     \* control plane: the enrollment key is good
  issued,    \* control plane: how many edges it created
  edge,      \* control plane: the edge that has the name, 0 for none
  mine,      \* an edge created by this enroll in an answer that was lost
  conflict   \* the last enrollment was refused because the name is taken

serverVars == <<keyOk, issued, edge>>
procVars == <<ready, working>>
bootVars == <<creds, mine, conflict>>
vars == <<pc, disk, id, procVars, shutdown, serverVars, bootVars>>

Partial == MaxEdges + 1
Edges == 1..MaxEdges
Down == {"down", "stopped", "fatal"}

Init == /\ pc = "down" /\ disk = 0 /\ id = 0
        /\ ready = FALSE /\ working = FALSE /\ shutdown = FALSE
        /\ keyOk \in BOOLEAN /\ issued = 0 /\ edge = 0
        /\ creds = "none" /\ mine = 0 /\ conflict = FALSE

-----------------------------------------------------------------------------
(* The supervisor, the operator and the control plane.                     *)

\* How the operator gives the credentials of an enrollment, at each boot.
Given == [pool : BOOLEAN, key : {"no", "flag", "env"}, org : {"no", "flag", "env"}]

\* checkEnrollFlags looks at the flags alone: a pool silently overrules a key or an
\* organization from the environment.
Refused(g) == g.pool /\ "flag" \in {g.key, g.org}

Enrolls(g) == IF g.pool THEN "pool"
              ELSE IF "no" \in {g.key, g.org} THEN "none" ELSE "organization"

Boot == /\ pc \in Down
        /\ \E g \in Given : /\ pc' = IF Refused(g) THEN "fatal" ELSE "load"
                            /\ creds' = Enrolls(g)
        /\ id' = 0 /\ ready' = FALSE /\ working' = FALSE
        /\ shutdown' = FALSE /\ mine' = 0 /\ conflict' = FALSE
        /\ UNCHANGED <<disk, serverVars>>

Crash == /\ pc \notin Down /\ pc' = "down"
         /\ UNCHANGED <<disk, id, shutdown, bootVars, procVars, serverVars>>

Sigterm == /\ pc \notin Down /\ ~shutdown /\ shutdown' = TRUE
           /\ UNCHANGED <<pc, disk, id, bootVars, procVars, serverVars>>

\* What the messages of main.go:374 and 464-465 tell the operator to do.
RemoveState == /\ pc \in Down /\ disk # 0 /\ disk' = 0
               /\ UNCHANGED <<pc, id, shutdown, bootVars, procVars, serverVars>>

RemoveEdge == /\ edge # 0 /\ edge' = 0
              /\ UNCHANGED <<pc, disk, id, shutdown, keyOk, issued, bootVars, procVars>>

-----------------------------------------------------------------------------
(* Boot and enrollment.                                                    *)

\* loadState: a file that is there but cannot be read or parsed is fatal.
ParsesAnything == disk # 0
Parses == disk \in Edges
ReadErrorEnrolls == {"fatal", "probe"}
ReadError == {"fatal"}
\* The identifier of the organization may not parse.
AfterNotExist == IF creds = "none" THEN {"fatal"}
                 ELSE IF creds = "pool" THEN {"probe"} ELSE {"probe", "fatal"}
Load == /\ pc = "load"
        /\ \/ /\ Parses /\ id' = disk /\ pc' = "agent"
           \/ disk = 0 /\ pc' \in AfterNotExist /\ UNCHANGED id
           \/ disk # 0 /\ pc' \in ReadError /\ UNCHANGED id
        /\ UNCHANGED <<disk, shutdown, bootVars, procVars, serverVars>>

\* checkStateWritable.
Probe == /\ pc = "probe"
         /\ pc' \in {"enroll", "fatal"}
         /\ UNCHANGED <<disk, id, shutdown, bootVars, procVars, serverVars>>

\* The loop of enroll.
Enroll == /\ pc = "enroll"
          /\ pc' = IF shutdown THEN "stopped" ELSE "sending"
          /\ UNCHANGED <<disk, id, shutdown, bootVars, procVars, serverVars>>

\* The control plane creates an edge under a free name, for a good key. Its
\* answer arrives, or is lost or unreadable.
CanCreate == pc = "sending" /\ keyOk /\ edge = 0 /\ issued < MaxEdges
Created == /\ CanCreate
           /\ issued' = issued + 1 /\ edge' = issued + 1
           /\ \/ pc' = "saving" /\ id' = issued + 1 /\ UNCHANGED mine
              \/ pc' = "retry" /\ mine' = issued + 1 /\ UNCHANGED id
           /\ UNCHANGED <<disk, shutdown, keyOk, creds, conflict, procVars>>

\* A 4xx.
Rejected == /\ pc = "sending" /\ (~keyOk \/ edge # 0)
            /\ pc' = "fatal" /\ conflict' = keyOk
            /\ UNCHANGED <<disk, id, shutdown, creds, mine, procVars, serverVars>>

\* A 5xx, a network error, or the end of the context.
Transient == /\ pc = "sending" /\ pc' = "retry"
             /\ UNCHANGED <<disk, id, shutdown, bootVars, procVars, serverVars>>

AfterDelayDeaf == "sending"
AfterDelay == IF shutdown THEN "stopped" ELSE "enroll"
Retry == /\ pc = "retry"
         /\ pc' = AfterDelay
         /\ UNCHANGED <<disk, id, shutdown, bootVars, procVars, serverVars>>

\* saveState: os.WriteFile truncates the file, then writes it. Each part may
\* fail, and then the daemon dies.
Save == /\ pc = "saving"
        /\ \/ disk' = Partial /\ pc' = "writing"
           \/ pc' = "fatal" /\ UNCHANGED disk
        /\ UNCHANGED <<id, shutdown, bootVars, procVars, serverVars>>

AfterFailedWriteOn == {"fatal", "agent"}
AfterFailedWrite == {"fatal"}
Write == /\ pc = "writing"
         /\ \/ disk' = id /\ pc' = "agent"
            \/ pc' \in AfterFailedWrite /\ UNCHANGED disk
         /\ UNCHANGED <<id, shutdown, bootVars, procVars, serverVars>>

-----------------------------------------------------------------------------
(* Serving.                                                                *)

\* startSSHAgent has returned (Edge), with a socket or not, and the flag is set.
Serve == /\ pc = "agent"
         /\ pc' = "polling" /\ ready' = TRUE
         /\ UNCHANGED <<disk, id, working, shutdown, bootVars, serverVars>>

Works == /\ pc \in {"polling", "draining"}
         /\ pc = "draining" => working
         /\ working' = ~working
         /\ UNCHANGED <<pc, disk, id, ready, shutdown, bootVars, serverVars>>

\* A 401: the token is not, or no longer, the one of an edge.
Unauthorized == /\ pc = "polling" /\ edge # id
                /\ pc' = "fatal"
                /\ UNCHANGED <<disk, id, shutdown, bootVars, procVars, serverVars>>

\* pollLoop stops polling and waits for the works.
Drain == /\ pc = "polling" /\ shutdown
         /\ pc' = "draining"
         /\ UNCHANGED <<disk, id, shutdown, bootVars, procVars, serverVars>>

Exit == /\ pc = "draining" /\ ~working
        /\ pc' = "exiting" /\ ready' = FALSE
        /\ UNCHANGED <<disk, id, working, shutdown, bootVars, serverVars>>

\* The supervision server is shut down last.
Stop == /\ pc = "exiting" /\ pc' = "stopped"
        /\ UNCHANGED <<disk, id, shutdown, bootVars, procVars, serverVars>>

-----------------------------------------------------------------------------

Step == \/ Load \/ Probe \/ Enroll \/ Retry \/ Save \/ Write \/ Drain \/ Exit \/ Stop

Answer == Created \/ Rejected \/ Transient

Outside == Crash \/ Sigterm \/ RemoveState \/ RemoveEdge \/ Works \/ Unauthorized

Next == Boot \/ Outside \/ Step \/ Serve \/ Answer

\* The process runs; a request whose context is done fails; so does, in the end,
\* every work whose context is done (RunWork).
Fairness == /\ WF_vars(Step) /\ WF_vars(Serve)
            /\ WF_vars(shutdown /\ Answer)
            /\ WF_vars(shutdown /\ working /\ Works)

Spec == Init /\ [][Next]_vars
FairSpec == Spec /\ Fairness

-----------------------------------------------------------------------------
(* Properties.                                                             *)

\* What /ready answers: 503 or nothing when the process is down.
ReadyProbe == ready /\ pc \notin Down

\* Every variable keeps its type.
TypeOK == /\ pc \in Down \cup {"load", "probe", "enroll", "sending", "retry", "saving",
                     "writing", "agent", "polling", "draining", "exiting"}
          /\ disk \in {0, Partial} \cup Edges /\ id \in {0} \cup Edges
          /\ ready \in BOOLEAN /\ working \in BOOLEAN /\ shutdown \in BOOLEAN
          /\ creds \in {"none", "pool", "organization"}
          /\ keyOk \in BOOLEAN /\ issued \in 0..MaxEdges
          /\ edge \in 0..issued /\ mine \in 0..issued /\ conflict \in BOOLEAN

\* A ready edge serves under an identity the control plane gave it and that it
\* would find again after a crash (main.go:223-297): however often it crashed,
\* failed to write or was refused before. The crash is one of the process: saveState
\* does not sync, so one of the machine may still lose the file.
ReadyIsEnrolled == ReadyProbe => id \in 1..issued /\ disk = id

\* The daemon never replaces an identity: only the operator removes one, while the
\* daemon is down, and the control plane is never asked for another while the file
\* of one is there, not even a broken one, whatever credentials a boot is given
\* (main.go:225-278).
IdentityKept ==
  [][/\ disk \in Edges /\ disk' # disk => disk' = 0 /\ pc \in Down
     /\ issued' # issued => disk = 0]_vars

\* SIGTERM stops the daemon wherever it is, also while the control plane is down
\* and enrollment retries (main.go:363, 382).
ShutdownStops == shutdown ~> pc \in Down

\* enroll is "retrying on transient failures (network errors, 5xx) until it
\* succeeds" (main.go:356-357): a retry is never refused because of the edge that
\* this very enrollment created before.
RetryNotRefused == ~(conflict /\ mine # 0 /\ mine = edge)
=============================================================================
