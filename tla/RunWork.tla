------------------------------ MODULE RunWork -------------------------------
(***************************************************************************)
(* runWork (run.go) on one work: fetch its packages, run the pre-job hook, *)
(* plaklet and the post-job hook, and report to the control plane. Next to *)
(* the thread of runWork run a keepalive goroutine per stage, the log      *)
(* streamer, the processes and the goroutine that kills plaklet. All three *)
(* senders post on connections of their own.                               *)
(*                                                                         *)
(* Simplifications: what a reply says is left out, its type is kept, and   *)
(* types that runWork does not tell apart are one; the output log is       *)
(* "there is something to send" (LogStream models it); plaklet's stdout    *)
(* holds one reply, so that it is full as soon as it is not empty. Plaklet *)
(* prints at most one terminal reply: run.go:311 would forward a second    *)
(* one at once.                                                            *)
(***************************************************************************)
EXTENDS Naturals

VARIABLES
  stage,     \* where runWork is
  res,       \* res[j]: "no" until job j ends, then "ok" or "failed"
  plaklet,   \* the process: "no", "running" or "exited"
  out,       \* plaklet's stdout: what was printed and not read, or "none"
  heir,      \* a descendant of the hook or of plaklet holds its pipes
  terminal,  \* the terminal reply held back, "none" if there is none
  ka,        \* the keepalive goroutine of the stage
  kaStop,    \* keepalive.c is closed
  streamer,  \* the log streamer goroutine: "running", "stopping" or "done"
  buffered,  \* logs has something to send: output, or the marker of a gap
  sending,   \* sending[s]: the reply s is posting, "none" if there is none
  posts,     \* how many terminal replies were posted
  ctxDone,   \* the context of the work is done: canceled, or SIGTERM
  status,    \* control plane: "open", or the terminal reply received
  late       \* control plane: a reply came after the terminal one

mainVars == <<stage, res, terminal, posts>>
procVars == <<plaklet, out, heir>>
kaVars == <<ka, kaStop>>
logVars == <<streamer, buffered>>
serverVars == <<status, late>>
vars == <<mainVars, procVars, kaVars, logVars, sending, ctxDone, serverVars>>

Jobs == {"fetch", "pre", "post"}
Stages == Jobs \cup {"spawn", "feed", "reap", "pump", "wait", "closing", "report",
                     "last", "replied", "returned"}
Senders == {"main", "keepalive", "logs"}
Terminals == {"success", "failure"}
Kinds == {"info", "error", "log"} \cup Terminals

Free(s) == sending[s] = "none"

\* clt.Reply with a context that is done returns without posting anything.
Post(s, kind) == sending' = IF ctxDone THEN sending
                            ELSE [sending EXCEPT ![s] = kind]

Init == /\ stage = "fetch" /\ res = [j \in Jobs |-> "no"]
        /\ plaklet = "no" /\ out = "none" /\ heir = FALSE /\ terminal = "none"
        /\ ka = "started" /\ kaStop = FALSE
        /\ streamer = "running" /\ buffered = FALSE
        /\ sending = [s \in Senders |-> "none"] /\ posts = 0
        /\ ctxDone \in BOOLEAN
        /\ status = "open" /\ late = FALSE

-----------------------------------------------------------------------------
(* The control plane, the network and the context.                         *)

\* A reply for a finished work is dropped (run.go:59-60).
Deliver(s) ==
  /\ ~Free(s)
  /\ sending' = [sending EXCEPT ![s] = "none"]
  /\ IF status = "open"
       THEN /\ status' = IF sending[s] \in Terminals THEN sending[s] ELSE "open"
            /\ UNCHANGED late
       ELSE late' = TRUE /\ UNCHANGED status
  /\ UNCHANGED <<mainVars, procVars, kaVars, logVars, ctxDone>>

\* A post that fails is not retried, by anybody. One of Close's flush ends the flush,
\* whatever is left to send.
Lose(s) == /\ ~Free(s)
           /\ sending' = [sending EXCEPT ![s] = "none"]
           /\ stage' = IF s = "main" /\ stage = "closing" THEN "report" ELSE stage
           /\ UNCHANGED <<res, terminal, posts, procVars, kaVars, logVars, ctxDone,
                          serverVars>>

\* Its goroutine cancels the context once runWork has returned, if nobody did
\* before (main.go:504-506).
Cancel == /\ ~ctxDone /\ ctxDone' = TRUE
          /\ UNCHANGED <<mainVars, procVars, kaVars, logVars, sending, serverVars>>

-----------------------------------------------------------------------------
(* The keepalive goroutine: posts at once, and once more after 15 seconds. *)

KeepAlivePost ==
  /\ ka \in {"started", "waiting"}
  /\ ka' = IF ka = "started" THEN "first" ELSE "second"
  /\ Post("keepalive", "info")
  /\ UNCHANGED <<mainVars, procVars, kaStop, logVars, ctxDone, serverVars>>

KeepAliveNext ==
  /\ \/ ka = "first" /\ Free("keepalive") /\ ka' = "waiting"
     \/ ka = "second" /\ Free("keepalive") /\ ka' = "off"
     \/ ka = "waiting" /\ kaStop /\ ka' = "off"
  /\ UNCHANGED <<mainVars, procVars, kaStop, logVars, sending, ctxDone, serverVars>>

-----------------------------------------------------------------------------
(* The processes: hooks and plaklet, and what they leave running.          *)

HookRuns == stage \in {"pre", "post"} /\ res[stage] = "no"

Fork == /\ HookRuns \/ plaklet = "running"
        /\ ~heir /\ heir' = TRUE
        /\ UNCHANGED <<mainVars, plaklet, out, kaVars, logVars, sending, ctxDone,
                       serverVars>>

HeirExits == /\ heir /\ heir' = FALSE
             /\ UNCHANGED <<mainVars, plaklet, out, kaVars, logVars, sending, ctxDone,
                            serverVars>>

WriteLog == /\ HookRuns \/ plaklet = "running" \/ heir
            /\ ~buffered /\ buffered' = TRUE
            /\ UNCHANGED <<mainVars, procVars, kaVars, streamer, sending, ctxDone,
                           serverVars>>

\* A reply, or something that is not one; it waits while the pipe is full.
Prints(kind) ==
  /\ plaklet = "running" /\ out = "none"
  /\ kind \in Terminals => terminal = "none"
  /\ out' = kind
  /\ UNCHANGED <<mainVars, plaklet, heir, kaVars, logVars, sending, ctxDone, serverVars>>

\* Plaklet ends, by itself or on the SIGTERM sent when the context is done.
PlakletExits ==
  /\ plaklet = "running" /\ plaklet' = "exited"
  /\ UNCHANGED <<mainVars, out, heir, kaVars, logVars, sending, ctxDone, serverVars>>

\* The goroutine that kills plaklet after terminateTimeout starts once the
\* payload is written, and not at all if that fails ("reap").
MustKillNever == FALSE
MustKill == ctxDone /\ stage \in {"pump", "wait"}

-----------------------------------------------------------------------------
(* The log streamer.                                                       *)

\* A periodic flush; it leaves an incomplete line behind.
Flush == /\ streamer # "done" /\ Free("logs") /\ buffered
         /\ buffered' \in BOOLEAN
         /\ Post("logs", "log")
         /\ UNCHANGED <<mainVars, procVars, kaVars, streamer, ctxDone, serverVars>>

StreamerExits ==
  /\ streamer = "stopping" /\ Free("logs")
  /\ streamer' = "done"
  /\ UNCHANGED <<mainVars, procVars, kaVars, buffered, sending, ctxDone, serverVars>>

-----------------------------------------------------------------------------
(* ensurePackages and the two hooks, each under a keepalive of its own. A  *)
(* work may have no script for a hook: it ends ok at once.                 *)

\* cmd.Run returns once nobody holds the pipe of the hook's output.
JobEnds == /\ stage \in Jobs /\ res[stage] = "no" /\ ~heir
           /\ \E r \in {"ok", "failed"} : res' = [res EXCEPT ![stage] = r]
           /\ kaStop' = TRUE
           /\ UNCHANGED <<stage, terminal, posts, procVars, ka, logVars, sending,
                          ctxDone, serverVars>>

\* The context of the pre-job hook is the work's, which kills it; that of the
\* post-job hook is cut off from it and ends after a minute.
MustEnd == ctxDone \/ stage = "post"

StartsKeepAlive(next) ==
  IF next \in Jobs THEN ka' = "started" /\ kaStop' = FALSE
                   ELSE UNCHANGED kaVars

AfterJob == IF res[stage] = "failed" \/ stage = "post" THEN "closing"
            ELSE IF stage = "fetch" THEN "pre" ELSE "spawn"

\* keepalive.Stop returns.
StopReturnsNow == ka # "started"
StopReturns == ka = "off"
JobDone == /\ stage \in Jobs /\ res[stage] # "no" /\ StopReturns
           /\ stage' = AfterJob
           /\ StartsKeepAlive(AfterJob)
           /\ UNCHANGED <<res, terminal, posts, procVars, logVars, sending, ctxDone,
                          serverVars>>

-----------------------------------------------------------------------------
(* spawnPlaklet.                                                           *)

\* cmd.Start refuses a context that is done.
Spawn == /\ stage = "spawn"
         /\ \/ /\ ~ctxDone
               /\ stage' = "feed" /\ plaklet' = "running"
               /\ UNCHANGED kaVars
            \/ /\ stage' = "post" /\ StartsKeepAlive("post")
               /\ UNCHANGED plaklet
         /\ UNCHANGED <<res, terminal, posts, out, heir, logVars, sending, ctxDone,
                        serverVars>>

\* The stages of runWork that change nothing else.
Goto(next) ==
  /\ stage' = next
  /\ UNCHANGED <<res, terminal, posts, procVars, kaVars, logVars, sending, ctxDone,
                 serverVars>>

\* The payload is written to the process's stdin. One larger than the pipe waits
\* for plaklet to read it.
Feed == stage = "feed" /\ (plaklet = "running" \/ heir) /\ Goto("pump")

\* The write fails once nobody holds the other end. Those who do may close it at any
\* time, plaklet while it runs on; then nobody reads its stdout, and nobody kills it.
StdinGone == plaklet = "exited" /\ ~heir
FeedFails == stage = "feed" /\ Goto("reap")

\* Post, and count terminal replies.
PostCounted(kind) ==
  /\ Post("main", kind)
  /\ posts' = IF kind \in Terminals /\ ~ctxDone THEN posts + 1 ELSE posts

\* The first terminal reply is held back, everything else is forwarded, and plaklet
\* is read to the end.
HeldBackErrors == Terminals \cup {"error"}
HeldBack == Terminals
AfterTerminalBreak == "wait"
AfterTerminal == "pump"
Decode == /\ stage = "pump" /\ Free("main") /\ out \in Kinds
          /\ out' = "none"
          /\ IF out \in HeldBack /\ terminal = "none"
               THEN terminal' = out /\ stage' = AfterTerminal
                    /\ UNCHANGED <<sending, posts>>
               ELSE PostCounted(out) /\ UNCHANGED <<stage, terminal>>
          /\ UNCHANGED <<res, plaklet, heir, kaVars, logVars, ctxDone,
                         serverVars>>

\* Something that is not a reply ends the loop: nobody reads stdout any more.
AfterPumpPost == "post"
AfterPump == "wait"
DecodeFails == /\ stage = "pump" /\ Free("main") /\ out = "garbage"
               /\ stage' = AfterPump /\ out' = "none"
               /\ UNCHANGED <<res, terminal, posts, plaklet, heir, kaVars, logVars,
                              sending, ctxDone, serverVars>>

\* End of file: plaklet is gone, and nobody else holds its stdout.
PumpEOF == /\ stage = "pump" /\ Free("main") /\ out = "none"
           /\ plaklet = "exited" /\ ~heir
           /\ Goto("wait")

\* cmd.Wait returns once nobody holds plaklet's stderr either.
Wait == /\ stage \in {"reap", "wait"} /\ plaklet = "exited" /\ ~heir
        /\ stage' = "post" /\ StartsKeepAlive("post")
        /\ UNCHANGED <<res, terminal, posts, procVars, logVars, sending, ctxDone,
                       serverVars>>

-----------------------------------------------------------------------------
(* The end: logs.Close, then the failure of the post-job hook if it is not *)
(* the work's own, then the terminal reply.                                *)

CloseStops ==
  /\ stage = "closing" /\ streamer = "running"
  /\ streamer' = "stopping"
  /\ UNCHANGED <<mainVars, procVars, kaVars, buffered, sending, ctxDone, serverVars>>

\* The last flush posts chunk by chunk. It ends when all is sent, or at the first post
\* that fails: at once if the context is done, else by Lose.
CanFlushEarly == streamer # "running" /\ Free("main")
CanFlush == streamer = "done" /\ Free("main")
CloseFlushes ==
  /\ stage = "closing" /\ CanFlush
  /\ \/ /\ buffered /\ buffered' \in BOOLEAN
        /\ Post("main", "log")
        /\ stage' = IF ctxDone THEN "report" ELSE stage
     \/ ~buffered /\ stage' = "report" /\ UNCHANGED <<buffered, sending>>
  /\ UNCHANGED <<res, terminal, posts, procVars, kaVars, streamer, ctxDone, serverVars>>

ReportKindTerminal == "failure"
ReportKind == "error"
Report == /\ stage = "report" /\ stage' = "last"
          /\ IF res.post = "failed" /\ terminal # "success"
               THEN PostCounted(ReportKind)
               ELSE UNCHANGED <<sending, posts>>
          /\ UNCHANGED <<res, terminal, procVars, kaVars, logVars, ctxDone, serverVars>>

\* The reply plaklet ended with, unless it died without one or the post-job hook
\* failed.
OutcomePlaklet == IF terminal = "none" THEN "failure" ELSE terminal
Outcome == IF terminal = "success" /\ res.post = "ok" THEN "success" ELSE "failure"

Last == /\ stage = "last" /\ Free("main") /\ stage' = "replied"
        /\ PostCounted(Outcome)
        /\ UNCHANGED <<res, terminal, procVars, kaVars, logVars, ctxDone, serverVars>>

Return == stage = "replied" /\ Free("main") /\ Goto("returned")

-----------------------------------------------------------------------------

MainStep == \/ JobDone \/ Spawn \/ Decode \/ DecodeFails \/ PumpEOF \/ Wait
            \/ CloseStops \/ CloseFlushes \/ Report \/ Last \/ Return

Process == \/ \E kind \in (Kinds \ {"log"}) \cup {"garbage"} : Prints(kind)
           \/ Fork \/ HeirExits \/ WriteLog \/ PlakletExits

Terminated == stage = "returned" /\ UNCHANGED vars

Next == \/ MainStep \/ JobEnds \/ Feed \/ FeedFails \/ Process \/ Cancel
        \/ KeepAlivePost \/ KeepAliveNext \/ Flush \/ StreamerExits
        \/ \E s \in Senders : Deliver(s) \/ Lose(s)
        \/ Terminated

\* The threads of the edge run, and the chunks of the last flush come to an end. A
\* write that nobody can read fails. A process whose context is done is killed: a hook
\* at once, plaklet after a minute. A post whose context is done gives up. The
\* streamer's select may choose its tick over a closed stop, not for ever. Nothing
\* else is assumed of plaklet, the hooks or the control plane.
Fairness == /\ WF_vars(MainStep)
            /\ SF_vars(CloseFlushes /\ ~buffered')
            /\ WF_vars(StdinGone /\ FeedFails)
            /\ WF_vars(KeepAlivePost \/ KeepAliveNext)
            /\ SF_vars(StreamerExits)
            /\ WF_vars(MustEnd /\ JobEnds)
            /\ WF_vars(MustKill /\ PlakletExits)
            /\ \A s \in Senders : WF_vars(ctxDone /\ Lose(s))

Spec == Init /\ [][Next]_vars
FairSpec == Spec /\ Fairness

-----------------------------------------------------------------------------
(* Safety.                                                                 *)

\* Every variable keeps its type.
TypeOK == /\ stage \in Stages /\ res \in [Jobs -> {"no", "ok", "failed"}]
          /\ plaklet \in {"no", "running", "exited"} /\ heir \in BOOLEAN
          /\ out \in (Kinds \ {"log"}) \cup {"none", "garbage"}
          /\ terminal \in Terminals \cup {"none"}
          /\ ka \in {"started", "first", "waiting", "second", "off"}
          /\ kaStop \in BOOLEAN
          /\ streamer \in {"running", "stopping", "done"} /\ buffered \in BOOLEAN
          /\ sending \in [Senders -> Kinds \cup {"none"}] /\ posts \in Nat
          /\ ctxDone \in BOOLEAN
          /\ status \in Terminals \cup {"open"} /\ late \in BOOLEAN

\* A work posts at most one terminal reply, and exactly one when its context is not
\* done, whatever failed on the way (run.go:52-53). Nobody retries a post that is lost:
\* posted is all the code can promise.
OneTerminal == /\ posts <= 1
               /\ stage = "returned" /\ ~ctxDone => posts = 1

\* Nothing is posted after the terminal reply, by the keepalive, by the streamer
\* or by runWork: the control plane would drop it (run.go:59-60).
NothingLate == ~late

\* The control plane is told "success" when, and only when, the packages were
\* there, both hooks went well and plaklet said so (run.go:125-146).
Truthful == status # "open" =>
              (status = "success" <=> /\ terminal = "success"
                                      /\ \A j \in Jobs : res[j] = "ok")

\* The post-job hook undoes the pre-job hook: it runs if that one did, and only
\* once plaklet is gone (run.go:86-88, 105-106).
PostHookUndoes ==
  /\ stage = "post" => plaklet # "running"
  /\ stage \in {"closing", "report", "last", "replied", "returned"} =>
       (res.post # "no" <=> res.pre = "ok")

\* runWork leaves nobody behind that works for it: no plaklet, no descendant that holds
\* a pipe of its, no keepalive, no streamer and no post on its way (run.go:44-47, 63,
\* 319; logstream.go:86-92). Output it may leave: see CloseFlushes.
NothingLeft == stage = "returned" => /\ plaklet # "running" /\ ~heir
                                     /\ ka = "off" /\ streamer = "done"
                                     /\ \A s \in Senders : Free(s)

-----------------------------------------------------------------------------
(* Liveness, under FairSpec. What is assumed of others is the premise.     *)

\* No descendant holds a pipe for ever; a payload fits in the pipe of stdin; a plaklet
\* that closes its stdin before it is written ends by itself.
NoHeir == <>[]~heir
SmallPayload == WF_vars(Feed)
NoStray == <>[](stage = "reap" => plaklet = "exited")
Bystanders == NoHeir /\ NoStray

\* A work that is canceled returns, whether or not its hooks and plaklet heed SIGTERM and
\* the control plane answers (run.go:275-296): its slot comes back. PollLoop relies on
\* it. Without NoStray it need not: after a write that fails (run.go:268-272) runWork is
\* in cmd.Wait, and the goroutine that kills plaklet was never started.
CancelEnds == Bystanders /\ SmallPayload => (ctxDone ~> stage = "returned")

\* Jobs end, posts are answered or fail, and plaklet ends unless it is held up
\* printing.
Cooperation == /\ WF_vars(JobEnds) /\ SF_vars(out = "none" /\ PlakletExits)
               /\ \A s \in Senders : WF_vars(Deliver(s) \/ Lose(s))

\* A work whose parts all do theirs returns, as long as plaklet prints nothing but
\* replies: no thread of runWork waits for one that waits for it (run.go:44-47,
\* 86-91 of logstream.go, 301-318).
WorkEnds ==
  Bystanders /\ SmallPayload /\ Cooperation /\ [](out # "garbage")
    => <>(stage = "returned")

\* "It always sends exactly one terminal reply (success or failure) so the
\* forwarder on the control-plane side unblocks." (run.go:52-53): unless it is
\* canceled, and whatever plaklet prints.
ForwarderUnblocks ==
  Bystanders /\ SmallPayload /\ Cooperation => <>(posts > 0 \/ ctxDone)

\* "Cancelled requested, force kill after a grace delay." (run.go:282): whatever the
\* size of the payload.
GraceDelayKills == Bystanders => (ctxDone ~> stage = "returned")
=============================================================================
