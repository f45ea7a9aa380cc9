# plakar-edge in TLA+

A formal model of `plakar-edge`, the daemon that runs backup jobs on a machine
for a Plakar control plane. Modules, TLC configurations and TLAPS proofs live in
this directory; `PROJECT.json` maps every definition to the lines it models.
Paths below are relative to the repository.

    tlc -workers 2 -config PollLoop.cfg PollLoop    # a run
    tlapm PollLoopProofs.tla                        # one of the proofs

## 1. Inventory

| Component | Code | State | Operations | Module |
|---|---|---|---|---|
| Poll loop and dispatch | `main.go` `pollLoop`, `client.go` `Poll` | free slots (atomic), `cancels` and `interruptPoll` (under `mu`), the poll in flight | poll, handle a work / cancel / error / nothing, interrupt, free a slot, drain | `PollLoop`, `WorkPool` |
| Execution of a work | `run.go`, `hooks.go` `runHook`, `client.go` `Reply` | stage, plaklet process and its pipes, terminal reply held back, keepalive and streamer goroutines | fetch, hooks, spawn, feed, pump, kill, report | `RunWork`; under pollLoop in `DispatchedWork` |
| Output log | `logstream.go` | buffer, truncation flag, who flushes | `Write`, `flush`, `next`, `Close` | `LogStream`, `LossyLog` |
| Boot, enrollment, identity | `main.go` `main`, `checkEnrollFlags`, `enroll`, `loadState`, `saveState` | identity file, identity in memory, credentials, ready flag | load, probe, enroll, retry, save, serve, drain, exit | `Daemon` |
| ssh-agent and its supervisor | `sshagent.go` | agent process, socket, temporary directory | start, wait for the socket, restart, clean up | `SSHAgent`, composed with `Daemon` in `Edge` |
| Package cache | `run.go` `ensurePackages`, `client.go` `FetchPackage` | directory of packages, temporary files | look, download, rename | `PackageCache` |
| Hook scripts | `hooks.go` `resolveHookScript`, `runHook`, `tailBuffer`, `outputTail` | scripts directory, tail of the output | resolve, run, keep the tail, report | `Hook` |
| Tags, supervision server and metrics, system information, wire types, Windows agent, Helm chart | `tags.go`, `server.go`, `sysinfo.go`, `protocol.go`, `sshagent_windows.go`, `charts/` | none that a property is about (the ready flag is in `Daemon`) | - | not modelled |

### How they interact

`main` loads or obtains an identity, starts the ssh-agent, sets the ready flag
and calls `pollLoop`, which returns only when the process is to end. `pollLoop`
long-polls the control plane, telling it how many slots are free. A work item
takes a slot and starts a goroutine that calls `runWork` with a context of its
own; a cancel item cancels that context. When `runWork` returns, the goroutine
removes the work's cancel and gives the slot back, and if that was the only free
slot it interrupts the poll in flight, which advertised none. `runWork` calls
`ensurePackages`, the pre-job hook, `spawnPlaklet` and the post-job hook, and
posts replies; beside it a keepalive goroutine per stage and the log streamer
post replies too. Everything derives from `rootCtx`, which SIGTERM ends.

### What is hard

* pollLoop and its goroutines share `slots`, which is not guarded by the lock
  that guards the rest, and interrupt one another's polls;
* the cancel of a work races its end, its registration and SIGTERM;
* three goroutines post for one work, and the order matters to the receiver;
* any of five stages and every post may fail, or be cut by the context, and the
  control plane must still be told the right thing, once;
* the log is cut into chunks by size, line and rune, by two threads in turn,
  while others append to it and posts fail;
* plaklet and the hooks may leave descendants that hold the pipes runWork reads,
  and plaklet may print what is not a reply, on a pipe nobody reads from then on;
* a supervisor restarts the ssh-agent while main waits for its first socket, and
  while the process ends; an agent that was killed leaves its socket behind;
* enrollment is not idempotent, its answer may be lost, and the identity file is
  written in place;
* works share the package directory without a lock, and crashes cut downloads.

Section 3 names the properties of each. `PROJECT.json` lists the hazards line by
line, with the property that covers each or the reason why none does.

## 2. Modules

### PollLoop, and WorkPool

`PollLoop` has one action per critical section of `pollLoop`. The loop is a
thread with a program counter: `Prepare` (read slots and arm `interruptPoll`,
under `mu`), `PollReturns` or `PollFails`, `ClearInterrupt`, then one of
`HandleError`, `HandleNoWork`, `HandleCancel` followed by `CallCancel` (outside
`mu`), or `TakeSlot` followed by `Dispatch`. `slots.Add(-1)` and the
registration of the cancel are two actions since the code takes no lock between
them. A work's goroutine has three steps, `RunWorkReturns`, `Unregister` and
`FreeSlot`; a step of it may fall between any two of the loop. The control
plane answers a held poll with a work (only if slots were advertised), a cancel,
nothing, an error, or a 401; the network may drop the poll with the answer in it.

`pollCtx` says why the context of the poll is done. When both an interrupt and
SIGTERM reach it, the first wins, as in `context.Cause`. `Poll` may still return
an answer with its context done. `"fatal"` is the exit of the process on a 401:
no goroutine takes a step after it.

Assumptions about the control plane: it hands a work out once, and gives none to
a poll without slots. An entry of `cancels` is therefore never overwritten.

`WorkPool` is what the edge promises, on two variables: a work goes from new to
running to finished, at most `Capacity` run at a time, none starts once the pool
is closed. `ImplementsWorkPool` is the refinement: a work is running from the
moment its slot is taken until it is given back, and the pool is open until the
loop decides to drain.

### RunWork

The threads of one work: `runWork` itself (`stage`), the keepalive goroutine
(`ka`), the log streamer (`streamer`), plaklet, and the control plane with one
post in flight per sender (`sending`). A post returns when it is delivered or
lost; nobody retries it. `clt.Reply` with a context that is done posts nothing.
The last flush, of `logs.Close`, posts chunk by chunk (`CloseFlushes`) and ends with
output left when a post of it fails (`Lose`) or the context is done. `MustKill` is the
goroutine of `run.go:276`, which exists only once the payload is written. `Outcome` is the decision of `run.go:116-146`.

Plaklet's stdout (`out`) holds one thing that was printed and not read: a reply, or
`"garbage"`, which ends the decoder and with it all reading of the pipe. `heir` is
a descendant of a hook or of plaklet that holds the pipes; `cmd.Run`, `cmd.Wait`
and the end of file wait for it (`JobEnds`, `Wait`, `PumpEOF`). `Feed` is the write
of the payload, which need not return while the process, or an heir, does not read.
`FeedFails` is the write that fails, which it must once nobody holds the pipe and may
at any time, since whoever holds it may close it, plaklet while it runs on. `runWork` is
then in stage `"reap"`: in `cmd.Wait` as in `"wait"`, but without the goroutine that kills.

`Cancel` may fall anywhere, after the return too: `main.go:504` cancels the context of
a work that is over.

The log is "there is something to send", packages are a job that ends ok or failed, a
hook is one that ends: `LogStream`, `PackageCache` and `Hook` model them.

### DispatchedWork

pollLoop with one of its works, `Self`, run in full: `RunWork` by `INSTANCE`, its
`ctxDone` being `CtxDone(Self)` of `PollLoop`. `Self` is any of the works, so what holds
of it holds of each; the others take the single step of `PollLoop`. A step is one of the
loop, the other works, the control plane or SIGTERM (`Around`), the return of `runWork` to
its goroutine (`SelfReturns`), or one within `runWork` (`During(Within)`), which runs
between the dispatch and that return while the edge's process lives. A cancel or a SIGTERM
that reaches `Self` in `PollLoop` is the `Cancel` of `RunWork`. The fairness is that of
both modules without what `PollLoop` takes for granted, the return of `Self`:
`ImplementsPollLoop` says that it follows. What the processes of a work do after a 401 is
left out.

### LogStream, and LossyLog

`Write`, `next`, `flush`, `run` and `Close` on sequences of bytes. A byte is the
length of the UTF-8 sequence it starts, 0 if it continues one, or `Newline`. The
sizes are parameters. A post that fails may have been received all the same.

`LossyLog` is what the streamer promises: a queue of numbered bytes from whose front
output leaves, to arrive or to be lost, a writer that is kept or refused whole, and a mark
that is owed for what was lost and comes last. `ImplementsLossyLog` is the refinement: what
is in flight and what is buffered are the queue, and a mark is owed from the moment
`truncated` is set until it was posted.

### Daemon

`main` from the flags to the exit, with crashes and boots. A boot has credentials
from flags or from the environment; `checkEnrollFlags` refuses some (`Refused`), and
a pool overrules the rest (`Enrolls`). The identity file is absent, `Partial`, or an
edge; `saveState` is two actions, since `os.WriteFile` truncates before it writes. The
control plane creates an edge under a free name and its answer may be lost. The
operator removes the file or the edge, as the messages of the daemon say.

### SSHAgent, and Edge

`startSSHAgent` is two threads: main (`starter`), which looks for the socket until it
is there, five seconds are over (`GiveUp`), the first agent died or the context is
done, and the supervisor (`sup`), which waits for the agent, restarts it after a delay
and removes the directory when it leaves. `Signal` is the goroutine of
`exec.CommandContext`. The agent refuses to bind over a socket; it removes its own
when it ends by itself, not when it is killed.

`SSHAgent` has no specification of its own: it reads whether the edge's process runs,
whether main is in `startSSHAgent` and whether the context is done. `Edge` composes it
with `Daemon` by `INSTANCE SSHAgent WITH`, those three being expressions of `Daemon`'s
state. `Serve` of `Daemon` becomes `EdgeServe`, which needs `startSSHAgent` to have
returned; every other step is one of either, and a boot resets both.
`ImplementsDaemon` is the refinement: `Edge` does what `Daemon` does with all its
fairness, so `startSSHAgent` always returns.

### PackageCache

`ensurePackages` and `FetchPackage` by works side by side. The test for a package
and its download are separate actions, and so are the creation of the temporary
file, its completion and its rename.

### Hook

A name is a sequence of characters, a path a sequence of components, and `Join` does
what `filepath.Join` does to them, cleaning included: `Parts` splits a name at its
slashes, `Cleaned` takes out the dots, both recursive functions of the length read. The
scripts directory, `ScriptsDir`, is any path that is not the root. The script may write any bytes,
white space or not, in writes of any size up to a bound. `Compacted` is
`tailBuffer.Write`'s cut, `OutputTail` the trimmed and shortened end that rides in the
error.

### MC modules

`MCRunWork`, `MCLogStream`, `MCDaemon`, `MCPackageCache` and `MCHook` give the constants
their values; `PollLoop`, `DispatchedWork` and `Edge` are run as they are. The mutant operators next to a
definition (such as `FreeSlotsFloor` beside `FreeSlots`) are plausible slips of the
code that each property is seen to catch.

## 3. Runs

| Run | Question | Bounds and size | Fairness |
|---|---|---|---|
| `poll_loop` | slots conserved, no wakeup missed, an interrupt loses no work, cancels reach and do not leak, `WorkPool` implemented; SIGTERM ends the loop, freed slots are advertised, cancels end their work | 3 works, 2 slots; 396,000 states | loop, goroutines, canceled works |
| `dispatched_work` | a slot given back stands for a work that is over, the loop with a real work implements `PollLoop` with its fairness, an idle edge asks | 1 work, `MaxParallel` 0 (clamped to 1); 622,000 states | see below |
| `work_safety` | one terminal reply, nothing after it, a truthful one, the post-job hook undoes, nobody left behind, a canceled work returns, a work whose parts do theirs returns | plaklet's stdout of one reply; 7,600 states | see below |
| `work_payload` | *violated*: a canceled work returns, whatever the size of the payload | same | as `work_safety` |
| `work_garbage` | *violated*: a work that is not canceled always posts a terminal reply | same | as `work_safety` |
| `log_stream` | runes, lines, marks, `LossyLog` implemented (order, nothing unaccounted for), Close returns | 6 outputs of 10 bytes, writes of 1 to 3, chunk 6, buffer 8; 4,600 states | threads, select, posts |
| `log_gap` | *violated*: no output is lost unmarked | 1 output of 5 bytes | none |
| `daemon` | a ready edge has an identity it finds again after a crash of the process, identities are kept, SIGTERM stops, agents are supervised and restarted and never hold the daemon up | `Edge`: 2 edges created; 18,300 states | see below |
| `agent_outlives` | *violated*: once the edge has stopped, its agent ends | `Edge`: 1 edge created | as `daemon` |
| `daemon_retry` | *violated*: a retry of enrollment is never refused for its own sake | 2 edges created | none |
| `packages` | what is in the cache is whole, a work goes on with all it needs, no file is left but by a crash | 3 works, 2 packages; 6,400 states | none |
| `hook` | a script runs under its own name in its directory or the task fails, the error of a script shows the end of what it said | names of up to 4 characters, tail 3, error 2, output 11, writes of 1 to 4; 307,000 states | none |

### Why the bounds are enough

* Three works on two slots is the least instance in which all slots are taken,
  one is freed while another work holds on, and a third work is waiting. The theorems of
  section 4 remove these bounds for the safety properties of `poll_loop`. The run has no
  symmetry, as it checks liveness.
* One work on one slot, `dispatched_work`, is the least in which the edge goes between
  none and all, and that of which the slot is given back while the process of the work
  could still be there. `MaxParallel` is 0 so that the clamp is used. Other works touch
  this one through the loop only, and `poll_loop` has them; the theorems of
  `DispatchedProofs` hold for any number.
* `RunWork` has no bound: a reply of plaklet is taken off the pipe before the next,
  so any number of them is covered. One reply is the least pipe that can be full.
* A chunk cut inside a line is at least `ChunkMax - 3` long, so with a chunk of 6 one
  of 1 or 2 bytes that ends no line is a short line sent too soon (`WholeLines`); with 4,
  the longest UTF-8 sequence, no chunk would be. The code's is far larger. Buffer 8 is
  not a multiple of 6, and is overrun by the writes of an output of 10. The outputs
  have lines shorter than, equal to and longer than a chunk, sequences across
  each boundary, a malformed start, sequences that break off, and a cut in the middle of
  bytes that start none.
* Two edges created are one whose answer is lost and its successor, with any
  number of boots between. `agent_outlives` is about no edge in particular.
* The names of `hook` have each of `.`, `/` and `\` at each place, and all paths of
  dots and slashes up to four characters: up, up twice, into and out again. An output
  of 11 cuts a buffer of 3 twice, and writes of 4 are longer than it.
* Three works, one package needed by all, cover a download that is seen, one that
  is doubled and one that is cut.

### Fairness

* `PollLoop`: weak fairness of the loop, and of each goroutine, which the Go
  scheduler gives. A work returns by itself only if its context is done: that is taken
  for granted here, and shown by `ImplementsPollLoop` of `dispatched_work`, under
  `NoHeir`, `NoStray` and `SmallPayload` (below), from the fairness of the threads of `runWork`.
  Nothing is assumed of the control plane or the network: `ShutdownExits` holds
  since a poll whose context is done returns (`AbortPoll`, in `LoopStep`).
  `FreedSlotAdvertised` and `IdleEdgeAsks` say that the edge asks, not that it
  is answered.
* `DispatchedWork`: that of `PollLoop` for the loop and the other goroutines, and that of
  `RunWork` for the threads of the work while its process lives, but for the end of the last
  flush's chunks, which is not needed there.
* `RunWork`: the edge's own threads run; once the context is done a post gives up
  and a hook or plaklet is killed (`exec.CommandContext`, `terminateTimeout`,
  `postHookTimeout`). A write that nobody can read any more fails. The chunks of the last
  flush come to an end: strong fairness of the post after which nothing is left, which is
  what `FlushesShrink` of `LogStreamProofs` proves of the buffer. What is assumed of others
  is the premise of each property:
  `NoHeir` (no descendant holds a pipe for ever), `NoStray` (a plaklet that closes its
  stdin before the payload is written ends by itself), `SmallPayload` (the payload fits in
  the pipe of stdin), and `Cooperation` (hooks and downloads end, posts are answered
  or fail, plaklet ends unless it is blocked printing). Without a cancel nothing bounds
  a post, since the HTTP client has no timeout. Without `NoStray`, `CancelEnds`, `WorkEnds`
  and `ImplementsPollLoop` fail: after a failed write nobody kills plaklet. `work_payload` drops `SmallPayload` from
  `CancelEnds` and `work_garbage` drops "plaklet prints nothing but replies" from
  `WorkEnds`, and each is violated for it.
* `LogStream`: a post is answered or fails; strong fairness of the stop case of
  the `select`, which picks at random among the ready cases.
* `SSHAgent`: the threads run, the five seconds end (strong fairness of `GiveUp`, which
  each new look disables for a moment), and an agent told to end does. An agent that is
  started over and over binding its socket once is the premise of `AgentRestarts` only.
* `Daemon`: the process runs and, once SIGTERM was received, requests and works
  end. No fairness of `Boot`, of the operator, or of the control plane.

### Findings

The five runs that are expected to be violated show where the code does not do
what a comment or the README says.

1. `work_payload`: a large payload that plaklet does not read keeps the kill of
   `run.go:276` from being armed; a canceled work then never gives its slot back. A write
   that fails on a plaklet that closed its stdin and runs on (`run.go:268-272`) does the
   same: the premise `NoStray` sets it aside here, so that the run shows the first.
2. `work_garbage`: after a line that is not a reply nobody reads plaklet's stdout
   (`run.go:307-309`); plaklet fills the pipe and blocks, `cmd.Wait` waits for it, and
   the terminal reply of `run.go:52` is never posted.
3. `log_gap`: a post lost in the last flush leaves a silent gap
   (`logstream.go:104`), and drops what was to be sent after it.
4. `agent_outlives`: on a 401 the process exits with its context not done, and nobody
   signals the agent; when main returns, it does not wait for the goroutine that does, so
   the edge may be gone first. Either way an ssh-agent stays (`sshagent.go:17`).
5. `daemon_retry`: an enrollment whose answer is lost can never be retried
   (`main.go:356`).

Smaller ones are visible in the models and not made runs:

* a canceled work posts no terminal reply (`run.go:52`; the test `main_test.go:447`
  wants it so: the comment is what is off), which is why `OneTerminal` has `~ctxDone`;
* `/ready` says 200 while the daemon drains (`README.md:135`): `Exit`, not `Drain`,
  resets `ready`;
* two works that miss the same package at the same time both download it, where
  `README.md:75` says "only once"; the second rename replaces a file by an equal one;
* an agent whose restart fails is not tried again and its directory is removed, while
  works are still given the path of its socket.

## 4. Proofs

Eight modules hold the proofs: one per component, and `EdgeProofs` and `DispatchedProofs`
for the two compositions. Each of the first has an `Invariance` theorem, the inductive
invariant (`IInv`) from which its other theorems follow. All of it holds for
every value of the constants that the named assumption of the module allows, and no
other assumption is made. Every safety property that a run checks is proved; the
liveness properties are not (see the end of this section).

### PollLoopProofs

For every finite set of works and every integer `MaxParallel` (`PollLoopAssumption`):

| Theorem | States |
|---|---|
| `TypeCorrect` | `TypeOK` |
| `SlotsAreConserved`, `NeverOverLimit` | `SlotsConserved`, `WithinLimit` |
| `WakeupsAreSafe` | `NoMissedWakeup` |
| `InterruptsAreSafe` | `InterruptLosesNoWork` |
| `CancelsReach`, `CancelsAreReleased`, `CancelsTrack`, `CancelsAreExact` | `CancelReaches`, `NoLeak`, both (`CancelsTrackWorks`), `OnlyAsked` |
| `ExitsQuiescent` | `ExitQuiescent` |
| `Refinement` | `ImplementsWorkPool` |

`WithinLimit`, `OnlyAsked` and `ExitQuiescent` are proved and not checked by a run of their
own: the first is what `ImplementsWorkPool` checks of `WorkPool`.

All rest on `Invariance`, that `IInv == TypeOK /\ Control /\ SlotsConserved` holds.
The properties alone are not inductive. That a work never takes a slot that is
not there needs `Advertised`: between a poll and the handling of its answer slots
only grow, since only the loop takes one. That an interrupt loses no work needs
`Armed`: a poll is interrupted only if it advertised nothing, because a goroutine
that finds no slot free, at its own `Add(1)`, sees the same number the poll read
or a smaller one; and such a poll is never given a work. That a cancel reaches its
work needs `WorkInHand` and `CancelInHand`, which tie the loop's local variables to
the state of the work. `NextType`, `NextControl` and `NextSlots` prove the step, by
action; the count of holders is a lemma of its own (`NextHolding`), by the
cardinality theorems of the library. For the refinement each action maps to
`Start`, `Finish`, `Close` or a stutter.

### RunWorkProofs

`RunWork` has no constants; TLC's 7,600 states are all there are. The proof says why.

| Theorem | States |
|---|---|
| `WorkTypeCorrect` | `TypeOK` |
| `OneTerminalReply`, `TerminalReplyIsLast`, `TerminalReplyIsTruthful` | `OneTerminal`, `NothingLate`, `Truthful` |
| `PostHookFollows`, `WorkLeavesNothing` | `PostHookUndoes`, `NothingLeft` |

`NothingLate` looks at the control plane alone and is far from inductive. What makes it
so is a conjunct per sender: the keepalive goroutine has nothing in flight when it is off
and is off outside the jobs (`KeepAliveQuiet`), the streamer has nothing in flight when it
is done and is done before Close flushes and before the report (`StreamerQuiet`), and `runWork` posts a terminal
reply in its last stage only (`MainSays`, which needs that plaklet's is held back). `Flow`
says which jobs ended by each stage, from which the reply is truthful; `Processes` says
which processes a stage may have, from which none is left. That some output may be left
is no part of `NothingLeft`: what becomes of it is `LogStream`'s.

### DispatchedProofs

For every finite set of works, every `MaxParallel` and every work `Self` of them:

| Theorem | States |
|---|---|
| `LoopIsPollLoop` | the loop with its work run in full is `PollLoop` (`Spec`) |
| `WorkIsRunWork` | the work is `RunWork` (its `Spec`), whatever the loop and the other works do |
| `WorkInLockstep` | `runWork` has no process and no post before its dispatch, and has returned when its goroutine goes on |
| `SlotsMeanOver` | `SlotMeansOver` |
| `ProcessesHaveSlots` | a work with a process or a post on its way holds a slot, and at most `Capacity` do |

The two refinements carry every theorem of `PollLoopProofs` and `RunWorkProofs` over to the
composition. `LoopIsPollLoop` is by the form of a step: what the work does leaves the loop
alone. `WorkIsRunWork` needs that nothing undoes a cancel or a SIGTERM (`DoneForGood`): a step
around the work leaves its context as it is or is the `Cancel` of `RunWork`. Neither module
says when `runWork` runs; `Lockstep` does, and is inductive with the parts of the loop's
invariant that keep a work from being taken twice (`AroundKeepsPhase`). `SlotsMeanOver`, that at most
`MaxParallel` works have processes, joins the three: a slot is given back after `runWork`
returned (`Lockstep`), by then no process, no goroutine and no post is left (`NothingLeft` of
`RunWork`), and the terminal reply was posted (`OneTerminal`) unless the context was done,
which means that this work was asked to be canceled, or SIGTERM (`OnlyAsked` of `PollLoop`).

### LogStreamProofs

For every set of outputs, malformed UTF-8 included, every size of chunk of at least four
bytes and every buffer not smaller than a chunk (`LogStreamAssumption`):

| Theorem | States |
|---|---|
| `LogTypeCorrect` | `TypeOK` |
| `OutputIsAccountedFor` | `Accounted` |
| `ChunksKeepRunes`, `ChunksEndLines` | `WholeRunes`, `WholeLines` |
| `GapsAreMarked` | `GapMarked` |
| `LogRefines` | `ImplementsLossyLog` |
| `FlushesShrink` | each chunk leaves less in the buffer, and nothing is added after `Close` |

`Accounted` is not checked by a run of its own: it is what `ImplementsLossyLog` says of the
bytes, state by state.

The order of the log is inductive once it is said of the parts: what was received, what is
in flight and what is buffered are each sorted, and each below the next (`Ordered`);
`Split`, `ConcatSorted` and `ConcatElements` are the facts about sequences it needs.
`CutFits` and `BoundaryCloses` bound what `next` takes: something, since a sequence has at
most four bytes (this is where `ChunkMax >= UTFMax` is used), and nothing that ends inside
a sequence. `Runes` adds that while more may still be written right behind a chunk that
emptied the buffer, the chunk is closed by itself.

For the refinement `NextChunk` is a stutter, since what it takes is the front of what was
pending (`NextChunkMoves`), a write is `Keep` or `Refuse`, and the end of a post is `Send` or
`Lose` of as many bytes as the chunk has (`ChunkLeaves`), or `Mark`. `Mark` wants an empty
queue: only the flush of `Close` posts it, after everything else, and nothing is written by
then (`MarkIsLast`, inductive with `IInv`). `FlushesShrink` is the reason why `CloseReturns`
holds; the step from there to "eventually" is TLC's.

### PackageCacheProofs

For every set of works and packages and whatever each needs (`PackageCacheAssumption`):
`CacheTypeCorrect`, `CacheIsWhole` (`CacheWhole`), `WorksHavePackages` (`HasPackages`) and
`OnlyCrashesLeave` (`NoOrphan`). `HasPackages` rests on `Progress`: what a work has not
looked at is the end of what it needs, and all before that is in the cache, from which
nothing is ever taken (`Kept`).

### HookProofs

For every scripts directory but the root, every name, every size of tail and of error, and
every output cut into writes in any way (`HookAssumption`):

| Theorem | States |
|---|---|
| `HookTypeCorrect` | `TypeOK`, the bound of the buffer included |
| `ScriptIsNamed` | `RunsNamed` |
| `ErrorHasEnd` | `ErrorShowsEnd` |

`ErrorShowsEnd` speaks of the error alone. The invariant says of the buffer that it is an end
of the output, all of it or at least the tail that is wanted (`TailKept`): a write appends the same
to both (`TailGrows`), a cut takes an end of an end (`TailOfTail`). What is left is that trimming
and shortening the tail gives what trimming and shortening the whole output would
(`ShownIsEnd`). For `RunsNamed`, `ValidName` must leave no name that `Join` takes elsewhere: one
without a slash is a single component (`OneComponent`), and one that is neither empty nor
dots is kept by cleaning (`JoinsName`). `Parts` reads a name character by character; that it
finds one component in all of it is shown at the least length where it would not
(`LeastNumber`), the provers having no induction.

### DaemonProofs and EdgeProofs

For every number of edges (`DaemonAssumption`): `DaemonTypeCorrect`, `ReadyHasIdentity`
(`ReadyIsEnrolled`) and `IdentityIsKept` (`IdentityKept`), from what each place says of
the file and of the identity in memory (`Enrolling`, `Saving`, `Enrolled`).
`EdgeRefinesDaemon` shows that `EdgeSpec` implies `Daemon`'s `Spec`, which carries these
over to the composition (`ReadyEdgeIsEnrolled`, `EdgeKeepsIdentity`), and
`AgentsAreSupervised` proves `Supervised`.

### Only model-checked

Liveness under fairness and ENABLED are out of the prover's reach. So these stay with TLC:
`ShutdownExits`, `FreedSlotAdvertised`, `CancelEndsWork` and `IdleEdgeAsks` (the loop),
`CancelEnds` and `WorkEnds` (a work), `CloseReturns` (the log), `ShutdownStops` and
`AgentRestarts` (the daemon), and, of `ImplementsPollLoop` and `ImplementsDaemon`, the
fairness: that steps map to steps is `LoopIsPollLoop` and `EdgeRefinesDaemon`.

## 5. What is not modelled

* A second terminal reply of plaklet, which `run.go:311` would forward at once: plaklet
  sends one. The poll's 200 with an empty body.
* Reordering of two posts of one sender after the first failed at the client and
  still reached the server.
* A removal of the ssh-agent's socket that fails (`sshagent.go`): the agent could not
  bind for ever.
* What a hook's environment says, and what a script does.
* Tags: a split, a trim and the drop of duplicates, without state. The supervision server and its metrics,
  but for the ready flag: they read counters nobody decides on. System information, wire
  types, JSON shapes, flags other than the credentials, the Windows build (whose
  `startSSHAgent` does nothing), the chart.

## 6. Plan

In order; 1 to 13 are done.

1. `WorkPool`, `PollLoop`: dispatch, the core.
2. `PollLoopProofs`.
3. `RunWork`.
4. `LogStream`.
5. `Daemon`.
6. `PackageCache`.
7. `RunWork`: the pipes, descendants, garbage; liveness of a work that is not canceled.
8. `SSHAgent` and its composition with `Daemon`, `Edge`, which implements `Daemon`;
   the credentials of an enrollment.
9. `Hook`: resolution, and the tail of the output.
10. Proofs of `RunWork`, `LogStream`, `PackageCache`, `Daemon` and `Edge`.
11. `HookProofs`: the tail for every size, the resolution for every name and directory.
12. `DispatchedWork` and `DispatchedProofs`: pollLoop with `RunWork` in place of its step.
13. `LossyLog`, and that `LogStream` implements it.
14. What `SSHAgent` promises main, as an abstract module that `Edge` implements.
15. `RunWork` with `LogStream` in place of "something is buffered".
16. The variants behind the liveness properties of `RunWork` and `PollLoop`, as
    `FlushesShrink` is that of `CloseReturns`.
