----------------------------- MODULE LogStream ------------------------------
(***************************************************************************)
(* logStreamer (logstream.go): the output of the hooks and of plaklet is   *)
(* buffered by Write, sent in chunks by a goroutine that flushes whole     *)
(* lines periodically, and flushed for good by Close, which waits for that *)
(* goroutine first. next and Write exclude each other by mu; the post of a *)
(* chunk is outside it.                                                    *)
(*                                                                         *)
(* A byte is the length of the UTF-8 sequence it starts: 1 to 4, 0 when it *)
(* continues one; Newline is told apart. The output is a sequence of       *)
(* bytes, and a byte is known by its position in it. logChunkMax and       *)
(* logBufferMax are parameters; the copy to the local stderr is left out.  *)
(***************************************************************************)
EXTENDS Integers, Sequences, FiniteSets, FiniteSetsExt

CONSTANTS Outputs,    \* the outputs a work may write
          MaxWrite,   \* bound: the bytes of one Write
          ChunkMax,   \* logChunkMax
          BufferMax   \* logBufferMax

Newline == 10
UTFMax == 4

ASSUME LogStreamAssumption ==
  /\ \A o \in Outputs : o \in Seq(0..UTFMax \cup {Newline})
  /\ MaxWrite \in Nat \ {0}
  /\ ChunkMax \in Nat /\ ChunkMax >= UTFMax
  /\ BufferMax \in Nat /\ BufferMax >= ChunkMax

VARIABLES
  output,     \* what the work writes, all in all
  written,    \* how much of it is written
  buf,        \* the positions of the bytes buffered
  truncated,  \* some output is gone and the log does not say so yet
  at,         \* the thread that flushes: "select", "looping", "posting", "closed"
  final,      \* that thread is Close, after the goroutine ended
  stop,       \* Close has been called
  chunk,      \* the positions of the bytes being posted, <<>> for the marker
  received,   \* control plane: the positions received, in order
  lost,       \* the positions of the bytes dropped
  marked      \* control plane: the marker has been received

vars == <<output, written, buf, truncated, at, final, stop, chunk, received, lost,
          marked>>
netVars == <<received, lost, marked>>

Elements(s) == {s[i] : i \in DOMAIN s}
Byte(i) == output[buf[i]]

Init == /\ output \in Outputs /\ written = 0
        /\ buf = <<>> /\ truncated = FALSE
        /\ at = "select" /\ final = FALSE /\ stop = FALSE
        /\ chunk = <<>> /\ received = <<>> /\ lost = {} /\ marked = FALSE

-----------------------------------------------------------------------------

\* Whole writes are dropped once the buffer is full.
FitsChunk(n) == Len(buf) <= BufferMax
Fits(n) == Len(buf) + n <= BufferMax
Write(n) ==
  LET p == [i \in 1..n |-> written + i]
  IN /\ ~stop /\ written + n <= Len(output)
     /\ written' = written + n
     /\ IF Fits(n)
          THEN buf' = buf \o p /\ UNCHANGED <<truncated, lost>>
          ELSE truncated' = TRUE /\ lost' = lost \cup Elements(p) /\ UNCHANGED buf
     /\ UNCHANGED <<output, at, final, stop, chunk, received, marked>>

\* Whether the sequence started at i is complete, or broken, before n.
FullRune(i, n) == \/ Byte(i) = Newline \/ Byte(i) <= n - i + 1
                  \/ \E j \in i+1..n : Byte(j) # 0

\* Back n off so that the first n bytes do not end inside a sequence.
RuneBoundaryNone(n) == n
RuneBoundary(n) ==
  LET starts == {i \in Max({1, n - UTFMax + 1})..n : Byte(i) # 0}
  IN IF starts = {} \/ FullRune(Max(starts), n) THEN n ELSE Max(starts) - 1

\* How many bytes next takes from a buffer that is not empty, 0 for none.
CutAnyLength ==
  LET n == Min({Len(buf), ChunkMax})
      newlines == {i \in 1..n : Byte(i) = Newline}
  IN IF final /\ n = Len(buf) THEN n
     ELSE IF newlines # {} THEN Max(newlines)
     ELSE RuneBoundary(n)
Cut == LET n == Min({Len(buf), ChunkMax})
           newlines == {i \in 1..n : Byte(i) = Newline}
       IN IF final /\ n = Len(buf) THEN n
          ELSE IF newlines # {} THEN Max(newlines)
          ELSE IF n < ChunkMax THEN 0
          ELSE RuneBoundary(n)

HasChunk == buf # <<>> /\ (Cut > 0 \/ Len(buf) >= ChunkMax)

\* next and flush.
RestSkips(n) == SubSeq(buf, n + 2, Len(buf))
Rest(n) == SubSeq(buf, n + 1, Len(buf))
NextChunk == /\ at = "looping" /\ HasChunk
             /\ at' = "posting" /\ chunk' = SubSeq(buf, 1, Cut)
             /\ buf' = Rest(Cut)
             /\ UNCHANGED <<output, written, truncated, final, stop>>
             /\ UNCHANGED netVars

NextMarker == /\ at = "looping" /\ buf = <<>> /\ final /\ truncated
              /\ at' = "posting" /\ chunk' = <<>>
              /\ truncated' = FALSE
              /\ UNCHANGED <<output, written, buf, final, stop>>
              /\ UNCHANGED netVars

Over == IF final THEN "closed" ELSE "select"

FlushEnds == /\ at = "looping" /\ ~HasChunk /\ ~(buf = <<>> /\ final /\ truncated)
             /\ at' = Over
             /\ UNCHANGED <<output, written, buf, truncated, final, stop, chunk>>
             /\ UNCHANGED netVars

Received == /\ received' = received \o chunk
            /\ marked' = (marked \/ chunk = <<>>)
            /\ UNCHANGED lost

Posted == /\ at = "posting"
          /\ at' = "looping" /\ chunk' = <<>>
          /\ Received
          /\ UNCHANGED <<output, written, buf, truncated, final, stop>>

\* The post fails, though the control plane may have received it: the chunk is
\* gone, and the flush ends there.
TruncatedForgets == truncated
Truncated == TRUE
AfterFailureOn == "looping"
AfterFailure == Over
PostFails == /\ at = "posting"
             /\ at' = AfterFailure /\ chunk' = <<>>
             /\ truncated' = Truncated
             /\ \/ Received
                \/ lost' = lost \cup Elements(chunk) /\ UNCHANGED <<received, marked>>
             /\ UNCHANGED <<output, written, buf, final, stop>>

\* The goroutine: the ticker, or the stop channel.
Tick == /\ at = "select" /\ ~final
        /\ at' = "looping"
        /\ UNCHANGED <<output, written, buf, truncated, final, stop, chunk>>
        /\ UNCHANGED netVars

\* Close: no output is written after it.
Close == /\ ~stop /\ stop' = TRUE
         /\ UNCHANGED <<output, written, buf, truncated, at, final, chunk>>
         /\ UNCHANGED netVars

RunReturns == /\ at = "select" /\ stop /\ ~final
              /\ at' = "looping" /\ final' = TRUE
              /\ UNCHANGED <<output, written, buf, truncated, stop, chunk>>
              /\ UNCHANGED netVars

-----------------------------------------------------------------------------

FlushStep == NextChunk \/ NextMarker \/ FlushEnds \/ RunReturns

Terminated == at = "closed" /\ UNCHANGED vars

Next == \/ \E n \in 1..MaxWrite : Write(n)
        \/ FlushStep \/ Posted \/ PostFails \/ Tick \/ Close \/ Terminated

\* The threads run, select takes the stop channel sooner or later, and every post
\* is answered or fails.
Fairness == SF_vars(RunReturns) /\ WF_vars(FlushStep) /\ WF_vars(Posted \/ PostFails)

Spec == Init /\ [][Next]_vars
FairSpec == Spec /\ Fairness

-----------------------------------------------------------------------------
(* Properties.                                                             *)

\* Every variable keeps its type, and the buffer its bound.
TypeOK == /\ output \in Outputs /\ written \in 0..Len(output)
          /\ buf \in Seq(1..written) /\ Len(buf) <= BufferMax
          /\ truncated \in BOOLEAN /\ final \in BOOLEAN /\ stop \in BOOLEAN
          /\ at \in {"select", "looping", "posting", "closed"}
          /\ chunk \in Seq(1..written) /\ Len(chunk) <= ChunkMax
          /\ received \in Seq(1..written) /\ lost \subseteq 1..written
          /\ marked \in BOOLEAN

\* Every byte written is received, in flight, buffered or counted as lost, and the
\* log keeps the order of the output and repeats nothing, whichever thread flushes
\* and whatever is lost (logstream.go:97-141).
Accounted ==
  /\ 1..written = Elements(received) \cup Elements(chunk) \cup Elements(buf) \cup lost
  /\ LET all == received \o chunk \o buf
     IN \A i \in 1..Len(all) - 1 : all[i] < all[i + 1]

\* A chunk never ends inside a UTF-8 sequence it starts (logstream.go:94-96, 144): if
\* it has the start of one and not all of it, what is left in the buffer does not
\* continue it.
WholeRunes ==
  \A i \in DOMAIN chunk :
    LET size == Len(chunk) - i + 1
    IN buf # <<>> /\ buf[1] = chunk[i] + size /\ output[chunk[i]] \in size+1..UTFMax
         => \E j \in chunk[i]+1..buf[1] : output[j] # 0

\* Until Close, a chunk ends a line, unless the line is longer than a chunk.
WholeLines ==
  at = "posting" /\ ~final =>
    \/ output[chunk[Len(chunk)]] = Newline
    \/ /\ Len(chunk) > ChunkMax - UTFMax
       /\ \A i \in DOMAIN chunk : output[chunk[i]] # Newline

\* Output that is gone leaves a trace: the marker is due, on its way or received
\* (logstream.go:61-63, 104-106).
GapMarked == lost # {} => truncated \/ marked \/ (at = "posting" /\ chunk = <<>>)

\* The streamer keeps the promises of LossyLog: output leaves from the front of what is
\* in flight and buffered, arrives or is lost, and a mark stays due for what is lost
\* until one arrives, whichever thread flushes (logstream.go:25-27, 56-67, 97-141).
LL == INSTANCE LossyLog WITH
        pending <- chunk \o buf,
        gone    <- lost,
        due     <- truncated \/ (at = "posting" /\ chunk = <<>>)

ImplementsLossyLog == LL!Spec

\* Close returns: no flush goes on forever (logstream.go:86-92, 97-112).
CloseReturns == stop ~> at = "closed"

\* "The chunk is gone: mark the log so the gap is not silent." (logstream.go:104):
\* when Close returns, output that never reached the control plane is marked.
NoSilentGap == at = "closed" /\ lost # {} => marked
=============================================================================
