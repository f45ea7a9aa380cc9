-------------------------------- MODULE Hook --------------------------------
(***************************************************************************)
(* A hook of a work (hooks.go): the script is resolved from the name the   *)
(* task gives, is run, and its output goes to the log of the work and to a *)
(* buffer that keeps its tail for the error of a script that fails.        *)
(*                                                                         *)
(* A name is a sequence of characters, a path a sequence of components. A  *)
(* byte of output is its position and whether it is white space. Left out: *)
(* the script's environment, and the log (LogStream). RunWork has the      *)
(* context of the process and who waits for whom.                          *)
(***************************************************************************)
EXTENDS Integers, Sequences, SequencesExt

CONSTANTS
  Names,      \* the names tasks give: sequences of characters, <<>> for no hook
  ScriptsDir, \* the path -scripts-dir names when it is given
  TailMax,    \* tailBuffer.max
  ErrorMax,   \* what outputTail shows at most
  MaxOutput,  \* bound: bytes a script writes
  MaxWrite    \* bound: bytes of one write

ASSUME HookAssumption ==
  /\ Names \subseteq Seq(STRING)
  /\ ScriptsDir \in Seq(Seq(STRING)) /\ ScriptsDir # <<>>
  /\ TailMax \in Nat /\ ErrorMax \in 1..TailMax
  /\ MaxOutput \in Nat /\ MaxWrite \in Nat

VARIABLES
  name,     \* what the task gives, <<>> if nothing
  dir,      \* -scripts-dir: a path, or None
  file,     \* what stat finds: "absent", "regular" or "other"
  stage,    \* "called", "resolved", "running" or "returned"
  path,     \* what was resolved, None if nothing was
  buf,      \* tailBuffer.buf
  output,   \* history: what the script wrote
  failed,   \* runHook returned an error
  tail      \* the end of the output that rides in the error

config == <<name, dir, file>>
vars == <<config, stage, path, buf, output, failed, tail>>

None == <<>>

-----------------------------------------------------------------------------
(* resolveHookScript.                                                      *)

\* The components of a name between its slashes, as far as each character.
Parts(n) ==
  LET upTo[i \in 0..Len(n)] ==
        IF i = 0 THEN << <<>> >>
        ELSE LET cs == upTo[i - 1]
             IN IF n[i] = "/" THEN Append(cs, <<>>)
                ELSE [cs EXCEPT ![Len(cs)] = Append(@, n[i])]
  IN upTo
Components(n) == Parts(n)[Len(n)]

\* filepath.Join, which cleans the path.
Cleaned(p, c) == IF c \in {<<>>, <<".">>} THEN p
                 ELSE IF c # <<".", ".">> THEN Append(p, c)
                 ELSE IF p = <<>> THEN p ELSE Front(p)
Walk(d, cs) ==
  LET at[i \in 0..Len(cs)] == IF i = 0 THEN d ELSE Cleaned(at[i - 1], cs[i])
  IN at
Join(d, n) == LET cs == Components(n) IN Walk(d, cs)[Len(cs)]

SeparatorsBackslash == {"\\"}
Separators == {"/", "\\"}
ValidName(n) == /\ n \notin {<<>>, <<".">>, <<".", ".">>}
                /\ Separators \cap ToSet(n) = {}

Resolves == dir # None /\ ValidName(name) /\ file = "regular"

\* A directory is not a regular file.
Init == /\ name \in Names /\ dir \in {None, ScriptsDir}
        /\ file \in IF IsPrefix(Join(ScriptsDir, name), ScriptsDir)
                    THEN {"other"} ELSE {"absent", "regular", "other"}
        /\ stage = "called" /\ path = None
        /\ buf = <<>> /\ output = <<>> /\ failed = FALSE /\ tail = <<>>

NoHook == /\ stage = "called" /\ name = <<>>
          /\ stage' = "returned"
          /\ UNCHANGED <<config, path, buf, output, failed, tail>>

Resolve == /\ stage = "called" /\ name # <<>> /\ Resolves
           /\ stage' = "resolved" /\ path' = Join(dir, name)
           /\ UNCHANGED <<config, buf, output, failed, tail>>

Refuse == /\ stage = "called" /\ name # <<>> /\ ~Resolves
          /\ stage' = "returned" /\ failed' = TRUE
          /\ UNCHANGED <<config, path, buf, output, tail>>

-----------------------------------------------------------------------------
(* tailBuffer and outputTail.                                              *)

Suffix(s, n) == IF Len(s) > n THEN SubSeq(s, Len(s) - n + 1, Len(s)) ELSE s

\* The buffer is cut to its last bytes once it is longer than twice that.
CompactedNever(b) == b
Compacted(b) == IF Len(b) > 2 * TailMax THEN Suffix(b, TailMax) ELSE b

TailBytes == Suffix(buf, TailMax)

Dark(s) == {i \in DOMAIN s : ~s[i].space}
TrimSpace(s) == IF Dark(s) = {} THEN <<>> ELSE SubSeq(s, Min(Dark(s)), Max(Dark(s)))

\* The "..." of a cut tail stands for the bytes before it.
ShownFirst(s) == SubSeq(s, 1, IF Len(s) > ErrorMax THEN ErrorMax ELSE Len(s))
Shown(s) == Suffix(s, ErrorMax)
OutputTail == Shown(TrimSpace(TailBytes))

-----------------------------------------------------------------------------
(* The script.                                                             *)

Fails == failed' = TRUE /\ tail' = OutputTail

\* cmd.Run may fail to start it: it was removed since, or is not executable.
Start == /\ stage = "resolved"
         /\ \/ stage' = "running" /\ UNCHANGED <<failed, tail>>
            \/ stage' = "returned" /\ Fails
         /\ UNCHANGED <<config, path, buf, output>>

\* exec copies stdout and stderr, which are one pipe, to the buffer.
Write(p) == /\ stage = "running"
            /\ buf' = Compacted(buf \o p)
            /\ output' = output \o p
            /\ UNCHANGED <<config, stage, path, failed, tail>>

Writes == \E n \in 1..MaxWrite :
            /\ Len(output) + n <= MaxOutput
            /\ \E s \in [1..n -> BOOLEAN] :
                 Write([i \in 1..n |-> [at |-> Len(output) + i, space |-> s[i]]])

Ends == /\ stage = "running" /\ stage' = "returned"
        /\ Fails \/ UNCHANGED <<failed, tail>>
        /\ UNCHANGED <<config, path, buf, output>>

Returned == stage = "returned" /\ UNCHANGED vars

Next == NoHook \/ Resolve \/ Refuse \/ Start \/ Writes \/ Ends \/ Returned

Spec == Init /\ [][Next]_vars

-----------------------------------------------------------------------------

Bytes == [at : 1..MaxOutput, space : BOOLEAN]

\* Every variable keeps its type, and the buffer its bound.
TypeOK == /\ name \in Names /\ dir \in {None, ScriptsDir}
          /\ file \in {"absent", "regular", "other"}
          /\ stage \in {"called", "resolved", "running", "returned"}
          /\ path \in Seq(Seq(STRING)) /\ failed \in BOOLEAN
          /\ \A s \in {buf, output, tail} : s \in Seq(Bytes)
          /\ Len(buf) <= 2 * TailMax

\* A task that names a hook runs the file of that very name in the scripts directory,
\* or fails: no name leads out of the directory, or further into it, and no task goes
\* on without its hook (hooks.go:20-25, 35-36).
RunsNamed ==
  /\ path # None => dir = ScriptsDir /\ path = Append(dir, name)
  /\ stage = "returned" /\ ~failed => (name = <<>> <=> path = None)

\* The buffer has the last bytes written, however the script cut them into writes,
\* and the error of a script that fails ends with what it last said: nothing later than
\* the tail shown is anything but white space, and nothing before it is missing
\* unless the error is full or the buffer was (hooks.go:58-59, 111-122).
ErrorShowsEnd ==
  stage = "returned" /\ failed =>
    LET dark == {i \in DOMAIN output : i > Len(output) - TailMax /\ ~output[i].space}
        last == IF dark = {} THEN 0 ELSE Max(dark)
        from == IF dark = {} THEN 1 ELSE Max({Min(dark), last - ErrorMax + 1})
    IN tail = SubSeq(output, from, last)
=============================================================================
