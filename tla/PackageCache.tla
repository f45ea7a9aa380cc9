---------------------------- MODULE PackageCache ----------------------------
(***************************************************************************)
(* The cache of connector packages: ensurePackages (run.go:154-199) looks  *)
(* for each package a work needs and FetchPackage (client.go:90-136)       *)
(* downloads a missing one into a temporary file that it renames. Works    *)
(* run side by side and share the directory, with no lock around it.       *)
(*                                                                         *)
(* Simplifications: the map seen of one call is left out, the package it   *)
(* would skip being installed by then; opening, writing and closing the    *)
(* temporary file are one step each way. A crash is one of the process:    *)
(* what it wrote is still there.                                           *)
(***************************************************************************)
EXTENDS Integers, Sequences, FiniteSets

CONSTANTS Works,     \* the works that run side by side
          Packages,  \* the packages of the control plane
          Needs      \* Needs[w]: those of w's source and target, in order

ASSUME PackageCacheAssumption == Needs \in [Works -> Seq(Packages)]

VARIABLES
  pc,        \* pc[w]: where w is in ensurePackages
  todo,      \* todo[w]: the packages it has not looked at
  tmp,       \* tmp[w]: its temporary file: "none", "partial" or "whole"
  cache,     \* cache[p]: the file of p, likewise
  orphan,    \* a temporary file belongs to nobody
  crashed    \* the daemon crashed at least once

vars == <<pc, todo, tmp, cache, orphan, crashed>>

Init == /\ pc = [w \in Works |-> "next"] /\ todo = Needs
        /\ tmp = [w \in Works |-> "none"] /\ cache = [p \in Packages |-> "none"]
        /\ orphan = FALSE /\ crashed = FALSE

Goto(w, where) == pc' = [pc EXCEPT ![w] = where]
Skip(w) == todo' = [todo EXCEPT ![w] = Tail(@)]

\* The next package: nothing left, there already, or to be fetched. The check
\* and the fetch are two steps.
PresentSoon(p) == \/ cache[p] # "none"
                  \/ \E w \in Works : tmp[w] # "none" /\ Head(todo[w]) = p
Present(p) == cache[p] # "none"
Look(w) ==
  /\ pc[w] = "next"
  /\ \/ todo[w] = <<>> /\ Goto(w, "ready") /\ UNCHANGED todo
     \/ /\ todo[w] # <<>> /\ Present(Head(todo[w]))
        /\ Skip(w) /\ UNCHANGED pc
     \/ /\ todo[w] # <<>> /\ ~Present(Head(todo[w]))
        /\ Goto(w, "get") /\ UNCHANGED todo
  /\ UNCHANGED <<tmp, cache, orphan, crashed>>

\* The directory cannot be made, or the package's name is not valid.
LookFails(w) == /\ pc[w] = "next" /\ Goto(w, "failed")
                /\ UNCHANGED <<todo, tmp, cache, orphan, crashed>>

\* The response's headers, and the temporary file.
Get(w) == /\ pc[w] = "get"
          /\ Goto(w, "copy")
          /\ tmp' = [tmp EXCEPT ![w] = "partial"]
          /\ UNCHANGED <<todo, cache, orphan, crashed>>

GetFails(w) == /\ pc[w] = "get" /\ Goto(w, "failed")
               /\ UNCHANGED <<todo, tmp, cache, orphan, crashed>>

Copy(w) == /\ pc[w] = "copy"
           /\ Goto(w, "rename")
           /\ tmp' = [tmp EXCEPT ![w] = "whole"]
           /\ UNCHANGED <<todo, cache, orphan, crashed>>

\* The body ends early, the context is done, the disk is full, or the rename is
\* refused: the temporary file is removed.
LeftKept(w) == tmp[w]
Left(w) == "none"
FetchFails(w) == /\ pc[w] \in {"copy", "rename"} /\ Goto(w, "failed")
                 /\ tmp' = [tmp EXCEPT ![w] = Left(w)]
                 /\ UNCHANGED <<todo, cache, orphan, crashed>>

CopiedOrNot(w) == pc[w] \in {"copy", "rename"}
Copied(w) == pc[w] = "rename"
Rename(w) == /\ Copied(w) /\ Goto(w, "next") /\ Skip(w)
             /\ cache' = [cache EXCEPT ![Head(todo[w])] = tmp[w]]
             /\ tmp' = [tmp EXCEPT ![w] = "none"]
             /\ UNCHANGED <<orphan, crashed>>

\* The work is over, and another one with the same needs comes.
Again(w) == /\ pc[w] \in {"ready", "failed"}
            /\ Goto(w, "next") /\ todo' = [todo EXCEPT ![w] = Needs[w]]
            /\ tmp' = [tmp EXCEPT ![w] = "none"]
            /\ orphan' = (orphan \/ tmp[w] # "none")
            /\ UNCHANGED <<cache, crashed>>

\* The daemon dies and is started again; nothing cleans the directory.
Crash == /\ crashed' = TRUE
         /\ orphan' = (orphan \/ \E w \in Works : tmp[w] # "none")
         /\ pc' = [w \in Works |-> "next"] /\ todo' = Needs
         /\ tmp' = [w \in Works |-> "none"]
         /\ UNCHANGED cache

Fetch(w) == \/ Look(w) \/ LookFails(w) \/ Get(w) \/ GetFails(w) \/ Copy(w)
            \/ FetchFails(w) \/ Rename(w)

Next == Crash \/ \E w \in Works : Fetch(w) \/ Again(w)

Spec == Init /\ [][Next]_vars

-----------------------------------------------------------------------------
(* Properties.                                                             *)

\* Every variable keeps its type; a work has a temporary file while it downloads.
TypeOK == /\ pc \in [Works -> {"next", "get", "copy", "rename", "ready", "failed"}]
          /\ todo \in [Works -> Seq(Packages)]
          /\ tmp \in [Works -> {"none", "partial", "whole"}]
          /\ \A w \in Works : tmp[w] # "none" <=> pc[w] \in {"copy", "rename"}
          /\ cache \in [Packages -> {"none", "partial", "whole"}]
          /\ orphan \in BOOLEAN /\ crashed \in BOOLEAN

\* A package another work sees, or a later boot finds, is whole, whoever was
\* downloading it and wherever it was cut (client.go:118-134).
CacheWhole == \A p \in Packages : cache[p] # "partial"

\* A work goes on to its hooks only with every package it needs, its own or
\* somebody else's download (run.go:76-84, 188-190).
HasPackages == \A w \in Works :
                 pc[w] = "ready" => \A i \in DOMAIN Needs[w] : cache[Needs[w][i]] = "whole"

\* Only a crash leaves a temporary file behind (client.go:122-134).
NoOrphan == orphan => crashed
=============================================================================
