------------------------- MODULE PackageCacheProofs -------------------------
(***************************************************************************)
(* Proofs about PackageCache: whatever the works, the packages and what    *)
(* each work needs, the cache holds whole packages, a work that goes on    *)
(* has all of its own, and only a crash leaves a file behind.              *)
(***************************************************************************)
EXTENDS PackageCache, TLAPS

Done(w) == Len(Needs[w]) - Len(todo[w])

\* What w has not looked at is the end of what it needs; what it has is there.
Progress(w) ==
  /\ Done(w) >= 0
  /\ \A i \in DOMAIN todo[w] : todo[w][i] = Needs[w][Done(w) + i]
  /\ \A i \in 1..Done(w) : cache[Needs[w][i]] = "whole"

\* What the place of w says of it.
Place(w) == /\ pc[w] = "ready" => todo[w] = <<>>
            /\ pc[w] \in {"get", "copy", "rename"} => todo[w] # <<>>
            /\ pc[w] = "rename" => tmp[w] = "whole"

IInv == /\ TypeOK /\ CacheWhole /\ NoOrphan
        /\ \A w \in Works : Progress(w) /\ Place(w)

-----------------------------------------------------------------------------

\* What a work has when it looks at all of its needs anew.
LEMMA Afresh ==
  ASSUME NEW w \in Works, todo'[w] = Needs[w]
  PROVE  Progress(w)'
<1>1. Needs[w] \in Seq(Packages)
  BY PackageCacheAssumption
<1>2. Len(Needs[w]) \in Nat /\ DOMAIN Needs[w] = 1..Len(Needs[w])
  BY <1>1
<1>3. Done(w)' = 0
  BY <1>2 DEF Done
<1>. QED
  BY <1>2, <1>3 DEF Progress

\* The packages of the cache stay there: whoever adds one takes nothing away.
LEMMA Kept ==
  ASSUME NEW w \in Works, Progress(w), todo'[w] = todo[w],
         \A p \in Packages : cache[p] = "whole" => cache'[p] = "whole",
         TypeOK
  PROVE  Progress(w)'
<1>1. Done(w)' = Done(w)
  BY DEF Done
<1>2. \A i \in 1..Done(w) : Needs[w][i] \in Packages
  BY PackageCacheAssumption DEF Done, TypeOK, Progress
<1>. QED
  BY <1>1, <1>2 DEF Progress

\* A work that skips a package has it.
LEMMA Skipped ==
  ASSUME NEW w \in Works, Progress(w), TypeOK, todo[w] # <<>>,
         todo'[w] = Tail(todo[w]), cache'[Head(todo[w])] = "whole",
         \A p \in Packages : cache[p] = "whole" => cache'[p] = "whole"
  PROVE  Progress(w)'
<1>1. todo[w] \in Seq(Packages) /\ Needs[w] \in Seq(Packages)
  BY PackageCacheAssumption DEF TypeOK
<1>2. /\ Len(todo'[w]) = Len(todo[w]) - 1 /\ Len(todo[w]) \in Nat \ {0}
      /\ todo'[w] \in Seq(Packages) /\ Len(Needs[w]) \in Nat
      /\ \A i \in DOMAIN todo'[w] : todo'[w][i] = todo[w][i + 1] /\ i + 1 \in DOMAIN todo[w]
  BY <1>1
<1>3. Done(w)' = Done(w) + 1 /\ Done(w) \in Nat
  <2>1. Done(w) >= 0 /\ Done(w) = Len(Needs[w]) - Len(todo[w])
    BY DEF Progress, Done
  <2>2. Done(w)' = Len(Needs[w]) - Len(todo'[w])
    BY DEF Done
  <2>. QED
    BY <1>2, <2>1, <2>2
<1>4. ASSUME NEW i \in DOMAIN todo'[w] PROVE todo'[w][i] = Needs[w][Done(w)' + i]
  <2>1. i \in Nat /\ todo'[w][i] = todo[w][i + 1] /\ i + 1 \in DOMAIN todo[w]
    BY <1>2
  <2>2. todo[w][i + 1] = Needs[w][Done(w) + (i + 1)]
    BY <2>1 DEF Progress
  <2>3. Done(w) + (i + 1) = Done(w)' + i
    BY <1>3, <2>1
  <2>. QED
    BY <2>1, <2>2, <2>3
<1>5. ASSUME NEW i \in 1..Done(w)' PROVE cache'[Needs[w][i]] = "whole"
  <2>1. CASE i = Done(w) + 1
    BY <1>1, <1>2, <1>3, <2>1 DEF Progress
  <2>2. CASE i # Done(w) + 1
    <3>1. i \in 1..Done(w)
      BY <1>3, <2>2
    <3>2. Needs[w][i] \in Packages
      BY <1>1, <1>2, <3>1 DEF Done
    <3>. QED
      BY <3>1, <3>2 DEF Progress
  <2>. QED
    BY <2>1, <2>2
<1>. QED
  BY <1>3, <1>4, <1>5 DEF Progress

-----------------------------------------------------------------------------

\* A cache that is empty, and works that have looked at nothing.
LEMMA InitInv == Init => IInv
<1> SUFFICES ASSUME Init PROVE IInv
  OBVIOUS
<1>1. TypeOK /\ CacheWhole /\ NoOrphan
  BY PackageCacheAssumption DEF Init, TypeOK, CacheWhole, NoOrphan
<1>2. ASSUME NEW w \in Works PROVE Progress(w) /\ Place(w)
  <2>1. Needs[w] \in Seq(Packages) /\ todo[w] = Needs[w]
    BY PackageCacheAssumption DEF Init
  <2>2. Done(w) = 0
    BY <2>1 DEF Done
  <2>. QED
    BY <2>1, <2>2 DEF Init, Progress, Place
<1>. QED
  BY <1>1, <1>2 DEF IInv

\* One step of one work: the others keep what they had.
LEMMA FetchInv ==
  ASSUME IInv, NEW w \in Works, Fetch(w) \/ Again(w)
  PROVE  IInv'
<1> USE DEF IInv
<1>1. PICK todoOf : todoOf = todo[w] /\ todoOf \in Seq(Packages)
  BY DEF TypeOK
<1>2. TypeOK' /\ CacheWhole' /\ NoOrphan' /\ Place(w)'
  <2> USE PackageCacheAssumption
  <2> USE DEF TypeOK, CacheWhole, NoOrphan, Place, Goto, Skip, vars
  <2>1. CASE Look(w)
    <3>1. todo[w] # <<>> => Tail(todo[w]) \in Seq(Packages)
      BY <1>1
    <3>2. CASE todo'[w] = Tail(todo[w]) /\ pc' = pc /\ pc[w] = "next"
      BY <2>1, <3>1, <3>2 DEF Look, Present
    <3>3. CASE UNCHANGED todo
      BY <2>1, <3>3 DEF Look, Present
    <3>. QED
      BY <2>1, <3>2, <3>3 DEF Look
  <2>2. CASE LookFails(w) BY <2>2 DEF LookFails
  <2>3. CASE Get(w) BY <2>3 DEF Get
  <2>4. CASE GetFails(w) BY <2>4 DEF GetFails
  <2>5. CASE Copy(w) BY <2>5 DEF Copy
  <2>6. CASE FetchFails(w) BY <2>6 DEF FetchFails, Left
  <2>7. CASE Rename(w)
    <3>1. Head(todo[w]) \in Packages /\ Tail(todo[w]) \in Seq(Packages)
      BY <1>1, <2>7 DEF Rename, Copied
    <3>. QED
      BY <2>7, <3>1 DEF Rename, Copied
  <2>8. CASE Again(w) BY <2>8 DEF Again
  <2>. QED
    BY <2>1, <2>2, <2>3, <2>4, <2>5, <2>6, <2>7, <2>8 DEF Fetch
<1>3. \A p \in Packages : cache[p] = "whole" => cache'[p] = "whole"
  <2>1. CASE Rename(w) BY <2>1 DEF Rename, Copied, Place, TypeOK
  <2>2. CASE cache' = cache BY <2>2
  <2>. QED
    BY <2>1, <2>2 DEF Fetch, Look, LookFails, Get, GetFails, Copy, FetchFails, Again
<1>4. Progress(w)'
  <2>1. CASE todo'[w] = todo[w]
    BY <1>3, <2>1, Kept
  <2>2. CASE Again(w)
    BY <2>2, Afresh DEF Again, TypeOK
  <2>3. CASE Look(w) /\ todo'[w] # todo[w]
    <3>1. /\ todo[w] # <<>> /\ todo'[w] = Tail(todo[w])
          /\ cache' = cache /\ cache[Head(todo[w])] # "none"
      BY <2>3 DEF Look, Skip, Present, TypeOK
    <3>2. Head(todo[w]) \in Packages
      BY <1>1, <3>1
    <3>3. cache[Head(todo[w])] = "whole"
      BY <3>1, <3>2 DEF TypeOK, CacheWhole
    <3>. QED
      BY <1>3, <3>1, <3>3, Skipped
  <2>4. CASE Rename(w)
    <3>1. todo[w] # <<>> /\ tmp[w] = "whole"
      BY <2>4 DEF Rename, Copied, Place
    <3>2. Head(todo[w]) \in Packages
      BY <1>1, <3>1
    <3>3. todo'[w] = Tail(todo[w]) /\ cache'[Head(todo[w])] = "whole"
      BY <2>4, <3>1, <3>2 DEF Rename, Skip, TypeOK
    <3>. QED
      BY <1>3, <3>1, <3>3, Skipped
  <2>. QED
    BY <2>1, <2>2, <2>3, <2>4 DEF Fetch, LookFails, Get, GetFails, Copy, FetchFails
<1>5. ASSUME NEW v \in Works, v # w PROVE Progress(v)' /\ Place(v)'
  <2>1. todo'[v] = todo[v] /\ pc'[v] = pc[v] /\ tmp'[v] = tmp[v]
    BY <1>5 DEF Fetch, Look, LookFails, Get, GetFails, Copy, FetchFails, Rename, Again,
                Goto, Skip, TypeOK
  <2>. QED
    BY <1>3, <2>1, Kept DEF Place
<1>. QED
  BY <1>2, <1>4, <1>5

\* A crash drops what is in progress and nothing of the cache.
LEMMA CrashInv == IInv /\ Crash => IInv'
<1> SUFFICES ASSUME IInv, Crash PROVE IInv'
  OBVIOUS
<1>1. TypeOK' /\ CacheWhole' /\ NoOrphan'
  BY PackageCacheAssumption DEF IInv, Crash, TypeOK, CacheWhole, NoOrphan
<1>2. ASSUME NEW w \in Works PROVE Progress(w)' /\ Place(w)'
  BY Afresh DEF Crash, Place
<1>. QED
  BY <1>1, <1>2 DEF IInv

\* No step, no change.
LEMMA StutterInv == IInv /\ UNCHANGED vars => IInv'
  BY DEF IInv, vars, TypeOK, CacheWhole, NoOrphan, Progress, Place, Done

\* The invariant every theorem of this module rests on.
THEOREM Invariance == Spec => []IInv
<1>1. IInv /\ [Next]_vars => IInv'
  BY FetchInv, CrashInv, StutterInv DEF Next
<1>. QED
  BY InitInv, <1>1, PTL DEF Spec

-----------------------------------------------------------------------------

\* Every variable keeps its type.
THEOREM CacheTypeCorrect == Spec => []TypeOK
<1>1. IInv => TypeOK
  BY DEF IInv
<1>. QED
  BY Invariance, <1>1, PTL

\* Whoever downloads a package and wherever it is cut, what is under its name is
\* whole (client.go:118-134).
THEOREM CacheIsWhole == Spec => []CacheWhole
<1>1. IInv => CacheWhole
  BY DEF IInv
<1>. QED
  BY Invariance, <1>1, PTL

\* A work goes on to its hooks with all the packages it needs (run.go:76-84).
THEOREM WorksHavePackages == Spec => []HasPackages
<1>1. IInv => HasPackages
  <2> SUFFICES ASSUME IInv, NEW w \in Works, pc[w] = "ready",
                      NEW i \in DOMAIN Needs[w]
               PROVE  cache[Needs[w][i]] = "whole"
    BY DEF HasPackages
  <2>1. Needs[w] \in Seq(Packages) /\ todo[w] = <<>>
    BY PackageCacheAssumption DEF IInv, Place
  <2>2. i \in 1..Done(w)
    BY <2>1 DEF Done
  <2>. QED
    BY <2>2 DEF IInv, Progress
<1>. QED
  BY Invariance, <1>1, PTL

\* Only a crash leaves a temporary file behind (client.go:122-134).
THEOREM OnlyCrashesLeave == Spec => []NoOrphan
<1>1. IInv => NoOrphan
  BY DEF IInv
<1>. QED
  BY Invariance, <1>1, PTL
=============================================================================
