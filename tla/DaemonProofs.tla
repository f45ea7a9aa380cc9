---------------------------- MODULE DaemonProofs ----------------------------
(***************************************************************************)
(* Proofs about Daemon: however many edges the control plane creates, a    *)
(* ready edge has an identity it would find again, and no identity is      *)
(* replaced.                                                               *)
(***************************************************************************)
EXTENDS Daemon, TLAPS

Issued == 1..issued

\* An identity in the file is one that was given.
DiskIssued == disk \in Edges => disk \in Issued

\* The places before the identity is saved are reached without a file only, those
\* after it with a file that has the identity in memory.
Enrolling == pc \in {"probe", "enroll", "sending", "retry", "saving"} => disk = 0
Saving == /\ pc \in {"saving", "writing"} => id \in Issued
          /\ pc = "writing" => disk = Partial
Enrolled == pc \in {"agent", "polling", "draining", "exiting"} => id \in Issued /\ disk = id
Ready == ready => pc \in {"polling", "draining"} \cup Down

IInv == TypeOK /\ DiskIssued /\ Enrolling /\ Saving /\ Enrolled /\ Ready

-----------------------------------------------------------------------------

\* Before the first boot there is no identity, and no edge.
LEMMA InitInv == Init => IInv
<1> SUFFICES ASSUME Init PROVE IInv
  OBVIOUS
<1>1. ready \in BOOLEAN /\ working \in BOOLEAN /\ shutdown \in BOOLEAN
      /\ keyOk \in BOOLEAN /\ conflict \in BOOLEAN
  BY DEF Init
<1>2. TypeOK
  BY <1>1, DaemonAssumption DEF Init, TypeOK, Down, Partial, Edges
<1>3. DiskIssued /\ Enrolling /\ Saving /\ Enrolled /\ Ready
  BY DEF Init, Edges, DiskIssued, Enrolling, Saving, Enrolled, Ready
<1>. QED
  BY <1>2, <1>3 DEF IInv

\* Every step, of main, of the operator or of the control plane, keeps the types.
LEMMA NextType == IInv /\ [Next]_vars => TypeOK'
<1> SUFFICES ASSUME IInv, [Next]_vars PROVE TypeOK'
  OBVIOUS
<1> USE DaemonAssumption
<1> USE DEF IInv, TypeOK, Down, Partial, Edges, Issued, Saving, procVars, serverVars,
            bootVars
<1>1. CASE Boot
  <2>1. pc' \in {"fatal", "load"} /\ creds' \in {"none", "pool", "organization"}
    BY <1>1 DEF Boot, Enrolls
  <2>2. /\ id' = 0 /\ ready' \in BOOLEAN /\ working' \in BOOLEAN /\ shutdown' \in BOOLEAN
        /\ mine' = 0 /\ conflict' \in BOOLEAN
        /\ UNCHANGED <<disk, keyOk, issued, edge>>
    BY <1>1 DEF Boot
  <2>. QED
    BY <2>1, <2>2
<1>2. CASE Outside
  <2>1. CASE Crash BY <2>1 DEF Crash
  <2>2. CASE Sigterm BY <2>2 DEF Sigterm
  <2>3. CASE RemoveState BY <2>3 DEF RemoveState
  <2>4. CASE RemoveEdge BY <2>4 DEF RemoveEdge
  <2>5. CASE Works
    <3>1. working' \in BOOLEAN
      BY <2>5 DEF Works
    <3>. QED
      BY <2>5, <3>1 DEF Works
  <2>6. CASE Unauthorized BY <2>6 DEF Unauthorized
  <2>. QED
    BY <1>2, <2>1, <2>2, <2>3, <2>4, <2>5, <2>6 DEF Outside
<1>3. CASE Load BY <1>3 DEF Load, Parses, ReadError, AfterNotExist
<1>4. CASE Probe \/ Enroll \/ Retry BY <1>4 DEF Probe, Enroll, Retry, AfterDelay
<1>5. CASE Save \/ Write BY <1>5 DEF Save, Write, AfterFailedWrite
<1>6. CASE Serve \/ Drain \/ Exit \/ Stop BY <1>6 DEF Serve, Drain, Exit, Stop
<1>7. CASE Created BY <1>7 DEF Created, CanCreate
<1>8. CASE Rejected BY <1>8 DEF Rejected
<1>9. CASE Transient BY <1>9 DEF Transient
<1>10. CASE UNCHANGED vars BY <1>10 DEF vars
<1>. QED
  BY <1>1, <1>2, <1>3, <1>4, <1>5, <1>6, <1>7, <1>8, <1>9, <1>10
  DEF Next, Step, Answer

\* Every step keeps what each place says of the file and of the identity in memory.
LEMMA NextControl ==
  IInv /\ [Next]_vars => (DiskIssued /\ Enrolling /\ Saving /\ Enrolled /\ Ready)'
<1> SUFFICES ASSUME IInv, [Next]_vars
             PROVE  (DiskIssued /\ Enrolling /\ Saving /\ Enrolled /\ Ready)'
  OBVIOUS
<1> USE DaemonAssumption
<1> USE DEF IInv, TypeOK, Down, Partial, Edges, Issued, DiskIssued, Enrolling, Saving,
            Enrolled, Ready, procVars, serverVars, bootVars
<1>1. CASE Boot
  <2>1. pc' \in {"fatal", "load"}
    BY <1>1 DEF Boot
  <2>. QED
    BY <1>1, <2>1 DEF Boot
<1>2. CASE Outside
  BY <1>2 DEF Outside, Crash, Sigterm, RemoveState, RemoveEdge, Works, Unauthorized
<1>3. CASE Load BY <1>3 DEF Load, Parses, ReadError, AfterNotExist
<1>4. CASE Probe \/ Enroll \/ Retry BY <1>4 DEF Probe, Enroll, Retry, AfterDelay
<1>5. CASE Save \/ Write BY <1>5 DEF Save, Write, AfterFailedWrite
<1>6. CASE Serve \/ Drain \/ Exit \/ Stop BY <1>6 DEF Serve, Drain, Exit, Stop
<1>7. CASE Created BY <1>7 DEF Created, CanCreate
<1>8. CASE Rejected BY <1>8 DEF Rejected
<1>9. CASE Transient BY <1>9 DEF Transient
<1>10. CASE UNCHANGED vars BY <1>10 DEF vars
<1>. QED
  BY <1>1, <1>2, <1>3, <1>4, <1>5, <1>6, <1>7, <1>8, <1>9, <1>10
  DEF Next, Step, Answer

\* What a step does to the file and to the edges given.
LEMMA NextIdentity ==
  ASSUME IInv, [Next]_vars
  PROVE  /\ disk \in Edges /\ disk' # disk => disk' = 0 /\ pc \in Down
         /\ issued' # issued => disk = 0
<1> USE DaemonAssumption
<1> USE DEF IInv, TypeOK, Down, Partial, Edges, Issued, Enrolling, Saving, procVars,
            serverVars, bootVars
<1>1. CASE Save \/ Write BY <1>1 DEF Save, Write
<1>2. CASE RemoveState BY <1>2 DEF RemoveState
<1>3. CASE Created BY <1>3 DEF Created, CanCreate
<1>4. CASE UNCHANGED <<disk, issued>> BY <1>4
<1>. QED
  BY <1>1, <1>2, <1>3, <1>4
  DEF Next, vars, Step, Answer, Outside, Boot, Crash, Sigterm, RemoveEdge, Works,
      Unauthorized, Load, Probe, Enroll, Retry, Serve, Drain, Exit, Stop, Rejected,
      Transient

\* The invariant every theorem of this module rests on.
THEOREM Invariance == Spec => []IInv
<1>1. IInv /\ [Next]_vars => IInv'
  BY NextType, NextControl DEF IInv
<1>. QED
  BY InitInv, <1>1, PTL DEF Spec

-----------------------------------------------------------------------------

\* Every variable keeps its type.
THEOREM DaemonTypeCorrect == Spec => []TypeOK
<1>1. IInv => TypeOK
  BY DEF IInv
<1>. QED
  BY Invariance, <1>1, PTL

\* An edge that says it is ready has an identity, and would find it again after a
\* crash (main.go:223-297).
THEOREM ReadyHasIdentity == Spec => []ReadyIsEnrolled
<1>1. IInv => ReadyIsEnrolled
  BY DEF IInv, Ready, Enrolled, Issued, ReadyIsEnrolled, ReadyProbe
<1>. QED
  BY Invariance, <1>1, PTL

\* No identity is replaced, or asked for while there is a file of one
\* (main.go:225-278).
THEOREM IdentityIsKept == Spec => IdentityKept
<1>1. IInv /\ [Next]_vars =>
        [/\ disk \in Edges /\ disk' # disk => disk' = 0 /\ pc \in Down
         /\ issued' # issued => disk = 0]_vars
  BY NextIdentity
<1>. QED
  BY Invariance, <1>1, PTL DEF Spec, IdentityKept
=============================================================================
