--------------------------- MODULE PidLockProofs ---------------------------
(***************************************************************************)
(* Proofs about the single-instance guard, for any set of pids.            *)
(***************************************************************************)
EXTENDS PidLock, TLAPS

\* Being past lockfile() and owning the fcntl lock are the same thing.
LockInv == \A p \in Proc : Inside(p) <=> holder = p

\* The inductive invariant: the lock's owner and the contents of the file.
IInv == TypeOK /\ LockInv /\ PidfileNames

\* The initial states satisfy the inductive invariant.
LEMMA InitIInv == Init => IInv
  BY NoneAssumption DEF Init, IInv, TypeOK, LockInv, PidfileNames, Inside

\* No step of any instance breaks the inductive invariant.
LEMMA NextIInv == IInv /\ [Next]_vars => IInv'
<1> SUFFICES ASSUME IInv, [Next]_vars PROVE IInv'
  OBVIOUS
<1> USE NoneAssumption DEF IInv, TypeOK, LockInv, PidfileNames, Inside
<1>1. ASSUME NEW p \in Proc, Open(p) PROVE IInv'
  BY <1>1 DEF Open
<1>2. ASSUME NEW p \in Proc, LockGranted(p) PROVE IInv'
  BY <1>2 DEF LockGranted
<1>3. ASSUME NEW p \in Proc, LockRefused(p) PROVE IInv'
  BY <1>3 DEF LockRefused
<1>4. ASSUME NEW p \in Proc, Truncate(p) PROVE IInv'
  BY <1>4 DEF Truncate
<1>5. ASSUME NEW p \in Proc, WritePid(p) PROVE IInv'
  BY <1>5 DEF WritePid
<1>6. ASSUME NEW p \in Proc, Die(p) PROVE IInv'
  BY <1>6 DEF Die
<1>7. CASE UNCHANGED vars
  BY <1>7 DEF vars
<1> QED
  BY <1>1, <1>2, <1>3, <1>4, <1>5, <1>6, <1>7 DEF Next

\* The inductive invariant holds throughout every behaviour.
THEOREM Invariance == Spec => []IInv
  BY InitIInv, NextIInv, PTL DEF Spec

\* At most one instance is past already_running(), for any number of starts.
THEOREM SingleInstance == Spec => []OneInstance
<1>1. IInv => OneInstance
  BY DEF IInv, LockInv, OneInstance
<1> QED
  BY <1>1, Invariance, PTL

\* A dead instance's pid is never what LOCKFILE shows beside a running one.
THEOREM PidfileCorrect == Spec => []PidfileNames
<1>1. IInv => PidfileNames
  BY DEF IInv
<1> QED
  BY <1>1, Invariance, PTL

\* A running instance's pidfile is left alone by every other start.
THEOREM Undisturbed == Spec => RunningUndisturbed
<1>1. IInv /\ [Next]_vars
        => [\A p \in Proc : pc[p] = "running" /\ pc'[p] = "running" => file' = file]_vars
  <2> SUFFICES ASSUME IInv, Next, NEW q \in Proc,
                      pc[q] = "running", pc'[q] = "running"
               PROVE  file' = file
    BY DEF vars
  <2>1. holder = q
    BY DEF IInv, LockInv, Inside
  <2>2. ASSUME NEW p \in Proc, Truncate(p) \/ WritePid(p) PROVE FALSE
    <3>1. Inside(p)
      BY <2>2 DEF Truncate, WritePid, Inside
    <3>2. p = q
      BY <2>1, <3>1 DEF IInv, LockInv
    <3> QED
      BY <2>2, <3>2 DEF Truncate, WritePid
  <2> QED
    BY <2>2 DEF Next, Open, LockGranted, LockRefused, Die
<1> QED
  BY <1>1, Invariance, PTL DEF Spec, RunningUndisturbed

=============================================================================
