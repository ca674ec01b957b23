------------------------------ MODULE PidLock ------------------------------
(***************************************************************************)
(* The single-instance guard of process/sig_process.c.  Every started      *)
(* process opens LOCKFILE, takes a write lock on it with fcntl(F_SETLK)    *)
(* and writes its pid into the file; a process that finds the lock taken   *)
(* exits.  The lock belongs to the process, so the kernel drops it when    *)
(* the process dies, while the contents of the file survive.               *)
(***************************************************************************)

CONSTANTS Proc,   \* the pids that may run the program
          None    \* no process (an unlocked or an empty file)

ASSUME NoneAssumption == None \notin Proc

VARIABLES pc,      \* pc[p]: how far process p has got in main
          holder,  \* the process that owns the fcntl lock, or None
          file     \* the pid in LOCKFILE, or None when it is absent or empty

vars == <<pc, holder, file>>

\* Process p is past lockfile(): it has been told that it may run.
Inside(p) == pc[p] \in {"locked", "truncated", "running"}

Init ==
    /\ pc = [p \in Proc |-> "off"]
    /\ holder = None
    /\ file = None

\* A variant of Open with O_TRUNC among the flags.
OpenTruncating(p) ==
    /\ pc[p] = "off"
    /\ pc' = [pc EXCEPT ![p] = "opened"]
    /\ file' = None
    /\ UNCHANGED holder

\* main starts; open(LOCKFILE, O_RDWR|O_CREAT) succeeds and changes nothing
\* another process can see, or it fails and the process exits at once.
Open(p) ==
    /\ pc[p] = "off"
    /\ pc' = [pc EXCEPT ![p] = "opened"]
    /\ UNCHANGED <<holder, file>>

\* A variant that asks fcntl nothing: the lock is taken whoever owns it.
LockGrantedUnchecked(p) ==
    /\ pc[p] = "opened"
    /\ holder' = p
    /\ pc' = [pc EXCEPT ![p] = "locked"]
    /\ UNCHANGED file

\* lockfile() succeeds: F_SETLK grants the write lock on the whole file.
LockGranted(p) ==
    /\ pc[p] = "opened"
    /\ holder = None
    /\ holder' = p
    /\ pc' = [pc EXCEPT ![p] = "locked"]
    /\ UNCHANGED file

\* A variant with F_SETLKW, which waits for the lock instead of failing.
LockRefusedWaiting(p) ==
    /\ pc[p] = "opened"
    /\ holder \notin {None, p}
    /\ UNCHANGED vars

\* lockfile() fails with EACCES/EAGAIN: already_running returns 1 and main
\* exits.  The close() on the way out owns no lock that it could drop.
LockRefused(p) ==
    /\ pc[p] = "opened"
    /\ holder \notin {None, p}
    /\ pc' = [pc EXCEPT ![p] = "off"]
    /\ UNCHANGED <<holder, file>>

\* A variant without the ftruncate: an older pid stays in the file.
TruncateSkipped(p) ==
    /\ pc[p] = "locked"
    /\ pc' = [pc EXCEPT ![p] = "truncated"]
    /\ UNCHANGED <<holder, file>>

\* ftruncate(fd, 0)
Truncate(p) ==
    /\ pc[p] = "locked"
    /\ file' = None
    /\ pc' = [pc EXCEPT ![p] = "truncated"]
    /\ UNCHANGED holder

\* write(fd, buf, strlen(buf) + 1).  The result is not looked at: when the
\* write fails the process runs all the same and the file stays empty.
WritePid(p) ==
    /\ pc[p] = "truncated"
    /\ file' \in {p, file}
    /\ pc' = [pc EXCEPT ![p] = "running"]
    /\ UNCHANGED holder

\* The process exits or is killed, at any point of main.
Die(p) ==
    /\ pc[p] # "off"
    /\ pc' = [pc EXCEPT ![p] = "off"]
    /\ holder' = IF holder = p THEN None ELSE holder
    /\ UNCHANGED file

Next == \E p \in Proc :
    \/ Open(p) \/ LockGranted(p) \/ LockRefused(p)
    \/ Truncate(p) \/ WritePid(p) \/ Die(p)

Spec == Init /\ [][Next]_vars

\* The kernel schedules every instance; none has to start or to die.
FairSpec ==
    /\ Spec
    /\ \A p \in Proc : WF_vars(LockGranted(p) \/ LockRefused(p) \/ Truncate(p) \/ WritePid(p))

-----------------------------------------------------------------------------
\* Every variable has its type: the states of main, the lock's owner and
\* the pid recorded in LOCKFILE (part of the inductive invariant).
TypeOK ==
    /\ pc \in [Proc -> {"off", "opened", "locked", "truncated", "running"}]
    /\ holder \in Proc \cup {None}
    /\ file \in Proc \cup {None}

\* At most one process is past already_running(): the program runs once,
\* however the starts, refusals and deaths of its instances interleave.
OneInstance == \A p, q \in Proc : Inside(p) /\ Inside(q) => p = q

\* The pid in LOCKFILE is that of the instance that is starting or running;
\* a dead instance's pid is there only while nobody holds the lock or the
\* new holder has not reached its ftruncate, and never once write(), failed
\* or not, has been passed.
PidfileNames ==
    file # None =>
        \/ Inside(file)
        \/ holder = None
        \/ pc[holder] = "locked"

\* While an instance runs, nothing that another start does in
\* already_running() changes the pid recorded in LOCKFILE.
RunningUndisturbed ==
    [][\A p \in Proc : pc[p] = "running" /\ pc'[p] = "running" => file' = file]_vars

\* Every start is decided: already_running() lets the instance run or sends
\* it away, and never waits for the instance that holds the lock, whichever
\* of the two comes first and wherever the other one dies.
StartsDecided == \A p \in Proc : pc[p] # "off" ~> pc[p] \in {"off", "running"}

=============================================================================
