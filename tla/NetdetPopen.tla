---------------------------- MODULE NetdetPopen -----------------------------
(***************************************************************************)
(* popen/popen.c: netdet_popen runs a shell command, copies what it writes *)
(* to a temporary file and limits its running time: once the time is over  *)
(* it sends SIGINT to the command in every turn of its loop.  It hands the *)
(* file to its caller, or closes it when nothing was read.                 *)
(*                                                                         *)
(* The command is a process and, possibly, a descendant that keeps the     *)
(* write end of the pipe open after the process has gone.  Bytes are       *)
(* counted, not represented; a tick of the clock is the select's 10 ms.    *)
(***************************************************************************)
EXTENDS Integers, FiniteSets, FiniteSetsExt

CONSTANTS BufSize,   \* bytes taken by one read (2048)
          PipeSize,  \* bytes the pipe holds
          Timeout,   \* the argument timeout, in ticks
          MaxOut,    \* bound on the bytes the command writes
          MaxClock   \* bound on the time the clock shows after the start

ASSUME PopenAssumption ==
    /\ {BufSize, PipeSize} \subseteq Nat \ {0}
    /\ {Timeout, MaxOut, MaxClock} \subseteq Nat
    /\ Timeout < MaxClock

VARIABLES
    pc,        \* "start", "exec" (cmd_exec), "select", "read", "probe" (kill
               \* with signal 0), "check" (the clock) or "done"
    cmd,       \* the command: "none", "running", "zombie" or "reaped"
    writers,   \* who holds the write end: a subset of {"cmd", "heir"}
    kind,      \* of the command: [stops: SIGINT ends it, ends: it exits by
               \* itself, reaps: the caller ignores SIGCHLD, so that the
               \* kernel reaps its children]
    pipe,      \* bytes in the pipe
    fd,        \* proc.fd, the read end: "none", "open" or "closed"
    pf,        \* proc.pf, the temporary file: "none", "open" or "closed"
    file,      \* bytes in the file
    written,   \* history: bytes the command has written
    seen,      \* history: written when a select last ended without a read
    clock,     \* gettimeofday
    time,      \* [count1, cmd_time]: the locals of that name
    started,   \* history: the first reading of time_count1
    read_count,
    ret,       \* the value returned: "n" read_count, or -1, or -2
    how        \* history: what ended the loop: "", "eof", "exit" or "signal"

proc == <<cmd, writers, kind>>
data == <<pipe, file, read_count, written, seen>>
vars == <<pc, proc, data, fd, pf, clock, time, started, ret, how>>

Kinds == [stops : BOOLEAN, ends : BOOLEAN, reaps : BOOLEAN]

Init ==
    /\ pc = "start" /\ cmd = "none" /\ writers = {} /\ kind \in Kinds
    /\ pipe = 0 /\ file = 0 /\ read_count = 0 /\ written = 0 /\ seen = 0
    /\ fd = "none" /\ pf = "none"
    /\ clock \in 0 .. 1 /\ time = [count1 |-> 0, cmd_time |-> 0] /\ started = 0
    /\ ret = 0 /\ how = ""

-----------------------------------------------------------------------------
(* The command and the clock.                                              *)

Write ==
    /\ writers # {} /\ pipe < PipeSize /\ written < MaxOut
    /\ fd = "open"
    /\ pipe' = pipe + 1 /\ written' = written + 1
    /\ UNCHANGED <<pc, proc, file, read_count, seen, fd, pf, clock, time, started, ret, how>>

\* The process leaves; it stays a zombie unless the kernel reaps it.
Gone == IF kind.reaps THEN "reaped" ELSE "zombie"

\* A descendant may live on with the write end.
Fork ==
    /\ cmd = "running" /\ writers = {"cmd"}
    /\ writers' = {"cmd", "heir"}
    /\ UNCHANGED <<pc, cmd, kind, data, fd, pf, clock, time, started, ret, how>>

Exit ==
    /\ cmd = "running" /\ kind.ends
    /\ cmd' = Gone /\ writers' = writers \ {"cmd"}
    /\ UNCHANGED <<pc, kind, data, fd, pf, clock, time, started, ret, how>>

HeirExit ==
    /\ "heir" \in writers
    /\ writers' = writers \ {"heir"}
    /\ UNCHANGED <<pc, cmd, kind, data, fd, pf, clock, time, started, ret, how>>

Tick ==
    /\ pc # "start" /\ clock < started + MaxClock
    /\ clock' = clock + 1
    /\ UNCHANGED <<pc, proc, data, fd, pf, time, started, ret, how>>

-----------------------------------------------------------------------------
(* netdet_popen.                                                           *)

\* tmpfile fails: -2, with nothing to release.
NoTmpfile ==
    /\ pc = "start"
    /\ pc' = "done" /\ ret' = -2
    /\ UNCHANGED <<proc, data, fd, pf, clock, time, started, how>>

\* tmpfile succeeds, and time_count1 gets its first reading.
Begin ==
    /\ pc = "start"
    /\ pc' = "exec" /\ pf' = "open"
    /\ time' = [time EXCEPT !.count1 = clock] /\ started' = clock
    /\ UNCHANGED <<proc, data, fd, clock, ret, how>>

\* cmd_exec fails, in pipe or in fork, and leaves no descriptor: the file is
\* closed and -1 returned.
NoCommand ==
    /\ pc = "exec"
    /\ pc' = "done" /\ pf' = "closed" /\ ret' = -1
    /\ UNCHANGED <<proc, data, fd, clock, time, started, how>>

\* cmd_exec: pipe, fork, and the parent closes its copy of the write end.
Start ==
    /\ pc = "exec"
    /\ pc' = "select" /\ fd' = "open"
    /\ cmd' = "running" /\ writers' = {"cmd"}
    /\ UNCHANGED <<kind, data, pf, clock, time, started, ret, how>>

\* A variant that looks whether the command is there before it reads.
ReadyProbes ==
    /\ pc = "select" /\ (pipe > 0 \/ writers = {})
    /\ pc' = "probe" /\ seen' = written
    /\ UNCHANGED <<proc, pipe, file, read_count, written, fd, pf, clock, time, started, ret, how>>

\* select reports the pipe: it holds bytes or has no writer.
Ready ==
    /\ pc = "select" /\ (pipe > 0 \/ writers = {})
    /\ pc' = "read"
    /\ UNCHANGED <<proc, data, fd, pf, clock, time, started, ret, how>>

\* select times out on an empty pipe that somebody may still write to.
Quiet ==
    /\ pc = "select" /\ pipe = 0 /\ writers # {}
    /\ pc' = "probe" /\ seen' = written
    /\ UNCHANGED <<proc, pipe, file, read_count, written, fd, pf, clock, time, started, ret, how>>

\* A variant that never closes the file.
LeaveOpen(why) ==
    /\ pc' = "done" /\ fd' = "closed" /\ how' = why
    /\ ret' = IF read_count > 0 THEN read_count ELSE -1
    /\ UNCHANGED pf

\* After the loop: the pipe is closed; the file goes to the caller if
\* anything was read and is closed otherwise.
Leave(why) ==
    /\ pc' = "done" /\ fd' = "closed" /\ how' = why
    /\ pf' = IF read_count > 0 THEN "open" ELSE "closed"
    /\ ret' = IF read_count > 0 THEN read_count ELSE -1

\* kill(pid, 0) after that: it fails only for a process that was reaped, and
\* the loop ends without another look at the pipe.
Probe ==
    /\ pc = "probe"
    /\ \/ /\ cmd # "reaped"
          /\ pc' = "check"
          /\ UNCHANGED <<fd, pf, ret, how>>
       \/ cmd = "reaped" /\ Leave("exit")
    /\ UNCHANGED <<proc, data, clock, time, started>>

\* select is interrupted by a signal of the caller's.
Interrupted ==
    /\ pc = "select"
    /\ Leave("signal")
    /\ UNCHANGED <<proc, data, clock, time, started>>

\* read: some bytes are appended to the file, or the end ends the loop.
Read ==
    /\ pc = "read"
    /\ \/ /\ pipe > 0
          /\ LET num == Min({pipe, BufSize}) IN
               /\ pipe' = pipe - num /\ file' = file + num
               /\ read_count' = read_count + num
          /\ pc' = "check"
          /\ UNCHANGED <<fd, pf, ret, how, written, seen>>
       \/ /\ pipe = 0
          /\ Leave("eof")
          /\ UNCHANGED data
    /\ UNCHANGED <<proc, clock, time, started>>

\* A variant that adds the time since the start in every turn.
CheckAdding ==
    /\ pc = "check"
    /\ LET spent == time.cmd_time + (clock - time.count1) IN
         /\ time' = [time EXCEPT !.cmd_time = spent]
         /\ \/ /\ spent > Timeout /\ cmd = "running" /\ kind.stops
               /\ cmd' = Gone /\ writers' = writers \ {"cmd"}
            \/ /\ ~(spent > Timeout /\ cmd = "running" /\ kind.stops)
               /\ UNCHANGED <<cmd, writers>>
    /\ pc' = "select"
    /\ UNCHANGED <<kind, data, fd, pf, clock, started, ret, how>>

\* A variant that limits the time of a single turn.
CheckTurn ==
    /\ pc = "check"
    /\ LET spent == clock - time.count1 IN
         /\ time' = [count1 |-> clock, cmd_time |-> spent]
         /\ \/ /\ spent > Timeout /\ cmd = "running" /\ kind.stops
               /\ cmd' = Gone /\ writers' = writers \ {"cmd"}
            \/ /\ ~(spent > Timeout /\ cmd = "running" /\ kind.stops)
               /\ UNCHANGED <<cmd, writers>>
    /\ pc' = "select"
    /\ UNCHANGED <<kind, data, fd, pf, clock, started, ret, how>>

\* The end of the loop's body.  ret = -5 is set here, but the next select
\* overwrites it before it is tested, so the loop goes on.
Check ==
    /\ pc = "check"
    /\ LET spent == time.cmd_time + (clock - time.count1) IN
         /\ time' = [count1 |-> clock, cmd_time |-> spent]
         /\ \/ /\ spent > Timeout /\ cmd = "running" /\ kind.stops
               /\ cmd' = Gone /\ writers' = writers \ {"cmd"}
            \/ /\ ~(spent > Timeout /\ cmd = "running" /\ kind.stops)
               /\ UNCHANGED <<cmd, writers>>
    /\ pc' = "select"
    /\ UNCHANGED <<kind, data, fd, pf, clock, started, ret, how>>

-----------------------------------------------------------------------------
Step ==
    \/ NoTmpfile \/ Begin \/ NoCommand \/ Start
    \/ Ready \/ Quiet \/ Read \/ Probe \/ Check

Next == Write \/ Fork \/ Exit \/ HeirExit \/ Tick \/ Step \/ Interrupted

Spec == Init /\ [][Next]_vars

\* The caller is scheduled, time passes, and a command that ends by itself
\* does.  A signal need not come, and a descendant need not end.
FairSpec == Spec /\ WF_vars(Step) /\ WF_vars(Tick) /\ WF_vars(Exit)

-----------------------------------------------------------------------------
\* What the command wrote is in the file or still in the pipe until the loop
\* ends.  When it ends with the end of the pipe the caller gets all of it;
\* when it ends because the command is gone, all that was written before
\* select timed out: only what comes between that and kill is lost.
LostOnlyAfterSelect ==
    /\ pc # "done" => written = file + pipe
    /\ how = "eof" => file = written
    /\ how = "exit" => file = seen

\* The caller gets an open file exactly when a positive size is returned, of
\* that size; on every path the pipe and any other file are closed.
HandOver ==
    pc = "done" =>
        /\ fd # "open"
        /\ pf = "open" <=> ret > 0
        /\ ret > 0 => ret = file

\* The time limit is not cut short: SIGINT ends a command only if the clock
\* shows that more than timeout has passed since netdet_popen first read it,
\* which is before it starts the command.
NotStoppedEarly ==
    [][cmd = "running" /\ cmd' # "running" /\ ~kind.ends => clock - started > Timeout]_vars

\* netdet_popen returns if the command ends, by itself or on SIGINT, its
\* output is finite, and either the kernel reaps the command or no descendant
\* keeps the pipe for ever.  (A zombie answers kill(pid, 0) like a process
\* that runs: with a lasting descendant nothing ends the loop.)
Returns ==
    (kind.stops \/ kind.ends) /\ (kind.reaps \/ <>[]("heir" \notin writers))
        => <>(pc = "done")

\* The branch `if (ret == -5) { printf("cmd timeout"); break; }`: a command
\* whose time is over ends the loop.
TimeoutEnds == time.cmd_time > Timeout ~> pc = "done"

=============================================================================
