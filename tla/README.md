# A TLA+ verification of linux_program

`linux_program` is a collection of small Linux system programs: servers and
clients over local sockets, message queues and TCP, event loops, a command
runner, netlink configuration tools and a few samples.  The programs are short,
but each is a protocol between processes and the kernel, and what is hard about
them (who blocks on whom, what a late answer is taken for, which edge is
reported, what survives a crash) is hardly testable.  This directory models
those protocols in TLA+, checks them with TLC on small instances, and proves the
properties that matter most with TLAPS for every instance.

`PROJECT.json` is the machine-readable index: components, runs, the source lines
each definition models, mutants, hazards, findings, theorems.

## 1. The system and its parts

| part | source | state | what makes it hard |
|---|---|---|---|
| single-instance guard | `process/sig_process.c` | lock, pid file, program counter of every instance | concurrent starts, death at any point, a stale pid in the file |
| number service | `domain_sock/` | server's counter and queue, clients' queues and loops | timeouts with late answers, full queues, restarts, reused pids |
| answers over message queues | `msq_domain/` | System V queues that outlive processes | a queue left behind, lookup and use in two calls, waiting for ever |
| edge-triggered server | `epool/epoll.cpp` | backlog, socket buffers, ready list | merged edges, blocking sockets, end of descriptors |
| command runner | `popen/popen.c` | child, pipe, temporary file, clock | timeout against exit, descendants that keep the pipe, who closes what |
| netlink messages | `network/code/nl.c` | a buffer and the attributes in it | alignment, nesting, 16-bit lengths |
| interface configuration | `network/code/network.c` | one call's socket, two messages, error | a failure at any of a dozen steps |
| tail queue | `network/server/queue.h` | forward and backward pointers | surgery at the ends, entries read as heads |
| libevent server | `network/server/server.c` | client list, descriptors, events | reused descriptors, removal during traversal, clients that left |
| address and link listing | `network/getaddr`, `network/get_link` | netlink dumps | multi-part answers, unmatched sequence numbers |
| container network | `network/net_interface`, `network/net_space` | namespace, veth pair, NAT rules | parent and child, a checkpoint pipe, partial failure |
| forking TCP server | `network/tcp` | listening and connected sockets, children | fork failure, children nobody waits for |
| shared file lock | `fd_lock/fd_lock.c` | flock of several processes | a shared lock around writes |
| interface enumeration, route command, iptables, local_tcp, forks, time, log file, curl, directory and signal samples | see `PROJECT.json` | little or none | mostly one library call |
| vendored json-c, libnl, pytool | `json-c-0.11`, `network/mylibnl`, `pytool-master` | | not part of these programs |

The first nine are modelled.  `NlOps` composes with `NlMsg`, `EventServer` with
`TailQueue`; the other programs do not interact with one another.

## 2. Modules and how they correspond to the code

Every action is one uninterruptible stretch of the program: from one system call
that another process can observe to the next, or one whole event-loop callback
where nothing else can run in between.  Names are the source's where TLA+ allows.
Definitions called "a variant" next to an action are plausible bugs of that
action; they are used to make sure that each property can fail.

**PidLock** – `already_running()`: `Open`, `LockGranted`/`LockRefused`
(`lockfile`), `Truncate`, `WritePid`, each a separate step, and `Die` at any
point, which also covers the exits after a failed `open` or `fcntl`.  `write`
may fail, its result being ignored; `ftruncate` is taken to succeed.

**LocalRpc** – `local_read_cb` is `ReadRequest` (receive, draw the counter) and
`ServerSend` (which may block); a client's loop is `SendRequest`, then `Receive`
or `Timeout`, both ending in `NextRound`.  Datagrams between local sockets are
neither lost nor reordered, queues hold `QLen`, a send to nobody fails at once.
`Kill`, `ServerDie`, `ServerStart` and pids that are used again are included.
Sockets are assumed to be created and bound.  `falls` is a history variable: how
often a printed number was not larger than the one printed before, which a
restart of the server, whose counter starts again at 0, makes happen.  **Tickets** is the abstract
service: numbers are drawn in order, given out once, and each client sees its own
in increasing order.  The refinement mapping reads the next ticket off
`<<boot, count>>`.  The counter is unbounded; it is an `int` in the code and
would wrap after 2^31 requests.

**MsqRpc** – the server's callback is `ReadRequest` (recvfrom), `LookUp`
(msgget) and `ServerSend` (msgsnd); the client opens or creates the queue of its
pid, waits in msgrcv without limit, and removes the queue at the end.  A queue
has an identity apart from its key, as in the kernel.  `msgget` may fail; `main`
does not look at its result, so that `msgrcv` then fails in every round and
`msgctl` has no effect.  `left` is a history variable: what predecessors left
for the pid when the process started.

**EpollServer** – `Wait`, `Accept`, `Read` are the branches of the loop; `Wake`
is the kernel's ready list.  An uninitialised `clilen` may make the first accept
fail, and the server exits.  The listening socket is on the ready list from the
start: it is registered before `bind` and `listen`, and an unconnected socket polls
as hung up.  Bytes are counted, and a client
sends `Sizes` of them at a time.  `merged` counts the connections that arrived
while the listening socket was ready already; `late` says of a connection that
input was merged, or exceeded MAXLINE, since it was last read empty.  The `EPOLLOUT` branch cannot be
reached (the `epoll_ctl` that would enable it is commented out), and `line[n]`
is outside the model.  A read error other than a reset does not occur on a
descriptor that was reported and without signal handlers.

**NetdetPopen** – `netdet_popen` from its first reading of the clock (`Begin`)
through `cmd_exec` (`Start`, `NoCommand`) to its loop in steps `select` (`Ready`,
`Quiet`, `Interrupted`), `read`, the test with signal 0 (`Probe`) and the clock
(`Check`); the command may write, fork, exit, or ignore SIGINT, and the caller may or may
not ignore SIGCHLD.  `netdet_popen` calls `netdet_cmd_exec`; the function in the
file is called `cmd_exec` and is modelled as the one meant.  The pid of the
command is not used again within the call.  Writing to the
temporary file is taken to succeed.

**NlMsg** – where each row of a message starts and how long it says it is, for
any sequence of `nlmsg_reserve`, `nla_put`, `nla_begin_nested` and
`nla_end_nested` (innermost first, as its callers do).

**NlOps** – the five calls of `network.c` that use netlink, each a list of steps
with the error that the code returns when the step fails, run by one action per
kind of step.  The building steps are the actions of NlMsg.  The real
`NLMSG_GOOD_SIZE`, 8192, is one of the sizes tried; with it no building step can
fail (`NeverNull`), so smaller ones are tried to reach the error paths.  The early
return of `netlink_rcv` on an empty datagram is left out: the kernel sends none.

**TailQueue** – the TAILQ macros as assignments to `next` and `prev`; `prev[n]`
names the element (or head) that holds the pointer `tqe_prev` points to.  `q` is
a history variable: the sequence that should be represented.

**EventServer** – the start (`TcpServerInit`, `MainFails`, `MainListens`),
`accept_cb`, `socket_read_cb` and the end of `main`, each with its list surgery.  `Sweep` is the loop `TAILQ_FOREACH … TAILQ_REMOVE`, which goes
on from the struct it has just removed.  libevent is external: a round collects
the ready events, which are level-triggered.  An uninitialised `len` may make
accept drop a connection.  Memory is taken to suffice.

## 3. What is checked

| run | bounds | what it shows |
|---|---|---|
| `pid_lock` | 4 processes | at most one instance; the pid file names it, except in the window before its truncation; no start disturbs it; every start is decided, as nobody waits for the lock |
| `local_rpc_two` | 2 clients, queue 1, 3 rounds, 3 server runs | printed numbers fall at most once per restart, bounded backlog, server and client block on each other only with others' requests, refinement of Tickets |
| `local_rpc_reuse` | 1 pid used twice, queue 2, 5 rounds, 2 server runs | an answer is at most `QLen + 1` rounds late; what a process inherits is bounded; a lone client always finishes |
| `msq_rpc` | 2 clients, each pid twice, both queues of length 1, 3 rounds, 2 server runs | one request in flight per process beyond what it found, how far a left-over answer shifts the rounds, why a client may wait for ever, no queue left after a normal end |
| `epoll_server` | 3 clients, 2 descriptors, sends of 2 or 3 bytes, 4 in all, 2 per read | as many connections wait as edges were merged or are to be handled; unread input only after a merged edge or more than MAXLINE bytes; nothing lost before a close; no batch blocks |
| `epoll_all_accepted` | 2 clients | *violated*: a connection whose edge was merged is never accepted |
| `netdet_popen` | pipe 3, buffer 2, output 4, timeout 2 of 5 ticks | output complete at end of file, and up to the last timeout of select when the command is gone; one owner of every descriptor on every path, no early stop, termination if the command ends or heeds SIGINT and nobody keeps the pipe (or the command is reaped) |
| `netdet_popen_timeout` | the same | *violated*: the timeout does not end the loop |
| `nl_msg` | buffers of 16 to 40 bytes | the message stays in its buffer, rows inside, properly nested, no holes |
| `nl_ops` | 5 calls, 5 name lengths, 4 sizes, 2 calls in a row | 0 is returned only for what the kernel did; everything is released on every path; the unchecked `nlmsg_reserve` never fails; requests are proper |
| `tail_queue` | 4 elements | pointers and sequence agree, forward and backward |
| `event_server` | 3 clients, 2 descriptors | the list is the set of open connections; the removal loop is right; others are served in spite of clients that left; a reset gives its descriptor back |

**Why these bounds are enough.** Two clients are what a wedge or a crossed answer
takes; queues of length 1 and 2 make "full" happen (a queue of 1 that a killed
process left behind stops the server of `msq_rpc`); rounds exceed the queue
length, so that the lateness bound is met and could be exceeded; three clients on
two descriptors make accept fail and descriptors come back; four list elements
give every macro a first, inner and last element and an inner neighbour.  The
bounds on restarts, lives, sends, output and time are constants that appear in
the guards.  Deadlock checking is off where a program legitimately stops: all
processes have ended, or the bound on new ones is used up (in `LocalRpc` also
because the wedge is reachable with two clients, which `WedgeNeedsOthers`
describes).

**Fairness.** Always weak, and only for steps of a process the kernel schedules:
the instances between their start and their decision (`PidLock`), the server's
and clients' own steps (`LocalRpc`, `MsqRpc`), the server's start and loop
(`EpollServer`, `EventServer`), the caller, the clock, and commands that end by
themselves (`NetdetPopen`; nothing is assumed of their descendants, and `Returns`
names the case where one matters).  Nobody is obliged to start, die, connect, send
or be killed.  A step that blocks (a full queue) is not enabled, so fairness does not
unblock it.

### Findings

* `epoll.cpp:108` says that a user who connects gets a connection.  With an
  edge-triggered listening socket and one accept per report, a connection whose
  edge was merged stays in the backlog (`epoll_all_accepted`).  `epoll.cpp:131`
  says the same of data, with the same outcome for more than MAXLINE bytes;
  `UnreadIsMerged` says that this happens only then, or after a merged edge.
* `popen.c:148` ends the loop on a timeout, but `select` overwrites the mark
  before it is tested, so a command that ignores SIGINT keeps its caller
  (`netdet_popen_timeout`).
* Not given a run: `nl.h:102` and `nl.h:113` promise 0 from `netlink_rcv` and
  `netlink_send`, which return a byte count (`nl.c:209`, `nl.c:236`); no caller
  depends on it.

Other behaviour the models describe as the code has it: `netlink_open` leaves its
socket open when a later step fails (`Released` says exactly then); a client that
closes its connection to `server.c` in order is never noticed and keeps its
descriptor (`ReadNothing`); what a command writes between the timeout of select
and the test with signal 0 is lost if the command is gone by then
(`LostOnlyAfterSelect`); a command that has become a zombie and left the pipe to a
lasting descendant keeps `netdet_popen` in its loop (`Returns`); a client of
`msq_domain` whose `msgget` failed sends its requests and prints nothing; the
numbers of `domain_sock` start again at 0 with the server (`InOrder`).

## 4. What is proved

All proofs are hierarchical and checked by TLAPS; they hold for every value of
the constants that satisfies the named assumptions.

* **PidLockProofs** – `SingleInstance`, `PidfileCorrect`, `Undisturbed`, for any
  set of processes (`None` is not one).  The inductive invariant adds the types and that whoever is past `lockfile` owns the lock: exclusion is the
  kernel's lock, and it carries over to the later steps because only death drops
  it.
* **LocalRpcProofs** – `TypeCorrect`, `AnswersInOrder`, and `Refinement`: LocalRpc
  implements Tickets, for any clients, queue lengths, restarts and reused pids.
  `InOrder` is not inductive alone.  The invariant adds that the answer being
  sent was drawn by the present run (`CurInv`); that queued answers are older than
  it, undelivered, and later than what their client printed last (`PendingInv`);
  that each queue is sorted (`SortedInv`) and no ticket is in two (`ApartInv`); and
  that what has been printed is older than what is still to come (`PastInv`).  A
  printed number is then not larger than the one before only if it is of a later
  run, so that the falls stay below the runs (`FallsInv`).
* **NlMsgProofs** – `StaysInBuffer`, `RowsStayInside`, `NestingCorrect`,
  `WithoutHoles`, for buffers below 64 KiB (so that `rta_len` can hold any length;
  the code uses `2*PAGE_SIZE`).  The invariant adds what is known of attributes
  that are begun and not ended (`OpenInv`): each still has its empty length and
  starts after the end of every earlier row, and the innermost is the latest, so
  that ending it encloses just what came after it.  `NoHoles` is inductive relative
  to this invariant: ending an attribute turns "starts where the empty attribute
  ends" into "starts where its content starts".
* **TailQueueProofs** – `AlwaysLinked`, `TraversesBackward`, for any set of
  elements and any sequence of calls.  `Linked` with the types is inductive; the
  argument is in lemmas about inserting into, removing from and replacing in a
  chain, which do not mention the macros.

Only model-checked: liveness (`StartsDecided`, `RunsEnd`, `AnswersArrive`,
`BatchesEnd`, `Returns`, `Served`, `ResetsReleased`), which is beyond this prover with fairness; the bounds
`BacklogBound`, `Lateness`, `WedgeNeedsOthers`, which count; and all of MsqRpc,
EpollServer, NetdetPopen, NlOps and EventServer.

## 5. What is not modelled, and the plan

Not modelled because there is no protocol in it: interface enumeration by
`ioctl`, the samples for time, directories, signals, curl and fork, and the
vendored libraries.  The other macro families of `queue.h` are unused.

In this order:

1. `network/net_interface`: parent and child with the checkpoint pipe, each step
   failing independently; which kernel objects are left when both are gone (the
   tests before `nat_rule_del` are inverted).
2. `network/getaddr` and `network/get_link`: requests and multi-part dumps over
   one socket, with left-over parts of an earlier dump.
3. `network/tcp`: accept, fork, close in parent and child, unreaped children.
4. `fd_lock`: several processes with `flock`; which operations exclude which.
5. Proofs: `OnePerProcess` and `NoQueueAfterExit` of MsqRpc, `ClosedAfterAll` and
   `BacklogIsMerged` of EpollServer, `ListIsOpen` of EventServer on top of
   TailQueueProofs, `HandOver` and `LostOnlyAfterSelect` of NetdetPopen, `Released` of
   NlOps.
