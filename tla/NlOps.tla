------------------------------- MODULE NlOps --------------------------------
(***************************************************************************)
(* network/code/network.c over nl.c: the calls that change interfaces and  *)
(* addresses.  Each opens a netlink socket, allocates a request and, but   *)
(* for one, an answer, builds the request, makes one transaction with the  *)
(* kernel and releases what it has.  Any step may fail.  The request is    *)
(* built by the actions of NlMsg; the calls differ in the steps they take, *)
(* which are listed in Prog with the error each returns when it fails.     *)
(***************************************************************************)
EXTENDS Integers, Sequences

CONSTANTS NameLens,  \* lengths of the interface names the calls get
          GoodSizes, \* values of NLMSG_GOOD_SIZE, 8192 among them; with
                     \* the others building a request can fail
          MaxCalls   \* bound on the number of calls

ASSUME OpsAssumption ==
    /\ NameLens \subseteq Nat
    /\ GoodSizes \subseteq 0 .. 65000
    /\ MaxCalls \in Nat

VARIABLES
    fn, pc,                   \* the call in progress, or "none", and its next step
    names,                    \* the lengths of its two names
    fd,                       \* handler.fd: "none", "open" or "closed"
    req, ans,                 \* the two messages: "null", "live" or "freed"
    cap, len, rows, nested,   \* the request (NlMsg)
    reply,                    \* the kernel's answer: "none", "ack" or "refused"
    err,                      \* what the call will return, "OK" for 0
    applied,                  \* history: the kernel has done what was asked
    calls, leaked, misconf    \* history: calls made, sockets never closed, and
                              \* netlink_open calls that failed after socket()

msg == <<cap, len, rows, nested>>
history == <<calls, leaked, misconf>>
vars == <<fn, pc, names, fd, req, ans, msg, reply, err, applied, history>>

M == INSTANCE NlMsg WITH Sizes <- GoodSizes, StructSizes <- {8, 16},
                         DataSizes <- Nat

IFNAMSIZ == 16
NLMSGERR == 20    \* bytes of an answer up to the end of err->error

Step(op, n, e) == [op |-> op, n |-> n, err |-> e]

\* sizeof(struct ifinfomsg) is 16, of struct ifaddrmsg 8; the number in a
\* step about a name says which argument it is.
netdev_set_flag ==
    << Step("open", 0, ""), Step("name", 1, "EINVAL"), Step("alloc", 0, "ENOMEM"),
       Step("answer", 0, "ENOMEM"), Step("index", 1, "EINVAL"),
       Step("reserve", 16, ""), Step("transact", 0, "") >>

netdev_delete_by_name ==
    << Step("index", 1, "EINVAL"), Step("open", 0, ""), Step("alloc", 0, "ENOMEM"),
       Step("answer", 0, "ENOMEM"), Step("reserve", 16, ""), Step("transact", 0, "") >>

netdev_move_to_namespace ==
    << Step("index", 1, "-1"), Step("open", 0, ""), Step("alloc", 0, "ENOMEM"),
       Step("reserve", 16, ""), Step("put", 4, "ENOMEM"),
       Step("putname", 1, "ENOMEM"), Step("transact", 0, "") >>

network_veth_create ==
    << Step("open", 0, ""), Step("name", 1, "EINVAL"), Step("name", 2, "EINVAL"),
       Step("alloc", 0, "ENOMEM"), Step("answer", 0, "ENOMEM"),
       Step("reserve", 16, ""), Step("nest", 0, "EINVAL"), Step("put", 5, "EINVAL"),
       Step("nest", 0, "EINVAL"), Step("nest", 0, "EINVAL"),
       Step("reserve", 16, "EINVAL"), Step("putname", 2, "EINVAL"),
       Step("end", 0, ""), Step("end", 0, ""), Step("end", 0, ""),
       Step("putname", 1, "EINVAL"), Step("transact", 0, "") >>

ipv4_addr_add ==
    << Step("index", 1, "-1"), Step("open", 0, ""), Step("alloc", 0, "ENOMEM"),
       Step("answer", 0, "ENOMEM"), Step("reserve", 8, ""), Step("put", 4, "EINVAL"),
       Step("put", 4, "EINVAL"), Step("put", 4, "EINVAL"), Step("transact", 0, "") >>

Prog == [netdev_set_flag |-> netdev_set_flag,
         netdev_delete_by_name |-> netdev_delete_by_name,
         netdev_move_to_namespace |-> netdev_move_to_namespace,
         network_veth_create |-> network_veth_create,
         ipv4_addr_add |-> ipv4_addr_add]

Now == Prog[fn][pc]
At(op) == fn # "none" /\ pc \in DOMAIN Prog[fn] /\ Now.op = op

Init ==
    /\ fn = "none" /\ pc = 0 /\ names = <<0, 0>>
    /\ fd = "none" /\ req = "null" /\ ans = "null"
    /\ cap = 0 /\ len = 0 /\ rows = <<>> /\ nested = <<>>
    /\ reply = "none" /\ err = "OK" /\ applied = FALSE
    /\ calls = 0 /\ leaked = 0 /\ misconf = 0

\* The call goes on, fails and goes to its label out, or fails and returns.
OUT == 100
DONE == 101
CRASH == 102
Go == pc' = pc + 1
FailOut(e) == pc' = OUT /\ err' = e
Return(e) == pc' = DONE /\ err' = e

-----------------------------------------------------------------------------
\* Somebody calls one of the functions, once the last call has returned.
Call(f, l1, l2) ==
    /\ fn = "none" \/ pc = DONE
    /\ calls < MaxCalls /\ calls' = calls + 1
    /\ fn' = f /\ pc' = 1 /\ names' = <<l1, l2>>
    /\ fd' = "none" /\ req' = "null" /\ ans' = "null"
    /\ reply' = "none" /\ err' = "OK" /\ applied' = FALSE
    /\ cap' = 0 /\ len' = 0 /\ rows' = <<>> /\ nested' = <<>>
    /\ UNCHANGED <<leaked, misconf>>

\* netlink_open.  When setsockopt, bind or getsockname fails it returns
\* without closing the socket, and so does its caller.
Open ==
    /\ At("open")
    /\ \/ Go /\ fd' = "open" /\ UNCHANGED <<err, leaked, misconf>>
       \/ Return("ESOCKET") /\ UNCHANGED <<fd, leaked, misconf>>
       \/ /\ Return("ESOCKOPT") /\ fd' = "open"
          /\ leaked' = leaked + 1 /\ misconf' = misconf + 1
    /\ UNCHANGED <<fn, names, req, ans, msg, reply, applied, calls>>

\* strlen(name) == 1 || strlen(name) >= IFNAMSIZ is refused.
CheckName ==
    /\ At("name")
    /\ LET l == names[Now.n] IN
         \/ l # 1 /\ l < IFNAMSIZ /\ Go /\ UNCHANGED err
         \/ (l = 1 \/ l >= IFNAMSIZ) /\ FailOut(Now.err)
    /\ UNCHANGED <<fn, names, fd, req, ans, msg, reply, applied, history>>

\* if_nametoindex, before the socket is opened or after.
Index ==
    /\ At("index")
    /\ \/ names[Now.n] < IFNAMSIZ /\ Go /\ UNCHANGED err
       \/ fd = "open" /\ FailOut(Now.err)
       \/ fd = "none" /\ Return(Now.err)
    /\ UNCHANGED <<fn, names, fd, req, ans, msg, reply, applied, history>>

\* A variant that allocates the request with nlmsg_alloc_reserve.
AllocReserved ==
    /\ At("alloc")
    /\ \/ /\ Go /\ req' = "live"
          /\ \E size \in GoodSizes : cap' = M!NLMSG_HDRLEN + M!Align(size)
          /\ len' = cap'
          /\ UNCHANGED err
       \/ FailOut(Now.err) /\ UNCHANGED <<req, cap, len>>
    /\ UNCHANGED <<fn, names, fd, ans, rows, nested, reply, applied, history>>

\* nlmsg_alloc(NLMSG_GOOD_SIZE) for the request
Alloc ==
    /\ At("alloc")
    /\ \/ /\ Go /\ req' = "live"
          /\ \E size \in GoodSizes : cap' = M!NLMSG_HDRLEN + M!Align(size)
          /\ len' = M!NLMSG_HDRLEN
          /\ UNCHANGED err
       \/ FailOut(Now.err) /\ UNCHANGED <<req, cap, len>>
    /\ UNCHANGED <<fn, names, fd, ans, rows, nested, reply, applied, history>>

\* nlmsg_alloc_reserve(NLMSG_GOOD_SIZE) for the answer
AllocAnswer ==
    /\ At("answer")
    /\ \/ Go /\ ans' = "live" /\ UNCHANGED err
       \/ FailOut(Now.err) /\ UNCHANGED ans
    /\ UNCHANGED <<fn, names, fd, req, msg, reply, applied, history>>

Building == fn # "none" /\ pc \in DOMAIN Prog[fn]
            /\ Now.op \in {"reserve", "put", "putname", "nest", "end"}

\* The argument of a building call; a name is counted with its final 0.
Size == IF Now.op = "putname" THEN names[Now.n] + 1 ELSE Now.n

\* nlmsg_reserve and nla_put compare what they need with the capacity.
Room == CASE Now.op = "reserve" -> len + M!Align(Size) <= cap
          [] Now.op = "end" -> TRUE
          [] OTHER -> M!Align(len) + M!Align(M!RTA_LENGTH(Size)) <= cap

\* The building calls.  A call without room fails; where the result of
\* nlmsg_reserve is not checked the program would go on with a null pointer,
\* and the model stops in CRASH.
Build ==
    /\ Building
    /\ \/ /\ Room /\ Go /\ UNCHANGED err
          /\ \/ Now.op = "reserve" /\ M!Reserve(Size)
             \/ Now.op \in {"put", "putname"} /\ M!Put(Size)
             \/ Now.op = "nest" /\ M!BeginNested
             \/ Now.op = "end" /\ M!EndNested
       \/ /\ ~Room /\ err' = Now.err
          /\ pc' = IF Now.err = "" THEN CRASH ELSE OUT
          /\ UNCHANGED msg
    /\ UNCHANGED <<fn, names, fd, req, ans, reply, applied, history>>

\* netlink_send; the kernel handles a request before sendmsg returns.
Send ==
    /\ At("transact") /\ reply = "none"
    /\ \/ /\ \E r \in {"ack", "refused"} : reply' = r /\ applied' = (r = "ack")
          /\ UNCHANGED <<pc, err>>
       \/ FailOut("ESEND") /\ UNCHANGED <<reply, applied>>
    /\ UNCHANGED <<fn, names, fd, req, ans, msg, history>>

\* An acknowledgement holds the header of the request, a refusal all of it.
AnswerLen == NLMSGERR + IF reply = "ack" THEN M!NLMSG_HDRLEN ELSE len

\* What the kernel's answer makes netlink_transaction return.
Verdict == IF reply = "ack" THEN "OK" ELSE "EKERNEL"

\* A variant that takes any answer for success.
RcvTrusting ==
    /\ At("transact") /\ reply # "none"
    /\ pc' = OUT /\ err' = "OK"
    /\ UNCHANGED <<fn, names, fd, req, ans, msg, reply, applied, history>>

\* netlink_rcv and the rest of netlink_transaction.  The buffer is as long
\* as the answer's nlmsg_len, the capacity, or the request's where it serves
\* as the answer.  Truncation is tested against the length in the header
\* just received, err->error is read if it has been received.
\* The early return on an empty datagram is not taken: the kernel answers
\* with a header at least.
Rcv ==
    /\ At("transact") /\ reply # "none"
    /\ \/ LET room == IF ans = "live" THEN cap ELSE len
              got  == IF AnswerLen > room THEN room ELSE AnswerLen
          IN  /\ pc' = OUT
              /\ err' \in IF AnswerLen > room /\ got = AnswerLen THEN {"EMSGSIZE"}
                          ELSE IF got >= NLMSGERR THEN {Verdict}
                          ELSE {"OK", "EKERNEL"}
              /\ len' = IF ans = "live" THEN len ELSE AnswerLen
       \/ FailOut("ERCV") /\ UNCHANGED len
    /\ UNCHANGED <<fn, names, fd, req, ans, cap, rows, nested, reply, applied, history>>

\* nlmsg_free, which accepts NULL.
Freed(m) == IF m = "live" THEN "freed" ELSE m

\* A variant that releases only the request.
OutKeepsAnswer ==
    /\ pc = OUT
    /\ pc' = DONE /\ fd' = "closed" /\ req' = Freed(req)
    /\ UNCHANGED <<fn, names, ans, msg, reply, err, applied, history>>

\* The label out: netlink_close, nlmsg_free of both messages, return err.
Out ==
    /\ pc = OUT
    /\ pc' = DONE /\ fd' = "closed" /\ req' = Freed(req) /\ ans' = Freed(ans)
    /\ UNCHANGED <<fn, names, msg, reply, err, applied, history>>

-----------------------------------------------------------------------------
Next ==
    \/ \E f \in DOMAIN Prog, l1, l2 \in NameLens : Call(f, l1, l2)
    \/ Open \/ CheckName \/ Index \/ Alloc \/ AllocAnswer \/ Build
    \/ Send \/ Rcv \/ Out

Spec == Init /\ [][Next]_vars

-----------------------------------------------------------------------------
\* A call returns 0 only if the kernel has done what was asked, and passes
\* on the kernel's refusal, even when the answer was cut off because the
\* request's buffer received it.
ResultHonest ==
    pc = DONE =>
        /\ err = "OK" => applied
        /\ err = "EKERNEL" => reply = "refused"

\* After any failure both messages are released; the socket is closed too,
\* except when netlink_open itself failed half-way.
Released ==
    /\ leaked = misconf
    /\ pc = DONE => /\ req # "live" /\ ans # "live"
                    /\ fd = "open" <=> err = "ESOCKOPT"

\* The results of nlmsg_reserve that nobody looks at are never NULL; and with
\* the NLMSG_GOOD_SIZE of the code no building call at all runs out of room,
\* whatever the names.
NeverNull ==
    /\ pc # CRASH
    /\ Building /\ cap >= 8192 => Room

\* What is sent is a proper message: every nested attribute is ended, and
\* all is within the buffer and properly nested.
RequestProper ==
    At("transact") /\ reply = "none" =>
        nested = <<>> /\ M!Fits /\ M!RowsInside /\ M!ProperlyNested

=============================================================================
