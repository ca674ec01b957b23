------------------------------- MODULE NlMsg --------------------------------
(***************************************************************************)
(* network/code/nl.c: the buffer of a netlink message and the calls that   *)
(* fill it.  A message is a header of NLMSG_HDRLEN bytes followed by rows: *)
(* fixed structures (nlmsg_reserve) and attributes (nla_put), each at an   *)
(* aligned offset.  A nested attribute is begun as an empty one and gets   *)
(* its length when it is ended, from the tail of the message at that time. *)
(* The model keeps where each row starts and how long it says it is.       *)
(***************************************************************************)
EXTENDS Integers, Sequences

CONSTANTS Sizes,        \* payload sizes nlmsg_alloc is called with
          StructSizes,  \* sizes of the structures reserved in a message
          DataSizes     \* sizes of the data of attributes

\* A buffer of 64 KiB or more could hold attributes longer than rta_len can
\* say; every caller asks for NLMSG_GOOD_SIZE, 8 KiB.
ASSUME SizesAssumption ==
    /\ Sizes \subseteq Nat /\ \A size \in Sizes : size <= 65000
    /\ StructSizes \subseteq Nat \ {0}
    /\ DataSizes \subseteq Nat

VARIABLES
    cap,    \* nlmsg->cap
    len,    \* nlmsghdr->nlmsg_len
    rows,   \* the rows in the order they were written: [off, len]
    nested  \* the attributes begun and not ended, innermost last: indices of rows

vars == <<cap, len, rows, nested>>

NLMSG_HDRLEN == 16
RTA_HDRLEN == 4

\* NLMSG_ALIGN and RTA_ALIGN: up to the next multiple of 4.
Align(n) == ((n + 3) \div 4) * 4

RTA_LENGTH(n) == RTA_HDRLEN + n

\* rta_len is an unsigned short.
U16(n) == n % 65536

\* nlmsg_alloc(size)
Init ==
    /\ \E size \in Sizes : cap = NLMSG_HDRLEN + Align(size)
    /\ len = NLMSG_HDRLEN
    /\ rows = <<>> /\ nested = <<>>

\* A variant that reserves the bytes asked for.
ReserveUnaligned(n) ==
    /\ len + n <= cap
    /\ rows' = Append(rows, [off |-> len, len |-> n])
    /\ len' = len + n
    /\ UNCHANGED <<cap, nested>>

\* nlmsg_reserve, which returns NULL and changes nothing without room.
Reserve(n) ==
    LET tlen == Align(n) IN
    /\ len + tlen <= cap
    /\ rows' = Append(rows, [off |-> len, len |-> n])
    /\ len' = len + tlen
    /\ UNCHANGED <<cap, nested>>

\* A variant that checks for the room of the data alone.
PutNoHeader(n) ==
    /\ Align(len) + Align(n) <= cap
    /\ rows' = Append(rows, [off |-> Align(len), len |-> U16(RTA_LENGTH(n))])
    /\ len' = Align(len) + Align(RTA_LENGTH(n))
    /\ UNCHANGED <<cap, nested>>

\* A variant that does not count the padding.
PutUnpadded(n) ==
    /\ Align(len) + Align(RTA_LENGTH(n)) <= cap
    /\ rows' = Append(rows, [off |-> Align(len), len |-> U16(RTA_LENGTH(n))])
    /\ len' = Align(len) + RTA_LENGTH(n)
    /\ UNCHANGED <<cap, nested>>

\* A variant that counts the header twice.
PutHeaderTwice(n) ==
    LET tlen == Align(len) + Align(RTA_LENGTH(RTA_LENGTH(n))) IN
    /\ tlen <= cap
    /\ rows' = Append(rows, [off |-> Align(len), len |-> U16(RTA_LENGTH(n))])
    /\ len' = tlen
    /\ UNCHANGED <<cap, nested>>

\* nla_put, which returns -ENOMEM and changes nothing without room.
Put(n) ==
    LET tlen == Align(len) + Align(RTA_LENGTH(n)) IN
    /\ tlen <= cap
    /\ rows' = Append(rows, [off |-> Align(len), len |-> U16(RTA_LENGTH(n))])
    /\ len' = tlen
    /\ UNCHANGED <<cap, nested>>

\* nla_begin_nested: the tail, then nla_put_attr.
BeginNested ==
    LET tlen == Align(len) + Align(RTA_LENGTH(0)) IN
    /\ tlen <= cap
    /\ rows' = Append(rows, [off |-> Align(len), len |-> U16(RTA_LENGTH(0))])
    /\ len' = tlen
    /\ nested' = Append(nested, Len(rows) + 1)
    /\ UNCHANGED cap

\* A variant that ends the outermost attribute.
EndOutermost ==
    /\ nested # <<>>
    /\ LET k == Head(nested) IN
         rows' = [rows EXCEPT ![k] = [off |-> rows[k].off,
                                      len |-> U16(Align(len) - rows[k].off)]]
    /\ nested' = Tail(nested)
    /\ UNCHANGED <<cap, len>>

\* nla_end_nested on the attribute begun last.
EndNested ==
    /\ nested # <<>>
    /\ LET k == nested[Len(nested)] IN
         rows' = [rows EXCEPT ![k] = [off |-> rows[k].off,
                                      len |-> U16(Align(len) - rows[k].off)]]
    /\ nested' = SubSeq(nested, 1, Len(nested) - 1)
    /\ UNCHANGED <<cap, len>>

Next ==
    \/ \E n \in StructSizes : Reserve(n)
    \/ \E n \in DataSizes : Put(n)
    \/ BeginNested \/ EndNested

Spec == Init /\ [][Next]_vars

-----------------------------------------------------------------------------
\* Where the row after row k starts, for a reader that goes by the lengths.
After(k) == rows[k].off + Align(rows[k].len)

\* A row: where it starts and how long it says it is.
Row == [off : Nat, len : Nat]

\* The types of the variables.
TypeOK ==
    /\ cap \in Nat /\ len \in Nat
    /\ rows \in Seq(Row)
    /\ nested \in Seq(Nat)

\* The message never grows beyond its buffer, as nl.h promises of cap, and
\* its length stays aligned, which nlmsg_reserve relies on but does not do.
Fits == len <= cap /\ len % 4 = 0

\* Every row lies, with the padding after it, between the header and the end
\* of the message.
RowsInside ==
    \A k \in 1 .. Len(rows) :
        rows[k].off >= NLMSG_HDRLEN /\ rows[k].off % 4 = 0 /\ After(k) <= len

\* A later row starts after the end of an earlier one or lies inside it: a
\* reader who skips rows by their lengths sees the structure that was built.
ProperlyNested ==
    \A j, k \in 1 .. Len(rows) :
        j < k => \/ After(j) <= rows[k].off
                 \/ rows[j].off + RTA_HDRLEN <= rows[k].off /\ After(k) <= After(j)

\* Nothing lies between the rows: each starts where an earlier one ends or
\* where the content of an earlier one starts, and the last ends where
\* nlmsg_len says, so that a reader who goes by the lengths comes to every
\* row and to the end of the message, whatever was begun and ended before.
NoHoles ==
    /\ \A k \in 1 .. Len(rows) :
          \/ rows[k].off = NLMSG_HDRLEN
          \/ \E j \in 1 .. k - 1 :
                rows[k].off \in {After(j), rows[j].off + RTA_HDRLEN}
    /\ len = NLMSG_HDRLEN \/ \E j \in 1 .. Len(rows) : After(j) = len

=============================================================================
