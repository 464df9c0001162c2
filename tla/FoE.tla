--------------------------------- MODULE FoE ---------------------------------
(***************************************************************************)
(* File transfer over EtherCAT, ecx_FOEread and ecx_FOEwrite of            *)
(* ethercatfoe.c, with a slave that is late, busy or refuses.              *)
(*                                                                         *)
(* The mailbox calls are taken at their word (module Mailbox): a send puts *)
(* the message in the slave's mailbox and says so, or says it failed,      *)
(* which it says sometimes of a message that has arrived; a receive        *)
(* returns a message or nothing.  The slave, which is external, serves     *)
(* one message at a time and keeps no more than one answer.                *)
(*                                                                         *)
(* Data: transfer t moves a file whose byte k is <<t, k>>.                 *)
(***************************************************************************)
EXTENDS Integers, Sequences

CONSTANTS
    maxdata,       \* slavelist[slave].mbx_l - 12: data bytes of a full packet to the slave
    OutSizes,      \* the same of mbx_rl, the slave's other mailbox, for the slaves there are
    Sizes,         \* file sizes
    MaxTransfers,  \* bound: calls of ecx_FOEread and ecx_FOEwrite
    MaxBusy        \* bound: BUSY answers

ASSUME FoEAssumption ==
    /\ maxdata \in Nat \ {0}
    /\ OutSizes \subseteq Nat \ {0}
    /\ Sizes \subseteq Nat
    /\ MaxTransfers \in Nat
    /\ MaxBusy \in Nat

VARIABLES
    pc,        \* idle | request | transfer
    op,        \* READ | WRITE: the current or last call
    transfer,  \* its number
    size,      \* size of its file
    buffersize,  \* read: size of the buffer
    packet,    \* read: prevpacket; write: sendpacket
    psize,     \* write: bytes not yet sent
    p,         \* write: where they begin
    segmentdata, \* write: length of the last packet
    dofinalzero, \* write: an empty packet has to follow
    data,      \* read: the buffer so far; its length is dataread
    wkc,       \* what the call returned: 1, 0 or an error
    in, out,   \* the slave's mailboxes
    slave,     \* external: [full, op, transfer, size, packet, stored, done, answer]
    busy,      \* BUSY answers so far
    late       \* a call has ended before its answer came

master == <<pc, op, transfer, size, buffersize, packet, psize, p, segmentdata, dofinalzero, data, wkc>>
vars == <<master, in, out, slave, busy, late>>

None == [op |-> "none", packet |-> 0, data |-> <<>>, transfer |-> 0, size |-> 0]
Message(o, n, d) == [None EXCEPT !.op = o, !.packet = n, !.data = d]
Request == [None EXCEPT !.op = op, !.transfer = transfer, !.size = size]

\* Bytes from .. from + len - 1 of the file of transfer t.
Bytes(t, from, len) == [k \in 1 .. len |-> <<t, from + k>>]

Least(a, b) == IF a < b THEN a ELSE b

Errors == {"FOE_ERROR", "BUF2SMALL", "PACKETNUMBER", "PACKET_ERROR"}
Results == {"ok", "none"} \cup Errors

Init ==
    /\ pc = "idle"
    /\ op = "WRITE"
    /\ transfer = 0
    /\ size = 0 /\ buffersize = 0 /\ packet = 0 /\ psize = 0 /\ p = 0 /\ segmentdata = 0
    /\ dofinalzero = FALSE
    /\ data = <<>>
    /\ wkc = "none"
    /\ in = None
    /\ out = None
    /\ \E f \in OutSizes :
          slave = [full |-> f, op |-> "none", transfer |-> 0, size |-> 0, packet |-> 0,
                   stored |-> <<>>, done |-> FALSE, answer |-> None]
    /\ busy = 0
    /\ late = FALSE

-----------------------------------------------------------------------------
(* The master                                                              *)

\* The call begins: what is in the slave's out mailbox is taken out, unless that read fails.
Begin ==
    /\ pc = "idle"
    /\ transfer < MaxTransfers
    /\ transfer' = transfer + 1
    /\ op' \in {"READ", "WRITE"}
    /\ size' \in Sizes
    /\ buffersize' \in IF op' = "READ" THEN Sizes ELSE {0}
    /\ psize' = IF op' = "WRITE" THEN size' ELSE 0
    /\ pc' = "request"
    /\ packet' = 0 /\ p' = 0 /\ segmentdata' = 0 /\ dofinalzero' = FALSE /\ data' = <<>>
    /\ wkc' = "none"
    /\ out' \in {None, out}
    /\ UNCHANGED <<in, slave, busy, late>>

Return(w) ==
    /\ pc' = "idle"
    /\ wkc' = w

\* ecx_mbxsend of m, then on to next; a failed send ends the call.
Put(m, next) ==
    \/ /\ in = None
       /\ in' = m
       /\ pc' = next
       /\ wkc' = "ok"
       /\ UNCHANGED late
    \/ /\ in' \in {in, IF in = None THEN m ELSE in}
       /\ Return("none")
       /\ late' = TRUE

SendRequest ==
    /\ pc = "request"
    /\ Put(Request, "transfer")
    /\ UNCHANGED <<op, transfer, size, buffersize, packet, psize, p, segmentdata, dofinalzero, data,
                   out, slave, busy>>

\* ecx_mbxreceive takes the message that is there.
Receive(o) ==
    /\ pc = "transfer"
    /\ out.op = o
    /\ out' = None

ReceiveNothing ==
    /\ pc = "transfer"
    /\ Return("none")
    /\ late' = TRUE
    /\ UNCHANGED <<op, transfer, size, buffersize, packet, psize, p, segmentdata, dofinalzero, data,
                   in, out, slave, busy>>

\* Mutant: what is in the buffer already is not counted.
Fits_PacketOnly(n) == n <= buffersize

\* There is room for n more bytes.
Fits(n) == Len(data) + n <= buffersize

\* A packet that is not full is the last; the size it is compared with is that of the mailbox to the
\* slave, which did not bring it.
Full(n) == n = maxdata

\* ecx_FOEread: the next packet goes to the buffer and is acknowledged.
ReadData ==
    /\ op = "READ"
    /\ Receive("DATA")
    /\ packet' = packet + 1
    /\ IF out.packet = packet' /\ Fits(Len(out.data))
         THEN /\ data' = data \o out.data
              /\ Put(Message("ACK", out.packet, <<>>),
                     IF Full(Len(out.data)) THEN "transfer" ELSE "idle")
         ELSE /\ Return("BUF2SMALL")
              /\ UNCHANGED <<data, in, late>>
    /\ UNCHANGED <<op, transfer, size, buffersize, psize, p, segmentdata, dofinalzero, slave, busy>>

\* Mutant: no empty packet follows a full one that was the last.
FinalZero_Never(rest, len) == FALSE

\* A file whose last packet is full is ended by an empty one.
FinalZero(rest, len) == rest = 0 /\ len = maxdata

\* ecx_FOEwrite: the acknowledge of the last packet, and more to send.
WriteData ==
    /\ op = "WRITE"
    /\ Receive("ACK")
    /\ out.packet = packet
    /\ LET tsize == Least(psize, maxdata) IN
        /\ tsize > 0 \/ dofinalzero
        /\ packet' = packet + 1
        /\ segmentdata' = tsize
        /\ psize' = psize - tsize
        /\ p' = p + tsize
        /\ dofinalzero' = FinalZero(psize', tsize)
        /\ Put(Message("DATA", packet', Bytes(transfer, p, tsize)), "transfer")
    /\ UNCHANGED <<op, transfer, size, buffersize, data, slave, busy>>

\* The acknowledge of the last packet, and nothing left.
WriteDone ==
    /\ op = "WRITE"
    /\ Receive("ACK")
    /\ out.packet = packet
    /\ psize = 0 /\ ~dofinalzero
    /\ Return("ok")
    /\ UNCHANGED <<op, transfer, size, buffersize, packet, psize, p, segmentdata, dofinalzero, data,
                   in, slave, busy, late>>

WriteBadAck ==
    /\ op = "WRITE"
    /\ Receive("ACK")
    /\ out.packet # packet
    /\ Return("PACKETNUMBER")
    /\ UNCHANGED <<op, transfer, size, buffersize, packet, psize, p, segmentdata, dofinalzero, data,
                   in, slave, busy, late>>

\* The last packet is taken back, and the loop ends.
WriteBusy ==
    /\ op = "WRITE"
    /\ Receive("BUSY")
    /\ IF packet > 0
         THEN /\ dofinalzero' = (dofinalzero \/ psize = 0)
              /\ psize' = psize + segmentdata
              /\ p' = p - segmentdata
              /\ packet' = packet - 1
         ELSE UNCHANGED <<dofinalzero, psize, p, packet>>
    /\ Return("ok")
    /\ UNCHANGED <<op, transfer, size, buffersize, segmentdata, data, in, slave, busy, late>>

\* An error of the slave, or a message that the call does not expect.
ReceiveError ==
    /\ \/ Receive("ERROR") /\ Return("FOE_ERROR")
       \/ Receive(IF op = "READ" THEN "ACK" ELSE "DATA") /\ Return("PACKET_ERROR")
       \/ op = "READ" /\ Receive("BUSY") /\ Return("PACKET_ERROR")
    /\ UNCHANGED <<op, transfer, size, buffersize, packet, psize, p, segmentdata, dofinalzero, data,
                   in, slave, busy, late>>

-----------------------------------------------------------------------------
(* The slave                                                               *)

\* The n-th packet of the file that is read, as much as its mailbox holds.
Packet(n, s) ==
    Message("DATA", n, Bytes(s.transfer, (n - 1) * s.full,
                             Least(s.full, s.size - (n - 1) * s.full)))

\* A packet that continues the file: it is stored and acknowledged.
SlaveStore ==
    /\ in.op = "DATA"
    /\ slave.op = "WRITE" /\ ~slave.done /\ in.packet = slave.packet + 1
    /\ slave' = [slave EXCEPT !.packet = in.packet, !.stored = @ \o in.data,
                              !.done = Len(in.data) < maxdata,
                              !.answer = Message("ACK", in.packet, <<>>)]

SlaveRequest ==
    /\ in.op \in {"READ", "WRITE"}
    /\ LET s == [slave EXCEPT !.op = in.op, !.transfer = in.transfer, !.size = in.size,
                              !.packet = 0, !.stored = <<>>, !.done = FALSE]
       IN slave' = IF in.op = "WRITE" THEN [s EXCEPT !.answer = Message("ACK", 0, <<>>)]
                   ELSE [s EXCEPT !.packet = 1, !.answer = Packet(1, s)]

\* The acknowledge of a packet that was read: the next one, if that was full.
SlaveContinue ==
    /\ in.op = "ACK"
    /\ slave' = IF slave.op = "READ" /\ in.packet = slave.packet
                   /\ slave.packet * slave.full <= slave.size
                  THEN [slave EXCEPT !.packet = @ + 1, !.answer = Packet(slave.packet + 1, slave)]
                  ELSE slave

SlaveRefuse ==
    /\ in.op \in {"READ", "WRITE", "DATA"}
    /\ slave' = [slave EXCEPT !.op = "none", !.answer = Message("ERROR", 0, <<>>)]

Serve ==
    /\ slave.answer = None
    /\ in' = None
    /\ SlaveStore \/ SlaveRequest \/ SlaveContinue \/ SlaveRefuse
    /\ UNCHANGED <<master, out, busy, late>>

\* The slave has not stored the packet; it expects it again.
ServeBusy ==
    /\ slave.answer = None
    /\ in.op \in {"READ", "WRITE", "DATA"}
    /\ busy < MaxBusy
    /\ busy' = busy + 1
    /\ in' = None
    /\ slave' = [slave EXCEPT !.answer = Message("BUSY", 0, <<>>)]
    /\ UNCHANGED <<master, out, late>>

Answer ==
    /\ slave.answer # None
    /\ out = None
    /\ out' = slave.answer
    /\ slave' = [slave EXCEPT !.answer = None]
    /\ UNCHANGED <<master, in, busy, late>>

Next ==
    \/ Begin \/ SendRequest \/ ReceiveNothing
    \/ ReadData \/ WriteData \/ WriteDone \/ WriteBadAck \/ WriteBusy \/ ReceiveError
    \/ Serve \/ ServeBusy \/ Answer

Spec == Init /\ [][Next]_vars

-----------------------------------------------------------------------------
(* Properties                                                              *)

Ended(o) == pc = "idle" /\ transfer > 0 /\ op = o /\ wkc = "ok"

\* The locals have their types, and in a write what has been sent and what is left add up to the file,
\* also after a packet has been taken back.
TypeOK ==
    /\ pc \in {"idle", "request", "transfer"}
    /\ op \in {"READ", "WRITE"}
    /\ transfer \in 0 .. MaxTransfers
    /\ wkc \in Results
    /\ psize \in Nat /\ p \in Nat /\ packet \in Nat
    /\ op = "WRITE" => p + psize = size

\* The file that ecx_FOEwrite reports as written is in the slave, whole, in order and ended, even
\* when answers of earlier calls have come late; an empty file is never sent at all.
WriteConfirmed == Ended("WRITE") /\ size > 0 =>
    slave.stored = Bytes(transfer, 0, size) /\ slave.done

\* The file that ecx_FOEread reports as read is the one that was asked for, whole, unless an answer
\* of an earlier call came late, from a slave whose two mailboxes are of one size: from another the
\* call takes the first full packet for the last, or waits for one after the last.
ReadGenuine == Ended("READ") /\ ~late /\ slave.full = maxdata => data = Bytes(transfer, 0, size)

\* A transfer that is reported as done is the whole file: a read from a slave with mailboxes of one
\* size, and a write to any slave, unless it has been busy.
TransferGenuine == ReadGenuine /\ (busy = 0 => WriteConfirmed)

\* Whatever the slave sends, late, in the wrong order or in packets of another size, stays within the
\* buffer.
ReadWithinBuffer == Len(data) <= buffersize \/ op = "WRITE"

=============================================================================
