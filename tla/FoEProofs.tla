----------------------------- MODULE FoEProofs -----------------------------
(***************************************************************************)
(* Proofs about FoE for files, packets and buffers of any size and any     *)
(* number of transfers: the pointers of ecx_FOEwrite always add up to the  *)
(* file, ecx_FOEread never writes outside the buffer, whatever the slave   *)
(* sends and whenever, and what is reported as transferred is the file.    *)
(*                                                                         *)
(* IInv has the types and pointers.  ReadInv, which holds until a call has *)
(* been late if the slave's two mailboxes are of one size, says that one   *)
(* message is under way and that master and slave agree on the part of the *)
(* file it carries.  WriteInv, which holds until the slave has been busy,  *)
(* says which packet waits in the mailbox or has been served, and that an  *)
(* acknowledge of the current packet can only be the answer to it,         *)
(* whatever answers of earlier calls are still on their way.               *)
(***************************************************************************)
EXTENDS FoE, SequenceTheorems, TLAPS

Ops == {"none", "READ", "WRITE", "DATA", "ACK", "BUSY", "ERROR"}
Byte == Int \X Int
FileBytes == Seq(Byte)
MessageType == [op : Ops, packet : Nat, data : FileBytes, transfer : Nat, size : Nat]

SlaveType == [full : Nat \ {0}, op : Ops, transfer : Nat, size : Nat, packet : Nat, stored : FileBytes,
              done : BOOLEAN, answer : MessageType]

\* The messages under way carry sequences of bytes, and the slave counts packets.
MessagesOK ==
    /\ in \in MessageType
    /\ out \in MessageType
    /\ slave.answer \in MessageType
    /\ slave \in SlaveType

\* The locals of the call; WriteBusy takes the last packet back because p is behind it.
LocalsOK ==
    /\ data \in FileBytes
    /\ size \in Nat
    /\ buffersize \in Nat
    /\ segmentdata \in Nat
    /\ dofinalzero \in BOOLEAN
    /\ busy \in Nat
    /\ pc = "request" => packet = 0
    /\ pc = "transfer" /\ packet > 0 /\ op = "WRITE" => segmentdata <= p

IInv == TypeOK /\ MessagesOK /\ LocalsOK /\ ReadWithinBuffer

-----------------------------------------------------------------------------
(* Lemmas about messages                                                   *)

\* No bytes are a sequence of bytes.
LEMMA EmptyType == <<>> \in FileBytes
BY DEF FileBytes

\* Appending a packet to the buffer gives a sequence of bytes, as long as both together.
LEMMA ConcatType ==
    ASSUME NEW d \in FileBytes, NEW e \in FileBytes
    PROVE  d \o e \in FileBytes /\ Len(d \o e) = Len(d) + Len(e)
BY DEF FileBytes

\* Part of a file is a sequence of bytes, empty if the length is not positive.
LEMMA BytesType ==
    ASSUME NEW t \in Nat, NEW from \in Int, NEW len \in Int
    PROVE  Bytes(t, from, len) \in FileBytes
<1>1. \A k \in 1 .. len : <<t, from + k>> \in Byte
  BY DEF Byte
<1>2. CASE len >= 0
  BY <1>1, <1>2 DEF Bytes, FileBytes
<1>3. CASE len < 0
  <2>1. Bytes(t, from, len) = <<>>
    BY <1>3 DEF Bytes
  <2> QED
    BY <2>1, EmptyType
<1> QED
  BY <1>2, <1>3

\* A message built from parts of the right types is one.
LEMMA MessageIsMessage ==
    ASSUME NEW o \in Ops, NEW n \in Nat, NEW d \in FileBytes
    PROVE  Message(o, n, d) \in MessageType
BY DEF Message, None, MessageType, Ops

\* An empty mailbox holds a record with the fields of a message.
LEMMA NoneIsMessage == None \in MessageType
BY EmptyType DEF None, MessageType, Ops

\* The fields of a read or write request.
LEMMA RequestFields ==
    ASSUME NEW o \in Ops, NEW t \in Nat, NEW z \in Nat
    PROVE  [None EXCEPT !.op = o, !.transfer = t, !.size = z] \in MessageType
BY EmptyType DEF None, MessageType

\* The request a call begins with is a message.
LEMMA RequestIsMessage ==
    ASSUME IInv PROVE Request \in MessageType
<1>1. op \in Ops /\ transfer \in Nat /\ size \in Nat
  BY FoEAssumption DEF IInv, TypeOK, LocalsOK, Ops
<1> QED
  BY <1>1, RequestFields DEF Request

\* Every packet the slave serves is a message.
LEMMA PacketIsMessage ==
    ASSUME NEW n \in Nat, NEW s, s.transfer \in Nat, s.size \in Nat, s.full \in Nat
    PROVE  Packet(n, s) \in MessageType
<1> DEFINE from == (n - 1) * s.full
           len == Least(s.full, s.size - from)
<1>1. s.full \in Int
  OBVIOUS
<1>2. from \in Int
  BY <1>1
<1>3. len \in Int
  BY <1>1, <1>2 DEF Least
<1>4. Bytes(s.transfer, from, len) \in FileBytes
  BY <1>2, <1>3, BytesType
<1>5. Message("DATA", n, Bytes(s.transfer, from, len)) \in MessageType
  BY <1>4, MessageIsMessage DEF Ops
<1> QED
  BY <1>5 DEF Packet

\* A send leaves a message in the slave's mailbox, and the call goes on or ends.
LEMMA PutType ==
    ASSUME NEW m \in MessageType, NEW next, in \in MessageType, Put(m, next)
    PROVE  in' \in MessageType /\ pc' \in {next, "idle"} /\ wkc' \in Results
BY DEF Put, Return, Results

-----------------------------------------------------------------------------
(* The inductive invariant                                                 *)

\* The initial state satisfies the inductive invariant.
LEMMA InitIInv == Init => IInv
<1> SUFFICES ASSUME Init PROVE IInv
  OBVIOUS
<1>1. TypeOK
  BY FoEAssumption DEF Init, TypeOK, Results
<1>2. MessagesOK
  <2>1. PICK f \in OutSizes :
            slave = [full |-> f, op |-> "none", transfer |-> 0, size |-> 0, packet |-> 0,
                     stored |-> <<>>, done |-> FALSE, answer |-> None]
    BY DEF Init
  <2>2. f \in Nat \ {0}
    BY FoEAssumption
  <2>3. slave \in SlaveType /\ slave.answer \in MessageType
    BY <2>1, <2>2, NoneIsMessage, EmptyType DEF SlaveType, Ops
  <2> QED
    BY <2>3, NoneIsMessage DEF Init, MessagesOK
<1>3. LocalsOK
  BY EmptyType DEF Init, LocalsOK
<1>4. ReadWithinBuffer
  BY DEF Init, ReadWithinBuffer
<1> QED
  BY <1>1, <1>2, <1>3, <1>4 DEF IInv

\* Every step of the master and of the slave keeps the inductive invariant.
LEMMA NextIInv == IInv /\ [Next]_vars => IInv'
<1> SUFFICES ASSUME IInv, [Next]_vars PROVE IInv'
  OBVIOUS
<1>0. busy' \in Nat
  BY DEF IInv, LocalsOK, Next, Begin, SendRequest, ReceiveNothing, ReadData, WriteData, WriteDone,
         WriteBadAck,
         WriteBusy, ReceiveError, Serve, ServeBusy, Answer, vars
<1> USE FoEAssumption DEF IInv
<1>1. CASE Begin
  <2>1. /\ pc' = "request" /\ op' \in {"READ", "WRITE"} /\ wkc' = "none"
        /\ transfer' = transfer + 1 /\ transfer < MaxTransfers
    BY <1>1 DEF Begin
  <2>2. /\ size' \in Nat /\ buffersize' \in Nat /\ packet' = 0 /\ p' = 0 /\ segmentdata' = 0
        /\ psize' = IF op' = "WRITE" THEN size' ELSE 0
    BY <1>1 DEF Begin
  <2>3. data' = <<>> /\ dofinalzero' = FALSE
    BY <1>1 DEF Begin
  <2>4. out' \in {None, out} /\ UNCHANGED <<in, slave>>
    BY <1>1 DEF Begin
  <2>5. transfer' \in 0 .. MaxTransfers
    BY <2>1 DEF TypeOK
  <2>6. psize' \in Nat /\ (op' = "WRITE" => p' + psize' = size')
    <3>1. CASE op' = "WRITE"
      <4>1. psize' = size' /\ p' = 0 /\ size' \in Nat
        BY <2>2, <3>1
      <4>2. \A z \in Nat : 0 + z = z
        OBVIOUS
      <4>3. 0 + size' = size'
        BY <4>1, <4>2
      <4>4. p' + psize' = size'
        BY ONLY <4>1, <4>3, Zenon
      <4>5. psize' \in Nat
        BY <2>2, <3>1
      <4> QED
        BY ONLY <4>4, <4>5, Zenon
    <3>2. CASE op' # "WRITE"
      BY <2>1, <2>2, <3>2
    <3> QED
      BY <3>1, <3>2
  <2>7. TypeOK'
    BY <2>1, <2>2, <2>5, <2>6 DEF TypeOK, Results
  <2>8. MessagesOK'
    BY <2>4, NoneIsMessage DEF MessagesOK
  <2>9. Len(data') = 0
    BY <2>3
  <2>10. LocalsOK'
    BY <1>0, <2>1, <2>2, <2>3, EmptyType DEF LocalsOK
  <2>11. ReadWithinBuffer'
    BY <2>2, <2>9 DEF ReadWithinBuffer
  <2> QED
    BY <2>7, <2>8, <2>10, <2>11
<1>2. CASE SendRequest
  <2>1. in' \in MessageType /\ pc' \in {"transfer", "idle"} /\ wkc' \in Results
    BY <1>2, PutType, RequestIsMessage DEF SendRequest, MessagesOK
  <2> QED
    BY <1>2, <2>1 DEF SendRequest, TypeOK, MessagesOK, LocalsOK, ReadWithinBuffer
<1>3. CASE ReceiveNothing
  BY <1>3 DEF ReceiveNothing, Return, TypeOK, MessagesOK, LocalsOK, ReadWithinBuffer, Results
<1>4. CASE ReadData
  <2>1. out.data \in FileBytes /\ out.packet \in Nat
    BY DEF MessagesOK, MessageType
  <2>2. /\ data' \in FileBytes
        /\ Len(data') <= buffersize \/ data' = data
    <3>1. data \in FileBytes /\ buffersize \in Nat
      BY DEF LocalsOK
    <3>2. data \o out.data \in FileBytes /\ Len(data \o out.data) = Len(data) + Len(out.data)
      BY <2>1, <3>1 DEF FileBytes
    <3> QED
      BY <1>4, <3>1, <3>2 DEF ReadData, Fits
  <2>3. in' \in MessageType /\ pc' \in {"transfer", "idle"} /\ wkc' \in Results
    <3>1. CASE out.packet = packet' /\ Fits(Len(out.data))
      <4>1. Message("ACK", out.packet, <<>>) \in MessageType
        BY <2>1, EmptyType, MessageIsMessage DEF Ops
      <4>2. PICK next \in {"transfer", "idle"} : Put(Message("ACK", out.packet, <<>>), next)
        BY <1>4, <3>1 DEF ReadData
      <4> QED
        BY <4>1, <4>2, PutType DEF MessagesOK
    <3>2. CASE ~(out.packet = packet' /\ Fits(Len(out.data)))
      BY <1>4, <3>2 DEF ReadData, Return, MessagesOK, Results, Errors
    <3> QED
      BY <3>1, <3>2
  <2>4. /\ op = "READ" /\ packet' = packet + 1 /\ out' = None
        /\ UNCHANGED <<op, transfer, size, buffersize, psize, p, segmentdata, dofinalzero, slave>>
    BY <1>4 DEF ReadData, Receive
  <2> QED
    BY <1>0, <2>2, <2>3, <2>4, NoneIsMessage DEF TypeOK, MessagesOK, LocalsOK, ReadWithinBuffer
<1>5. CASE WriteData
  <2> DEFINE tsize == Least(psize, maxdata)
  <2>1. tsize \in Nat /\ tsize <= psize
    BY DEF Least, TypeOK
  <2>2. Message("DATA", packet + 1, Bytes(transfer, p, tsize)) \in MessageType
    <3>1. transfer \in Nat /\ p \in Int /\ packet + 1 \in Nat
      BY DEF TypeOK
    <3> HIDE DEF tsize
    <3>2. tsize \in Int
      BY <2>1
    <3>3. Bytes(transfer, p, tsize) \in FileBytes
      BY <3>1, <3>2, BytesType
    <3> QED
      BY <3>1, <3>3, MessageIsMessage DEF Ops
  <2>3. /\ op = "WRITE" /\ out' = None
        /\ packet' = packet + 1 /\ segmentdata' = tsize
        /\ psize' = psize - tsize /\ p' = p + tsize
        /\ dofinalzero' = FinalZero(psize', tsize)
        /\ Put(Message("DATA", packet + 1, Bytes(transfer, p, tsize)), "transfer")
        /\ UNCHANGED <<op, transfer, size, buffersize, data, slave>>
    BY <1>5 DEF WriteData, Receive
  <2>4. in' \in MessageType /\ pc' \in {"transfer", "idle"} /\ wkc' \in Results
    BY <2>2, <2>3, PutType DEF MessagesOK
  <2>5. dofinalzero' \in BOOLEAN
    BY <2>3 DEF FinalZero
  <2> HIDE DEF tsize
  <2> QED
    BY <1>0, <2>1, <2>3, <2>4, <2>5, NoneIsMessage DEF TypeOK, MessagesOK, LocalsOK, ReadWithinBuffer
<1>6. CASE WriteDone \/ WriteBadAck \/ ReceiveError
  <2>1. /\ pc' = "idle" /\ out' = None /\ wkc' \in Results
        /\ UNCHANGED <<op, transfer, size, buffersize, packet, psize, p, segmentdata, dofinalzero,
                       data, in, slave>>
    BY <1>6 DEF WriteDone, WriteBadAck, ReceiveError, Receive, Return, Results, Errors
  <2> QED
    BY <1>0, <2>1, NoneIsMessage DEF TypeOK, MessagesOK, LocalsOK, ReadWithinBuffer
<1>7. CASE WriteBusy
  <2>1. /\ op = "WRITE" /\ pc = "transfer" /\ pc' = "idle" /\ out' = None /\ wkc' \in Results
        /\ UNCHANGED <<op, transfer, size, buffersize, segmentdata, data, in, slave>>
    BY <1>7 DEF WriteBusy, Receive, Return, Results
  <2>2. /\ psize' \in Nat /\ p' \in Nat /\ packet' \in Nat /\ p' + psize' = size
        /\ dofinalzero' \in BOOLEAN
    <3>1. CASE packet > 0
      <4>1. /\ psize' = psize + segmentdata /\ p' = p - segmentdata /\ packet' = packet - 1
            /\ dofinalzero' = (dofinalzero \/ psize = 0)
        BY <1>7, <3>1 DEF WriteBusy
      <4>2. segmentdata <= p
        BY <2>1, <3>1 DEF LocalsOK
      <4>3. dofinalzero' \in BOOLEAN
        BY ONLY <4>1, Zenon
      <4> QED
        BY <2>1, <3>1, <4>1, <4>2, <4>3 DEF TypeOK, LocalsOK
    <3>2. CASE ~(packet > 0)
      BY <1>7, <2>1, <3>2 DEF WriteBusy, TypeOK, LocalsOK
    <3> QED
      BY <3>1, <3>2
  <2> QED
    BY <1>0, <2>1, <2>2, NoneIsMessage DEF TypeOK, MessagesOK, LocalsOK, ReadWithinBuffer
<1>8. CASE Serve
  <2>1. in' = None /\ UNCHANGED <<master, out>>
    BY <1>8 DEF Serve
  <2>2. slave \in SlaveType /\ in \in MessageType
    BY DEF MessagesOK
  <2>3. ASSUME SlaveStore PROVE slave' \in SlaveType
    <3>1. Message("ACK", in.packet, <<>>) \in MessageType
      BY <2>2, EmptyType, MessageIsMessage DEF MessageType, Ops
    <3>2. slave.stored \o in.data \in FileBytes
      BY <2>2, ConcatType DEF MessageType, SlaveType
    <3>3. in.packet \in Nat
      BY <2>2 DEF MessageType
    <3> DEFINE bytes == slave.stored \o in.data
               last == Len(in.data) < maxdata
               ack == Message("ACK", in.packet, <<>>)
    <3>4. slave' = [slave EXCEPT !.packet = in.packet, !.stored = bytes, !.done = last, !.answer = ack]
      BY <2>3 DEF SlaveStore
    <3>5. last \in BOOLEAN /\ bytes \in FileBytes /\ ack \in MessageType
      BY <3>1, <3>2
    <3> HIDE DEF bytes, last, ack
    <3> QED
      BY <2>2, <3>1, <3>2, <3>3, <3>4, <3>5 DEF SlaveType
  <2>4. ASSUME SlaveRequest PROVE slave' \in SlaveType
    <3> DEFINE s == [slave EXCEPT !.op = in.op, !.transfer = in.transfer, !.size = in.size,
                                  !.packet = 0, !.stored = <<>>, !.done = FALSE]
    <3>1. s \in SlaveType
      BY <2>2, EmptyType DEF MessageType, SlaveType
    <3>2. Message("ACK", 0, <<>>) \in MessageType
      BY EmptyType, MessageIsMessage DEF Ops
    <3>3. Packet(1, s) \in MessageType
      <4>1. s.transfer \in Nat /\ s.size \in Nat /\ s.full \in Nat
        BY <3>1 DEF SlaveType
      <4> HIDE DEF s
      <4> QED
        BY <4>1, PacketIsMessage
    <3>4. slave' = [s EXCEPT !.answer = Message("ACK", 0, <<>>)]
          \/ slave' = [s EXCEPT !.packet = 1, !.answer = Packet(1, s)]
      BY <2>4 DEF SlaveRequest
    <3> DEFINE ack == Message("ACK", 0, <<>>)
               first == Packet(1, s)
    <3>5. ack \in MessageType /\ first \in MessageType
      BY <3>2, <3>3
    <3>6. slave' = [s EXCEPT !.answer = ack] \/ slave' = [s EXCEPT !.packet = 1, !.answer = first]
      BY <3>4
    <3> HIDE DEF s, ack, first
    <3>7. CASE slave' = [s EXCEPT !.answer = ack]
      BY <3>1, <3>5, <3>7 DEF SlaveType
    <3>8. CASE slave' = [s EXCEPT !.packet = 1, !.answer = first]
      BY <3>1, <3>5, <3>8 DEF SlaveType
    <3> QED
      BY <3>6, <3>7, <3>8
  <2>5. ASSUME SlaveContinue PROVE slave' \in SlaveType
    <3> DEFINE n == slave.packet + 1
               next == Packet(n, slave)
    <3>1. n \in Nat /\ slave.transfer \in Nat /\ slave.size \in Nat /\ slave.full \in Nat
      BY <2>2 DEF SlaveType
    <3>2. slave' = slave \/ slave' = [slave EXCEPT !.packet = n, !.answer = next]
      BY <2>5 DEF SlaveContinue
    <3> HIDE DEF n
    <3>3. next \in MessageType
      BY <3>1, PacketIsMessage
    <3> HIDE DEF next
    <3> QED
      BY <2>2, <3>1, <3>2, <3>3 DEF SlaveType
  <2>6. ASSUME SlaveRefuse PROVE slave' \in SlaveType
    <3>1. Message("ERROR", 0, <<>>) \in MessageType
      BY EmptyType, MessageIsMessage DEF Ops
    <3>2. "none" \in Ops
      BY DEF Ops
    <3> QED
      BY <2>2, <2>6, <3>1, <3>2 DEF SlaveRefuse, SlaveType
  <2>7. slave' \in SlaveType
    BY <1>8, <2>3, <2>4, <2>5, <2>6 DEF Serve
  <2> QED
    BY <1>0, <2>1, <2>2, <2>7, NoneIsMessage DEF SlaveType, master, TypeOK, MessagesOK, LocalsOK,
                                                 ReadWithinBuffer
<1>9. CASE ServeBusy
  <2>1. Message("BUSY", 0, <<>>) \in MessageType
    BY EmptyType, MessageIsMessage DEF Ops
  <2> QED
    BY <1>0, <1>9, <2>1, NoneIsMessage
       DEF ServeBusy, SlaveType, master, TypeOK, MessagesOK, LocalsOK, ReadWithinBuffer
<1>10. CASE Answer
  BY <1>10, NoneIsMessage DEF Answer, SlaveType, master, TypeOK, MessagesOK, LocalsOK, ReadWithinBuffer
<1>11. CASE UNCHANGED vars
  BY <1>11 DEF vars, master, TypeOK, MessagesOK, LocalsOK, ReadWithinBuffer
<1> QED
  BY <1>1, <1>2, <1>3, <1>4, <1>5, <1>6, <1>7, <1>8, <1>9, <1>10, <1>11 DEF Next

-----------------------------------------------------------------------------
(* The invariant of the transfers                                          *)

\* A read without a call that was late: what is in the buffer, and what the slave serves next.
Collected ==
    /\ packet * maxdata <= size
    /\ data = Bytes(transfer, 0, packet * maxdata)

ServesRead(n) ==
    /\ slave.op = "READ" /\ slave.transfer = transfer /\ slave.size = size
    /\ slave.packet = n

\* The acknowledge of a last packet, which ends the transfer in the slave and is not answered.
Ignored == in.op = "ACK" /\ (slave.op # "READ" \/ slave.size < slave.packet * slave.full)

\* Of the two mailboxes and the answer in the slave no more than one holds a message.
OneUnderWay ==
    /\ in # None => out = None /\ slave.answer = None
    /\ out # None => slave.answer = None

\* The message m to the master holds the packet it waits for.
NextPacket(m) ==
    /\ m.packet = packet + 1
    /\ m.data = Bytes(transfer, packet * maxdata, Least(maxdata, size - packet * maxdata))

Reading ==
    /\ in # None =>
         /\ Collected
         /\ \/ in = Request /\ packet = 0
            \/ in.op = "ACK" /\ in.packet = packet /\ ServesRead(packet)
    /\ out.op = "DATA" => Collected /\ ServesRead(packet + 1) /\ NextPacket(out)
    /\ slave.answer.op = "DATA" => Collected /\ ServesRead(packet + 1) /\ NextPacket(slave.answer)

ReadInv ==
    /\ pc # "transfer" => out = None /\ slave.answer = None /\ (in = None \/ Ignored)
    /\ pc = "request" => data = <<>>
    /\ pc = "transfer" => OneUnderWay
    /\ pc = "transfer" /\ op = "READ" => Reading
    /\ ReadGenuine

\* A write without a slave that was busy: the pointers of the master.
PointersOK ==
    /\ packet = 0 => p = 0 /\ ~dofinalzero
    /\ packet > 0 => /\ segmentdata <= maxdata
                     /\ psize > 0 => segmentdata = maxdata
                     /\ dofinalzero <=> psize = 0 /\ segmentdata = maxdata

\* The slave has taken n packets, the bytes up to end, and the last one of all or not.
Stored(n, end, last) ==
    slave.op = "WRITE" =>
        /\ slave.packet = n
        /\ slave.stored = Bytes(transfer, 0, end)
        /\ slave.done <=> last

\* The acknowledge of packet n is under way.
Acknowledged(n) ==
    \/ out.op = "ACK" /\ out.packet = n
    \/ slave.answer.op = "ACK" /\ slave.answer.packet = n

\* The last packet is in the slave's mailbox: all acknowledges are of the one before.
PacketWaits ==
    /\ packet > 0 /\ in.packet = packet
    /\ in.data = Bytes(transfer, p - segmentdata, segmentdata)
    /\ Stored(packet - 1, p - segmentdata, FALSE)
    /\ \A n \in Nat : Acknowledged(n) => n = packet - 1

\* It has been served: the answer of the slave is to this one.
PacketServed ==
    /\ Stored(packet, p, packet > 0 /\ segmentdata < maxdata)
    /\ slave.answer.op = "ACK" => slave.answer.packet = packet
    /\ slave.op # "WRITE" /\ packet > 0 => ~Acknowledged(packet)

Writing ==
    /\ PointersOK
    /\ in = None => PacketServed
    /\ in.op = "DATA" => PacketWaits
    /\ in # None => in.op = "DATA" \/ (in = Request /\ packet = 0)

WriteInv ==
    /\ out.op # "BUSY" /\ slave.answer.op # "BUSY"
    /\ pc = "request" => p = 0 /\ ~dofinalzero
    /\ pc = "transfer" /\ op = "WRITE" => Writing
    /\ Ended("WRITE") /\ size > 0 => in = None
    /\ WriteConfirmed

\* The packets from the slave are full where those to it are.
OneSize == slave.full = maxdata

TransferInv == IInv /\ (~late /\ OneSize => ReadInv) /\ (busy = 0 => WriteInv)

\* What the fields of a message are.
LEMMA MessageParts ==
    ASSUME NEW o, NEW n, NEW d
    PROVE  /\ Message(o, n, d).op = o /\ Message(o, n, d).packet = n /\ Message(o, n, d).data = d
           /\ Request.op = op /\ Request.transfer = transfer /\ Request.size = size
           /\ None.op = "none"
BY DEF Message, Request, None

\* Part of a file has its length.
LEMMA BytesLength ==
    ASSUME NEW t \in Nat, NEW from \in Nat, NEW len \in Nat
    PROVE  Len(Bytes(t, from, len)) = len /\ (len = 0 => Bytes(t, from, len) = <<>>)
BY DEF Bytes

\* Two neighbouring parts of a file put together.
LEMMA BytesConcat ==
    ASSUME NEW t \in Nat, NEW a \in Nat, NEW b \in Nat
    PROVE  Bytes(t, 0, a) \o Bytes(t, a, b) = Bytes(t, 0, a + b)
<1> DEFINE front == Bytes(t, 0, a)
           back == Bytes(t, a, b)
           whole == Bytes(t, 0, a + b)
<1>0. 0 \in Int /\ a \in Int /\ b \in Int /\ a + b \in Int
  OBVIOUS
<1>1. front \in FileBytes /\ back \in FileBytes /\ whole \in FileBytes
  BY <1>0, BytesType
<1>2. Len(front) = a /\ Len(back) = b /\ Len(whole) = a + b
  BY BytesLength
<1>3. front \o back \in FileBytes /\ Len(front \o back) = a + b
  BY <1>1, <1>2, ConcatType
<1>4. ASSUME NEW k \in 1 .. a + b PROVE (front \o back)[k] = whole[k]
  <2>1. CASE k <= a
    <3>1. (front \o back)[k] = front[k]
      BY <1>1, <1>2, <2>1 DEF FileBytes
    <3>2. front[k] = <<t, 0 + k>> /\ whole[k] = <<t, 0 + k>>
      BY <2>1 DEF Bytes
    <3> QED
      BY <3>1, <3>2
  <2>2. CASE k > a
    <3>1. (front \o back)[k] = back[k - a]
      BY <1>1, <1>2, <2>2 DEF FileBytes
    <3>2. back[k - a] = <<t, a + (k - a)>> /\ whole[k] = <<t, 0 + k>>
      BY <2>2 DEF Bytes
    <3>3. a + (k - a) = 0 + k
      OBVIOUS
    <3> HIDE DEF front, back, whole
    <3> QED
      BY <3>1, <3>2, <3>3
  <2> HIDE DEF front, back, whole
  <2>3. k <= a \/ k > a
    OBVIOUS
  <2> QED
    BY <2>1, <2>2, <2>3
<1> HIDE DEF front, back, whole
<1>5. front \o back = whole
  BY <1>1, <1>2, <1>3, <1>4, SeqEqual DEF FileBytes
<1> QED
  BY <1>5 DEF front, back, whole

\* What a slave that stores a packet keeps of it.
LEMMA StoreFields ==
    ASSUME IInv, SlaveStore
    PROVE  /\ slave'.op = slave.op /\ slave'.packet = in.packet /\ slave'.full = slave.full
           /\ slave'.stored = slave.stored \o in.data
           /\ slave'.done = (Len(in.data) < maxdata)
           /\ slave'.answer = Message("ACK", in.packet, <<>>)
<1>1. slave \in SlaveType
  BY DEF IInv, MessagesOK
<1> DEFINE bytes == slave.stored \o in.data
           last == Len(in.data) < maxdata
           ack == Message("ACK", in.packet, <<>>)
<1>2. slave' = [slave EXCEPT !.packet = in.packet, !.stored = bytes, !.done = last, !.answer = ack]
  BY DEF SlaveStore
<1>3. last \in BOOLEAN
  OBVIOUS
<1> HIDE DEF bytes, last, ack
<1>4. /\ slave'.op = slave.op /\ slave'.packet = in.packet /\ slave'.full = slave.full
      /\ slave'.stored = bytes /\ slave'.done = last /\ slave'.answer = ack
  BY <1>1, <1>2, <1>3 DEF SlaveType
<1> QED
  BY <1>4 DEF bytes, last, ack

\* What a slave makes of a request.
LEMMA RequestSteps ==
    ASSUME IInv, SlaveRequest
    PROVE  /\ slave'.op = in.op /\ slave'.transfer = in.transfer /\ slave'.size = in.size
           /\ slave'.stored = <<>> /\ slave'.done = FALSE /\ slave'.full = slave.full
           /\ in.op = "WRITE" => slave'.packet = 0 /\ slave'.answer = Message("ACK", 0, <<>>)
           /\ in.op = "READ" =>
                /\ slave'.packet = 1
                /\ slave'.answer = Message("DATA", 1, Bytes(in.transfer, (1 - 1) * slave.full,
                                                            Least(slave.full, in.size - (1 - 1) * slave.full)))
<1>1. slave \in SlaveType
  BY DEF IInv, MessagesOK
<1> DEFINE s == [slave EXCEPT !.op = in.op, !.transfer = in.transfer, !.size = in.size,
                              !.packet = 0, !.stored = <<>>, !.done = FALSE]
           ack == Message("ACK", 0, <<>>)
           first == Packet(1, s)
<1>2. /\ s.op = in.op /\ s.transfer = in.transfer /\ s.size = in.size /\ s.packet = 0
      /\ s.stored = <<>> /\ s.done = FALSE /\ s.full = slave.full
  BY <1>1 DEF SlaveType
<1>3. s \in SlaveType
  BY <1>1, EmptyType DEF IInv, MessagesOK, MessageType, SlaveType
<1>4. in.op \in {"READ", "WRITE"}
      /\ slave' = IF in.op = "WRITE" THEN [s EXCEPT !.answer = ack]
                  ELSE [s EXCEPT !.packet = 1, !.answer = first]
  BY DEF SlaveRequest
<1>5. first = Message("DATA", 1, Bytes(in.transfer, (1 - 1) * slave.full,
                                       Least(slave.full, in.size - (1 - 1) * slave.full)))
  BY <1>2 DEF Packet
<1> HIDE DEF s, ack, first
<1>6. CASE in.op = "WRITE"
  <2>1. slave' = [s EXCEPT !.answer = ack]
    BY <1>4, <1>6
  <2> QED
    BY <1>2, <1>3, <1>6, <2>1 DEF ack, SlaveType
<1>7. CASE in.op = "READ"
  <2>1. slave' = [s EXCEPT !.packet = 1, !.answer = first]
    BY <1>4, <1>7
  <2>2. /\ slave'.op = s.op /\ slave'.transfer = s.transfer /\ slave'.size = s.size
        /\ slave'.stored = s.stored /\ slave'.done = s.done /\ slave'.full = s.full
        /\ slave'.packet = 1 /\ slave'.answer = first
    BY <1>3, <2>1 DEF SlaveType
  <2> QED
    BY <1>2, <1>5, <1>7, <2>2
<1> QED
  BY <1>4, <1>6, <1>7

\* What a slave makes of an acknowledge.
LEMMA ContinueSteps ==
    ASSUME IInv, SlaveContinue
    PROVE  \/ /\ slave.op = "READ" /\ in.packet = slave.packet /\ slave.packet * slave.full <= slave.size
              /\ slave'.full = slave.full /\ slave'.op = "READ" /\ slave'.packet = slave.packet + 1
              /\ slave'.transfer = slave.transfer /\ slave'.size = slave.size
              /\ slave'.answer = Packet(slave.packet + 1, slave)
           \/ /\ slave' = slave
              /\ ~(slave.op = "READ" /\ in.packet = slave.packet /\ slave.packet * slave.full <= slave.size)
<1>1. slave \in SlaveType
  BY DEF IInv, MessagesOK
<1> DEFINE goes == slave.op = "READ" /\ in.packet = slave.packet /\ slave.packet * slave.full <= slave.size
           n == slave.packet + 1
           next == Packet(n, slave)
<1>2. slave' = IF goes THEN [slave EXCEPT !.packet = n, !.answer = next] ELSE slave
  BY DEF SlaveContinue
<1>3. CASE ~goes
  BY <1>2, <1>3
<1>4. CASE goes
  <2>1. slave.op = "READ"
    BY <1>4
  <2>2. slave' = [slave EXCEPT !.packet = n, !.answer = next]
    BY <1>2, <1>4
  <2> HIDE DEF n, next
  <2>3. /\ slave'.op = "READ" /\ slave'.packet = n /\ slave'.answer = next
        /\ slave'.transfer = slave.transfer /\ slave'.size = slave.size /\ slave'.full = slave.full
    BY <1>1, <2>1, <2>2 DEF SlaveType
  <2> QED
    BY <1>4, <2>3 DEF n, next
<1> QED
  BY <1>3, <1>4

\* What it keeps when it refuses.
LEMMA RefuseSteps ==
    ASSUME IInv, SlaveRefuse
    PROVE  /\ slave'.op = "none" /\ slave'.answer = Message("ERROR", 0, <<>>)
           /\ slave'.answer.op = "ERROR" /\ slave'.full = slave.full
<1> DEFINE a == Message("ERROR", 0, <<>>)
<1>1. slave \in SlaveType /\ slave' = [slave EXCEPT !.op = "none", !.answer = a]
  BY DEF IInv, MessagesOK, SlaveRefuse
<1> HIDE DEF a
<1>2. slave'.op = "none" /\ slave'.answer = a /\ slave'.full = slave.full
  BY <1>1 DEF SlaveType
<1> QED
  BY <1>2, MessageParts DEF a

\* What it keeps when it is busy, and when it posts its answer.
LEMMA AnswerSteps ==
    ASSUME IInv, NEW a, slave' = [slave EXCEPT !.answer = a]
    PROVE  /\ slave'.op = slave.op /\ slave'.answer = a
           /\ slave'.packet = slave.packet /\ slave'.stored = slave.stored /\ slave'.done = slave.done
           /\ slave'.transfer = slave.transfer /\ slave'.size = slave.size /\ slave'.full = slave.full
<1>1. slave \in SlaveType
  BY DEF IInv, MessagesOK
<1> QED
  BY <1>1 DEF SlaveType

\* The mailbox of a slave keeps its size.
LEMMA SizeStays ==
    ASSUME IInv, [Next]_vars
    PROVE  slave'.full = slave.full
<1>1. CASE UNCHANGED slave
  BY <1>1
<1>2. CASE Serve
  BY <1>2, StoreFields, RequestSteps, ContinueSteps, RefuseSteps DEF Serve
<1>3. CASE ServeBusy \/ Answer
  BY <1>3, AnswerSteps DEF ServeBusy, Answer
<1>4. [Next]_vars => UNCHANGED slave \/ Serve \/ ServeBusy \/ Answer
  BY DEF Next, vars, Begin, SendRequest, ReceiveNothing, ReadData, WriteData, WriteDone, WriteBadAck,
         WriteBusy, ReceiveError
<1> QED
  BY <1>1, <1>2, <1>3, <1>4

\* Part of a product: n packets of full size and one more.
LEMMA NextProduct ==
    ASSUME NEW n \in Nat
    PROVE  /\ n * maxdata \in Nat /\ (n + 1) * maxdata = n * maxdata + maxdata
           /\ (n + 1) - 1 = n /\ maxdata \in Nat /\ maxdata > 0
BY FoEAssumption

\* A send puts the message where nothing was, and the call goes on, or it is late.
LEMMA PutSteps ==
    ASSUME NEW m, NEW next, Put(m, next)
    PROVE  \/ in = None /\ in' = m /\ pc' = next /\ wkc' = "ok" /\ late' = late
           \/ in' \in {in, m} /\ pc' = "idle" /\ wkc' = "none" /\ late' = TRUE
BY DEF Put, Return

\* That a call was late, or the slave busy, is not forgotten.
LEMMA HistoryStays ==
    ASSUME IInv, [Next]_vars
    PROVE  (late => late') /\ (busy' = 0 => busy = 0)
<1>1. CASE Begin \/ ReceiveNothing \/ WriteDone \/ WriteBadAck \/ WriteBusy \/ ReceiveError
  BY <1>1 DEF Begin, ReceiveNothing, WriteDone, WriteBadAck, WriteBusy, ReceiveError
<1>2. CASE SendRequest
  BY <1>2, PutSteps DEF SendRequest
<1>3. CASE ReadData
  <2>1. UNCHANGED busy /\ (late' = late \/ \E m, next : Put(m, next))
    BY <1>3 DEF ReadData
  <2> QED
    BY <2>1, PutSteps
<1>4. CASE WriteData
  <2>1. UNCHANGED busy /\ \E m, next : Put(m, next)
    BY <1>4 DEF WriteData
  <2> QED
    BY <2>1, PutSteps
<1>5. CASE Serve \/ Answer \/ UNCHANGED vars
  BY <1>5 DEF Serve, Answer, vars
<1>6. CASE ServeBusy
  BY <1>6 DEF ServeBusy, IInv, LocalsOK
<1> QED
  BY <1>1, <1>2, <1>3, <1>4, <1>5, <1>6 DEF Next

\* As long as no call was late a slave with mailboxes of one size and the master work on the same
\* file, and what has been read is its beginning.
LEMMA ReadStep ==
    ASSUME IInv, ReadInv, OneSize, ~late, ~late', [Next]_vars
    PROVE  ReadInv'
<1>t. /\ transfer \in Nat /\ size \in Nat /\ packet \in Nat /\ maxdata \in Nat
      /\ data \in FileBytes /\ slave.packet \in Nat
  BY FoEAssumption DEF IInv, TypeOK, LocalsOK, MessagesOK, SlaveType
<1>o. slave.full = maxdata
  BY DEF OneSize
<1>n. None.op = "none"
  BY MessageParts
<1>1. CASE Begin
  <2>1. /\ pc' = "request" /\ wkc' = "none" /\ data' = <<>> /\ UNCHANGED <<in, slave>>
        /\ out' = None /\ pc = "idle"
    BY <1>1 DEF Begin, ReadInv
  <2> QED
    BY <2>1 DEF ReadInv, Ignored, ReadGenuine, Ended
<1>2. CASE SendRequest
  <2>1. /\ UNCHANGED <<op, transfer, size, packet, data, out, slave>> /\ pc = "request"
        /\ out = None /\ slave.answer = None /\ packet = 0 /\ data = <<>>
    BY <1>2 DEF SendRequest, ReadInv, IInv, LocalsOK
  <2>2. in' = Request /\ pc' = "transfer"
    BY <1>2, PutSteps DEF SendRequest
  <2>3. Request' = Request
    BY <2>1 DEF Request
  <2>4. Collected'
    <3>1. packet * maxdata = 0 /\ 0 \in Nat
      BY <1>t, <2>1
    <3>2. Bytes(transfer, 0, 0) = <<>>
      BY <1>t, <3>1, BytesLength
    <3> QED
      BY <1>t, <2>1, <3>1, <3>2 DEF Collected
  <2>5. Reading'
    BY <1>n, <2>1, <2>2, <2>3, <2>4 DEF Reading
  <2> QED
    BY <2>1, <2>2, <2>5 DEF ReadInv, OneUnderWay, ReadGenuine, Ended
<1>3. CASE ReceiveNothing
  BY <1>3 DEF ReceiveNothing
<1>4. CASE ReadData
  <2>1. /\ op = "READ" /\ pc = "transfer" /\ out.op = "DATA" /\ out' = None /\ out # None
        /\ packet' = packet + 1
        /\ UNCHANGED <<op, transfer, size, slave>>
    BY <1>n, <1>4 DEF ReadData, Receive
  <2>2. in = None /\ slave.answer = None
    BY <2>1 DEF ReadInv, OneUnderWay
  <2>3. Collected /\ ServesRead(packet + 1) /\ NextPacket(out)
    BY <2>1 DEF ReadInv, Reading
  <2>4. CASE out.packet = packet' /\ Fits(Len(out.data))
    <3> DEFINE next == IF Full(Len(out.data)) THEN "transfer" ELSE "idle"
               ack == Message("ACK", out.packet, <<>>)
               from == packet * maxdata
               len == Least(maxdata, size - from)
    <3>1. data' = data \o out.data /\ Put(ack, next)
      BY <1>4, <2>4 DEF ReadData
    <3>2. in' = ack /\ pc' = next
      BY <3>1, PutSteps
    <3>3. ack.op = "ACK" /\ ack.packet = packet + 1
      BY <2>1, <2>4, MessageParts
    <3>4. /\ from \in Nat /\ from <= size
          /\ data = Bytes(transfer, 0, from) /\ out.data = Bytes(transfer, from, len)
          /\ (packet + 1) * maxdata = from + maxdata /\ maxdata > 0
      BY <1>t, <2>3, NextProduct DEF Collected, NextPacket
    <3>5. /\ len \in Nat /\ len <= maxdata /\ from + len <= size
          /\ (len # maxdata => from + len = size /\ len < maxdata)
      <4> HIDE DEF from
      <4> QED
        BY <1>t, <3>4 DEF Least
    <3>6. Len(out.data) = len
      <4> HIDE DEF from, len
      <4> QED
        BY <1>t, <3>4, <3>5, BytesLength
    <3>7. data' = Bytes(transfer, 0, from + len)
      <4> HIDE DEF from, len
      <4>1. Bytes(transfer, 0, from) \o Bytes(transfer, from, len) = Bytes(transfer, 0, from + len)
        BY <1>t, <3>4, <3>5, BytesConcat
      <4> QED
        BY <3>1, <3>4, <4>1
    <3> HIDE DEF from, len, ack
    <3>8. CASE len = maxdata
      <4>1. pc' = "transfer"
        BY <3>2, <3>6, <3>8 DEF Full
      <4>2. from + len = (packet + 1) * maxdata /\ from + len <= size
        BY <3>4, <3>5, <3>8
      <4>4. Collected' /\ ServesRead(packet)'
        BY <2>1, <2>3, <3>7, <4>2 DEF Collected, ServesRead
      <4>3. Reading'
        BY <1>n, <2>1, <2>2, <3>2, <3>3, <4>4 DEF Reading
      <4> QED
        BY <2>1, <2>2, <4>1, <4>3 DEF ReadInv, OneUnderWay, ReadGenuine, Ended
    <3>9. CASE len # maxdata
      <4>1. pc' = "idle"
        BY <3>2, <3>6, <3>9 DEF Full
      <4>2. slave.size < slave.packet * slave.full
        <5>1. slave.size = size /\ slave.packet = packet + 1 /\ slave.full = maxdata
          BY <1>o, <2>3 DEF ServesRead
        <5>2. slave.packet * slave.full = from + maxdata
          BY <3>4, <5>1
        <5> QED
          BY <1>t, <3>4, <3>5, <3>9, <5>1, <5>2
      <4>3. Ignored'
        BY <2>1, <3>2, <3>3, <4>2 DEF Ignored
      <4>4. data' = Bytes(transfer, 0, size)
        BY <3>5, <3>7, <3>9
      <4> QED
        BY <2>1, <2>2, <4>1, <4>3, <4>4 DEF ReadInv, ReadGenuine
    <3> QED
      BY <3>8, <3>9
  <2>5. CASE ~(out.packet = packet' /\ Fits(Len(out.data)))
    <3>1. pc' = "idle" /\ wkc' = "BUF2SMALL" /\ in' = in
      BY <1>4, <2>5 DEF ReadData, Return
    <3> QED
      BY <2>1, <2>2, <3>1 DEF ReadInv, ReadGenuine, Ended
  <2> QED
    BY <2>4, <2>5
<1>5. CASE WriteData
  <2>1. op = "WRITE" /\ op' = op /\ out # None /\ out' = None /\ slave' = slave /\ pc = "transfer"
    BY <1>n, <1>5 DEF WriteData, Receive
  <2>2. slave.answer = None
    BY <2>1 DEF ReadInv, OneUnderWay
  <2>3. pc' = "transfer"
    BY <1>5, PutSteps DEF WriteData
  <2> QED
    BY <2>1, <2>2, <2>3 DEF ReadInv, OneUnderWay, ReadGenuine, Ended
<1>6. CASE WriteDone \/ WriteBadAck \/ WriteBusy \/ ReceiveError
  <2>1. /\ pc = "transfer" /\ pc' = "idle" /\ out # None /\ out' = None /\ UNCHANGED <<in, slave>>
        /\ op' = op /\ (op = "WRITE" \/ wkc' # "ok")
    BY <1>n, <1>6 DEF WriteDone, WriteBadAck, WriteBusy, ReceiveError, Receive, Return
  <2>2. in = None /\ slave.answer = None
    BY <2>1 DEF ReadInv, OneUnderWay
  <2> QED
    BY <2>1, <2>2 DEF ReadInv, ReadGenuine, Ended
<1>7. CASE Serve
  <2>1. in' = None /\ slave.answer = None /\ UNCHANGED <<master, out>> /\ in # None
    BY <1>n, <1>7 DEF Serve, SlaveStore, SlaveRequest, SlaveContinue, SlaveRefuse
  <2>2. ReadGenuine'
    BY <1>o, <2>1, SizeStays DEF ReadInv, ReadGenuine, Ended, master
  <2>3. CASE pc # "transfer"
    <3>1. Ignored /\ out = None
      BY <2>1, <2>3 DEF ReadInv
    <3>2. SlaveContinue
      BY <1>7, <3>1 DEF Ignored, Serve, SlaveStore, SlaveRequest, SlaveRefuse
    <3>3. ~(slave.op = "READ" /\ slave.packet * slave.full <= slave.size)
      <4>1. slave.packet * slave.full \in Nat /\ slave.size \in Nat
        BY <1>o, <1>t, NextProduct DEF IInv, MessagesOK, SlaveType
      <4> QED
        BY <3>1, <4>1 DEF Ignored
    <3>4. slave' = slave
      BY <3>2, <3>3, ContinueSteps
    <3> QED
      BY <2>1, <2>2, <2>3, <3>1, <3>4 DEF ReadInv, master
  <2>4. CASE pc = "transfer"
    <3>1. out' = None /\ OneUnderWay'
      BY <2>1, <2>4 DEF ReadInv, OneUnderWay
    <3>2. ASSUME op = "READ" PROVE Reading'
      <4>1. /\ Collected
            /\ \/ in = Request /\ packet = 0
               \/ in.op = "ACK" /\ in.packet = packet /\ ServesRead(packet)
        BY <2>1, <2>4, <3>2 DEF ReadInv, Reading
      <4>2. Collected'
        BY <2>1, <4>1 DEF Collected, master
      <4>3. slave'.answer.op = "DATA" => ServesRead(packet + 1)' /\ NextPacket(slave.answer)'
        <5>1. CASE in = Request /\ packet = 0
          <6>1. in.op = "READ" /\ in.transfer = transfer /\ in.size = size
            BY <3>2, <5>1, MessageParts
          <6>2. SlaveRequest \/ SlaveRefuse
            BY <1>7, <6>1 DEF Serve, SlaveStore, SlaveContinue
          <6>3. CASE SlaveRequest
            <7>1. /\ slave'.op = "READ" /\ slave'.transfer = transfer /\ slave'.size = size
                  /\ slave'.packet = 1
                  /\ slave'.answer = Message("DATA", 1, Bytes(transfer, (1 - 1) * maxdata,
                                                              Least(maxdata, size - (1 - 1) * maxdata)))
              BY <1>o, <6>1, <6>3, RequestSteps
            <7>2. 1 - 1 = packet /\ 1 = packet + 1
              BY <5>1
            <7>3. slave'.answer = Message("DATA", 1, Bytes(transfer, packet * maxdata,
                                                           Least(maxdata, size - packet * maxdata)))
              BY <7>1, <7>2
            <7> QED
              BY <2>1, <7>1, <7>2, <7>3, MessageParts DEF ServesRead, NextPacket, master
          <6>4. CASE SlaveRefuse
            <7>1. slave'.answer = Message("ERROR", 0, <<>>)
              BY <6>4, RefuseSteps
            <7> QED
              BY <7>1, MessageParts
          <6> QED
            BY <6>2, <6>3, <6>4
        <5>2. CASE in.op = "ACK" /\ in.packet = packet /\ ServesRead(packet)
          <6>1. SlaveContinue
            BY <1>7, <5>2 DEF Serve, SlaveStore, SlaveRequest, SlaveRefuse
          <6>2. CASE slave' = slave
            BY <1>n, <2>1, <6>2
          <6>3. CASE slave' # slave
            <7>1. /\ slave'.op = "READ" /\ slave'.packet = packet + 1
                  /\ slave'.transfer = transfer /\ slave'.size = size
                  /\ slave'.answer = Packet(packet + 1, slave)
              BY <5>2, <6>1, <6>3, ContinueSteps DEF ServesRead
            <7>2. (packet + 1) - 1 = packet /\ slave.transfer = transfer /\ slave.size = size
              BY <1>t, <5>2 DEF ServesRead
            <7>3. slave'.answer = Message("DATA", packet + 1, Bytes(transfer, packet * maxdata,
                                                                    Least(maxdata, size - packet * maxdata)))
              BY <1>o, <7>1, <7>2 DEF Packet
            <7> QED
              BY <2>1, <7>1, <7>3, MessageParts DEF ServesRead, NextPacket, master
          <6> QED
            BY <6>2, <6>3
        <5> QED
          BY <4>1, <5>1, <5>2
      <4> QED
        BY <1>n, <2>1, <3>1, <4>2, <4>3 DEF Reading, master
    <3> QED
      BY <2>1, <2>2, <2>4, <3>1, <3>2 DEF ReadInv, master
  <2> QED
    BY <2>3, <2>4
<1>8. CASE ServeBusy
  <2>1. /\ in' = None /\ slave.answer = None /\ UNCHANGED <<master, out>> /\ in # None /\ in.op # "ACK"
        /\ slave'.answer = Message("BUSY", 0, <<>>)
    BY <1>n, <1>8, AnswerSteps DEF ServeBusy
  <2>2. pc = "transfer"
    BY <2>1 DEF ReadInv, Ignored
  <2>3. out = None /\ slave'.answer.op = "BUSY"
    BY <2>1, <2>2, MessageParts DEF ReadInv, OneUnderWay
  <2> QED
    BY <1>n, <2>1, <2>2, <2>3 DEF ReadInv, OneUnderWay, Reading, ReadGenuine, Ended, master
<1>9. CASE Answer
  <2>1. /\ slave.answer # None /\ out' = slave.answer /\ slave'.answer = None /\ UNCHANGED <<master, in>>
        /\ slave'.op = slave.op /\ slave'.packet = slave.packet /\ slave'.transfer = slave.transfer
        /\ slave'.size = slave.size
    BY <1>9, AnswerSteps DEF Answer
  <2>2. pc = "transfer" /\ in = None
    BY <2>1 DEF ReadInv, OneUnderWay
  <2>3. ASSUME op = "READ" PROVE Reading'
    <3>1. slave.answer.op = "DATA" => Collected /\ ServesRead(packet + 1) /\ NextPacket(slave.answer)
      BY <2>2, <2>3 DEF ReadInv, Reading
    <3> QED
      BY <1>n, <2>1, <2>2, <3>1 DEF Reading, Collected, ServesRead, NextPacket, master
  <2> QED
    BY <2>1, <2>2, <2>3 DEF ReadInv, OneUnderWay, ReadGenuine, Ended, master
<1>10. CASE UNCHANGED vars
  BY <1>10 DEF vars, master, ReadInv, OneUnderWay, Reading, Collected, ServesRead, NextPacket, Ignored,
               ReadGenuine, Ended, Request
<1> QED
  BY <1>1, <1>2, <1>3, <1>4, <1>5, <1>6, <1>7, <1>8, <1>9, <1>10 DEF Next

\* As long as the slave was never busy a packet is in its mailbox until it has been stored or refused,
\* and an acknowledge of the current packet is the answer to it.
LEMMA WriteStep ==
    ASSUME IInv, WriteInv, busy = 0, busy' = 0, [Next]_vars
    PROVE  WriteInv'
<1>t. /\ transfer \in Nat /\ size \in Nat /\ packet \in Nat /\ maxdata \in Nat \ {0}
      /\ p \in Nat /\ psize \in Nat /\ segmentdata \in Nat /\ dofinalzero \in BOOLEAN
      /\ (op = "WRITE" => p + psize = size)
  BY FoEAssumption DEF IInv, TypeOK, LocalsOK
<1>n. None.op = "none"
  BY MessageParts
<1>1. CASE Begin
  <2>1. /\ pc' = "request" /\ wkc' = "none" /\ p' = 0 /\ dofinalzero' = FALSE
        /\ out' \in {None, out} /\ slave' = slave
    BY <1>1 DEF Begin
  <2> QED
    BY <1>n, <2>1 DEF WriteInv, WriteConfirmed, Ended
<1>2. CASE SendRequest
  <2>1. /\ UNCHANGED <<op, transfer, size, packet, psize, p, segmentdata, dofinalzero, out, slave>>
        /\ pc = "request" /\ packet = 0 /\ p = 0 /\ ~dofinalzero
    BY <1>2 DEF SendRequest, WriteInv, IInv, LocalsOK
  <2>2. \/ in' = Request /\ pc' = "transfer"
        \/ pc' = "idle" /\ wkc' = "none"
    BY <1>2, PutSteps DEF SendRequest
  <2>3. CASE in' = Request /\ pc' = "transfer"
    <3>1. Request' = Request /\ (op = "WRITE" => in'.op = "WRITE")
      BY <2>1, <2>3, MessageParts DEF Request
    <3>2. op = "WRITE" => Writing'
      BY <1>n, <2>1, <2>3, <3>1 DEF Writing, PointersOK
    <3> QED
      BY <2>1, <2>3, <3>2 DEF WriteInv, WriteConfirmed, Ended
  <2>4. CASE pc' = "idle" /\ wkc' = "none"
    BY <2>1, <2>4 DEF WriteInv, WriteConfirmed, Ended
  <2> QED
    BY <2>2, <2>3, <2>4
<1>3. CASE ReceiveNothing
  BY <1>3 DEF ReceiveNothing, Return, WriteInv, WriteConfirmed, Ended
<1>4. CASE ReadData
  <2>1. op = "READ" /\ op' = op /\ pc' \in {"transfer", "idle"} /\ out' = None /\ slave' = slave
    <3>1. op = "READ" /\ op' = op /\ out' = None /\ slave' = slave
      BY <1>4 DEF ReadData, Receive
    <3>2. CASE out.packet = packet' /\ Fits(Len(out.data))
      <4>1. PICK next \in {"transfer", "idle"} : Put(Message("ACK", out.packet, <<>>), next)
        BY <1>4, <3>2 DEF ReadData
      <4> QED
        BY <3>1, <4>1, PutSteps
    <3>3. CASE ~(out.packet = packet' /\ Fits(Len(out.data)))
      BY <1>4, <3>1, <3>3 DEF ReadData, Return
    <3> QED
      BY <3>2, <3>3
  <2> QED
    BY <1>n, <2>1 DEF WriteInv, WriteConfirmed, Ended
<1>5. CASE WriteData
  <2> DEFINE tsize == Least(psize, maxdata)
             m == Message("DATA", packet + 1, Bytes(transfer, p, tsize))
  <2>1. /\ op = "WRITE" /\ op' = op /\ pc = "transfer" /\ out.op = "ACK"
        /\ out.packet = packet /\ out' = None
        /\ tsize > 0 \/ dofinalzero
        /\ packet' = packet + 1 /\ segmentdata' = tsize /\ psize' = psize - tsize /\ p' = p + tsize
        /\ dofinalzero' = FinalZero(psize', tsize)
        /\ UNCHANGED <<transfer, size, slave>>
    BY <1>5 DEF WriteData, Receive
  <2>2. \/ in = None /\ in' = m /\ pc' = "transfer"
        \/ pc' = "idle" /\ wkc' = "none"
    BY <1>5, <2>1, PutSteps DEF WriteData
  <2>3. tsize \in Nat /\ tsize <= maxdata /\ tsize <= psize /\ (psize - tsize > 0 => tsize = maxdata)
    BY <1>t DEF Least
  <2>4. m.op = "DATA" /\ m.packet = packet + 1 /\ m.data = Bytes(transfer, p, tsize)
    BY MessageParts
  <2> HIDE DEF tsize, m
  <2>5. CASE in = None /\ in' = m /\ pc' = "transfer"
    <3>1. PointersOK /\ PacketServed
      BY <2>1, <2>5 DEF WriteInv, Writing
    <3>2. ~(packet > 0 /\ segmentdata < maxdata)
      <4>1. tsize > 0 => psize > 0
        BY <1>t, <2>3
      <4> QED
        BY <1>t, <2>1, <3>1, <4>1 DEF PointersOK
    <3>3. (p + tsize) - tsize = p /\ (packet + 1) - 1 = packet /\ packet + 1 > 0
      BY <1>t, <2>3
    <3>4. PointersOK'
      <4>1. dofinalzero' <=> psize - tsize = 0 /\ tsize = maxdata
        BY <2>1 DEF FinalZero
      <4> QED
        BY <1>t, <2>1, <2>3, <3>3, <4>1 DEF PointersOK
    <3>5. Stored(packet, p, FALSE)
      BY <3>1, <3>2 DEF PacketServed, Stored
    <3>6. (Stored(packet - 1, p - segmentdata, FALSE))'
      BY <2>1, <3>3, <3>5 DEF Stored
    <3>7. ASSUME NEW n \in Nat, Acknowledged(n)' PROVE n = packet' - 1
      <4>1. slave.answer.op = "ACK" /\ slave.answer.packet = n
        BY <1>n, <2>1, <3>7 DEF Acknowledged
      <4> QED
        BY <2>1, <3>1, <3>3, <4>1 DEF PacketServed
    <3>8. PacketWaits'
      <4>1. /\ in'.packet = packet' /\ packet' > 0
            /\ in'.data = Bytes(transfer', p' - segmentdata', segmentdata')
        BY <2>1, <2>4, <2>5, <3>3
      <4>3. (\A n \in Nat : Acknowledged(n) => n = packet - 1)'
        BY <3>7
      <4> QED
        BY <3>6, <4>1, <4>3 DEF PacketWaits
    <3>9. Writing'
      BY <1>n, <2>4, <2>5, <3>4, <3>8 DEF Writing
    <3> QED
      BY <1>n, <2>1, <2>5, <3>9 DEF WriteInv, WriteConfirmed, Ended
  <2>6. CASE pc' = "idle" /\ wkc' = "none"
    BY <1>n, <2>1, <2>6 DEF WriteInv, WriteConfirmed, Ended
  <2> QED
    BY <2>2, <2>5, <2>6
<1>6. CASE WriteDone
  <2>1. /\ op = "WRITE" /\ pc = "transfer" /\ out.op = "ACK" /\ out.packet = packet /\ out' = None
        /\ psize = 0 /\ ~dofinalzero /\ pc' = "idle"
        /\ UNCHANGED <<op, transfer, size, in, slave>>
    BY <1>6 DEF WriteDone, Receive, Return
  <2>2. ASSUME size > 0 PROVE in = None /\ slave.stored = Bytes(transfer, 0, size) /\ slave.done
    <3>1. Writing /\ PointersOK
      BY <2>1 DEF WriteInv, Writing
    <3>2. p = size /\ packet > 0
      BY <1>t, <2>1, <2>2, <3>1 DEF PointersOK
    <3>3. Acknowledged(packet)
      BY <2>1 DEF Acknowledged
    <3>4. in = None
      <4>1. PacketWaits => packet = packet - 1
        BY <1>t, <3>3 DEF PacketWaits
      <4>2. packet # packet - 1 /\ packet # 0
        BY <1>t, <3>2
      <4> QED
        BY <3>1, <4>1, <4>2 DEF Writing
    <3>5. PacketServed
      BY <3>1, <3>4 DEF Writing
    <3>6. slave.op = "WRITE"
      BY <3>2, <3>3, <3>5 DEF PacketServed
    <3>7. segmentdata < maxdata
      BY <1>t, <2>1, <3>1, <3>2 DEF PointersOK
    <3> QED
      BY <3>2, <3>4, <3>5, <3>6, <3>7 DEF PacketServed, Stored
  <2> QED
    BY <1>n, <2>1, <2>2 DEF WriteInv, WriteConfirmed, Ended
<1>7. CASE WriteBadAck \/ WriteBusy \/ ReceiveError
  <2>1. ~WriteBusy
    BY DEF WriteBusy, Receive, WriteInv
  <2>2. pc' = "idle" /\ wkc' # "ok" /\ out' = None /\ UNCHANGED <<slave>>
    BY <1>7, <2>1 DEF WriteBadAck, ReceiveError, Receive, Return
  <2> QED
    BY <1>n, <2>2 DEF WriteInv, WriteConfirmed, Ended
<1>8. CASE Serve
  <2>1. in' = None /\ slave.answer = None /\ UNCHANGED <<master, out>> /\ in # None
    BY <1>n, <1>8 DEF Serve, SlaveStore, SlaveRequest, SlaveContinue, SlaveRefuse
  <2>2. ~(Ended("WRITE") /\ size > 0)'
    BY <2>1 DEF WriteInv, Ended, master
  <2>3. slave'.answer.op # "BUSY"
    <3>1. CASE SlaveStore
      BY <3>1, StoreFields, MessageParts
    <3>2. CASE SlaveRequest
      <4>1. slave'.answer.op \in {"ACK", "DATA"}
        BY <3>2, RequestSteps, MessageParts DEF SlaveRequest
      <4> QED
        BY <4>1
    <3>3. CASE SlaveContinue
      <4>1. slave' = slave \/ slave'.answer = Packet(slave.packet + 1, slave)
        BY <3>3, ContinueSteps
      <4>2. Packet(slave.packet + 1, slave).op = "DATA"
        BY MessageParts DEF Packet
      <4> QED
        BY <1>n, <2>1, <4>1, <4>2
    <3>4. CASE SlaveRefuse
      BY <3>4, RefuseSteps
    <3> QED
      BY <1>8, <3>1, <3>2, <3>3, <3>4 DEF Serve
  <2>4. ASSUME pc = "transfer", op = "WRITE" PROVE Writing'
    <3>1. Writing /\ PointersOK'
      BY <2>1, <2>4 DEF WriteInv, Writing, PointersOK, master
    <3>2. PacketServed'
      <4>1. CASE in.op = "DATA"
        <5>1. PacketWaits
          BY <3>1, <4>1 DEF Writing
        <5>2. ~Acknowledged(packet)
          BY <1>t, <5>1 DEF PacketWaits
        <5>3. SlaveStore \/ SlaveRefuse
          BY <1>8, <4>1 DEF Serve, SlaveRequest, SlaveContinue
        <5>4. CASE SlaveStore
          <6>1. slave.op = "WRITE" /\ in.packet = packet
            BY <5>1, <5>4 DEF SlaveStore, PacketWaits
          <6>2. /\ slave.stored = Bytes(transfer, 0, p - segmentdata)
                /\ in.data = Bytes(transfer, p - segmentdata, segmentdata)
            BY <5>1, <6>1 DEF PacketWaits, Stored
          <6>3. p - segmentdata \in Nat /\ (p - segmentdata) + segmentdata = p
            <7>1. segmentdata <= p
              BY <1>t, <2>4, <5>1 DEF IInv, LocalsOK, PacketWaits
            <7> QED
              BY <1>t, <7>1
          <6>4. slave.stored \o in.data = Bytes(transfer, 0, p) /\ Len(in.data) = segmentdata
            <7> DEFINE begin == p - segmentdata
            <7>1. begin \in Nat /\ begin + segmentdata = p
              BY <6>3
            <7>5. transfer \in Nat /\ segmentdata \in Nat
              BY <1>t
            <7>2. slave.stored = Bytes(transfer, 0, begin) /\ in.data = Bytes(transfer, begin, segmentdata)
              BY <6>2
            <7> HIDE DEF begin
            <7>3. Bytes(transfer, 0, begin) \o Bytes(transfer, begin, segmentdata)
                  = Bytes(transfer, 0, begin + segmentdata)
              BY <7>1, <7>5, BytesConcat
            <7>4. Len(Bytes(transfer, begin, segmentdata)) = segmentdata
              BY <7>1, <7>5, BytesLength
            <7> QED
              BY <7>1, <7>2, <7>3, <7>4
          <6>5. /\ slave'.op = "WRITE" /\ slave'.packet = packet /\ slave'.stored = Bytes(transfer, 0, p)
                /\ slave'.done = (segmentdata < maxdata)
                /\ slave'.answer.packet = packet
            BY <5>4, <6>1, <6>4, StoreFields, MessageParts
          <6> QED
            BY <2>1, <5>1, <6>5 DEF PacketServed, PacketWaits, Stored, master
        <5>5. CASE SlaveRefuse
          <6>1. slave'.op = "none" /\ slave'.answer.op = "ERROR"
            BY <5>5, RefuseSteps
          <6> QED
            BY <2>1, <5>2, <6>1 DEF PacketServed, Stored, Acknowledged, master
        <5> QED
          BY <5>3, <5>4, <5>5
      <4>2. CASE in.op # "DATA"
        <5>1. in.op = "WRITE" /\ in.transfer = transfer /\ packet = 0 /\ p = 0
          BY <2>1, <2>4, <3>1, <4>2, MessageParts DEF Writing, PointersOK
        <5>2. SlaveRequest \/ SlaveRefuse
          BY <1>8, <5>1 DEF Serve, SlaveStore, SlaveContinue
        <5>3. CASE SlaveRequest
          <6>1. /\ slave'.op = "WRITE" /\ slave'.packet = 0 /\ slave'.stored = <<>> /\ slave'.done = FALSE
                /\ slave'.answer.packet = 0
            <7>1. slave'.answer = Message("ACK", 0, <<>>)
              BY <5>1, <5>3, RequestSteps
            <7>2. slave'.answer.packet = 0
              BY <7>1, MessageParts
            <7>3. /\ slave'.op = "WRITE" /\ slave'.packet = 0 /\ slave'.stored = <<>> /\ slave'.done = FALSE
              BY <5>1, <5>3, RequestSteps
            <7> QED
              BY <7>2, <7>3
          <6>2. Bytes(transfer, 0, p) = <<>>
            BY <1>t, <5>1, BytesLength
          <6> QED
            BY <2>1, <5>1, <6>1, <6>2 DEF PacketServed, Stored, master
        <5>4. CASE SlaveRefuse
          <6>1. slave'.op = "none" /\ slave'.answer.op = "ERROR"
            BY <5>4, RefuseSteps
          <6> QED
            BY <2>1, <5>1, <6>1 DEF PacketServed, Stored, master
        <5> QED
          BY <5>2, <5>3, <5>4
      <4> QED
        BY <4>1, <4>2
    <3> QED
      BY <1>n, <2>1, <3>1, <3>2 DEF Writing
  <2> QED
    BY <2>1, <2>2, <2>3, <2>4 DEF WriteInv, WriteConfirmed, master
<1>9. CASE ServeBusy
  BY <1>9 DEF ServeBusy, IInv, LocalsOK
<1>10. CASE Answer
  <2>1. /\ slave.answer # None /\ out = None /\ out' = slave.answer /\ slave'.answer = None
        /\ UNCHANGED <<master, in>>
        /\ slave'.op = slave.op /\ slave'.packet = slave.packet /\ slave'.stored = slave.stored
        /\ slave'.done = slave.done
    BY <1>10, AnswerSteps DEF Answer
  <2>2. \A n : Acknowledged(n)' <=> Acknowledged(n)
    BY <1>n, <2>1 DEF Acknowledged
  <2>3. Writing => Writing'
    <3>1. PointersOK => PointersOK'
      BY <2>1 DEF PointersOK, master
    <3>2. PacketServed => PacketServed'
      BY <1>n, <2>1, <2>2 DEF PacketServed, Stored, master
    <3>3. PacketWaits => PacketWaits'
      <4>1. Stored(packet - 1, p - segmentdata, FALSE) => (Stored(packet - 1, p - segmentdata, FALSE))'
        BY <2>1 DEF Stored, master
      <4>2. packet' = packet /\ in' = in /\ p' = p /\ segmentdata' = segmentdata /\ transfer' = transfer
        BY <2>1 DEF master
      <4> QED
        BY <2>2, <4>1, <4>2 DEF PacketWaits
    <3>4. Request' = Request
      BY <2>1 DEF Request, master
    <3> QED
      BY <2>1, <3>1, <3>2, <3>3, <3>4 DEF Writing, master
  <2> QED
    BY <1>n, <2>1, <2>3 DEF WriteInv, WriteConfirmed, Ended, master
<1>11. CASE UNCHANGED vars
  <2> USE <1>11 DEF vars, master
  <2>1. Writing => Writing'
    BY DEF Writing, PointersOK, PacketServed, PacketWaits, Stored, Acknowledged, Request
  <2> QED
    BY <2>1 DEF WriteInv, WriteConfirmed, Ended
<1> QED
  BY <1>1, <1>2, <1>3, <1>4, <1>5, <1>6, <1>7, <1>8, <1>9, <1>10, <1>11 DEF Next

\* The initial state satisfies the invariant of the transfers.
LEMMA TransferInit == Init => TransferInv
<1> SUFFICES ASSUME Init PROVE TransferInv
  OBVIOUS
<1>1. IInv
  BY InitIInv
<1>2. ReadInv /\ WriteInv
  BY MessageParts DEF Init, ReadInv, ReadGenuine, WriteInv, WriteConfirmed, Ended
<1> QED
  BY <1>1, <1>2 DEF TransferInv

\* Every step keeps it.
LEMMA TransferStep == TransferInv /\ [Next]_vars => TransferInv'
<1> SUFFICES ASSUME TransferInv, [Next]_vars PROVE TransferInv'
  OBVIOUS
<1>1. IInv /\ IInv'
  BY NextIInv DEF TransferInv
<1>2. ASSUME ~late', OneSize' PROVE ReadInv'
  <2>1. OneSize
    BY <1>1, <1>2, SizeStays DEF OneSize
  <2> QED
    BY <1>1, <1>2, <2>1, HistoryStays, ReadStep DEF TransferInv
<1>3. ASSUME busy' = 0 PROVE WriteInv'
  BY <1>1, <1>3, HistoryStays, WriteStep DEF TransferInv
<1> QED
  BY <1>1, <1>2, <1>3 DEF TransferInv

-----------------------------------------------------------------------------
(* Theorems                                                                *)

\* The invariant holds in every state of every behaviour.
THEOREM Invariance == Spec => []IInv
<1>1. Init => IInv
  BY InitIInv
<1>2. IInv /\ [Next]_vars => IInv'
  BY NextIInv
<1> QED
  BY <1>1, <1>2, PTL DEF Spec

\* What ecx_FOEwrite has sent and what it has left always add up to the file, also after it has
\* taken back a packet the slave was too busy for; and every variable has its type.
THEOREM TypeCorrect == Spec => []TypeOK
<1>1. IInv => TypeOK
  BY DEF IInv
<1> QED
  BY <1>1, Invariance, PTL

\* ecx_FOEread stays within the buffer it was given, for files, packets and buffers of any size
\* and whatever the slave answers.
THEOREM ReadStaysWithinBuffer == Spec => []ReadWithinBuffer
<1>1. IInv => ReadWithinBuffer
  BY DEF IInv
<1> QED
  BY <1>1, Invariance, PTL

\* The transfers stay in step with the slave, in every state of every behaviour.
THEOREM TransferInvariance == Spec => []TransferInv
  BY TransferInit, TransferStep, PTL DEF Spec

\* A file that ecx_FOEread or ecx_FOEwrite reports as transferred is whole: what was read from a slave
\* with mailboxes of one size is the file that was asked for unless a call has come too late for an
\* answer, what was written is in the slave and ended, whatever the size of its other mailbox, unless
\* it has been busy.
THEOREM TransfersAreGenuine == Spec => []TransferGenuine
<1>1. TransferInv => TransferGenuine
  <2> SUFFICES ASSUME TransferInv PROVE TransferGenuine
    OBVIOUS
  <2>1. ReadGenuine
    BY DEF TransferInv, ReadInv, ReadGenuine, OneSize
  <2>2. busy = 0 => WriteConfirmed
    BY DEF TransferInv, WriteInv
  <2> QED
    BY <2>1, <2>2 DEF TransferGenuine
<1> QED
  BY <1>1, TransferInvariance, PTL

=============================================================================
