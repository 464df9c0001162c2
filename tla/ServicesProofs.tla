---------------------------- MODULE ServicesProofs ----------------------------
(***************************************************************************)
(* Proofs about the SoE and EoE clients and the error list they report to: *)
(* the ring is a queue, also for them; a call that returns success did     *)
(* what it says; and the Ethernet frames that are reassembled are whole.   *)
(***************************************************************************)
EXTENDS Services, SequenceTheorems, TLAPS

-----------------------------------------------------------------------------
(* The ring of ErrorList implements the queue of ErrorQueue, for every     *)
(* size of the list and every set of errors                                *)

Entries == Errors \cup {NoError}

ListInv == TypeOK /\ FlagUntilEmpty

\* An empty ring satisfies the invariant.
LEMMA ListStart == Init => ListInv
  <1> SUFFICES ASSUME Init PROVE ListInv
    OBVIOUS
  <1>1. ecaterror \in BOOLEAN
    BY Zenon DEF Init
  <1> QED
    BY <1>1, RingAssumption DEF Init, ListInv, TypeOK, FlagUntilEmpty, Slots

\* ecx_pusherror and ecx_poperror keep the invariant.
LEMMA ListStep == ListInv /\ [Next]_vars => ListInv'
  <1> SUFFICES ASSUME ListInv, [Next]_vars PROVE ListInv'
    OBVIOUS
  <1> USE RingAssumption DEF ListInv, TypeOK, FlagUntilEmpty, Slots
  <1>1. ASSUME NEW e \in Errors, ecx_pusherror(e) PROVE ListInv'
    BY <1>1 DEF ecx_pusherror, Wrap
  <1>2. CASE ecx_poperror
    <2>1. ecaterror' \in BOOLEAN
      BY <1>2, Zenon DEF ecx_poperror
    <2>2. ecaterror' \/ head' = tail'
      BY <1>2, Zenon DEF ecx_poperror
    <2>3. popped' \in [ok : BOOLEAN, err : Errors \cup {NoError}]
      BY <1>2 DEF ecx_poperror
    <2> QED
      BY <1>2, <2>1, <2>2, <2>3 DEF ecx_poperror, Wrap
  <1>3. CASE UNCHANGED vars
    BY <1>3 DEF vars
  <1> QED
    BY <1>1, <1>2, <1>3 DEF Next

\* Every variable of the list keeps its type, and the flag is up while an error is listed.
THEOREM ListInvariant == Spec => []ListInv
  BY ListStart, ListStep, PTL DEF Spec

\* ecx_poperror clears the flag only when it finds the list empty.
THEOREM FlagKept == Spec => []FlagUntilEmpty
  <1>1. ListInv => FlagUntilEmpty
    BY DEF ListInv
  <1> QED
    BY <1>1, ListInvariant, PTL

-----------------------------------------------------------------------------

\* Every place between tail and head is a slot of the ring.
LEMMA SlotType ==
  ASSUME TypeOK
  PROVE  /\ Count \in 0 .. EC_MAXELIST
         /\ \A k \in 0 .. EC_MAXELIST : SlotAt(k) \in Slots
  BY RingAssumption DEF TypeOK, Slots, Count, SlotAt

\* The mapped queue is a sequence of Count errors.
QueueTyped == RingQueue \in Seq(Entries) /\ Len(RingQueue) = Count

\* The refinement mapping yields a sequence of Count entries.
LEMMA QueueType == TypeOK => QueueTyped
  <1> SUFFICES ASSUME TypeOK PROVE QueueTyped
    OBVIOUS
  <1>1. Count \in Nat /\ \A k \in 1 .. Count : Error[SlotAt(k - 1)] \in Entries
    BY SlotType, RingAssumption DEF TypeOK, Entries
  <1>2. RingQueue \in [1 .. Count -> Entries]
    BY <1>1 DEF RingQueue
  <1> QED
    BY <1>1, <1>2, SeqDef DEF QueueTyped

\* The same of the next state.
LEMMA QueueTypeNext == TypeOK' => QueueTyped'
  BY QueueType, PTL

\* A push appends to the mapped queue, and drops its head when the ring is full.
LEMMA PushRefines ==
  ASSUME TypeOK, TypeOK', NEW e \in Errors, ecx_pusherror(e)
  PROVE  RingQueue' = IF Len(RingQueue) = EC_MAXELIST
                        THEN Append(Tail(RingQueue), e) ELSE Append(RingQueue, e)
  <1> USE RingAssumption
  <1>1. /\ RingQueue \in Seq(Entries) /\ Len(RingQueue) = Count
        /\ RingQueue' \in Seq(Entries) /\ Len(RingQueue') = Count'
        /\ e \in Entries
    BY QueueType, QueueTypeNext DEF QueueTyped, Entries
  <1>2. CASE Count = EC_MAXELIST
    <2>1. Count' = EC_MAXELIST
      BY <1>2 DEF ecx_pusherror, Wrap, Count, TypeOK, Slots
    <2>2. RingQueue # <<>>
      BY <1>1, <1>2
    <2>3. /\ Tail(RingQueue) \in Seq(Entries) /\ Len(Tail(RingQueue)) = EC_MAXELIST - 1
          /\ \A k \in 1 .. EC_MAXELIST - 1 : Tail(RingQueue)[k] = RingQueue[k + 1]
      BY <1>1, <1>2, <2>2, HeadTailProperties
    <2> DEFINE q == Append(Tail(RingQueue), e)
    <2>4. /\ q \in Seq(Entries) /\ Len(q) = EC_MAXELIST
          /\ \A k \in 1 .. EC_MAXELIST - 1 : q[k] = RingQueue[k + 1]
          /\ q[EC_MAXELIST] = e
      BY <1>1, <2>3, AppendProperties
    <2>5. ASSUME NEW k \in 1 .. EC_MAXELIST - 1 PROVE RingQueue'[k] = RingQueue[k + 1]
      <3>1. SlotAt(k - 1)' = SlotAt(k) /\ SlotAt(k) # head /\ SlotAt(k) \in Slots
        BY <1>2 DEF ecx_pusherror, Wrap, Count, SlotAt, TypeOK, Slots
      <3> QED
        BY <3>1, <1>2, <2>1 DEF RingQueue, ecx_pusherror, TypeOK
    <2>6. RingQueue'[EC_MAXELIST] = e
      <3>1. SlotAt(EC_MAXELIST - 1)' = head /\ head \in Slots
        BY <1>2 DEF ecx_pusherror, Wrap, Count, SlotAt, TypeOK, Slots
      <3> QED
        BY <3>1, <2>1 DEF RingQueue, ecx_pusherror, TypeOK
    <2>7. \A k \in 1 .. Len(q) : RingQueue'[k] = q[k]
      BY <2>4, <2>5, <2>6
    <2>8. RingQueue' = q
      BY <1>1, <2>1, <2>4, <2>7, SeqEqual
    <2> QED
      BY <1>1, <1>2, <2>8
  <1>3. CASE Count # EC_MAXELIST
    <2>1. Count' = Count + 1 /\ Count \in 0 .. EC_MAXELIST - 1 /\ tail' = tail
      BY <1>3, SlotType DEF ecx_pusherror, Wrap, Count, TypeOK, Slots
    <2> DEFINE q == Append(RingQueue, e)
    <2>2. /\ q \in Seq(Entries) /\ Len(q) = Count + 1
          /\ \A k \in 1 .. Count : q[k] = RingQueue[k]
          /\ q[Count + 1] = e
      BY <1>1, AppendProperties
    <2>3. ASSUME NEW k \in 1 .. Count PROVE RingQueue'[k] = RingQueue[k]
      <3>1. SlotAt(k - 1)' = SlotAt(k - 1) /\ SlotAt(k - 1) # head /\ SlotAt(k - 1) \in Slots
        BY <2>1, <1>3 DEF Count, SlotAt, TypeOK, Slots
      <3> QED
        BY <3>1, <2>1 DEF RingQueue, ecx_pusherror, TypeOK
    <2>4. RingQueue'[Count + 1] = e
      <3>1. \A k : k = Count => SlotAt(k)' = head /\ head \in Slots
        BY <1>3, <2>1 DEF Count, SlotAt, TypeOK, Slots
      <3>2. (Count + 1) - 1 = Count /\ Count + 1 \in 1 .. Count'
        BY <2>1
      <3> QED
        BY <3>1, <3>2, <2>1 DEF RingQueue, ecx_pusherror, TypeOK
    <2>5. \A k \in 1 .. Len(q) : RingQueue'[k] = q[k]
      BY <2>1, <2>2, <2>3, <2>4
    <2>6. RingQueue' = q
      BY <1>1, <2>1, <2>2, <2>5, SeqEqual
    <2> QED
      BY <1>1, <1>3, <2>6
  <1> QED
    BY <1>2, <1>3

\* A successful read removes and returns the head of the mapped queue.
LEMMA PopRefines ==
  ASSUME TypeOK, TypeOK', ecx_poperror, head # tail
  PROVE  /\ RingQueue # <<>>
         /\ Error[tail] = Head(RingQueue)
         /\ RingQueue' = Tail(RingQueue)
  <1> USE RingAssumption
  <1>1. /\ RingQueue \in Seq(Entries) /\ Len(RingQueue) = Count
        /\ RingQueue' \in Seq(Entries) /\ Len(RingQueue') = Count'
    BY QueueType, QueueTypeNext DEF QueueTyped
  <1>2. Count' = Count - 1 /\ Count \in 1 .. EC_MAXELIST
    BY SlotType DEF ecx_poperror, Wrap, Count, TypeOK, Slots
  <1>3. RingQueue # <<>>
    BY <1>1, <1>2
  <1>4. RingQueue[1] = Error[tail]
    BY <1>2 DEF RingQueue, SlotAt, TypeOK, Slots
  <1>5. Head(RingQueue) = RingQueue[1]
    BY <1>1, <1>3
  <1>6. /\ Tail(RingQueue) \in Seq(Entries) /\ Len(Tail(RingQueue)) = Count - 1
        /\ \A k \in 1 .. Count - 1 : Tail(RingQueue)[k] = RingQueue[k + 1]
    BY <1>1, <1>3, HeadTailProperties
  <1>7. ASSUME NEW k \in 1 .. Count - 1 PROVE RingQueue'[k] = RingQueue[k + 1]
    <2>1. SlotAt(k - 1)' = SlotAt(k)
      BY <1>2 DEF ecx_poperror, Wrap, Count, SlotAt, TypeOK, Slots
    <2> QED
      BY <2>1, <1>2 DEF RingQueue, ecx_poperror
  <1>8. RingQueue' = Tail(RingQueue)
    BY <1>1, <1>2, <1>6, <1>7, SeqEqual
  <1> QED
    BY <1>3, <1>4, <1>5, <1>8

\* The initial ring is an empty queue.
LEMMA InitRefines == Init => Abstract!Init
  <1> SUFFICES ASSUME Init PROVE Abstract!Init
    OBVIOUS
  <1>1. TypeOK /\ Count = 0
    BY ListStart DEF ListInv, Init, Count
  <1>2. RingQueue = <<>>
    BY <1>1, QueueType, EmptySeq DEF QueueTyped
  <1>3. popped \in [ok : {FALSE}, err : Errors \cup {NoError}]
    BY DEF Init
  <1> QED
    BY <1>2, <1>3 DEF Init, Abstract!Init

\* Every step of the ring is a step of the queue or leaves it alone.
LEMMA StepRefines == ListInv /\ ListInv' /\ [Next]_vars => [Abstract!Next]_Abstract!vars
  <1> SUFFICES ASSUME ListInv, ListInv', [Next]_vars PROVE [Abstract!Next]_Abstract!vars
    OBVIOUS
  <1> USE DEF ListInv
  <1>1. ASSUME NEW e \in Errors, ecx_pusherror(e) PROVE Abstract!Push(e)
    BY <1>1, PushRefines DEF Abstract!Push, ecx_pusherror
  <1>2. CASE ecx_poperror /\ head # tail
    <2>1. popped' = [ok |-> TRUE, err |-> Head(RingQueue)]
      BY <1>2, PopRefines DEF ecx_poperror
    <2>2. ecaterror' = ecaterror
      BY <1>2, Zenon DEF ecx_poperror, TypeOK
    <2>3. Abstract!Pop
      BY <1>2, <2>1, <2>2, PopRefines DEF Abstract!Pop
    <2> QED
      BY <2>3 DEF Abstract!Next
  <1>3. CASE ecx_poperror /\ head = tail
    <2>1. Count = 0 /\ Count' = 0
      BY <1>3, RingAssumption DEF ecx_poperror, Count, TypeOK, Slots
    <2>2. RingQueue = <<>> /\ RingQueue' = <<>>
      BY <2>1, QueueType, QueueTypeNext, EmptySeq DEF QueueTyped
    <2>3. popped' \in [ok : {FALSE}, err : Errors \cup {NoError}]
      BY <1>3 DEF ecx_poperror, TypeOK
    <2>4. ecaterror' = FALSE
      BY <1>3, Zenon DEF ecx_poperror
    <2>5. Abstract!PopNothing
      BY <2>2, <2>3, <2>4 DEF Abstract!PopNothing
    <2> QED
      BY <2>5 DEF Abstract!Next
  <1>4. CASE UNCHANGED vars
    <2>1. RingQueue' = RingQueue
      BY <1>4 DEF vars, RingQueue, Count, SlotAt
    <2> QED
      BY <1>4, <2>1 DEF vars, Abstract!vars
  <1> QED
    BY <1>1, <1>2, <1>3, <1>4 DEF Next, Abstract!Next

\* ecx_pusherror and ecx_poperror implement a queue that forgets its oldest error when full.
THEOREM RingImplementsQueue == Spec => ImplementsQueue
  BY ListInvariant, InitRefines, StepRefines, PTL DEF Spec, ImplementsQueue, Abstract!Spec

-----------------------------------------------------------------------------
(* The clients use the list                                                *)

\* What a call of ecx_mbxreceive does to the list.
LEMMA HandleUsesList ==
  ASSUME NEW m, Handle(m)
  PROVE  [Next]_vars
  BY ServicesAssumption DEF Handle, Next

\* A step of a client pushes at most one error of the list's, and the application pops them.
LEMMA StepUsesList == [ServicesNext]_allvars => [Next]_vars
  <1> SUFFICES ASSUME [ServicesNext]_allvars PROVE [Next]_vars
    OBVIOUS
  <1> USE DEF SendRequest, Receive
  <1>1. CASE UNCHANGED allvars
    BY <1>1 DEF allvars
  <1>2. CASE Begin
    BY <1>2, HandleUsesList DEF Begin
  <1>3. CASE ReceiveHandled
    BY <1>3, HandleUsesList DEF ReceiveHandled
  <1>4. CASE SoEReadNothing \/ SoEBadResponse \/ SoEWriteNothing
    BY <1>4, ServicesAssumption DEF SoEReadNothing, SoEBadResponse, SoEWriteNothing, SoEFault, Next
  <1>5. CASE SoEReadRequest \/ SoEReadData \/ SoEWriteRequest \/ SoEWriteEmpty \/ SoEWriteDone
    BY <1>5 DEF SoEReadRequest, SoEReadData, SoEWriteRequest, SoEWriteEmpty, SoEWriteDone
  <1>6. CASE IpRequest \/ IpResponse \/ EoENothing \/ EOEsend \/ EOErecv
    BY <1>6 DEF IpRequest, IpResponse, EoENothing, EOEsend, EOErecv
  <1>7. CASE SlaveTake \/ SlavePost \/ SlavePostFragment
    BY <1>7 DEF SlaveTake, SlavePost, SlavePostFragment
  <1>8. CASE ReadErrors
    BY <1>8 DEF ReadErrors, Next
  <1> QED
    BY <1>1, <1>2, <1>3, <1>4, <1>5, <1>6, <1>7, <1>8 DEF ServicesNext

\* Whatever the SoE and EoE clients do, they use the list as ErrorList says.
THEOREM ClientsUseList == ServicesSpec => Spec
  <1>1. ServicesInit => Init
    BY DEF ServicesInit
  <1> QED
    BY <1>1, StepUsesList, PTL DEF ServicesSpec, Spec

\* The errors that a slave's clients report are a queue for the application that reads them.
THEOREM ClientsReportInOrder == ServicesSpec => ImplementsQueue
  BY ClientsUseList, RingImplementsQueue

-----------------------------------------------------------------------------
(* The clients: types                                                      *)

Ops == {"READ", "WRITE", "SEND", "SETIP", "GETIP", "POLL", "RECV"}
Requests == {"SOE_READREQ", "SOE_WRITEREQ", "EOE_SETIP", "EOE_GETIP", "EOE_FRAG"}
AnswerKinds == {"MBX_ERROR", "SOE_READRES", "SOE_WRITERES", "EOE_SETIPRES", "EOE_GETIPRES"}

\* A sequence of anything, and one of parts.
IsSeq(s) == s \in Seq(Range(s))
Piece(t) == t = <<t[1], t[2], t[3]>> /\ t[2] \in Nat /\ t[3] \in Nat
IsParts(s) == IsSeq(s) /\ \A k \in 1 .. Len(s) : Piece(s[k])

\* A queue of answers.
QueueOK(q) == IsSeq(q) /\ \A k \in 1 .. Len(q) : q[k].kind \in AnswerKinds

\* What the slave has answered and nobody has read, in order, without its Ethernet frames.
Unread == IF out.kind \in {"none", "EOE_FRAG"} THEN slave.queue ELSE <<out>> \o slave.queue

PlacesOK ==
    /\ pc \in {"idle", "request", "empty", "response"}
    /\ pc = "request" => call.op \in {"READ", "WRITE", "SEND", "SETIP", "GETIP"}
    /\ pc = "empty" => call.op = "WRITE"
    /\ pc = "response" => call.op \in {"READ", "WRITE", "SETIP", "GETIP", "RECV"}

CallOK ==
    /\ call.n \in Nat /\ call.size \in Nat /\ call.op \in Ops
    /\ call.op = "READ" => call.obj \in Idns
    /\ call.op \in {"WRITE", "SEND"} => call.size > 0
    /\ call.op = "RECV" => call.size = FrameBuffer

\* Where the sending is.
LocalsOK ==
    /\ txframeno \in Nat
    /\ call.op = "WRITE" /\ pc # "idle" /\ call.size < Width =>
          /\ hp \in Nat /\ hp <= call.size /\ (pc \in {"request", "empty"} => hp < call.size)
          /\ pc = "empty" => NotLast
          /\ pc = "response" => (NotLast <=> hp < call.size)
    /\ call.op = "SEND" /\ pc = "request" => hp < call.size /\ \E k \in Nat : hp = k * Chunk

SlaveOK ==
    /\ slave = [queue |-> slave.queue, stored |-> slave.stored, ip |-> slave.ip, sent |-> slave.sent,
                no |-> slave.no]
    /\ QueueOK(slave.queue)

MessagesOK ==
    /\ in.kind \in {"none"} \cup Requests /\ (in.kind = "none" => in = NoMessage)
    /\ out = NoMessage \/ out.kind \in AnswerKinds \cup {"EOE_FRAG"}
    /\ in.kind = "SOE_READREQ" => in.obj \in Idns

ClientsOK == PlacesOK /\ CallOK /\ LocalsOK /\ SlaveOK /\ MessagesOK

-----------------------------------------------------------------------------
(* The clients: what is under way                                          *)

\* The parts cover the bytes before this one, and end there.
Filled(parts, owner, size) ==
    /\ IsParts(parts) /\ size \in Nat
    /\ Holds(parts, owner, size)
    /\ size = IF parts = <<>> THEN 0 ELSE parts[Len(parts)][2] + parts[Len(parts)][3]

\* Nothing is under way.
Quiet == in = NoMessage /\ Unread = <<>>

Undisturbed == ~stale /\ ~missed
Reported == pc = "idle" /\ wkc > 0

RequestInv ==
    pc = "request" /\ call.op \in {"READ", "SETIP", "GETIP"} /\ Undisturbed =>
        Quiet /\ hp = 0 /\ data = <<>>

\* The parts under way follow each other and what has been copied, as far as there was room.
ReadChain ==
    /\ \A k \in 1 .. Len(Unread) :
          LET m == Unread[k] IN
          /\ m.kind = "SOE_READRES" /\ ~m.error /\ m.idn = call.obj.idn
          /\ m.from \in Nat /\ m.len \in Nat /\ (m.incomplete <=> k < Len(Unread))
          /\ m.from + m.len = IF k < Len(Unread) THEN Unread[k + 1].from ELSE call.obj.size
    /\ Unread[1].from >= hp /\ (hp < call.size => Unread[1].from = hp)
    /\ hp \in Nat /\ hp <= call.size /\ Filled(data, call.obj.idn, hp)

ReadInv ==
    pc = "response" /\ call.op = "READ" /\ Undisturbed =>
        \/ in.kind = "SOE_READREQ" /\ in.obj = call.obj /\ Unread = <<>> /\ hp = 0 /\ data = <<>>
        \/ Quiet
        \/ /\ in = NoMessage /\ Len(Unread) = 1
           /\ Unread[1].kind = "MBX_ERROR" \/ (Unread[1].kind = "SOE_READRES" /\ Unread[1].error)
        \/ in = NoMessage /\ Unread # <<>> /\ ReadChain

ReadDone ==
    Reported /\ call.op = "READ" /\ Undisturbed =>
        Filled(data, call.obj.idn, IF call.obj.size < call.size THEN call.obj.size ELSE call.size)

\* The slave has all that was sent, or all but the part in its mailbox.
WriteInv ==
    pc # "idle" /\ call.op = "WRITE" /\ call.size < Width /\ Undisturbed =>
        \/ Quiet /\ (hp < call.size => Filled(slave.stored, call.n, hp))
        \/ /\ in.kind = "SOE_WRITEREQ" /\ Unread = <<>>
           /\ in.call = call.n /\ in.len \in Nat /\ in.from + in.len = hp /\ (in.incomplete <=> hp < call.size)
           /\ Filled(slave.stored, call.n, in.from)
        \/ /\ in = NoMessage /\ hp = call.size /\ Len(Unread) = 1
           /\ Unread[1].kind = "SOE_WRITERES" /\ ~Unread[1].error => Filled(slave.stored, call.n, call.size)

WriteDone ==
    Reported /\ call.op = "WRITE" /\ call.size < Width /\ Undisturbed =>
        in = NoMessage /\ Filled(slave.stored, call.n, call.size)

\* The slave has the frame up to this place, or up to the fragment in its mailbox.
SentTo(at) ==
    \/ in = NoMessage /\ Filled(slave.stored, txframeno, at)
    \/ /\ IsFragment(in) /\ in.frame = txframeno /\ in.len \in Nat /\ in.from + in.len = at
       /\ in.no = 0 <=> in.from = 0
       /\ Filled(slave.stored, txframeno, in.from)

SendInv ==
    pc = "request" /\ call.op = "SEND" /\ Undisturbed =>
        SentTo(hp)

SendDone == Reported /\ call.op = "SEND" /\ Undisturbed => SentTo(call.size)

IpInv ==
    pc = "response" /\ call.op \in {"SETIP", "GETIP"} /\ Undisturbed =>
        \/ Quiet
        \/ /\ Unread = <<>>
           /\ IF call.op = "SETIP" THEN in.kind = "EOE_SETIP" /\ in.ip = call.n ELSE in.kind = "EOE_GETIP"
        \/ /\ in = NoMessage /\ Len(Unread) = 1
           /\ Unread[1].kind = "EOE_SETIPRES" /\ ~Unread[1].error => slave.ip = call.n
           /\ Unread[1].kind = "EOE_GETIPRES" => Unread[1].ip = slave.ip

IpDone ==
    Reported /\ call.op \in {"SETIP", "GETIP"} /\ Undisturbed =>
        in = NoMessage /\ IF call.op = "SETIP" THEN slave.ip = call.n ELSE data = <<slave.ip>>

TransferInv ==
    RequestInv /\ ReadInv /\ ReadDone /\ WriteInv /\ WriteDone /\ SendInv /\ SendDone /\ IpInv /\ IpDone

ClientsInv == ClientsOK /\ TransferInv

-----------------------------------------------------------------------------
(* Lemmas on numbers and sequences                                         *)

\* A multiple divided.
LEMMA DivExact ==
  ASSUME NEW c \in Nat \ {0}, NEW k \in Nat
  PROVE  (k * c) \div c = k
  OBVIOUS

\* A quotient from below and above.
LEMMA DivBounds ==
  ASSUME NEW a \in Nat, NEW c \in Nat \ {0}
  PROVE  a \div c \in Nat /\ c * (a \div c) <= a /\ a < c * (a \div c) + c
  OBVIOUS

\* The data of a fragment that is not the last one.
LEMMA ChunkType == Chunk \in Nat /\ Chunk >= Block /\ Chunk <= maxdata /\ Chunk > 0
  <1>1. Block \in Nat \ {0} /\ maxdata \in Nat /\ maxdata >= Block
    BY EoEAssumption
  <1>2. PICK q \in Nat : q = maxdata \div Block /\ Block * q <= maxdata /\ maxdata < Block * q + Block
    BY <1>1, DivBounds
  <1>3. q >= 1
    BY <1>1, <1>2
  <1>4. Block * q >= Block
    <2>1. PICK p \in Nat : q = p + 1
      BY <1>3
    <2>2. Block * q = Block * p + Block /\ Block * p \in Nat
      BY <1>1, <2>1
    <2> QED
      BY <1>1, <2>2
  <1>5. Block * q \in Nat
    BY <1>1, <1>2
  <1> QED
    BY <1>1, <1>2, <1>4, <1>5 DEF Chunk

\* What ecx_EOEsend, or the slave, puts into fragment number k.
LEMMA FragmentIs ==
  ASSUME NEW g, NEW size, NEW total \in Nat, NEW k \in Nat, k * Chunk < total,
         NEW m, m = Fragment(g, size, total, k)
  PROVE  /\ m.kind = "EOE_FRAG" /\ m.frame = g /\ m.no = k
         /\ m.from = k * Chunk /\ m.from \in Nat /\ m.len \in Nat /\ m.len > 0
         /\ m.last <=> total - k * Chunk <= maxdata
         /\ m.last => m.from + m.len = total
         /\ ~m.last => m.len = Chunk /\ m.from + m.len = (k + 1) * Chunk /\ (k + 1) * Chunk < total
         /\ m.no = 0 <=> m.from = 0
  <1>1. PICK c \in Nat : c = Chunk /\ c > 0 /\ c <= maxdata /\ maxdata \in Nat
    BY ChunkType, EoEAssumption
  <1>2. PICK f \in Nat : f = k * c /\ (k + 1) * c = f + c /\ (k = 0 <=> f = 0)
    BY <1>1
  <1>3. /\ m.kind = "EOE_FRAG" /\ m.frame = g /\ m.no = k /\ m.from = k * Chunk
        /\ m.last <=> total - k * Chunk <= maxdata
        /\ m.len = IF total - k * Chunk <= maxdata THEN total - k * Chunk ELSE Chunk
    BY DEF Fragment
  <1>4. k * Chunk = f /\ (k + 1) * Chunk = f + c /\ Chunk = c /\ f < total
    BY <1>1, <1>2
  <1>5. /\ m.from = f /\ (m.last <=> total - f <= maxdata)
        /\ m.len = IF total - f <= maxdata THEN total - f ELSE c
    BY <1>3, <1>4, Zenon
  <1>6. /\ m.from \in Nat /\ m.len \in Nat /\ m.len > 0
        /\ m.last => m.from + m.len = total
        /\ ~m.last => m.len = c /\ m.from + m.len = f + c /\ f + c < total
        /\ k = 0 <=> m.from = 0
    BY <1>1, <1>2, <1>4, <1>5
  <1> QED
    BY <1>3, <1>4, <1>5, <1>6, Zenon

\* An element more at the end.
LEMMA AppendMore ==
  ASSUME NEW q, IsSeq(q), NEW m
  PROVE  /\ IsSeq(Append(q, m)) /\ Append(q, m) # <<>>
         /\ Len(q) \in Nat /\ Len(Append(q, m)) = Len(q) + 1
         /\ \A k \in 1 .. Len(q) : Append(q, m)[k] = q[k]
         /\ Append(q, m)[Len(q) + 1] = m
  <1> DEFINE S == Range(q) \cup {m}
  <1>1. q \in Seq(S)
    BY SeqMonotonic DEF IsSeq
  <1> HIDE DEF S
  <1>2. m \in S
    BY DEF S
  <1>3. Append(q, m) \in Seq(S)
    BY <1>1, <1>2, AppendProperties
  <1>4. IsSeq(Append(q, m))
    BY <1>3, SeqOfRange DEF IsSeq
  <1> QED
    BY <1>1, <1>2, <1>4, AppendProperties, LenProperties

\* The first element taken off.
LEMMA TailLess ==
  ASSUME NEW q, IsSeq(q), q # <<>>
  PROVE  /\ IsSeq(Tail(q)) /\ Len(q) \in Nat /\ Len(q) >= 1
         /\ Len(Tail(q)) = Len(q) - 1
         /\ \A k \in 1 .. Len(q) - 1 : Tail(q)[k] = q[k + 1]
         /\ Head(q) = q[1]
  <1>1. q \in Seq(Range(q))
    BY DEF IsSeq
  <1>2. /\ Tail(q) \in Seq(Range(q))
        /\ Len(Tail(q)) = Len(q) - 1
        /\ \A k \in 1 .. Len(Tail(q)) : Tail(q)[k] = q[k + 1]
    BY <1>1, HeadTailProperties
  <1>3. IsSeq(Tail(q))
    BY <1>2, SeqOfRange DEF IsSeq
  <1>4. Len(q) \in Nat /\ Len(q) # 0
    BY <1>1, EmptySeq, LenProperties
  <1>5. Head(q) = q[1]
    BY <1>1
  <1> QED
    BY <1>2, <1>3, <1>4, <1>5

\* One sequence behind another.
LEMMA ConcatBoth ==
  ASSUME NEW p, NEW q, IsSeq(p), IsSeq(q)
  PROVE  /\ IsSeq(p \o q) /\ Len(p) \in Nat /\ Len(q) \in Nat
         /\ Len(p \o q) = Len(p) + Len(q)
         /\ \A k \in 1 .. Len(p) + Len(q) :
               (p \o q)[k] = IF k <= Len(p) THEN p[k] ELSE q[k - Len(p)]
  <1> DEFINE S == Range(p) \cup Range(q)
  <1>1. p \in Seq(S) /\ q \in Seq(S)
    BY SeqMonotonic DEF IsSeq
  <1> HIDE DEF S
  <1>2. p \o q \in Seq(S)
    BY <1>1, ConcatProperties
  <1>3. IsSeq(p \o q)
    BY <1>2, SeqOfRange DEF IsSeq
  <1> QED
    BY <1>1, <1>3, ConcatProperties, LenProperties

\* A sequence of one element.
LEMMA OneIsSeq ==
  ASSUME NEW m
  PROVE  IsSeq(<<m>>) /\ Len(<<m>>) = 1 /\ <<m>>[1] = m
  <1>1. <<m>> \in Seq({m})
    OBVIOUS
  <1> QED
    BY <1>1, SeqOfRange DEF IsSeq

\* Sequences with the same elements are the same.
LEMMA SameSeq ==
  ASSUME NEW p, NEW q, IsSeq(p), IsSeq(q), Len(p) = Len(q), \A k \in 1 .. Len(p) : p[k] = q[k]
  PROVE  p = q
  <1> DEFINE S == Range(p) \cup Range(q)
  <1>1. p \in Seq(S) /\ q \in Seq(S)
    BY SeqMonotonic DEF IsSeq
  <1> HIDE DEF S
  <1> QED
    BY <1>1, SeqEqual

\* A sequence is empty if it has no elements.
LEMMA EmptyIs ==
  /\ IsSeq(<<>>) /\ Len(<<>>) = 0
  /\ \A q : IsSeq(q) => (Len(q) = 0 <=> q = <<>>)
  <1>1. <<>> \in Seq({})
    OBVIOUS
  <1>2. IsSeq(<<>>)
    BY <1>1, SeqOfRange DEF IsSeq
  <1> QED
    BY <1>2, EmptySeq DEF IsSeq

-----------------------------------------------------------------------------
(* Lemmas on the parts of a value or a frame                               *)

\* The bytes of a sequence of parts with one more.
LEMMA BytesMore ==
  ASSUME NEW p, IsSeq(p), NEW t
  PROVE  Bytes(Append(p, t)) = Bytes(p) \cup {<<t[1], b>> : b \in t[2] .. (t[2] + t[3] - 1)}
  <1> DEFINE Of(u) == {<<u[1], b>> : b \in u[2] .. (u[2] + u[3] - 1)}
             q == Append(p, t)
  <1>1. /\ IsSeq(q) /\ Len(p) \in Nat /\ Len(q) = Len(p) + 1
        /\ \A k \in 1 .. Len(p) : q[k] = p[k]
        /\ q[Len(p) + 1] = t
    BY AppendMore
  <1>2. DOMAIN q = 1 .. Len(p) + 1 /\ DOMAIN p = 1 .. Len(p)
    BY <1>1 DEF IsSeq
  <1>3. \A s : Bytes(s) = UNION {Of(s[k]) : k \in DOMAIN s}
    BY Zenon DEF Bytes
  <1> HIDE DEF Of
  <1> SUFFICES Bytes(q) = Bytes(p) \cup Of(t)
    BY Zenon DEF Of
  <1> HIDE DEF q
  <1>4. \A k \in DOMAIN q : (k \in DOMAIN p /\ q[k] = p[k]) \/ q[k] = t
    BY <1>1, <1>2
  <1>5. \A k \in DOMAIN p : k \in DOMAIN q /\ q[k] = p[k]
    BY <1>1, <1>2
  <1>6. Len(p) + 1 \in DOMAIN q /\ q[Len(p) + 1] = t
    BY <1>1, <1>2
  <1>7. \A s, x : x \in Bytes(s) <=> \E k \in DOMAIN s : x \in Of(s[k])
    BY <1>3, Zenon
  <1>8. ASSUME NEW x PROVE x \in Bytes(q) <=> x \in Bytes(p) \/ x \in Of(t)
    <2>1. x \in Bytes(q) <=> \E k \in DOMAIN q : x \in Of(q[k])
      BY <1>7, Zenon
    <2>2. x \in Bytes(p) <=> \E k \in DOMAIN p : x \in Of(p[k])
      BY <1>7, Zenon
    <2>3. ASSUME x \in Bytes(q) PROVE x \in Bytes(p) \/ x \in Of(t)
      <3>1. PICK k \in DOMAIN q : x \in Of(q[k])
        BY <2>1, <2>3, Zenon
      <3> QED
        BY <1>4, <2>2, <3>1, Zenon
    <2>4. ASSUME x \in Bytes(p) PROVE x \in Bytes(q)
      <3>1. PICK k \in DOMAIN p : x \in Of(p[k])
        BY <2>2, <2>4, Zenon
      <3> QED
        BY <1>5, <2>1, <3>1, Zenon
    <2>5. ASSUME x \in Of(t) PROVE x \in Bytes(q)
      BY <1>6, <2>1, <2>5, Zenon
    <2> QED
      BY <2>3, <2>4, <2>5, Zenon
  <1> QED
    BY <1>8, Zenon

\* Nothing is filled without parts.
LEMMA FilledNone ==
  ASSUME NEW o
  PROVE  Filled(<<>>, o, 0)
  <1>1. IsParts(<<>>)
    BY EmptyIs DEF IsParts
  <1>2. DOMAIN <<>> = {}
    OBVIOUS
  <1>3. Bytes(<<>>) = {}
    BY <1>2 DEF Bytes
  <1>4. {<<o, b>> : b \in 0 .. 0 - 1} = {}
    OBVIOUS
  <1>5. InOrder(<<>>)
    BY EmptyIs DEF InOrder
  <1> QED
    BY <1>1, <1>3, <1>4, <1>5 DEF Filled, Holds

\* A part behind those there are.
LEMMA FilledMore ==
  ASSUME NEW p, NEW o, NEW n, Filled(p, o, n), NEW len \in Nat
  PROVE  Filled(Append(p, <<o, n, len>>), o, n + len)
  <1> DEFINE t == <<o, n, len>>
             q == Append(p, t)
  <1>1. IsSeq(p) /\ (\A k \in 1 .. Len(p) : Piece(p[k])) /\ n \in Nat /\ InOrder(p)
        /\ Bytes(p) = {<<o, b>> : b \in 0 .. n - 1}
        /\ n = IF p = <<>> THEN 0 ELSE p[Len(p)][2] + p[Len(p)][3]
    BY DEF Filled, Holds, IsParts
  <1>2. t[1] = o /\ t[2] = n /\ t[3] = len
    OBVIOUS
  <1> HIDE DEF t
  <1>3. /\ IsSeq(q) /\ q # <<>> /\ Len(p) \in Nat /\ Len(q) = Len(p) + 1
        /\ \A k \in 1 .. Len(p) : q[k] = p[k]
        /\ q[Len(p) + 1] = t
    BY <1>1, AppendMore
  <1>4. Piece(t)
    BY <1>1, <1>2 DEF Piece, t
  <1>5. Bytes(q) = Bytes(p) \cup {<<t[1], b>> : b \in t[2] .. (t[2] + t[3] - 1)}
    BY <1>1, BytesMore
  <1> HIDE DEF q
  <1>6. IsParts(q)
    BY <1>1, <1>3, <1>4 DEF IsParts
  <1>7. InOrder(q)
    <2>1. SUFFICES ASSUME NEW k \in 1 .. Len(q) - 1 PROVE q[k + 1][2] = q[k][2] + q[k][3]
      BY DEF InOrder
    <2>2. CASE k = Len(p)
      <3>1. p # <<>> /\ q[k + 1] = t /\ q[k] = p[Len(p)]
        BY <1>1, <1>3, <2>2, EmptyIs
      <3> QED
        BY <1>1, <1>2, <2>2, <3>1
    <2>3. CASE k \in 1 .. Len(p) - 1
      <3>1. q[k + 1] = p[k + 1] /\ q[k] = p[k]
        BY <1>3, <2>3
      <3> QED
        BY <1>1, <2>3, <3>1 DEF InOrder
    <2> QED
      BY <1>3, <2>2, <2>3
  <1>8. Bytes(q) = {<<o, b>> : b \in 0 .. n + len - 1}
    <2>1. {<<o, b>> : b \in 0 .. n - 1} \cup {<<o, b>> : b \in n .. n + len - 1} = {<<o, b>> : b \in 0 .. n + len - 1}
      BY <1>1
    <2> QED
      BY <1>1, <1>2, <1>5, <2>1
  <1>9. n + len \in Nat /\ n + len = q[Len(q)][2] + q[Len(q)][3]
    BY <1>1, <1>2, <1>3
  <1>10. Filled(q, o, n + len)
    BY <1>3, <1>6, <1>7, <1>8, <1>9 DEF Filled, Holds
  <1> QED
    BY <1>10 DEF q, t

\* One part.
LEMMA FilledOne ==
  ASSUME NEW o, NEW len \in Nat
  PROVE  Filled(<<<<o, 0, len>>>>, o, len)
  <1>1. Filled(Append(<<>>, <<o, 0, len>>), o, 0 + len)
    BY FilledNone, FilledMore
  <1>2. Append(<<>>, <<o, 0, len>>) = <<<<o, 0, len>>>>
    OBVIOUS
  <1> QED
    BY <1>1, <1>2

-----------------------------------------------------------------------------
(* Lemmas on the queue of the slave's answers                              *)

\* One more answer.
LEMMA QueueMore ==
  ASSUME NEW q, QueueOK(q), NEW m, m.kind \in AnswerKinds
  PROVE  QueueOK(Append(q, m))
  <1>1. IsSeq(q) /\ \A k \in 1 .. Len(q) : q[k].kind \in AnswerKinds
    BY DEF QueueOK
  <1> DEFINE p == Append(q, m)
  <1>2. /\ IsSeq(p) /\ Len(q) \in Nat /\ Len(p) = Len(q) + 1
        /\ \A k \in 1 .. Len(q) : p[k] = q[k]
        /\ p[Len(q) + 1] = m
    BY <1>1, AppendMore
  <1> HIDE DEF p
  <1>3. ASSUME NEW k \in 1 .. Len(p) PROVE p[k].kind \in AnswerKinds
    <2>1. k \in 1 .. Len(q) \/ k = Len(q) + 1
      BY <1>2
    <2> QED
      BY <1>1, <1>2, <2>1, Zenon
  <1>4. QueueOK(p)
    BY <1>2, <1>3 DEF QueueOK
  <1> QED
    BY <1>4 DEF p

\* The parts of a value follow each other from its first byte to its last.
LEMMA PartsAre ==
  ASSUME NEW v, v.size \in Nat \ {0}
  PROVE  /\ IsSeq(Parts(v)) /\ Len(Parts(v)) \in Nat /\ Len(Parts(v)) >= 1
         /\ Parts(v)[1].from = 0
         /\ \A k \in 1 .. Len(Parts(v)) :
               LET m == Parts(v)[k] IN
               /\ m.kind = "SOE_READRES" /\ ~m.error /\ m.idn = v.idn
               /\ m.from \in Nat /\ m.len \in Nat /\ (m.incomplete <=> k < Len(Parts(v)))
               /\ m.from + m.len = IF k < Len(Parts(v)) THEN Parts(v)[k + 1].from ELSE v.size
  <1>1. PICK d \in Nat \ {0} : d = maxdata
    BY EoEAssumption
  <1>2. PICK n \in Nat : n = (v.size + d - 1) \div d /\ d * n <= v.size + d - 1 /\ v.size + d - 1 < d * n + d
    <2>1. v.size + d - 1 \in Nat
      BY <1>1
    <2> QED
      BY <1>1, <2>1, DivBounds
  <1>3. n >= 1
    <2>1. n = 0 => d * n = 0
      BY <1>1
    <2>2. PICK e \in Int : e = d * n
      BY <1>1
    <2>3. v.size + d - 1 < e + d
      BY <1>2, <2>2, Zenon
    <2>4. n = 0 => e = 0
      BY <2>1, <2>2, Zenon
    <2>5. n \in Nat /\ d \in Nat /\ v.size \in Nat \ {0}
      BY <1>1, <1>2
    <2> QED
      BY <2>2, <2>3, <2>4, <2>5
  <1> DEFINE p == Parts(v)
  <1>4. p = [k \in 1 .. n |-> Part(v, (k - 1) * maxdata)]
    BY <1>1, <1>2 DEF Parts
  <1> HIDE DEF p
  <1>5. /\ IsSeq(p) /\ Len(p) = n
        /\ \A k \in 1 .. n : p[k] = Part(v, (k - 1) * d)
    <2> DEFINE S == {Part(v, (k - 1) * maxdata) : k \in 1 .. n}
               P(k) == Part(v, (k - 1) * maxdata)
    <2>1. \A k \in 1 .. n : P(k) \in S
      OBVIOUS
    <2>2. p = [k \in 1 .. n |-> P(k)]
      BY <1>4
    <2> HIDE DEF S, P
    <2>3. p \in [1 .. n -> S]
      BY <2>1, <2>2
    <2>4. p \in Seq(S)
      BY <2>3, SeqDef
    <2>5. IsSeq(p)
      BY <2>4, SeqOfRange DEF IsSeq
    <2>6. Len(p) = n
      BY <1>2, <2>3, <2>4, LenProperties
    <2>7. \A k \in 1 .. n : p[k] = P(k)
      BY <2>2
    <2> QED
      BY <1>1, <2>5, <2>6, <2>7 DEF P
  <1>6. ASSUME NEW k \in 1 .. n
        PROVE  /\ p[k].kind = "SOE_READRES" /\ ~p[k].error /\ p[k].idn = v.idn
               /\ p[k].from \in Nat /\ p[k].len \in Nat /\ (p[k].incomplete <=> k < n)
               /\ p[k].from + p[k].len = IF k < n THEN p[k + 1].from ELSE v.size
    <2>1. /\ p[k].kind = "SOE_READRES" /\ ~p[k].error /\ p[k].idn = v.idn
          /\ p[k].from = (k - 1) * d
          /\ p[k].len = IF v.size - (k - 1) * d > d THEN d ELSE v.size - (k - 1) * d
          /\ p[k].incomplete <=> v.size - (k - 1) * d > d
      <3>1. p[k] = Part(v, (k - 1) * d)
        BY <1>5
      <3>2. PICK f : f = (k - 1) * d
        OBVIOUS
      <3>3. p[k] = Part(v, f)
        BY <3>1, <3>2, Zenon
      <3>4. /\ p[k].kind = "SOE_READRES" /\ ~p[k].error /\ p[k].idn = v.idn
            /\ p[k].from = f
            /\ p[k].len = IF v.size - f > d THEN d ELSE v.size - f
            /\ p[k].incomplete <=> v.size - f > d
        <4>1. /\ p[k].kind = "SOE_READRES" /\ p[k].error = FALSE /\ p[k].idn = v.idn /\ p[k].from = f
              /\ p[k].len = IF v.size - f > maxdata THEN maxdata ELSE v.size - f
              /\ p[k].incomplete = (v.size - f > maxdata)
          <5> DEFINE B == v.size - f > maxdata
                     L == IF v.size - f > maxdata THEN maxdata ELSE v.size - f
          <5>1. p[k] = [kind |-> "SOE_READRES", error |-> FALSE, elem |-> v.elem, idn |-> v.idn, from |-> f,
                        len |-> L, incomplete |-> B]
            BY <3>3, Zenon DEF Part
          <5> HIDE DEF B, L
          <5>2. /\ p[k].kind = "SOE_READRES" /\ p[k].error = FALSE /\ p[k].idn = v.idn /\ p[k].from = f
                /\ p[k].len = L /\ p[k].incomplete = B
            BY <5>1
          <5> QED
            BY <5>2, Zenon DEF B, L
        <4> QED
          BY <1>1, <4>1, Zenon
      <3> QED
        BY <3>2, <3>4, Zenon
    <2>2. PICK f \in Nat : f = (k - 1) * d /\ k * d = f + d
      <3>1. PICK j \in Nat : k = j + 1
        OBVIOUS
      <3>2. j * d \in Nat /\ (j + 1) * d = j * d + d
        BY <1>1
      <3> QED
        BY <3>1, <3>2
    <2>3. k < n => p[k + 1].from = f + d
      <3>1. ASSUME k < n PROVE p[k + 1].from = f + d
        <4>1. p[k + 1] = Part(v, (k + 1 - 1) * d)
          BY <1>2, <1>5, <3>1
        <4>2. p[k + 1].from = (k + 1 - 1) * d
          BY <4>1 DEF Part
        <4>3. k + 1 - 1 = k
          OBVIOUS
        <4> QED
          BY <2>2, <4>2, <4>3
      <3> QED
        BY <3>1
    <2>4. k < n => d * n >= f + d + d
      <3>1. ASSUME k < n PROVE d * n >= f + d + d
        <4>1. PICK j \in Nat : n = (k + 1) + j
          <5>1. n - (k + 1) \in Nat /\ n = (k + 1) + (n - (k + 1))
            BY <1>2, <3>1
          <5> QED
            BY <5>1
        <4>2. d * n = (k * d + d) + d * j /\ d * j \in Nat
          BY <1>1, <4>1
        <4>3. PICK w \in Nat : w = d * j
          BY <4>2
        <4> QED
          BY <1>1, <2>2, <4>2, <4>3
      <3> QED
        BY <3>1
    <2>5. k = n => d * n = f + d
      BY <1>1, <2>2
    <2>6. PICK e \in Nat : e = d * n
      BY <1>1, <1>2
    <2>7. v.size - f > d <=> k < n
      BY <1>1, <1>2, <2>2, <2>4, <2>5, <2>6
    <2>8. v.size - f > 0
      BY <1>1, <1>2, <2>2, <2>4, <2>5, <2>6
    <2>9. /\ p[k].from = f
          /\ p[k].len = IF v.size - f > d THEN d ELSE v.size - f
          /\ p[k].incomplete <=> v.size - f > d
      BY <2>1, <2>2
    <2>10. /\ p[k].from \in Nat /\ p[k].len \in Nat /\ (p[k].incomplete <=> k < n)
           /\ p[k].from + p[k].len = IF k < n THEN f + d ELSE v.size
      BY <1>1, <2>2, <2>7, <2>8, <2>9
    <2> QED
      BY <2>1, <2>3, <2>10
  <1>7. p[1].from = 0
    <2>1. p[1] = Part(v, (1 - 1) * d)
      BY <1>2, <1>3, <1>5
    <2>2. (1 - 1) * d = 0
      BY <1>1
    <2> QED
      BY <2>1, <2>2 DEF Part
  <1>8. /\ IsSeq(p) /\ Len(p) \in Nat /\ Len(p) >= 1
        /\ p[1].from = 0
        /\ \A k \in 1 .. Len(p) :
               LET m == p[k] IN
               /\ m.kind = "SOE_READRES" /\ ~m.error /\ m.idn = v.idn
               /\ m.from \in Nat /\ m.len \in Nat /\ (m.incomplete <=> k < Len(p))
               /\ m.from + m.len = IF k < Len(p) THEN p[k + 1].from ELSE v.size
    BY <1>2, <1>3, <1>5, <1>6, <1>7
  <1> QED
    BY <1>8 DEF p

\* The parts of a value behind other answers.
LEMMA QueueParts ==
  ASSUME NEW q, QueueOK(q), NEW v, v.size \in Nat \ {0}
  PROVE  QueueOK(q \o Parts(v))
  <1>1. IsSeq(q) /\ \A k \in 1 .. Len(q) : q[k].kind \in AnswerKinds
    BY DEF QueueOK
  <1> DEFINE r == Parts(v)
             p == q \o r
  <1>2. IsSeq(r) /\ Len(r) \in Nat /\ \A k \in 1 .. Len(r) : r[k].kind \in AnswerKinds
    <2>1. IsSeq(r) /\ Len(r) \in Nat /\ \A k \in 1 .. Len(r) : r[k].kind = "SOE_READRES"
      BY PartsAre, Zenon
    <2>2. "SOE_READRES" \in AnswerKinds
      BY DEF AnswerKinds
    <2> QED
      BY <2>1, <2>2, Zenon
  <1> HIDE DEF r
  <1>3. /\ IsSeq(p) /\ Len(q) \in Nat /\ Len(p) = Len(q) + Len(r)
        /\ \A k \in 1 .. Len(q) + Len(r) : p[k] = IF k <= Len(q) THEN q[k] ELSE r[k - Len(q)]
    BY <1>1, <1>2, ConcatBoth
  <1> HIDE DEF p
  <1>4. ASSUME NEW k \in 1 .. Len(p) PROVE p[k].kind \in AnswerKinds
    <2>1. CASE k <= Len(q)
      <3>1. p[k] = q[k] /\ k \in 1 .. Len(q)
        BY <1>2, <1>3, <2>1
      <3> QED
        BY <1>1, <3>1, Zenon
    <2>2. CASE ~(k <= Len(q))
      <3>1. p[k] = r[k - Len(q)] /\ k - Len(q) \in 1 .. Len(r)
        BY <1>2, <1>3, <2>2
      <3> QED
        BY <1>2, <3>1, Zenon
    <2> QED
      BY <2>1, <2>2
  <1>5. QueueOK(p)
    BY <1>3, <1>4 DEF QueueOK
  <1> QED
    BY <1>5 DEF p, r

\* The queue without its first answer.
LEMMA QueueLess ==
  ASSUME NEW q, QueueOK(q), q # <<>>
  PROVE  QueueOK(Tail(q)) /\ Len(q) \in Nat /\ Len(q) >= 1 /\ Head(q) = q[1] /\ q[1].kind \in AnswerKinds
  <1>1. IsSeq(q) /\ \A k \in 1 .. Len(q) : q[k].kind \in AnswerKinds
    BY DEF QueueOK
  <1> DEFINE p == Tail(q)
  <1>2. /\ IsSeq(p) /\ Len(q) \in Nat /\ Len(q) >= 1 /\ Len(p) = Len(q) - 1
        /\ \A k \in 1 .. Len(q) - 1 : p[k] = q[k + 1]
        /\ Head(q) = q[1]
    BY <1>1, TailLess
  <1> HIDE DEF p
  <1>3. ASSUME NEW k \in 1 .. Len(p) PROVE p[k].kind \in AnswerKinds
    <2>1. p[k] = q[k + 1] /\ k + 1 \in 1 .. Len(q)
      BY <1>2
    <2> QED
      BY <1>1, <2>1, Zenon
  <1>4. QueueOK(p)
    BY <1>2, <1>3 DEF QueueOK
  <1>5. q[1].kind \in AnswerKinds
    BY <1>1, <1>2
  <1> QED
    BY <1>2, <1>4, <1>5 DEF p

-----------------------------------------------------------------------------
(* The types of the clients are kept                                       *)

\* Only the beginning of a call changes what is called.
LEMMA CallKept ==
  ASSUME [ServicesNext]_allvars
  PROVE  Begin \/ (call' = call /\ txframeno' = txframeno)
  <1> USE DEF SendRequest, Receive, calls
  <1>1. CASE UNCHANGED allvars
    BY <1>1 DEF allvars
  <1>2. CASE ReceiveHandled \/ SlaveTake \/ SlavePost \/ SlavePostFragment \/ ReadErrors
    BY <1>2 DEF ReceiveHandled, SlaveTake, SlavePost, SlavePostFragment, ReadErrors
  <1>3. CASE SoEReadRequest \/ SoEReadData \/ SoEReadNothing \/ SoEBadResponse
    BY <1>3 DEF SoEReadRequest, SoEReadData, SoEReadNothing, SoEBadResponse
  <1>4. CASE SoEWriteRequest \/ SoEWriteEmpty \/ SoEWriteDone \/ SoEWriteNothing
    BY <1>4 DEF SoEWriteRequest, SoEWriteEmpty, SoEWriteDone, SoEWriteNothing
  <1>5. CASE IpRequest \/ IpResponse \/ EoENothing \/ EOEsend \/ EOErecv
    BY <1>5 DEF IpRequest, IpResponse, EoENothing, EOEsend, EOErecv
  <1> QED
    BY <1>1, <1>2, <1>3, <1>4, <1>5 DEF ServicesNext

\* The fields of a call.
LEMMA CallFields ==
  ASSUME NEW N, NEW O, NEW B, NEW S, NEW c \in [n : N, op : O, obj : B, size : S]
  PROVE  c.n \in N /\ c.op \in O /\ c.obj \in B /\ c.size \in S
  OBVIOUS

\* A call that begins.
LEMMA BeginCall ==
  ASSUME CallOK, LocalsOK, Begin
  PROVE  /\ CallOK' /\ txframeno' \in Nat /\ call'.op \in Ops
         /\ pc' = CASE call'.op = "RECV" -> "response" [] call'.op = "POLL" -> "idle" [] OTHER -> "request"
  <1>1. PICK n \in Nat : n = call.n + 1
    BY DEF CallOK
  <1>2. \/ call' \in [n : {n}, op : {"READ"}, obj : Idns, size : Buffers]
        \/ call' \in [n : {n}, op : {"WRITE"}, obj : {AnyIdn}, size : ValueSizes]
        \/ call' \in [n : {n}, op : {"SEND"}, obj : {AnyIdn}, size : WriteSizes]
        \/ call' \in [n : {n}, op : {"SETIP", "GETIP"}, obj : {AnyIdn}, size : {0}]
        \/ call' \in [n : {n}, op : {"POLL", "RECV"}, obj : {AnyIdn}, size : {FrameBuffer}]
    BY <1>1 DEF Begin
  <1>3. \A s \in Buffers \cup ValueSizes \cup WriteSizes \cup {FrameBuffer} : s \in Nat \ {0}
    BY ServicesAssumption
  <1>4. ASSUME call' \in [n : {n}, op : {"READ"}, obj : Idns, size : Buffers] PROVE CallOK'
    <2>1. call'.n \in {n} /\ call'.op \in {"READ"} /\ call'.obj \in Idns /\ call'.size \in Buffers
      BY <1>4, CallFields, Zenon
    <2>2. /\ call'.n \in Nat /\ call'.size \in Nat /\ call'.op \in Ops
          /\ call'.op = "READ" => call'.obj \in Idns
          /\ call'.op \in {"WRITE", "SEND"} => call'.size > 0
          /\ call'.op = "RECV" => call'.size = FrameBuffer
      BY <1>1, <1>3, <2>1 DEF Ops
    <2> QED
      BY <2>2 DEF CallOK
  <1>5. ASSUME call' \in [n : {n}, op : {"WRITE"}, obj : {AnyIdn}, size : ValueSizes] PROVE CallOK'
    <2>1. call'.n \in {n} /\ call'.op \in {"WRITE"} /\ call'.obj \in {AnyIdn} /\ call'.size \in ValueSizes
      BY <1>5, CallFields, Zenon
    <2>2. /\ call'.n \in Nat /\ call'.size \in Nat /\ call'.op \in Ops
          /\ call'.op = "READ" => call'.obj \in Idns
          /\ call'.op \in {"WRITE", "SEND"} => call'.size > 0
          /\ call'.op = "RECV" => call'.size = FrameBuffer
      BY <1>1, <1>3, <2>1 DEF Ops
    <2> QED
      BY <2>2 DEF CallOK
  <1>6. ASSUME call' \in [n : {n}, op : {"SEND"}, obj : {AnyIdn}, size : WriteSizes] PROVE CallOK'
    <2>1. call'.n \in {n} /\ call'.op \in {"SEND"} /\ call'.obj \in {AnyIdn} /\ call'.size \in WriteSizes
      BY <1>6, CallFields, Zenon
    <2>2. /\ call'.n \in Nat /\ call'.size \in Nat /\ call'.op \in Ops
          /\ call'.op = "READ" => call'.obj \in Idns
          /\ call'.op \in {"WRITE", "SEND"} => call'.size > 0
          /\ call'.op = "RECV" => call'.size = FrameBuffer
      BY <1>1, <1>3, <2>1 DEF Ops
    <2> QED
      BY <2>2 DEF CallOK
  <1>7. ASSUME call' \in [n : {n}, op : {"SETIP", "GETIP"}, obj : {AnyIdn}, size : {0}] PROVE CallOK'
    <2>1. call'.n \in {n} /\ call'.op \in {"SETIP", "GETIP"} /\ call'.obj \in {AnyIdn} /\ call'.size \in {0}
      BY <1>7, CallFields, Zenon
    <2>2. /\ call'.n \in Nat /\ call'.size \in Nat /\ call'.op \in Ops
          /\ call'.op = "READ" => call'.obj \in Idns
          /\ call'.op \in {"WRITE", "SEND"} => call'.size > 0
          /\ call'.op = "RECV" => call'.size = FrameBuffer
      BY <1>1, <1>3, <2>1 DEF Ops
    <2> QED
      BY <2>2 DEF CallOK
  <1>8. ASSUME call' \in [n : {n}, op : {"POLL", "RECV"}, obj : {AnyIdn}, size : {FrameBuffer}] PROVE CallOK'
    <2>1. call'.n \in {n} /\ call'.op \in {"POLL", "RECV"} /\ call'.obj \in {AnyIdn} /\ call'.size \in {FrameBuffer}
      BY <1>8, CallFields, Zenon
    <2>2. /\ call'.n \in Nat /\ call'.size \in Nat /\ call'.op \in Ops
          /\ call'.op = "READ" => call'.obj \in Idns
          /\ call'.op \in {"WRITE", "SEND"} => call'.size > 0
          /\ call'.op = "RECV" => call'.size = FrameBuffer
      BY <1>1, <1>3, <2>1 DEF Ops
    <2> QED
      BY <2>2 DEF CallOK
  <1>9. CallOK'
    BY <1>2, <1>4, <1>5, <1>6, <1>7, <1>8
  <1>10. txframeno' \in Nat
    BY DEF LocalsOK, Begin
  <1> QED
    BY <1>9, <1>10 DEF CallOK, Begin

\* The call is one of the calls there are.
LEMMA CallStep == CallOK /\ LocalsOK /\ [ServicesNext]_allvars => CallOK' /\ txframeno' \in Nat
  BY CallKept, BeginCall DEF CallOK, LocalsOK

\* A call is at one of its places.
LEMMA PlacesStep == CallOK /\ LocalsOK /\ PlacesOK /\ [ServicesNext]_allvars => PlacesOK'
  <1> SUFFICES ASSUME CallOK, LocalsOK, PlacesOK, [ServicesNext]_allvars PROVE PlacesOK'
    OBVIOUS
  <1> USE DEF SendRequest, Receive, ReceiveNothing, Return, calls
  <1>1. CASE UNCHANGED allvars
    BY <1>1 DEF allvars, PlacesOK
  <1>2. CASE Begin
    BY <1>2, BeginCall DEF PlacesOK, Ops
  <1>3. CASE ReceiveHandled \/ SlaveTake \/ SlavePost \/ SlavePostFragment \/ ReadErrors
    BY <1>3 DEF ReceiveHandled, SlaveTake, SlavePost, SlavePostFragment, ReadErrors, PlacesOK
  <1>4. CASE SoEReadRequest \/ SoEReadData \/ SoEReadNothing \/ SoEBadResponse
    BY <1>4 DEF SoEReadRequest, SoEReadData, SoEReadNothing, SoEBadResponse, PlacesOK
  <1>5. CASE SoEWriteRequest \/ SoEWriteEmpty \/ SoEWriteDone \/ SoEWriteNothing
    BY <1>5 DEF SoEWriteRequest, SoEWriteEmpty, SoEWriteDone, SoEWriteNothing, PlacesOK
  <1>6. CASE IpRequest \/ IpResponse \/ EoENothing \/ EOEsend \/ EOErecv
    BY <1>6 DEF IpRequest, IpResponse, EoENothing, EOEsend, EOErecv, PlacesOK
  <1> QED
    BY <1>1, <1>2, <1>3, <1>4, <1>5, <1>6 DEF ServicesNext

\* The next fragment of a frame that is being sent.
LEMMA NextFragment ==
  ASSUME ClientsOK, pc = "request", call.op = "SEND",
         NEW m, m = Fragment(txframeno, call.size, call.size, hp \div Chunk)
  PROVE  /\ m.kind = "EOE_FRAG" /\ m.frame = txframeno /\ m.from = hp /\ m.from \in Nat /\ m.len \in Nat
         /\ m.no = 0 <=> m.from = 0
         /\ m.last => m.from + m.len = call.size
         /\ ~m.last => /\ m.from + m.len = hp + m.len /\ hp + m.len < call.size
                       /\ \E j \in Nat : hp + m.len = j * Chunk
  <1>1. hp < call.size /\ call.size \in Nat
    BY DEF ClientsOK, LocalsOK, CallOK
  <1>2. PICK k \in Nat : hp = k * Chunk
    BY DEF ClientsOK, LocalsOK
  <1>3. hp \div Chunk = k
    BY <1>2, ChunkType, DivExact
  <1>4. m = Fragment(txframeno, call.size, call.size, k) /\ k * Chunk < call.size
    BY <1>1, <1>2, <1>3
  <1>5. /\ m.kind = "EOE_FRAG" /\ m.frame = txframeno /\ m.no = k
        /\ m.from = k * Chunk /\ m.from \in Nat /\ m.len \in Nat
        /\ m.last => m.from + m.len = call.size
        /\ ~m.last => m.len = Chunk /\ m.from + m.len = (k + 1) * Chunk /\ (k + 1) * Chunk < call.size
        /\ m.no = 0 <=> m.from = 0
    BY <1>1, <1>4, FragmentIs
  <1> QED
    BY <1>1, <1>2, <1>5

\* Of a value of less than 64 KB nothing is forgotten.
LEMMA WholeLeft ==
  ASSUME hp \in Nat, call.size \in Nat, hp <= call.size, call.size < Width
  PROVE  Left = call.size - hp
  <1>1. call.size - hp \in 0 .. Width - 1 /\ Width \in Nat \ {0}
    BY EoEAssumption
  <1>2. \A n \in 0 .. Width - 1 : n % Width = n
    BY <1>1
  <1> QED
    BY <1>1, <1>2 DEF Left

\* The sending stays within what is sent.
LEMMA LocalsStep == ClientsOK /\ [ServicesNext]_allvars => LocalsOK'
  <1> SUFFICES ASSUME ClientsOK, [ServicesNext]_allvars PROVE LocalsOK'
    OBVIOUS
  <1>1. CallOK /\ LocalsOK /\ PlacesOK /\ CallOK' /\ txframeno' \in Nat
    BY CallStep DEF ClientsOK
  <1> USE DEF SendRequest, Receive, ReceiveNothing, Return, calls
  <1>2. CASE UNCHANGED <<pc, call, hp, NotLast>>
    BY <1>1, <1>2 DEF LocalsOK
  <1>3. CASE Begin
    <2>1. hp' = 0 /\ NotLast' = FALSE
      BY <1>3 DEF Begin
    <2>2. pc' = CASE call'.op = "RECV" -> "response" [] call'.op = "POLL" -> "idle" [] OTHER -> "request"
      BY <1>1, <1>3, BeginCall
    <2>3. call'.size \in Nat /\ (call'.op \in {"WRITE", "SEND"} => call'.size > 0)
      BY <1>1 DEF CallOK
    <2>4. call'.op = "WRITE" => pc' = "request"
      BY <2>2
    <2>5. 0 = 0 * Chunk
      BY ChunkType
    <2> QED
      BY <1>1, <2>1, <2>3, <2>4, <2>5 DEF LocalsOK
  <1>4. CASE call'.op \notin {"WRITE", "SEND"}
    BY <1>1, <1>4 DEF LocalsOK
  <1>5. CASE call' = call /\ call.op = "SEND" /\ pc' # "request"
    BY <1>1, <1>5 DEF LocalsOK
  <1>6. CASE call' = call /\ call.op = "WRITE" /\ pc' = "idle"
    BY <1>1, <1>6 DEF LocalsOK
  <1>7. CASE ReceiveHandled \/ SlaveTake \/ SlavePost \/ SlavePostFragment \/ ReadErrors \/ UNCHANGED allvars
    <2>1. UNCHANGED <<pc, call, hp, NotLast>>
      BY <1>7 DEF ReceiveHandled, SlaveTake, SlavePost, SlavePostFragment, ReadErrors, allvars
    <2> QED
      BY <1>2, <2>1
  <1>8. CASE SoEReadRequest \/ SoEReadData \/ SoEReadNothing \/ IpRequest \/ IpResponse \/ EoENothing \/ EOErecv
    <2>1. call' = call /\ call.op \notin {"WRITE", "SEND"}
      BY <1>8 DEF SoEReadRequest, SoEReadData, SoEReadNothing, IpRequest, IpResponse, EoENothing, EOErecv
    <2> QED
      BY <1>4, <2>1
  <1>9. CASE SoEBadResponse \/ SoEWriteDone
    <2>1. call' = call /\ call.op \in {"READ", "WRITE"} /\ pc' = "idle"
      BY <1>9 DEF SoEBadResponse, SoEWriteDone
    <2> QED
      BY <1>4, <1>6, <2>1
  <1>10. CASE SoEWriteRequest /\ call.size < Width
    <2>1. hp \in Nat /\ hp < call.size /\ call.size \in Nat /\ maxdata \in Nat /\ maxdata > 0
      BY <1>1, <1>10, EoEAssumption DEF SoEWriteRequest, LocalsOK, CallOK
    <2>0. Left = call.size - hp
      BY <1>10, <2>1, WholeLeft
    <2>2. /\ NotLast' = (call.size - hp > maxdata)
          /\ hp' = hp + (IF call.size - hp > maxdata THEN maxdata ELSE call.size - hp)
          /\ call' = call /\ call.op = "WRITE"
      BY <1>10, <2>0, Zenon DEF SoEWriteRequest
    <2>3. /\ pc' = "empty" => call.size - hp > maxdata
          /\ pc' = "request" => call.size - hp > maxdata
          /\ pc' \in {"request", "empty", "response", "idle"}
      BY <1>10, <2>0 DEF SoEWriteRequest
    <2>4. hp' \in Nat /\ hp' <= call.size /\ (hp' < call.size <=> call.size - hp > maxdata)
      BY <2>1, <2>2
    <2>5. NotLast' <=> hp' < call.size
      BY <2>2, <2>4, Zenon
    <2>6. (pc' \in {"request", "empty"} => hp' < call.size) /\ (pc' = "empty" => NotLast')
      BY <2>2, <2>3, <2>4, <2>5
    <2>7. txframeno' \in Nat /\ call'.op # "SEND"
      BY <1>1, <2>2
    <2> QED
      BY <2>2, <2>4, <2>5, <2>6, <2>7, Zenon DEF LocalsOK
  <1>14. CASE SoEWriteRequest /\ ~(call.size < Width)
    <2>1. call' = call /\ call.op = "WRITE"
      BY <1>14 DEF SoEWriteRequest
    <2> QED
      BY <1>1, <1>14, <2>1 DEF LocalsOK
  <1>11. CASE SoEWriteEmpty
    <2>1. /\ pc = "empty" /\ pc' \in {"request", "response"} /\ UNCHANGED <<call, hp, NotLast>>
      BY <1>11 DEF SoEWriteEmpty
    <2>2. call.op = "WRITE"
      BY <1>1, <2>1 DEF PlacesOK
    <2> QED
      BY <1>1, <2>1, <2>2 DEF LocalsOK
  <1>12. CASE SoEWriteNothing
    <2>1. /\ pc = "response" /\ call.op = "WRITE" /\ UNCHANGED <<call, hp, NotLast>>
          /\ pc' = "idle" \/ (NotLast /\ pc' = "request")
      BY <1>12 DEF SoEWriteNothing
    <2> QED
      BY <1>1, <2>1 DEF LocalsOK
  <1>13. CASE EOEsend
    <2> DEFINE m == Fragment(txframeno, call.size, call.size, hp \div Chunk)
    <2>1. /\ pc = "request" /\ call.op = "SEND" /\ call' = call
          /\ \/ pc' = "idle"
             \/ ~m.last /\ pc' = pc /\ hp' = hp + m.len
      BY <1>13 DEF EOEsend
    <2>2. ~m.last => hp + m.len < call.size /\ \E j \in Nat : hp + m.len = j * Chunk
      BY <2>1, NextFragment
    <2> HIDE DEF m
    <2>3. CASE pc' = "idle"
      BY <1>5, <2>1, <2>3
    <2>4. CASE pc' # "idle"
      BY <1>1, <2>1, <2>2, <2>4 DEF LocalsOK
    <2> QED
      BY <2>3, <2>4
  <1> QED
    BY <1>3, <1>7, <1>8, <1>9, <1>10, <1>14, <1>11, <1>12, <1>13 DEF ServicesNext

\* Only these steps change what the slave keeps.
LEMMA SlaveKept ==
  ASSUME [ServicesNext]_allvars
  PROVE  Begin \/ SlaveTake \/ SlavePost \/ SlavePostFragment \/ slave' = slave
  <1> USE DEF SendRequest, Receive, ReceiveNothing, Read
  <1>1. CASE UNCHANGED allvars
    BY <1>1 DEF allvars
  <1>2. CASE ReceiveHandled \/ ReadErrors
    BY <1>2 DEF ReceiveHandled, ReadErrors
  <1>3. CASE SoEReadRequest \/ SoEReadData \/ SoEReadNothing \/ SoEBadResponse
    BY <1>3 DEF SoEReadRequest, SoEReadData, SoEReadNothing, SoEBadResponse
  <1>4. CASE SoEWriteRequest \/ SoEWriteEmpty \/ SoEWriteDone \/ SoEWriteNothing
    BY <1>4 DEF SoEWriteRequest, SoEWriteEmpty, SoEWriteDone, SoEWriteNothing
  <1>5. CASE IpRequest \/ IpResponse \/ EoENothing \/ EOEsend \/ EOErecv
    BY <1>5 DEF IpRequest, IpResponse, EoENothing, EOEsend, EOErecv
  <1> QED
    BY <1>1, <1>2, <1>3, <1>4, <1>5 DEF ServicesNext

\* What the slave does to what it keeps, and to its queue.
LEMMA TakeChanges ==
  ASSUME ClientsOK, SlaveTake
  PROVE  /\ in' = NoMessage /\ UNCHANGED <<calls, frames, out, fates>>
         /\ slave' = [queue |-> slave'.queue, stored |-> slave'.stored, ip |-> slave'.ip, sent |-> slave.sent,
                      no |-> slave.no]
         /\ in.kind \in Requests
         /\ in.kind = "SOE_READREQ" =>
               /\ slave'.stored = slave.stored /\ slave'.ip = slave.ip
               /\ \/ slave'.queue = slave.queue \o Parts(in.obj)
                  \/ slave'.queue = Append(slave.queue, Refusal("SOE_READRES", in.obj))
                  \/ slave'.queue = Append(slave.queue, MailboxError)
         /\ in.kind = "SOE_WRITEREQ" =>
               /\ slave'.ip = slave.ip
               /\ \/ /\ slave'.stored = Append(IF in.from = 0 THEN <<>> ELSE slave.stored, <<in.call, in.from, in.len>>)
                     /\ slave'.queue = IF in.incomplete THEN slave.queue
                                       ELSE Append(slave.queue, [Refusal("SOE_WRITERES", in.obj) EXCEPT !.error = FALSE])
                  \/ /\ ~in.incomplete /\ slave'.stored = slave.stored
                     /\ slave'.queue = Append(slave.queue, Refusal("SOE_WRITERES", in.obj))
         /\ in.kind = "EOE_SETIP" =>
               /\ slave'.stored = slave.stored
               /\ \/ /\ slave'.ip = in.ip
                     /\ slave'.queue = Append(slave.queue, [kind |-> "EOE_SETIPRES", error |-> FALSE])
                  \/ /\ slave'.ip = slave.ip
                     /\ slave'.queue = Append(slave.queue, [kind |-> "EOE_SETIPRES", error |-> TRUE])
         /\ in.kind = "EOE_GETIP" =>
               /\ slave'.stored = slave.stored /\ slave'.ip = slave.ip
               /\ slave'.queue = Append(slave.queue, [kind |-> "EOE_GETIPRES", ip |-> slave.ip])
         /\ in.kind = "EOE_FRAG" =>
               /\ slave'.queue = slave.queue /\ slave'.ip = slave.ip
               /\ slave'.stored = Append(IF in.no = 0 THEN <<>> ELSE slave.stored, <<in.frame, in.from, in.len>>)
  <1>1. slave = [queue |-> slave.queue, stored |-> slave.stored, ip |-> slave.ip, sent |-> slave.sent, no |-> slave.no]
    BY DEF ClientsOK, SlaveOK
  <1>2. in' = NoMessage /\ UNCHANGED <<calls, frames, out, fates>>
    BY DEF SlaveTake
  <1>3. CASE SlaveRead
    <2>1. PICK q : /\ slave' = [slave EXCEPT !.queue = q]
                   /\ \/ q = slave.queue \o Parts(in.obj)
                      \/ q = Append(slave.queue, Refusal("SOE_READRES", in.obj))
                      \/ q = Append(slave.queue, MailboxError)
      BY <1>3 DEF SlaveRead, Answer
    <2>2. slave' = [queue |-> q, stored |-> slave.stored, ip |-> slave.ip, sent |-> slave.sent, no |-> slave.no]
      BY <1>1, <2>1
    <2> QED
      BY <1>2, <1>3, <2>1, <2>2 DEF SlaveRead, Requests
  <1>4. CASE SlaveWrite
    <2>1. PICK q, s :
             /\ slave' = [slave EXCEPT !.stored = s, !.queue = q]
             /\ \/ /\ s = Append(IF in.from = 0 THEN <<>> ELSE slave.stored, <<in.call, in.from, in.len>>)
                   /\ q = IF in.incomplete THEN slave.queue
                          ELSE Append(slave.queue, [Refusal("SOE_WRITERES", in.obj) EXCEPT !.error = FALSE])
                \/ /\ ~in.incomplete /\ s = slave.stored
                   /\ q = Append(slave.queue, Refusal("SOE_WRITERES", in.obj))
      <3>1. slave = [slave EXCEPT !.stored = slave.stored]
        BY <1>1
      <3>2. \A q : [slave EXCEPT !.queue = q] = [slave EXCEPT !.stored = slave.stored, !.queue = q]
        BY <1>1
      <3> QED
        BY <1>4, <3>2 DEF SlaveWrite, Answer
    <2>2. slave' = [queue |-> q, stored |-> s, ip |-> slave.ip, sent |-> slave.sent, no |-> slave.no]
      BY <1>1, <2>1
    <2>3. in.kind = "SOE_WRITEREQ"
      BY <1>4 DEF SlaveWrite
    <2>4. slave'.queue = q /\ slave'.stored = s /\ slave'.ip = slave.ip
      BY <2>2
    <2>5. slave' = [queue |-> slave'.queue, stored |-> slave'.stored, ip |-> slave'.ip, sent |-> slave.sent,
                    no |-> slave.no]
      BY <2>2, <2>4
    <2> QED
      BY <1>2, <2>1, <2>3, <2>4, <2>5 DEF Requests
  <1>5. CASE SlaveIp
    <2>1. PICK q, i :
             /\ slave' = [slave EXCEPT !.ip = i, !.queue = q]
             /\ \/ in.kind = "EOE_SETIP" /\ i = in.ip /\ q = Append(slave.queue, [kind |-> "EOE_SETIPRES", error |-> FALSE])
                \/ in.kind = "EOE_SETIP" /\ i = slave.ip /\ q = Append(slave.queue, [kind |-> "EOE_SETIPRES", error |-> TRUE])
                \/ in.kind = "EOE_GETIP" /\ i = slave.ip /\ q = Append(slave.queue, [kind |-> "EOE_GETIPRES", ip |-> slave.ip])
      <3>1. \A q : [slave EXCEPT !.queue = q] = [slave EXCEPT !.ip = slave.ip, !.queue = q]
        BY <1>1
      <3> QED
        BY <1>5, <3>1, Zenon DEF SlaveIp, Answer
    <2>2. slave' = [queue |-> q, stored |-> slave.stored, ip |-> i, sent |-> slave.sent, no |-> slave.no]
      BY <1>1, <2>1
    <2>3. slave'.queue = q /\ slave'.stored = slave.stored /\ slave'.ip = i
      BY <2>2
    <2>4. slave' = [queue |-> slave'.queue, stored |-> slave'.stored, ip |-> slave'.ip, sent |-> slave.sent,
                    no |-> slave.no]
      BY <2>2, <2>3
    <2> QED
      BY <1>2, <2>1, <2>3, <2>4 DEF Requests
  <1>6. CASE SlaveFrame
    <2>1. PICK s : /\ slave' = [slave EXCEPT !.stored = s]
                   /\ s = Append(IF in.no = 0 THEN <<>> ELSE slave.stored, <<in.frame, in.from, in.len>>)
      BY <1>6 DEF SlaveFrame
    <2>2. slave' = [queue |-> slave.queue, stored |-> s, ip |-> slave.ip, sent |-> slave.sent, no |-> slave.no]
      BY <1>1, <2>1
    <2> QED
      BY <1>2, <1>6, <2>1, <2>2 DEF SlaveFrame, IsFragment, Requests
  <1> QED
    BY <1>3, <1>4, <1>5, <1>6 DEF SlaveTake

\* The slave keeps a queue of answers.
LEMMA SlaveStep == ClientsOK /\ [ServicesNext]_allvars => SlaveOK'
  <1> SUFFICES ASSUME ClientsOK, [ServicesNext]_allvars PROVE SlaveOK'
    OBVIOUS
  <1>1. /\ slave = [queue |-> slave.queue, stored |-> slave.stored, ip |-> slave.ip, sent |-> slave.sent, no |-> slave.no]
        /\ QueueOK(slave.queue)
    BY DEF ClientsOK, SlaveOK
  <1>2. CASE slave' = slave
    BY <1>1, <1>2 DEF SlaveOK
  <1>3. CASE Begin
    <2>1. slave' = [slave EXCEPT !.stored = <<>>]
      BY <1>3 DEF Begin
    <2>2. slave' = [queue |-> slave.queue, stored |-> <<>>, ip |-> slave.ip, sent |-> slave.sent, no |-> slave.no]
      BY <1>1, <2>1
    <2> QED
      BY <1>1, <2>2 DEF SlaveOK
  <1>4. ASSUME SlaveTake PROVE SlaveOK'
    <2>1. ASSUME in.kind = "SOE_READREQ" PROVE in.obj.size \in Nat \ {0}
      BY <2>1, ServicesAssumption DEF ClientsOK, MessagesOK
    <2>2. ASSUME in.kind = "SOE_READREQ" PROVE QueueOK(slave'.queue)
      <3>1. \/ slave'.queue = slave.queue \o Parts(in.obj)
            \/ slave'.queue = Append(slave.queue, Refusal("SOE_READRES", in.obj))
            \/ slave'.queue = Append(slave.queue, MailboxError)
        BY <1>4, <2>2, TakeChanges
      <3>2. Refusal("SOE_READRES", in.obj).kind \in AnswerKinds /\ MailboxError.kind \in AnswerKinds
        BY DEF Refusal, MailboxError, AnswerKinds
      <3> QED
        BY <1>1, <2>1, <2>2, <3>1, <3>2, QueueParts, QueueMore, Zenon
    <2>3. ASSUME in.kind = "SOE_WRITEREQ" PROVE QueueOK(slave'.queue)
      <3>1. \/ slave'.queue = slave.queue
            \/ slave'.queue = Append(slave.queue, [Refusal("SOE_WRITERES", in.obj) EXCEPT !.error = FALSE])
            \/ slave'.queue = Append(slave.queue, Refusal("SOE_WRITERES", in.obj))
        BY <1>4, <2>3, TakeChanges
      <3>2. /\ [Refusal("SOE_WRITERES", in.obj) EXCEPT !.error = FALSE].kind \in AnswerKinds
            /\ Refusal("SOE_WRITERES", in.obj).kind \in AnswerKinds
        BY DEF Refusal, AnswerKinds
      <3> QED
        BY <1>1, <3>1, <3>2, QueueMore, Zenon
    <2>4. ASSUME in.kind = "EOE_SETIP" PROVE QueueOK(slave'.queue)
      <3>1. \/ slave'.queue = Append(slave.queue, [kind |-> "EOE_SETIPRES", error |-> FALSE])
            \/ slave'.queue = Append(slave.queue, [kind |-> "EOE_SETIPRES", error |-> TRUE])
        BY <1>4, <2>4, TakeChanges
      <3>2. /\ [kind |-> "EOE_SETIPRES", error |-> FALSE].kind \in AnswerKinds
            /\ [kind |-> "EOE_SETIPRES", error |-> TRUE].kind \in AnswerKinds
        BY DEF AnswerKinds
      <3> QED
        BY <1>1, <3>1, <3>2, QueueMore, Zenon
    <2>5. ASSUME in.kind = "EOE_GETIP" PROVE QueueOK(slave'.queue)
      <3>1. slave'.queue = Append(slave.queue, [kind |-> "EOE_GETIPRES", ip |-> slave.ip])
        BY <1>4, <2>5, TakeChanges
      <3>2. [kind |-> "EOE_GETIPRES", ip |-> slave.ip].kind \in AnswerKinds
        BY DEF AnswerKinds
      <3> QED
        BY <1>1, <3>1, <3>2, QueueMore, Zenon
    <2>6. ASSUME in.kind = "EOE_FRAG" PROVE QueueOK(slave'.queue)
      BY <1>1, <1>4, <2>6, TakeChanges
    <2>7. QueueOK(slave'.queue)
      BY <1>4, <2>2, <2>3, <2>4, <2>5, <2>6, TakeChanges DEF Requests
    <2>8. slave' = [queue |-> slave'.queue, stored |-> slave'.stored, ip |-> slave'.ip, sent |-> slave.sent,
                    no |-> slave.no]
      BY <1>4, TakeChanges
    <2>9. slave'.sent = slave.sent /\ slave'.no = slave.no
      BY <2>8
    <2> QED
      BY <2>7, <2>8, <2>9 DEF SlaveOK
  <1>5. CASE SlavePost
    <2>1. /\ slave.queue # <<>>
          /\ slave' = [slave EXCEPT !.queue = Tail(slave.queue)]
      BY <1>5 DEF SlavePost
    <2>2. slave' = [queue |-> Tail(slave.queue), stored |-> slave.stored, ip |-> slave.ip, sent |-> slave.sent,
                    no |-> slave.no]
      BY <1>1, <2>1
    <2>3. QueueOK(Tail(slave.queue))
      BY <1>1, <2>1, QueueLess
    <2> QED
      BY <2>2, <2>3 DEF SlaveOK
  <1>6. CASE SlavePostFragment
    <2>1. PICK s, n : slave' = [slave EXCEPT !.sent = s, !.no = n]
      BY <1>6 DEF SlavePostFragment
    <2>2. slave' = [queue |-> slave.queue, stored |-> slave.stored, ip |-> slave.ip, sent |-> s, no |-> n]
      BY <1>1, <2>1
    <2> QED
      BY <1>1, <2>2 DEF SlaveOK
  <1> QED
    BY <1>2, <1>3, <1>4, <1>5, <1>6, SlaveKept

\* What the slave posts as a part of a frame.
LEMMA FragmentPosted ==
  ASSUME SlavePostFragment
  PROVE  out = NoMessage /\ in' = in /\ out'.kind = "EOE_FRAG"
  <1>1. PICK f, g : out' = Fragment(g, f.size, f.total, slave.no)
    BY DEF SlavePostFragment
  <1>2. out'.kind = "EOE_FRAG"
    BY <1>1 DEF Fragment
  <1> QED
    BY <1>2 DEF SlavePostFragment

\* The messages in the mailboxes are requests and answers.
LEMMA MessagesStep == ClientsOK /\ [ServicesNext]_allvars => MessagesOK'
  <1> SUFFICES ASSUME ClientsOK, [ServicesNext]_allvars PROVE MessagesOK'
    OBVIOUS
  <1>1. MessagesOK /\ (call.op = "READ" => call.obj \in Idns)
    BY DEF ClientsOK, CallOK
  <1> USE DEF MessagesOK
  <1>2. ASSUME in' = in, out' \in {NoMessage, out} PROVE MessagesOK'
    BY <1>1, <1>2
  <1>3. ASSUME NEW m, m.kind \in Requests, m.kind = "SOE_READREQ" => m.obj \in Idns,
               Sent(m) \/ NotSent(m), out' = out
        PROVE  MessagesOK'
    BY <1>1, <1>3 DEF Sent, NotSent, Requests
  <1> USE DEF Receive, ReceiveNothing, Read
  <1>4. CASE UNCHANGED allvars
    BY <1>2, <1>4 DEF allvars
  <1>5. CASE Begin
    <2>1. in' = in /\ out' \in {NoMessage, out}
      BY <1>5 DEF Begin
    <2> QED
      BY <1>2, <2>1
  <1>6. CASE ReceiveHandled \/ ReadErrors
    <2>1. in' = in /\ out' \in {NoMessage, out}
      BY <1>6 DEF ReceiveHandled, ReadErrors
    <2> QED
      BY <1>2, <2>1
  <1>7. CASE SoEReadData \/ SoEReadNothing \/ SoEBadResponse \/ SoEWriteEmpty \/ SoEWriteDone \/ SoEWriteNothing
    <2>1. in' = in /\ out' \in {NoMessage, out}
      BY <1>7 DEF SoEReadData, SoEReadNothing, SoEBadResponse, SoEWriteEmpty, SoEWriteDone,
                  SoEWriteNothing
    <2> QED
      BY <1>2, <2>1
  <1>8. CASE IpResponse \/ EoENothing \/ EOErecv
    <2>1. in' = in /\ out' \in {NoMessage, out}
      BY <1>8 DEF IpResponse, EoENothing, EOErecv
    <2> QED
      BY <1>2, <2>1
  <1>9. CASE SoEReadRequest
    <2> DEFINE m == [kind |-> "SOE_READREQ", obj |-> call.obj]
    <2>1. (Sent(m) \/ NotSent(m)) /\ out' = out /\ call.op = "READ"
      BY <1>9 DEF SoEReadRequest, SendRequest
    <2>2. m.kind \in Requests /\ m.obj \in Idns
      BY <1>1, <2>1 DEF Requests
    <2> QED
      BY <1>3, <2>1, <2>2
  <1>10. CASE SoEWriteRequest
    <2> DEFINE more == Left > maxdata
               m == [kind |-> "SOE_WRITEREQ", obj |-> call.obj, incomplete |-> more,
                     from |-> hp, len |-> IF more THEN maxdata ELSE Left, call |-> call.n]
    <2>1. (Sent(m) \/ NotSent(m)) /\ out' = out
      BY <1>10, Zenon DEF SoEWriteRequest
    <2>2. m.kind = "SOE_WRITEREQ"
      OBVIOUS
    <2> HIDE DEF m
    <2> QED
      BY <1>3, <2>1, <2>2 DEF Requests
  <1>11. CASE IpRequest
    <2>1. PICK m : (Sent(m) \/ NotSent(m)) /\ out' = out /\ m.kind \in {"EOE_SETIP", "EOE_GETIP"}
      BY <1>11 DEF IpRequest, SendRequest
    <2> QED
      BY <1>3, <2>1 DEF Requests
  <1>12. CASE EOEsend
    <2>1. PICK m : (Sent(m) \/ NotSent(m)) /\ out' = out /\ m.kind = "EOE_FRAG"
      <3>1. PICK m : (Sent(m) \/ NotSent(m)) /\ out' = out /\ m = Fragment(txframeno, call.size, call.size, hp \div Chunk)
        BY <1>12, Zenon DEF EOEsend
      <3> QED
        BY <3>1 DEF Fragment
    <2> QED
      BY <1>3, <2>1 DEF Requests
  <1>13. CASE SlaveTake
    <2>1. in' = NoMessage /\ out' = out
      BY <1>13 DEF SlaveTake
    <2> QED
      BY <1>1, <2>1 DEF NoMessage
  <1>14. CASE SlavePost
    <2>1. in' = in /\ out' = slave.queue[1] /\ out'.kind \in AnswerKinds
      BY <1>14, QueueLess DEF SlavePost, ClientsOK, SlaveOK
    <2> QED
      BY <1>1, <2>1
  <1>15. CASE SlavePostFragment
    <2>1. in' = in /\ out'.kind = "EOE_FRAG"
      BY <1>15, FragmentPosted
    <2> QED
      BY <1>1, <2>1
  <1> QED
    BY <1>4, <1>5, <1>6, <1>7, <1>8, <1>9, <1>10, <1>11, <1>12, <1>13, <1>14, <1>15 DEF ServicesNext

\* The clients keep the types.
LEMMA ClientsStep == ClientsOK /\ [ServicesNext]_allvars => ClientsOK'
  <1> SUFFICES ASSUME ClientsOK, [ServicesNext]_allvars PROVE ClientsOK'
    OBVIOUS
  <1>1. PlacesOK' /\ CallOK' /\ LocalsOK' /\ SlaveOK' /\ MessagesOK'
    BY PlacesStep, CallStep, LocalsStep, SlaveStep, MessagesStep DEF ClientsOK
  <1> QED
    BY <1>1 DEF ClientsOK

\* At the start.
LEMMA ClientsStart == ServicesInit => ClientsOK
  <1> SUFFICES ASSUME ServicesInit PROVE ClientsOK
    OBVIOUS
  <1>1. /\ pc = "idle" /\ call = [n |-> 0, op |-> "POLL", obj |-> AnyIdn, size |-> 0] /\ txframeno = 0
        /\ in = NoMessage /\ out = NoMessage
        /\ slave = [queue |-> <<>>, stored |-> <<>>, ip |-> 0, sent |-> <<>>, no |-> 0]
    BY DEF ServicesInit
  <1>2. PlacesOK /\ CallOK /\ LocalsOK
    BY <1>1 DEF PlacesOK, CallOK, LocalsOK, Ops
  <1>3. QueueOK(<<>>)
    BY EmptyIs DEF QueueOK
  <1>4. SlaveOK
    BY <1>1, <1>3 DEF SlaveOK
  <1>5. MessagesOK
    BY <1>1 DEF MessagesOK, NoMessage
  <1> QED
    BY <1>2, <1>4, <1>5 DEF ClientsOK

-----------------------------------------------------------------------------
(* What has not been read                                                  *)

\* An Ethernet frame, or nothing, in the out mailbox is not an answer.
Aside(m) == m.kind \in {"none", "EOE_FRAG"}

\* The answers that are under way.
LEMMA UnreadIs ==
  ASSUME ClientsOK
  PROVE  /\ QueueOK(Unread) /\ Len(Unread) \in Nat /\ (Unread = <<>> <=> Len(Unread) = 0)
         /\ Aside(out) => Unread = slave.queue
         /\ ~Aside(out) => Unread = <<out>> \o slave.queue /\ Unread # <<>> /\ Unread[1] = out
         /\ Unread = <<>> => Aside(out) /\ slave.queue = <<>>
         /\ out = NoMessage => Aside(out)
  <1>1. IsSeq(slave.queue) /\ \A k \in 1 .. Len(slave.queue) : slave.queue[k].kind \in AnswerKinds
    BY DEF ClientsOK, SlaveOK, QueueOK
  <1>2. out = NoMessage \/ out.kind \in AnswerKinds \cup {"EOE_FRAG"}
    BY DEF ClientsOK, MessagesOK
  <1>3. out = NoMessage => Aside(out)
    BY DEF NoMessage, Aside
  <1>4. ASSUME Aside(out)
        PROVE  /\ Unread = slave.queue /\ QueueOK(Unread) /\ Len(Unread) \in Nat
               /\ Unread = <<>> <=> Len(Unread) = 0
    <2>1. Unread = slave.queue
      BY <1>4 DEF Unread, Aside
    <2>2. Len(slave.queue) \in Nat
      BY <1>1, LenProperties DEF IsSeq
    <2>3. Len(slave.queue) = 0 <=> slave.queue = <<>>
      BY <1>1, EmptyIs
    <2> QED
      BY <1>1, <2>1, <2>2, <2>3, Zenon DEF QueueOK
  <1>5. ASSUME ~Aside(out)
        PROVE  /\ Unread = <<out>> \o slave.queue /\ QueueOK(Unread) /\ Len(Unread) \in Nat /\ Len(Unread) # 0
               /\ Unread # <<>> /\ Unread[1] = out
    <2> DEFINE q == slave.queue
               p == <<out>> \o q
    <2>1. Unread = p
      BY <1>5 DEF Unread, Aside
    <2>2. IsSeq(<<out>>) /\ Len(<<out>>) = 1 /\ <<out>>[1] = out
      BY OneIsSeq
    <2>3. /\ IsSeq(p) /\ Len(q) \in Nat /\ Len(p) = Len(<<out>>) + Len(q)
          /\ \A k \in 1 .. Len(<<out>>) + Len(q) :
                p[k] = IF k <= Len(<<out>>) THEN <<out>>[k] ELSE q[k - Len(<<out>>)]
      BY <1>1, <2>2, ConcatBoth
    <2> HIDE DEF p
    <2>4. Len(p) = 1 + Len(q) /\ p[1] = out
      BY <2>2, <2>3
    <2>5. ASSUME NEW k \in 1 .. Len(p) PROVE p[k].kind \in AnswerKinds
      <3>1. CASE k = 1
        BY <1>2, <1>3, <1>5, <2>4, <3>1 DEF Aside
      <3>2. CASE k # 1
        <4>1. p[k] = q[k - 1] /\ k - 1 \in 1 .. Len(q)
          BY <2>2, <2>3, <2>4, <3>2
        <4> QED
          BY <1>1, <4>1
      <3> QED
        BY <3>1, <3>2
    <2>6. QueueOK(p)
      BY <2>3, <2>5 DEF QueueOK
    <2>7. p # <<>>
      BY <2>3, <2>4, EmptyIs
    <2> QED
      BY <2>1, <2>3, <2>4, <2>6, <2>7 DEF p
  <1> QED
    BY <1>3, <1>4, <1>5

\* An answer that is read is the first of them.
LEMMA UnreadLess ==
  ASSUME ClientsOK, ~Aside(out), out' = NoMessage, slave'.queue = slave.queue
  PROVE  /\ Len(Unread) \in Nat /\ Len(Unread) >= 1 /\ Unread[1] = out
         /\ Len(Unread') = Len(Unread) - 1
         /\ \A k \in 1 .. Len(Unread) - 1 : Unread'[k] = Unread[k + 1]
         /\ Len(Unread) = 1 => Unread' = <<>>
  <1>1. Unread' = slave.queue
    BY DEF Unread, NoMessage
  <1>2. Unread = <<out>> \o slave.queue /\ Unread[1] = out
    BY UnreadIs
  <1>3. IsSeq(slave.queue)
    BY DEF ClientsOK, SlaveOK, QueueOK
  <1> DEFINE q == slave.queue
             p == <<out>> \o q
  <1>4. IsSeq(<<out>>) /\ Len(<<out>>) = 1
    BY OneIsSeq
  <1>5. /\ Len(q) \in Nat /\ Len(p) = Len(<<out>>) + Len(q)
        /\ \A k \in 1 .. Len(<<out>>) + Len(q) :
              p[k] = IF k <= Len(<<out>>) THEN <<out>>[k] ELSE q[k - Len(<<out>>)]
    BY <1>3, <1>4, ConcatBoth
  <1> HIDE DEF p
  <1>6. Len(p) = Len(q) + 1 /\ \A k \in 1 .. Len(q) : p[k + 1] = q[k]
    BY <1>4, <1>5
  <1>7. Unread = p
    BY <1>2 DEF p
  <1>8. Len(q) = 0 => q = <<>>
    BY <1>3, EmptyIs
  <1> QED
    BY <1>1, <1>2, <1>5, <1>6, <1>7, <1>8

\* What is no answer leaves them, and an answer that is posted is one of them still.
LEMMA UnreadKept ==
  ASSUME ClientsOK, [ServicesNext]_allvars
  PROVE  /\ UNCHANGED <<out, slave>> => Unread' = Unread
         /\ Aside(out) /\ Aside(out') /\ slave'.queue = slave.queue => Unread' = Unread
         /\ SlavePost \/ SlavePostFragment =>
               Unread' = Unread /\ slave'.stored = slave.stored /\ slave'.ip = slave.ip
  <1>1. UNCHANGED <<out, slave>> => Unread' = Unread
    BY DEF Unread
  <1>2. Aside(out) /\ Aside(out') /\ slave'.queue = slave.queue => Unread' = Unread
    BY DEF Unread, Aside
  <1>3. slave = [queue |-> slave.queue, stored |-> slave.stored, ip |-> slave.ip, sent |-> slave.sent, no |-> slave.no]
    BY DEF ClientsOK, SlaveOK
  <1>4. ASSUME SlavePost PROVE Unread' = Unread /\ slave'.stored = slave.stored /\ slave'.ip = slave.ip
    <2>1. /\ out = NoMessage /\ slave.queue # <<>> /\ out' = Head(slave.queue)
          /\ slave' = [slave EXCEPT !.queue = Tail(slave.queue)]
      BY <1>4 DEF SlavePost
    <2>2. slave'.queue = Tail(slave.queue) /\ slave'.stored = slave.stored /\ slave'.ip = slave.ip
      BY <1>3, <2>1
    <2>3. Unread = slave.queue
      BY <2>1, UnreadIs
    <2>4. out'.kind \in AnswerKinds /\ out' = slave.queue[1]
      BY <2>1, QueueLess DEF ClientsOK, SlaveOK
    <2>5. Unread' = <<out'>> \o Tail(slave.queue)
      BY <2>2, <2>4 DEF Unread, AnswerKinds
    <2> DEFINE q == slave.queue
               h == <<out'>>
               p == h \o Tail(q)
    <2>6. IsSeq(q)
      BY DEF ClientsOK, SlaveOK, QueueOK
    <2>7. /\ IsSeq(Tail(q)) /\ Len(q) \in Nat /\ Len(q) >= 1 /\ Len(Tail(q)) = Len(q) - 1
          /\ \A k \in 1 .. Len(q) - 1 : Tail(q)[k] = q[k + 1]
      BY <2>1, <2>6, TailLess
    <2>8. IsSeq(h) /\ Len(h) = 1 /\ h[1] = q[1]
      BY <2>4, OneIsSeq
    <2> HIDE DEF h
    <2>9. /\ IsSeq(p) /\ Len(p) = Len(h) + Len(Tail(q))
          /\ \A k \in 1 .. Len(h) + Len(Tail(q)) :
                p[k] = IF k <= Len(h) THEN h[k] ELSE Tail(q)[k - Len(h)]
      <3> DEFINE r == Tail(q)
      <3>1. IsSeq(h) /\ IsSeq(r)
        BY <2>7, <2>8
      <3> HIDE DEF r, q
      <3>2. /\ IsSeq(h \o r) /\ Len(h \o r) = Len(h) + Len(r)
            /\ \A k \in 1 .. Len(h) + Len(r) : (h \o r)[k] = IF k <= Len(h) THEN h[k] ELSE r[k - Len(h)]
        BY <3>1, ConcatBoth, Zenon
      <3> QED
        BY <3>2, Zenon DEF r
    <2> HIDE DEF p
    <2>10. Len(p) = Len(q)
      BY <2>7, <2>8, <2>9
    <2>11. ASSUME NEW k \in 1 .. Len(p) PROVE p[k] = q[k]
      <3>1. CASE k = 1
        BY <2>7, <2>8, <2>9, <3>1
      <3>2. CASE k # 1
        <4>1. p[k] = Tail(q)[k - 1] /\ k - 1 \in 1 .. Len(q) - 1
          BY <2>7, <2>8, <2>9, <2>10, <3>2
        <4>2. Tail(q)[k - 1] = q[k - 1 + 1] /\ k - 1 + 1 = k
          BY <2>7, <4>1
        <4> QED
          BY <4>1, <4>2
      <3> QED
        BY <3>1, <3>2
    <2>12. p = q
      BY <2>6, <2>9, <2>10, <2>11, SameSeq
    <2> QED
      BY <2>2, <2>3, <2>5, <2>12 DEF p, h
  <1>5. ASSUME SlavePostFragment PROVE Unread' = Unread /\ slave'.stored = slave.stored /\ slave'.ip = slave.ip
    <2>1. PICK s, n : slave' = [slave EXCEPT !.sent = s, !.no = n]
      BY <1>5 DEF SlavePostFragment
    <2>2. slave'.queue = slave.queue /\ slave'.stored = slave.stored /\ slave'.ip = slave.ip
      BY <1>3, <2>1
    <2>3. out = NoMessage /\ out'.kind = "EOE_FRAG"
      BY <1>5, FragmentPosted
    <2> QED
      BY <1>2, <2>2, <2>3 DEF Aside, NoMessage
  <1> QED
    BY <1>1, <1>2, <1>4, <1>5

-----------------------------------------------------------------------------
(* What is under way: steps that matter little                             *)

\* Of a call that was disturbed nothing is said.
LEMMA Unfair ==
  ASSUME stale' \/ missed'
  PROVE  TransferInv'
  <1>1. ~Undisturbed'
    BY DEF Undisturbed
  <1> QED
    BY <1>1 DEF TransferInv, RequestInv, ReadInv, ReadDone, WriteInv, WriteDone, SendInv, SendDone,
                IpInv, IpDone

\* Nor of one that returned an error.
LEMMA Failed ==
  ASSUME pc' = "idle", ~(wkc' > 0)
  PROVE  TransferInv'
  <1>1. ~Reported'
    BY DEF Reported
  <1> QED
    BY <1>1 DEF TransferInv, RequestInv, ReadInv, ReadDone, WriteInv, WriteDone, SendInv, SendDone,
                IpInv, IpDone

\* What concerns each kind of call.
LEMMA OfRead ==
  ASSUME call'.op = "READ", RequestInv', ReadInv', ReadDone'
  PROVE  TransferInv'
  BY DEF TransferInv, WriteInv, WriteDone, SendInv, SendDone, IpInv, IpDone

\* The same of ecx_SoEwrite.
LEMMA OfWrite ==
  ASSUME call'.op = "WRITE", WriteInv', WriteDone'
  PROVE  TransferInv'
  BY DEF TransferInv, RequestInv, ReadInv, ReadDone, SendInv, SendDone, IpInv, IpDone

\* The same of ecx_EOEsend.
LEMMA OfSend ==
  ASSUME call'.op = "SEND", SendInv', SendDone'
  PROVE  TransferInv'
  BY DEF TransferInv, RequestInv, ReadInv, ReadDone, WriteInv, WriteDone, IpInv, IpDone

\* The same of ecx_EOEsetIp and ecx_EOEgetIp.
LEMMA OfIp ==
  ASSUME call'.op \in {"SETIP", "GETIP"}, RequestInv', IpInv', IpDone'
  PROVE  TransferInv'
  BY DEF TransferInv, ReadInv, ReadDone, WriteInv, WriteDone, SendInv, SendDone

\* Nothing is said of the other calls.
LEMMA OfOther ==
  ASSUME call'.op \notin {"READ", "WRITE", "SEND", "SETIP", "GETIP"}
  PROVE  TransferInv'
  BY DEF TransferInv, RequestInv, ReadInv, ReadDone, WriteInv, WriteDone, SendInv, SendDone, IpInv,
         IpDone

\* A step that leaves all of it.
LEMMA LeftAlone ==
  ASSUME TransferInv, UNCHANGED <<pc, call, hp, data, wkc, txframeno, in, stale, missed>>,
         Unread' = Unread, slave'.stored = slave.stored, slave'.ip = slave.ip
  PROVE  TransferInv'
  <1>1. /\ Quiet' <=> Quiet
        /\ Undisturbed' <=> Undisturbed
        /\ Reported' <=> Reported
    BY DEF Quiet, Undisturbed, Reported
  <1>2. RequestInv'
    BY <1>1 DEF TransferInv, RequestInv
  <1>3. ReadChain' <=> ReadChain
    BY DEF ReadChain
  <1>4. ReadInv'
    BY <1>1, <1>3 DEF TransferInv, ReadInv
  <1>5. ReadDone'
    BY <1>1 DEF TransferInv, ReadDone
  <1>6. WriteInv'
    BY <1>1 DEF TransferInv, WriteInv
  <1>7. WriteDone'
    BY <1>1 DEF TransferInv, WriteDone
  <1>8. SendInv' /\ SendDone'
    <2>1. SentTo(hp)' <=> SentTo(hp)
      BY DEF SentTo
    <2>2. SentTo(call.size)' <=> SentTo(call.size)
      BY DEF SentTo
    <2> QED
      BY <1>1, <2>1, <2>2 DEF TransferInv, SendInv, SendDone
  <1>9. IpInv'
    BY <1>1 DEF TransferInv, IpInv
  <1>10. IpDone'
    BY <1>1 DEF TransferInv, IpDone
  <1> QED
    BY <1>2, <1>4, <1>5, <1>6, <1>7, <1>8, <1>9, <1>10 DEF TransferInv

-----------------------------------------------------------------------------
(* What is under way: the steps of the calls                               *)

\* At the start nothing has been called.
LEMMA TransferStart == ServicesInit => TransferInv
  <1> SUFFICES ASSUME ServicesInit PROVE TransferInv
    OBVIOUS
  <1>1. pc = "idle" /\ wkc = 0
    BY DEF ServicesInit
  <1>2. ~Reported
    BY <1>1 DEF Reported
  <1> QED
    BY <1>1, <1>2
       DEF TransferInv, RequestInv, ReadInv, ReadDone, WriteInv, WriteDone, SendInv, SendDone, IpInv,
           IpDone

\* A call begins with nothing under way, or it is stale.
LEMMA TransferBegin ==
  ASSUME ClientsOK, ClientsOK', Begin
  PROVE  TransferInv'
  <1>1. CASE stale'
    BY <1>1, Unfair
  <1>2. CASE ~stale'
    <2>1. in = NoMessage /\ in' = in /\ slave.queue = <<>> /\ out'.kind \in {"none", "EOE_FRAG"}
      BY <1>2, Zenon DEF Begin
    <2>2. /\ slave' = [slave EXCEPT !.stored = <<>>] /\ hp' = 0 /\ data' = <<>> /\ wkc' = 0
      BY DEF Begin
    <2>3. slave'.queue = slave.queue /\ slave'.stored = <<>>
      <3>1. slave = [queue |-> slave.queue, stored |-> slave.stored, ip |-> slave.ip, sent |-> slave.sent,
                     no |-> slave.no]
        BY DEF ClientsOK, SlaveOK
      <3> QED
        BY <2>2, <3>1
    <2>4. Quiet'
      BY <2>1, <2>3 DEF Quiet, Unread
    <2>5. ~Reported'
      BY <2>2 DEF Reported
    <2>6. pc' = CASE call'.op = "RECV" -> "response" [] call'.op = "POLL" -> "idle" [] OTHER -> "request"
      BY BeginCall DEF ClientsOK
    <2>7. \A o : Filled(<<>>, o, 0)
      BY FilledNone
    <2>8. CASE call'.op = "READ"
      <3>1. pc' = "request"
        BY <2>6, <2>8
      <3>2. RequestInv' /\ ReadInv' /\ ReadDone'
        BY <2>2, <2>4, <2>5, <3>1 DEF RequestInv, ReadInv, ReadDone
      <3> QED
        BY <2>8, <3>2, OfRead
    <2>9. CASE call'.op = "WRITE"
      <3>1. WriteInv' /\ WriteDone'
        BY <2>2, <2>3, <2>4, <2>5, <2>7 DEF WriteInv, WriteDone
      <3> QED
        BY <2>9, <3>1, OfWrite
    <2>10. CASE call'.op = "SEND"
      <3>1. in' = NoMessage /\ Filled(slave'.stored, txframeno', hp')
        BY <2>1, <2>2, <2>3, <2>7
      <3>2. SendInv' /\ SendDone'
        BY <2>5, <3>1 DEF SendInv, SendDone, SentTo
      <3> QED
        BY <2>10, <3>2, OfSend
    <2>11. CASE call'.op \in {"SETIP", "GETIP"}
      <3>1. pc' = "request"
        BY <2>6, <2>11
      <3>2. RequestInv' /\ IpInv' /\ IpDone'
        BY <2>2, <2>4, <2>5, <3>1 DEF RequestInv, IpInv, IpDone
      <3> QED
        BY <2>11, <3>2, OfIp
    <2> QED
      BY <2>8, <2>9, <2>10, <2>11, OfOther
  <1> QED
    BY <1>1, <1>2

\* ecx_mbxreceive deals with a message itself: a fragment, or an error that ends the answer.
LEMMA TransferHandled ==
  ASSUME ClientsOK, ClientsOK', TransferInv, [ServicesNext]_allvars, ReceiveHandled
  PROVE  TransferInv'
  <1>1. /\ pc = "response" /\ Handled(out) /\ UNCHANGED calls /\ out # NoMessage
        /\ UNCHANGED <<in, slave, stale>>
        /\ missed' = TRUE \/ (out' = NoMessage /\ missed' = missed)
    BY DEF ReceiveHandled, Read
  <1>2. CASE missed'
    BY <1>2, Unfair
  <1>3. CASE ~missed' /\ Aside(out)
    <2>1. out' = NoMessage /\ missed' = missed
      BY <1>1, <1>3
    <2>2. Unread' = Unread
      BY <1>1, <1>3, <2>1, UnreadKept DEF Aside, NoMessage
    <2> QED
      BY <1>1, <2>1, <2>2, LeftAlone DEF calls
  <1>4. CASE ~missed' /\ ~Aside(out) /\ Undisturbed
    <2>1. out' = NoMessage /\ missed' = missed /\ out.kind = "MBX_ERROR"
      BY <1>1, <1>4 DEF Handled, Aside, IsFragment
    <2>2. /\ Len(Unread) \in Nat /\ Len(Unread) >= 1 /\ Unread[1] = out
          /\ Len(Unread) = 1 => Unread' = <<>>
      BY <1>1, <1>4, <2>1, UnreadLess
    <2>3. Unread # <<>>
      BY <1>4, UnreadIs
    <2>4. CASE call.op = "READ"
      <3>1. ~ReadChain
        BY <2>1, <2>2 DEF ReadChain
      <3>2. in = NoMessage /\ Len(Unread) = 1
        BY <1>1, <1>4, <2>3, <2>4, <3>1 DEF TransferInv, ReadInv, Quiet
      <3>3. Quiet'
        BY <1>1, <2>2, <3>2 DEF Quiet
      <3>4. RequestInv' /\ ReadInv' /\ ReadDone' /\ call'.op = "READ"
        BY <1>1, <2>4, <3>3 DEF RequestInv, ReadInv, ReadDone, Reported, calls
      <3> QED
        BY <3>4, OfRead
    <2>8. CASE call.op = "WRITE" /\ ~(call.size < Width)
      <3>1. WriteInv' /\ WriteDone' /\ call'.op = "WRITE"
        BY <1>1, <2>8 DEF WriteInv, WriteDone, calls
      <3> QED
        BY <3>1, OfWrite
    <2>5. CASE call.op = "WRITE" /\ call.size < Width
      <3>1. in = NoMessage /\ hp = call.size /\ Len(Unread) = 1
        BY <1>1, <1>4, <2>3, <2>5 DEF TransferInv, WriteInv, Quiet
      <3>2. Quiet'
        BY <1>1, <2>2, <3>1 DEF Quiet
      <3>3. ~(hp' < call'.size)
        BY <1>1, <3>1 DEF calls, ClientsOK, CallOK
      <3>4. WriteInv' /\ WriteDone' /\ call'.op = "WRITE"
        BY <1>1, <2>5, <3>2, <3>3 DEF WriteInv, WriteDone, Reported, calls
      <3> QED
        BY <3>4, OfWrite
    <2>6. CASE call.op \in {"SETIP", "GETIP"}
      <3>1. in = NoMessage /\ Len(Unread) = 1
        BY <1>1, <1>4, <2>3, <2>6 DEF TransferInv, IpInv, Quiet
      <3>2. Quiet'
        BY <1>1, <2>2, <3>1 DEF Quiet
      <3>3. RequestInv' /\ IpInv' /\ IpDone' /\ call'.op \in {"SETIP", "GETIP"}
        BY <1>1, <2>6, <3>2 DEF RequestInv, IpInv, IpDone, Reported, calls
      <3> QED
        BY <3>3, OfIp
    <2>7. CASE call.op = "RECV"
      BY <1>1, <2>7, OfOther DEF calls
    <2> QED
      BY <1>1, <2>4, <2>5, <2>6, <2>7, <2>8 DEF ClientsOK, PlacesOK
  <1>5. CASE ~Undisturbed
    BY <1>1, <1>5, Unfair DEF Undisturbed
  <1> QED
    BY <1>2, <1>3, <1>4, <1>5

\* The request of a read or an address is sent.
LEMMA TransferRequest ==
  ASSUME ClientsOK, ClientsOK', TransferInv, [ServicesNext]_allvars, SoEReadRequest \/ IpRequest
  PROVE  TransferInv'
  <1>1. PICK m :
           /\ pc = "request" /\ UNCHANGED <<call, hp, data, out, slave, stale>>
           /\ \/ Sent(m) /\ pc' = "response"
              \/ NotSent(m)
           /\ \/ call.op = "READ" /\ m = [kind |-> "SOE_READREQ", obj |-> call.obj]
              \/ call.op = "SETIP" /\ m = [kind |-> "EOE_SETIP", ip |-> call.n]
              \/ call.op = "GETIP" /\ m = [kind |-> "EOE_GETIP"]
    BY DEF SoEReadRequest, IpRequest, SendRequest
  <1>2. CASE NotSent(m)
    BY <1>2, Unfair DEF NotSent
  <1>3. CASE ~Undisturbed /\ Sent(m)
    BY <1>1, <1>3, Unfair DEF Undisturbed, Sent
  <1>4. CASE Undisturbed /\ Sent(m) /\ pc' = "response"
    <2>1. Quiet /\ hp = 0 /\ data = <<>>
      BY <1>1, <1>4 DEF TransferInv, RequestInv
    <2>2. in' = m /\ Unread' = <<>> /\ hp' = 0 /\ data' = <<>> /\ ~Reported'
      BY <1>1, <1>4, <2>1, UnreadKept DEF Sent, Quiet, Reported
    <2>3. CASE call.op = "READ"
      <3>1. m.kind = "SOE_READREQ" /\ m.obj = call.obj
        BY <1>1, <2>3
      <3>2. RequestInv' /\ ReadInv' /\ ReadDone'
        BY <1>1, <1>4, <2>2, <3>1 DEF RequestInv, ReadInv, ReadDone
      <3> QED
        BY <1>1, <2>3, <3>2, OfRead
    <2>4. CASE call.op \in {"SETIP", "GETIP"}
      <3>1. IF call.op = "SETIP" THEN m.kind = "EOE_SETIP" /\ m.ip = call.n ELSE m.kind = "EOE_GETIP"
        BY <1>1, <2>4
      <3>2. RequestInv' /\ IpInv' /\ IpDone'
        BY <1>1, <1>4, <2>2, <3>1 DEF RequestInv, IpInv, IpDone
      <3> QED
        BY <1>1, <2>4, <3>2, OfIp
    <2> QED
      BY <1>1, <2>3, <2>4
  <1> QED
    BY <1>1, <1>2, <1>3, <1>4

\* The message that the caller has received.
LEMMA Received ==
  ASSUME ClientsOK, Receive
  PROVE  /\ pc = "response" /\ out # NoMessage /\ out.kind # "MBX_ERROR" /\ out.kind # "none"
         /\ UNCHANGED <<in, slave, stale>>
         /\ missed' \/ (out' = NoMessage /\ missed' = missed)
  <1>1. pc = "response" /\ out # NoMessage /\ ~Handled(out) /\ UNCHANGED <<in, slave, stale>>
        /\ (missed' = TRUE \/ (out' = NoMessage /\ missed' = missed))
    BY DEF Receive, Read
  <1>2. out.kind # "none"
    BY <1>1 DEF ClientsOK, MessagesOK, AnswerKinds
  <1> QED
    BY <1>1, <1>2 DEF Handled

\* A part of the value follows what has been read, and the last one ends it.
LEMMA TransferData ==
  ASSUME ClientsOK, ClientsOK', TransferInv, [ServicesNext]_allvars, SoEReadData
  PROVE  TransferInv'
  <1> DEFINE room == call.size - hp
             len == IF out.len <= room THEN out.len ELSE room
  <1>1. /\ Receive /\ call.op = "READ" /\ out.kind = "SOE_READRES" /\ ~out.error /\ call' = call
        /\ data' = IF len = 0 THEN data ELSE Append(data, <<out.idn, out.from, len>>)
        /\ hp' = hp + len
        /\ IF out.incomplete THEN UNCHANGED <<pc, wkc>> ELSE pc' = "idle"
    BY Zenon DEF SoEReadData, SoEMatches, Return
  <1>2. /\ pc = "response" /\ UNCHANGED <<in, slave, stale>>
        /\ missed' \/ (out' = NoMessage /\ missed' = missed)
    BY <1>1, Received
  <1>3. CASE missed'
    BY <1>3, Unfair
  <1>4. CASE ~Undisturbed /\ missed' = missed
    BY <1>2, <1>4, Unfair DEF Undisturbed
  <1>5. CASE Undisturbed /\ out' = NoMessage /\ missed' = missed
    <2>1. ~Aside(out)
      BY <1>1 DEF Aside
    <2>2. /\ Len(Unread) \in Nat /\ Len(Unread) >= 1 /\ Unread[1] = out /\ Unread # <<>>
          /\ Len(Unread') = Len(Unread) - 1
          /\ \A k \in 1 .. Len(Unread) - 1 : Unread'[k] = Unread[k + 1]
          /\ Len(Unread) = 1 => Unread' = <<>>
      BY <1>2, <1>5, <2>1, UnreadLess, UnreadIs
    <2>3. in = NoMessage /\ ReadChain
      BY <1>1, <1>2, <1>5, <2>2 DEF TransferInv, ReadInv, Quiet
    <2>4. \A k \in 1 .. Len(Unread) :
             /\ Unread[k].kind = "SOE_READRES" /\ ~Unread[k].error /\ Unread[k].idn = call.obj.idn
             /\ Unread[k].from \in Nat /\ Unread[k].len \in Nat /\ (Unread[k].incomplete <=> k < Len(Unread))
             /\ Unread[k].from + Unread[k].len = IF k < Len(Unread) THEN Unread[k + 1].from ELSE call.obj.size
      BY <2>3 DEF ReadChain
    <2>5. /\ Unread[1].from >= hp /\ (hp < call.size => Unread[1].from = hp)
          /\ hp \in Nat /\ hp <= call.size /\ Filled(data, call.obj.idn, hp)
      BY <2>3 DEF ReadChain
    <2>6. /\ out.from \in Nat /\ out.len \in Nat /\ out.idn = call.obj.idn
          /\ out.from >= hp /\ (hp < call.size => out.from = hp)
          /\ out.incomplete <=> 1 < Len(Unread)
      BY <2>2, <2>4, <2>5
    <2>7. call.size \in Nat /\ room \in Nat /\ len \in Nat
      BY <2>5, <2>6 DEF ClientsOK, CallOK
    <2>11. /\ hp + len \in Nat /\ hp + len <= call.size /\ out.from + out.len >= hp + len
           /\ hp + len < call.size => out.from + out.len = hp + len
           /\ hp + len = IF out.from + out.len < call.size THEN out.from + out.len ELSE call.size
      <3>1. PICK s \in Nat, h \in Nat, f \in Nat, l \in Nat :
               s = call.size /\ h = hp /\ f = out.from /\ l = out.len
        BY <2>5, <2>6, <2>7
      <3>2. h <= s /\ f >= h /\ (h < s => f = h) /\ len = IF l <= s - h THEN l ELSE s - h
        BY <2>5, <2>6, <3>1, Zenon
      <3> HIDE DEF len
      <3>3. PICK b \in Nat : b = len /\ (l <= s - h => b = l) /\ (~(l <= s - h) => b = s - h)
        BY <3>1, <3>2
      <3>4. /\ h + b \in Nat /\ h + b <= s /\ f + l >= h + b
            /\ h + b < s => f + l = h + b
            /\ h + b = IF f + l < s THEN f + l ELSE s
        <4>1. h <= s /\ f >= h /\ (h < s => f = h)
          BY <3>2, Zenon
        <4>2. CASE l <= s - h
          BY <3>3, <4>1, <4>2
        <4>3. CASE ~(l <= s - h)
          <5>1. b = s - h
            BY <3>3, <4>3, Zenon
          <5> QED
            BY <4>1, <4>3, <5>1
        <4> QED
          BY <4>2, <4>3
      <3> QED
        BY <3>1, <3>3, <3>4, Zenon
    <2>8. Filled(data', call.obj.idn, hp')
      <3>1. CASE len = 0
        <4>1. data' = data /\ hp' = hp
          BY <1>1, <2>5, <3>1
        <4> QED
          BY <2>5, <4>1
      <3>2. CASE len # 0
        <4>1. out.from = hp
          BY <2>5, <2>6, <2>7, <3>2
        <4>2. data' = Append(data, <<call.obj.idn, hp, len>>) /\ hp' = hp + len
          BY <1>1, <2>6, <3>2, <4>1, Zenon
        <4> HIDE DEF len
        <4> QED
          BY <2>5, <2>7, <4>2, FilledMore
      <3> QED
        BY <3>1, <3>2
    <2>9. CASE out.incomplete
      <3>1. Len(Unread) > 1 /\ pc' = pc
        BY <1>1, <2>6, <2>9
      <3>2. /\ Len(Unread') \in Nat /\ Len(Unread') >= 1 /\ Len(Unread') = Len(Unread) - 1
            /\ Unread'[1] = Unread[2] /\ Unread[2].from = out.from + out.len
        <4>1. Unread[1].from + Unread[1].len = Unread[2].from
          BY <2>2, <2>4, <3>1
        <4> QED
          BY <2>2, <3>1, <4>1
      <3>3. ASSUME NEW k \in 1 .. Len(Unread')
            PROVE  /\ Unread'[k].kind = "SOE_READRES" /\ ~Unread'[k].error /\ Unread'[k].idn = call'.obj.idn
                   /\ Unread'[k].from \in Nat /\ Unread'[k].len \in Nat
                   /\ (Unread'[k].incomplete <=> k < Len(Unread'))
                   /\ Unread'[k].from + Unread'[k].len =
                         IF k < Len(Unread') THEN Unread'[k + 1].from ELSE call'.obj.size
        <4>1. Unread'[k] = Unread[k + 1] /\ k + 1 \in 1 .. Len(Unread) /\ (k < Len(Unread') <=> k + 1 < Len(Unread))
          BY <2>2, <3>1, <3>2
        <4>2. k < Len(Unread') => Unread'[k + 1] = Unread[k + 1 + 1]
          BY <2>2, <3>1, <3>2
        <4>3. PICK j \in 1 .. Len(Unread) : j = k + 1
          BY <4>1
        <4>4. /\ Unread[j].kind = "SOE_READRES" /\ ~Unread[j].error /\ Unread[j].idn = call.obj.idn
              /\ Unread[j].from \in Nat /\ Unread[j].len \in Nat /\ (Unread[j].incomplete <=> j < Len(Unread))
              /\ Unread[j].from + Unread[j].len = IF j < Len(Unread) THEN Unread[j + 1].from ELSE call.obj.size
          BY <2>4, <4>3
        <4> QED
          BY <1>1, <4>1, <4>2, <4>3, <4>4
      <3>4. hp' \in Nat /\ hp' <= call'.size /\ Unread'[1].from >= hp' /\ (hp' < call'.size => Unread'[1].from = hp')
        <4>1. hp' = hp + len /\ call' = call /\ Unread'[1].from = out.from + out.len
          BY <1>1, <3>2
        <4>2. hp' \in Nat /\ hp' <= call.size /\ out.from + out.len >= hp'
              /\ (hp' < call.size => out.from + out.len = hp')
          BY <1>1, <2>11
        <4> QED
          BY <4>1, <4>2
      <3>5. ReadChain'
        BY <1>1, <2>8, <3>3, <3>4 DEF ReadChain
      <3>6. in' = NoMessage /\ Unread' # <<>>
        BY <1>2, <2>3, <3>2, EmptyIs
      <3>7. RequestInv' /\ ReadInv' /\ ReadDone'
        BY <1>2, <3>1, <3>5, <3>6 DEF RequestInv, ReadInv, ReadDone, Reported
      <3> QED
        BY <1>1, <3>7, OfRead
    <2>10. CASE ~out.incomplete
      <3>1. Len(Unread) = 1 /\ pc' = "idle"
        BY <1>1, <2>2, <2>6, <2>10
      <3>2. out.from + out.len = call.obj.size
        BY <2>2, <2>4, <3>1
      <3>3. hp' = IF call.obj.size < call.size THEN call.obj.size ELSE call.size
        BY <1>1, <2>11, <3>2
      <3>4. Filled(data', call'.obj.idn, IF call'.obj.size < call'.size THEN call'.obj.size ELSE call'.size)
        BY <1>1, <2>8, <3>3, Zenon
      <3>5. RequestInv' /\ ReadInv' /\ ReadDone'
        BY <3>1, <3>4 DEF RequestInv, ReadInv, ReadDone
      <3> QED
        BY <1>1, <3>5, OfRead
    <2> QED
      BY <2>9, <2>10
  <1> QED
    BY <1>2, <1>3, <1>4, <1>5

\* Any other response, or none, is an error of the call.
LEMMA TransferFails ==
  ASSUME SoEReadNothing \/ SoEBadResponse \/ EoENothing
  PROVE  TransferInv'
  <1>1. pc' = "idle" /\ (wkc' = -1 \/ wkc' = 0)
    BY DEF SoEReadNothing, SoEBadResponse, EoENothing, Return
  <1>2. ~(wkc' > 0)
    BY <1>1
  <1> QED
    BY <1>1, <1>2, Failed

\* A part of the value goes into the mailbox when the slave has all parts before it.
LEMMA TransferPart ==
  ASSUME ClientsOK, ClientsOK', TransferInv, [ServicesNext]_allvars, SoEWriteRequest
  PROVE  TransferInv'
  <1> DEFINE more == Left > maxdata
             len == IF more THEN maxdata ELSE Left
             m == [kind |-> "SOE_WRITEREQ", obj |-> call.obj, incomplete |-> more,
                   from |-> hp, len |-> len, call |-> call.n]
  <1>1. /\ pc = "request" /\ call.op = "WRITE" /\ UNCHANGED <<call, out, slave, stale>>
        /\ hp' = hp + len
        /\ \/ Sent(m) /\ pc' = (IF more THEN "empty" ELSE "response")
           \/ NotSent(m)
    BY Zenon DEF SoEWriteRequest
  <1>2. CASE NotSent(m)
    BY <1>2, Unfair DEF NotSent
  <1>3. CASE ~Undisturbed /\ Sent(m)
    BY <1>1, <1>3, Unfair DEF Undisturbed, Sent
  <1>5. CASE Sent(m) /\ pc' = (IF more THEN "empty" ELSE "response") /\ ~(call.size < Width)
    <2>1. WriteInv' /\ WriteDone'
      BY <1>1, <1>5 DEF WriteInv, WriteDone
    <2> QED
      BY <1>1, <2>1, OfWrite
  <1>4. CASE Undisturbed /\ Sent(m) /\ pc' = (IF more THEN "empty" ELSE "response") /\ call.size < Width
    <2>1. in = NoMessage /\ in' = m
      BY <1>4 DEF Sent
    <2>2. hp \in Nat /\ hp < call.size /\ call.size \in Nat /\ maxdata \in Nat /\ maxdata > 0
      BY <1>1, <1>4, EoEAssumption DEF ClientsOK, LocalsOK, CallOK
    <2>3. Quiet /\ Filled(slave.stored, call.n, hp)
      BY <1>1, <1>4, <2>1, <2>2 DEF TransferInv, WriteInv, NoMessage
    <2>4. Unread' = <<>>
      BY <1>1, <2>3, UnreadKept DEF Quiet
    <2>5. len \in Nat /\ hp + len = hp' /\ (more <=> hp' < call.size)
      BY <1>1, <1>4, <2>2, WholeLeft
    <2>6. m.kind = "SOE_WRITEREQ" /\ m.call = call.n /\ m.from = hp /\ m.len = len
      OBVIOUS
    <2>7. m.incomplete = more
      BY Zenon
    <2>8. pc' # "idle"
      BY <1>4
    <2> HIDE DEF m, more, len
    <2>9. WriteInv'
      BY <1>1, <2>1, <2>3, <2>4, <2>5, <2>6, <2>7 DEF WriteInv
    <2>10. WriteDone'
      BY <2>8 DEF WriteDone, Reported
    <2> QED
      BY <1>1, <2>9, <2>10, OfWrite
  <1> QED
    BY <1>1, <1>2, <1>3, <1>4, <1>5

\* The mailbox is empty for the next part, or the slave is asked what it has to say.
LEMMA TransferEmpty ==
  ASSUME ClientsOK, ClientsOK', TransferInv, [ServicesNext]_allvars, SoEWriteEmpty
  PROVE  TransferInv'
  <1>1. /\ pc = "empty" /\ pc' \in {"request", "response"}
        /\ UNCHANGED <<call, hp, in, out, slave, stale, missed>>
    BY DEF SoEWriteEmpty
  <1>2. call.op = "WRITE"
    BY <1>1 DEF ClientsOK, PlacesOK
  <1>3. Unread' = Unread
    BY <1>1, UnreadKept
  <1>4. WriteInv'
    BY <1>1, <1>2, <1>3 DEF TransferInv, WriteInv, Quiet, Undisturbed
  <1>5. WriteDone'
    BY <1>1 DEF WriteDone, Reported
  <1> QED
    BY <1>1, <1>2, <1>4, <1>5, OfWrite

\* The slave confirms the value when it has all of it.
LEMMA TransferConfirmed ==
  ASSUME ClientsOK, ClientsOK', TransferInv, [ServicesNext]_allvars, SoEWriteDone
  PROVE  TransferInv'
  <1>1. /\ Receive /\ call.op = "WRITE" /\ out.kind = "SOE_WRITERES" /\ ~out.error /\ call' = call /\ pc' = "idle"
    BY DEF SoEWriteDone, SoEMatches, Return
  <1>2. /\ pc = "response" /\ UNCHANGED <<in, slave, stale>>
        /\ missed' \/ (out' = NoMessage /\ missed' = missed)
    BY <1>1, Received
  <1>3. CASE missed'
    BY <1>3, Unfair
  <1>4. CASE ~Undisturbed /\ missed' = missed
    BY <1>2, <1>4, Unfair DEF Undisturbed
  <1>5. CASE Undisturbed
    <2>1. ~Aside(out)
      BY <1>1 DEF Aside
    <2>2. Unread # <<>> /\ Unread[1] = out
      BY <2>1, UnreadIs
    <2>3. call.size < Width => in = NoMessage /\ Filled(slave.stored, call.n, call.size)
      BY <1>1, <1>2, <1>5, <2>2 DEF TransferInv, WriteInv, Quiet
    <2>4. WriteInv' /\ WriteDone'
      BY <1>1, <1>2, <2>3 DEF WriteInv, WriteDone
    <2> QED
      BY <1>1, <2>4, OfWrite
  <1> QED
    BY <1>2, <1>3, <1>4, <1>5

\* No response between two parts.
LEMMA TransferNothing ==
  ASSUME ClientsOK, ClientsOK', TransferInv, [ServicesNext]_allvars, SoEWriteNothing
  PROVE  TransferInv'
  <1>1. /\ pc = "response" /\ call.op = "WRITE" /\ UNCHANGED <<call, hp, in, slave, stale, missed>>
        /\ out' \in {NoMessage, out}
        /\ \/ NotLast /\ pc' = "request"
           \/ pc' = "idle" /\ wkc' = -1
    BY DEF SoEWriteNothing, ReceiveNothing, Return
  <1>2. CASE pc' = "idle" /\ wkc' = -1
    BY <1>2, Failed
  <1>3. CASE ~Undisturbed
    BY <1>1, <1>3, Unfair DEF Undisturbed
  <1>5. CASE ~(call.size < Width) /\ pc' = "request"
    <2>1. WriteInv' /\ WriteDone'
      BY <1>1, <1>5 DEF WriteInv, WriteDone
    <2> QED
      BY <1>1, <2>1, OfWrite
  <1>4. CASE Undisturbed /\ NotLast /\ pc' = "request" /\ call.size < Width
    <2>1. hp < call.size /\ call.size \in Nat /\ hp \in Nat
      BY <1>1, <1>4 DEF ClientsOK, LocalsOK, CallOK
    <2>2. hp # call.size
      BY <2>1
    <2>3. Unread = <<>>
      BY <1>1, <1>4, <2>2 DEF TransferInv, WriteInv, Quiet
    <2>4. Aside(out) /\ Aside(out')
      BY <1>1, <2>3, UnreadIs DEF Aside, NoMessage
    <2>5. Unread' = Unread
      BY <1>1, <2>4, UnreadKept
    <2>6. WriteInv'
      BY <1>1, <1>4, <2>5 DEF TransferInv, WriteInv, Quiet, Undisturbed
    <2>7. WriteDone'
      BY <1>4 DEF WriteDone, Reported
    <2> QED
      BY <1>1, <2>6, <2>7, OfWrite
  <1> QED
    BY <1>1, <1>2, <1>3, <1>4, <1>5

\* The response to a setting or a question of the address.
LEMMA TransferIp ==
  ASSUME ClientsOK, ClientsOK', TransferInv, [ServicesNext]_allvars, IpResponse
  PROVE  TransferInv'
  <1>1. /\ Receive /\ call.op \in {"SETIP", "GETIP"} /\ call' = call /\ pc' = "idle"
        /\ \/ call.op = "SETIP" /\ out.kind = "EOE_SETIPRES" /\ ~out.error
           \/ call.op = "GETIP" /\ out.kind = "EOE_GETIPRES" /\ data' = <<out.ip>>
           \/ wkc' = -1
    BY DEF IpResponse, Return
  <1>2. /\ pc = "response" /\ UNCHANGED <<in, slave, stale>>
        /\ missed' \/ (out' = NoMessage /\ missed' = missed)
    BY <1>1, Received
  <1>3. CASE missed'
    BY <1>3, Unfair
  <1>4. CASE ~Undisturbed /\ missed' = missed
    BY <1>2, <1>4, Unfair DEF Undisturbed
  <1>5. CASE wkc' = -1
    BY <1>1, <1>5, Failed
  <1>6. CASE Undisturbed /\ out.kind \in {"EOE_SETIPRES", "EOE_GETIPRES"} /\ wkc' # -1
    <2>1. ~Aside(out)
      BY <1>6 DEF Aside
    <2>2. Unread # <<>> /\ Unread[1] = out
      BY <2>1, UnreadIs
    <2>3. /\ in = NoMessage
          /\ out.kind = "EOE_SETIPRES" /\ ~out.error => slave.ip = call.n
          /\ out.kind = "EOE_GETIPRES" => out.ip = slave.ip
      BY <1>1, <1>2, <1>6, <2>2 DEF TransferInv, IpInv, Quiet
    <2>4. IpDone'
      BY <1>1, <1>2, <1>6, <2>3 DEF IpDone
    <2>5. RequestInv' /\ IpInv'
      BY <1>1 DEF RequestInv, IpInv
    <2> QED
      BY <1>1, <2>4, <2>5, OfIp
  <1> QED
    BY <1>1, <1>2, <1>3, <1>4, <1>5, <1>6

\* A fragment goes into the mailbox when the slave has all before it.
LEMMA TransferFragment ==
  ASSUME ClientsOK, ClientsOK', TransferInv, [ServicesNext]_allvars, EOEsend
  PROVE  TransferInv'
  <1> DEFINE m == Fragment(txframeno, call.size, call.size, hp \div Chunk)
  <1>1. /\ pc = "request" /\ call.op = "SEND" /\ UNCHANGED <<call, txframeno, slave, stale>>
        /\ \/ Sent(m) /\ m.last /\ pc' = "idle" /\ hp' = hp
           \/ Sent(m) /\ ~m.last /\ pc' = pc /\ hp' = hp + m.len
           \/ NotSent(m)
    BY Zenon DEF EOEsend, Return
  <1>2. CASE NotSent(m)
    BY <1>2, Unfair DEF NotSent
  <1>3. CASE ~Undisturbed /\ Sent(m)
    BY <1>1, <1>3, Unfair DEF Undisturbed, Sent
  <1>4. CASE Undisturbed /\ Sent(m)
    <2>1. in = NoMessage /\ in' = m
      BY <1>4 DEF Sent
    <2>2. SentTo(hp)
      BY <1>1, <1>4 DEF TransferInv, SendInv
    <2>3. Filled(slave.stored, txframeno, hp)
      BY <2>1, <2>2 DEF SentTo, IsFragment, NoMessage
    <2>4. /\ m.kind = "EOE_FRAG" /\ m.frame = txframeno /\ m.from = hp /\ m.from \in Nat /\ m.len \in Nat
          /\ m.no = 0 <=> m.from = 0
          /\ m.last => m.from + m.len = call.size
          /\ ~m.last => m.from + m.len = hp + m.len
      BY <1>1, NextFragment
    <2> HIDE DEF m
    <2>5. CASE m.last /\ pc' = "idle"
      <3>1. SentTo(call.size)'
        BY <1>1, <2>1, <2>3, <2>4, <2>5 DEF SentTo, IsFragment
      <3>2. SendInv' /\ SendDone'
        BY <2>5, <3>1 DEF SendInv, SendDone
      <3> QED
        BY <1>1, <3>2, OfSend
    <2>6. CASE ~m.last /\ pc' = pc /\ hp' = hp + m.len
      <3>1. SentTo(hp)'
        BY <1>1, <2>1, <2>3, <2>4, <2>6 DEF SentTo, IsFragment
      <3>2. SendInv' /\ SendDone'
        BY <1>1, <2>6, <3>1 DEF SendInv, SendDone, Reported
      <3> QED
        BY <1>1, <3>2, OfSend
    <2>7. NotSent(m) => missed'
      BY DEF NotSent
    <2> QED
      BY <1>1, <2>5, <2>6, <2>7, Unfair
  <1> QED
    BY <1>1, <1>2, <1>3, <1>4

-----------------------------------------------------------------------------
(* What is under way: the steps of the slave                               *)

\* The slave answers a read with the parts of the value, or refuses it.
LEMMA TakeOfRead ==
  ASSUME ClientsOK, ClientsOK', TransferInv, SlaveTake, call.op = "READ", Undisturbed
  PROVE  TransferInv'
  <1>1. /\ in' = NoMessage /\ UNCHANGED <<pc, call, hp, data, wkc, out>> /\ in # NoMessage
    BY TakeChanges DEF calls, Requests, NoMessage
  <1>2. RequestInv'
    BY <1>1 DEF TransferInv, RequestInv, Quiet, Undisturbed, SlaveTake, fates
  <1>3. ReadDone'
    BY <1>1 DEF TransferInv, ReadDone, Reported, Undisturbed, SlaveTake, fates
  <1>4. CASE pc # "response"
    <2>1. ReadInv'
      BY <1>1, <1>4 DEF ReadInv
    <2> QED
      BY <1>1, <1>2, <1>3, <2>1, OfRead
  <1>5. CASE pc = "response"
    <2>1. in.kind = "SOE_READREQ" /\ in.obj = call.obj /\ Unread = <<>> /\ hp = 0 /\ data = <<>>
      BY <1>1, <1>5 DEF TransferInv, ReadInv, Quiet
    <2>2. \/ slave'.queue = slave.queue \o Parts(in.obj)
          \/ slave'.queue = Append(slave.queue, Refusal("SOE_READRES", in.obj))
          \/ slave'.queue = Append(slave.queue, MailboxError)
      BY <2>1, TakeChanges
    <2>3. Aside(out) /\ slave.queue = <<>>
      BY <2>1, UnreadIs
    <2>4. Unread' = slave'.queue
      BY <1>1, <2>3 DEF Unread, Aside
    <2>5. call.obj.size \in Nat \ {0} /\ call.size \in Nat
      BY ServicesAssumption DEF ClientsOK, CallOK
    <2>6. CASE slave'.queue = slave.queue \o Parts(in.obj)
      <3> DEFINE p == Parts(call.obj)
      <3>1. /\ IsSeq(p) /\ Len(p) \in Nat /\ Len(p) >= 1
            /\ p[1].from = 0
            /\ \A k \in 1 .. Len(p) :
                  /\ p[k].kind = "SOE_READRES" /\ ~p[k].error /\ p[k].idn = call.obj.idn
                  /\ p[k].from \in Nat /\ p[k].len \in Nat /\ (p[k].incomplete <=> k < Len(p))
                  /\ p[k].from + p[k].len = IF k < Len(p) THEN p[k + 1].from ELSE call.obj.size
        BY <2>5, PartsAre
      <3> HIDE DEF p
      <3>2. Unread' = p
        <4>1. Unread' = <<>> \o p
          BY <2>1, <2>3, <2>4, <2>6 DEF p
        <4>2. p \in Seq(Range(p))
          BY <3>1 DEF IsSeq
        <4> QED
          BY <4>1, <4>2, ConcatEmptySeq
      <3>3. Filled(data', call'.obj.idn, hp') /\ hp' = 0
        BY <1>1, <2>1, FilledNone
      <3>4. ReadChain'
        <4>1. call' = call
          BY <1>1
        <4>2. /\ Unread'[1].from >= hp' /\ (hp' < call'.size => Unread'[1].from = hp')
              /\ hp' \in Nat /\ hp' <= call'.size
          <5>1. p[1].from = 0 /\ call.size \in Nat /\ hp' = 0 /\ Unread' = p
            BY <2>5, <3>1, <3>2, <3>3
          <5> QED
            BY <4>1, <5>1
        <4>3. \A k \in 1 .. Len(Unread') :
                  /\ Unread'[k].kind = "SOE_READRES" /\ ~Unread'[k].error /\ Unread'[k].idn = call'.obj.idn
                  /\ Unread'[k].from \in Nat /\ Unread'[k].len \in Nat
                  /\ (Unread'[k].incomplete <=> k < Len(Unread'))
                  /\ Unread'[k].from + Unread'[k].len =
                        IF k < Len(Unread') THEN Unread'[k + 1].from ELSE call'.obj.size
          BY <3>1, <3>2, <4>1, Zenon
        <4> QED
          BY <3>3, <4>2, <4>3, Zenon DEF ReadChain
      <3>5. Unread' # <<>>
        BY <3>1, <3>2, EmptyIs
      <3>6. ReadInv'
        BY <1>1, <3>4, <3>5 DEF ReadInv
      <3> QED
        BY <1>1, <1>2, <1>3, <3>6, OfRead
    <2>7. CASE ~(slave'.queue = slave.queue \o Parts(in.obj))
      <3>1. PICK m : /\ slave'.queue = Append(slave.queue, m)
                     /\ m.kind = "MBX_ERROR" \/ (m.kind = "SOE_READRES" /\ m.error)
        <4>1. Refusal("SOE_READRES", in.obj).kind = "SOE_READRES" /\ Refusal("SOE_READRES", in.obj).error
          BY DEF Refusal
        <4>2. MailboxError.kind = "MBX_ERROR"
          BY DEF MailboxError
        <4> QED
          BY <2>2, <2>7, <4>1, <4>2, Zenon
      <3>2. Len(Unread') = 1 /\ Unread'[1] = m
        BY <2>3, <2>4, <3>1, EmptyIs, AppendMore
      <3>3. ReadInv'
        BY <1>1, <3>1, <3>2 DEF ReadInv
      <3> QED
        BY <1>1, <1>2, <1>3, <3>3, OfRead
    <2> QED
      BY <2>6, <2>7
  <1> QED
    BY <1>4, <1>5

\* The slave stores a part of a value, and confirms or refuses the whole.
LEMMA TakeOfWrite ==
  ASSUME ClientsOK, ClientsOK', TransferInv, SlaveTake, call.op = "WRITE", Undisturbed
  PROVE  TransferInv'
  <1>1. /\ in' = NoMessage /\ UNCHANGED <<pc, call, hp, data, wkc, out>> /\ in # NoMessage
    BY TakeChanges DEF calls, Requests, NoMessage
  <1>2. WriteDone'
    BY <1>1 DEF TransferInv, WriteDone, Reported, Undisturbed, SlaveTake, fates
  <1>3. CASE pc = "idle" \/ ~(call.size < Width)
    <2>1. WriteInv'
      BY <1>1, <1>3 DEF WriteInv
    <2> QED
      BY <1>1, <1>2, <2>1, OfWrite
  <1>4. CASE pc # "idle" /\ call.size < Width
    <2>1. /\ in.kind = "SOE_WRITEREQ" /\ Unread = <<>>
          /\ in.call = call.n /\ in.len \in Nat /\ in.from + in.len = hp /\ (in.incomplete <=> hp < call.size)
          /\ Filled(slave.stored, call.n, in.from)
      BY <1>1, <1>4 DEF TransferInv, WriteInv, Quiet
    <2>2. \/ /\ slave'.stored = Append(IF in.from = 0 THEN <<>> ELSE slave.stored, <<in.call, in.from, in.len>>)
             /\ slave'.queue = IF in.incomplete THEN slave.queue
                               ELSE Append(slave.queue, [Refusal("SOE_WRITERES", in.obj) EXCEPT !.error = FALSE])
          \/ /\ ~in.incomplete /\ slave'.stored = slave.stored
             /\ slave'.queue = Append(slave.queue, Refusal("SOE_WRITERES", in.obj))
      BY <2>1, TakeChanges
    <2>3. Aside(out) /\ slave.queue = <<>>
      BY <2>1, UnreadIs
    <2>4. Unread' = slave'.queue
      BY <1>1, <2>3 DEF Unread, Aside
    <2>5. hp \in Nat /\ hp <= call.size /\ call.size \in Nat
      BY <1>4 DEF ClientsOK, LocalsOK, CallOK
    <2>6. CASE slave'.stored = Append(IF in.from = 0 THEN <<>> ELSE slave.stored, <<in.call, in.from, in.len>>)
               /\ slave'.queue = IF in.incomplete THEN slave.queue
                                 ELSE Append(slave.queue, [Refusal("SOE_WRITERES", in.obj) EXCEPT !.error = FALSE])
      <3>1. Filled(slave'.stored, call.n, hp)
        <4>1. Filled(IF in.from = 0 THEN <<>> ELSE slave.stored, call.n, in.from)
          BY <2>1, FilledNone
        <4>2. Filled(Append(IF in.from = 0 THEN <<>> ELSE slave.stored, <<call.n, in.from, in.len>>), call.n, in.from + in.len)
          BY <2>1, <4>1, FilledMore, Zenon
        <4> QED
          BY <2>1, <2>6, <4>2, Zenon
      <3>2. CASE in.incomplete
        <4>1. Quiet'
          BY <1>1, <2>3, <2>4, <2>6, <3>2 DEF Quiet
        <4>2. WriteInv'
          BY <1>1, <3>1, <4>1 DEF WriteInv
        <4> QED
          BY <1>1, <1>2, <4>2, OfWrite
      <3>3. CASE ~in.incomplete
        <4> DEFINE m == [Refusal("SOE_WRITERES", in.obj) EXCEPT !.error = FALSE]
        <4>1. Unread' = Append(<<>>, m)
          BY <2>3, <2>4, <2>6, <3>3
        <4>2. hp = call.size
          BY <2>1, <2>5, <3>3
        <4> HIDE DEF m
        <4>3. Len(Unread') = 1
          BY <4>1, EmptyIs, AppendMore
        <4>4. WriteInv'
          BY <1>1, <3>1, <4>2, <4>3 DEF WriteInv
        <4> QED
          BY <1>1, <1>2, <4>4, OfWrite
      <3> QED
        BY <3>2, <3>3
    <2>7. CASE /\ ~in.incomplete /\ slave'.stored = slave.stored
               /\ slave'.queue = Append(slave.queue, Refusal("SOE_WRITERES", in.obj))
      <3> DEFINE m == Refusal("SOE_WRITERES", in.obj)
      <3>1. m.error
        BY DEF Refusal
      <3>2. Unread' = Append(<<>>, m)
        BY <2>3, <2>4, <2>7
      <3>3. hp = call.size
        BY <2>1, <2>5, <2>7
      <3> HIDE DEF m
      <3>4. Len(Unread') = 1 /\ Unread'[1] = m
        BY <3>2, EmptyIs, AppendMore
      <3>5. WriteInv'
        BY <1>1, <3>1, <3>3, <3>4 DEF WriteInv
      <3> QED
        BY <1>1, <1>2, <3>5, OfWrite
    <2> QED
      BY <2>2, <2>6, <2>7
  <1> QED
    BY <1>3, <1>4

\* The slave adds a fragment to the frame.
LEMMA TakeOfSend ==
  ASSUME ClientsOK, ClientsOK', TransferInv, SlaveTake, call.op = "SEND", Undisturbed
  PROVE  TransferInv'
  <1>1. /\ in' = NoMessage /\ UNCHANGED <<pc, call, hp, data, wkc, out, txframeno>> /\ in # NoMessage
        /\ UNCHANGED <<stale, missed>>
    BY TakeChanges DEF calls, fates, Requests, NoMessage
  <1>2. ASSUME NEW at, SentTo(at) PROVE Filled(slave'.stored, txframeno, at)
    <2>1. /\ IsFragment(in) /\ in.frame = txframeno /\ in.len \in Nat /\ in.from + in.len = at
          /\ in.no = 0 <=> in.from = 0
          /\ Filled(slave.stored, txframeno, in.from)
      BY <1>1, <1>2 DEF SentTo
    <2>2. slave'.stored = Append(IF in.no = 0 THEN <<>> ELSE slave.stored, <<in.frame, in.from, in.len>>)
      BY <2>1, TakeChanges DEF IsFragment
    <2>3. Filled(IF in.no = 0 THEN <<>> ELSE slave.stored, txframeno, in.from)
      BY <2>1, FilledNone
    <2>4. Filled(Append(IF in.no = 0 THEN <<>> ELSE slave.stored, <<txframeno, in.from, in.len>>), txframeno, in.from + in.len)
      BY <2>1, <2>3, FilledMore, Zenon
    <2> QED
      BY <2>1, <2>2, <2>4, Zenon
  <1>3. SendInv'
    <2>1. SentTo(hp) => SentTo(hp)'
      BY <1>1, <1>2 DEF SentTo
    <2> QED
      BY <1>1, <2>1 DEF TransferInv, SendInv, Undisturbed
  <1>4. SendDone'
    <2>1. SentTo(call.size) => SentTo(call.size)'
      BY <1>1, <1>2 DEF SentTo
    <2> QED
      BY <1>1, <2>1 DEF TransferInv, SendDone, Undisturbed, Reported
  <1> QED
    BY <1>1, <1>3, <1>4, OfSend

\* The slave sets its address, refuses to, or tells it.
LEMMA TakeOfIp ==
  ASSUME ClientsOK, ClientsOK', TransferInv, SlaveTake, call.op \in {"SETIP", "GETIP"}, Undisturbed
  PROVE  TransferInv'
  <1>1. /\ in' = NoMessage /\ UNCHANGED <<pc, call, hp, data, wkc, out>> /\ in # NoMessage
        /\ UNCHANGED <<stale, missed>>
    BY TakeChanges DEF calls, fates, Requests, NoMessage
  <1>2. RequestInv'
    BY <1>1 DEF TransferInv, RequestInv, Quiet, Undisturbed
  <1>3. IpDone'
    BY <1>1 DEF TransferInv, IpDone, Reported, Undisturbed
  <1>4. CASE pc # "response"
    <2>1. IpInv'
      BY <1>1, <1>4 DEF IpInv
    <2> QED
      BY <1>1, <1>2, <1>3, <2>1, OfIp
  <1>5. CASE pc = "response"
    <2>1. /\ Unread = <<>>
          /\ IF call.op = "SETIP" THEN in.kind = "EOE_SETIP" /\ in.ip = call.n ELSE in.kind = "EOE_GETIP"
      BY <1>1, <1>5 DEF TransferInv, IpInv, Quiet
    <2>2. Aside(out) /\ slave.queue = <<>>
      BY <2>1, UnreadIs
    <2>3. Unread' = slave'.queue
      BY <1>1, <2>2 DEF Unread, Aside
    <2>4. PICK m :
             /\ slave'.queue = Append(slave.queue, m)
             /\ m.kind = "EOE_SETIPRES" /\ ~m.error => slave'.ip = call.n
             /\ m.kind = "EOE_GETIPRES" => m.ip = slave'.ip
      <3>1. CASE call.op = "SETIP"
        <4>1. in.kind = "EOE_SETIP" /\ in.ip = call.n
          BY <2>1, <3>1
        <4>2. CASE slave'.ip = in.ip /\ slave'.queue = Append(slave.queue, [kind |-> "EOE_SETIPRES", error |-> FALSE])
          <5> DEFINE m == [kind |-> "EOE_SETIPRES", error |-> FALSE]
          <5>1. m.kind = "EOE_SETIPRES" /\ slave'.ip = call.n /\ slave'.queue = Append(slave.queue, m)
            BY <4>1, <4>2
          <5>2. m.kind # "EOE_GETIPRES"
            BY <5>1
          <5> QED
            BY <5>1, <5>2, Zenon
        <4>3. CASE slave'.queue = Append(slave.queue, [kind |-> "EOE_SETIPRES", error |-> TRUE])
          <5> DEFINE m == [kind |-> "EOE_SETIPRES", error |-> TRUE]
          <5>1. m.kind = "EOE_SETIPRES" /\ m.error /\ slave'.queue = Append(slave.queue, m)
            BY <4>3
          <5>2. m.kind # "EOE_GETIPRES"
            BY <5>1
          <5> QED
            BY <5>1, <5>2, Zenon
        <4> QED
          BY <4>1, <4>2, <4>3, TakeChanges
      <3>2. CASE call.op = "GETIP"
        <4> DEFINE m == [kind |-> "EOE_GETIPRES", ip |-> slave.ip]
        <4>1. in.kind = "EOE_GETIP"
          BY <2>1, <3>2
        <4>2. slave'.queue = Append(slave.queue, m) /\ slave'.ip = slave.ip
          BY <4>1, TakeChanges
        <4>3. m.kind = "EOE_GETIPRES" /\ m.ip = slave'.ip /\ m.kind # "EOE_SETIPRES"
          BY <4>2
        <4> QED
          BY <4>2, <4>3, Zenon
      <3> QED
        BY <3>1, <3>2
    <2>5. Len(Unread') = 1 /\ Unread'[1] = m
      BY <2>2, <2>3, <2>4, EmptyIs, AppendMore
    <2>6. IpInv'
      BY <1>1, <2>4, <2>5 DEF IpInv
    <2> QED
      BY <1>1, <1>2, <1>3, <2>6, OfIp
  <1> QED
    BY <1>4, <1>5

\* The slave takes a message.
LEMMA TransferTake ==
  ASSUME ClientsOK, ClientsOK', TransferInv, SlaveTake
  PROVE  TransferInv'
  <1>1. UNCHANGED <<call, stale, missed>>
    BY DEF SlaveTake, calls, fates
  <1>2. CASE ~Undisturbed
    BY <1>1, <1>2, Unfair DEF Undisturbed
  <1>3. CASE call.op \notin {"READ", "WRITE", "SEND", "SETIP", "GETIP"}
    BY <1>1, <1>3, OfOther
  <1> QED
    BY <1>2, <1>3, TakeOfRead, TakeOfWrite, TakeOfSend, TakeOfIp

\* What is under way is what the calls have asked for, at every step.
LEMMA TransferStep ==
  ASSUME ClientsOK, ClientsOK', TransferInv, [ServicesNext]_allvars
  PROVE  TransferInv'
  <1>1. CASE UNCHANGED allvars
    <2>1. UNCHANGED <<pc, call, hp, data, wkc, txframeno, in, stale, missed, out, slave>>
      BY <1>1 DEF allvars, calls, fates
    <2> QED
      BY <2>1, UnreadKept, LeftAlone
  <1>2. CASE SlavePost \/ SlavePostFragment
    <2>1. UNCHANGED <<pc, call, hp, data, wkc, txframeno, in, stale, missed>>
      BY <1>2 DEF SlavePost, SlavePostFragment, calls, fates
    <2> QED
      BY <1>2, <2>1, UnreadKept, LeftAlone
  <1>3. CASE ReadErrors
    <2>1. UNCHANGED <<pc, call, hp, data, wkc, txframeno, in, stale, missed, out, slave>>
      BY <1>3 DEF ReadErrors, calls, fates
    <2> QED
      BY <2>1, UnreadKept, LeftAlone
  <1>4. CASE EOErecv
    <2>1. call' = call /\ call.op = "RECV"
      BY <1>4 DEF EOErecv
    <2> QED
      BY <2>1, OfOther
  <1>5. CASE Begin \/ ReceiveHandled
    BY <1>5, TransferBegin, TransferHandled
  <1>6. CASE SoEReadRequest \/ SoEReadData \/ SoEReadNothing \/ SoEBadResponse
    BY <1>6, TransferRequest, TransferData, TransferFails
  <1>7. CASE SoEWriteRequest \/ SoEWriteEmpty \/ SoEWriteDone \/ SoEWriteNothing
    BY <1>7, TransferPart, TransferEmpty, TransferConfirmed, TransferNothing
  <1>8. CASE IpRequest \/ IpResponse \/ EoENothing \/ EOEsend
    BY <1>8, TransferRequest, TransferIp, TransferFails, TransferFragment
  <1>9. CASE SlaveTake
    BY <1>9, TransferTake
  <1> QED
    BY <1>1, <1>2, <1>3, <1>4, <1>5, <1>6, <1>7, <1>8, <1>9 DEF ServicesNext

\* What the calls, the slave and the messages between them have of a value, a frame or an address.
THEOREM ClientsInvariant == ServicesSpec => []ClientsInv
  <1>1. ServicesInit => ClientsInv
    BY ClientsStart, TransferStart DEF ClientsInv
  <1>2. ClientsInv /\ [ServicesNext]_allvars => ClientsInv'
    BY ClientsStep, TransferStep DEF ClientsInv
  <1> QED
    BY <1>1, <1>2, PTL DEF ServicesSpec

\* What has been filled holds the bytes.
LEMMA FilledHolds ==
  ASSUME NEW p, NEW o, NEW n, Filled(p, o, n)
  PROVE  Holds(p, o, n)
  BY DEF Filled

\* A frame that is sent up to its end is in the slave, or but for the fragment in its mailbox.
LEMMA SentHolds ==
  ASSUME NEW size, SentTo(size)
  PROVE  LET m == IF IsFragment(in) THEN <<<<in.frame, in.from, in.len>>>> ELSE <<>> IN
         Holds(IF m # <<>> /\ in.no = 0 THEN m ELSE slave.stored \o m, txframeno, size)
  <1> DEFINE m == IF IsFragment(in) THEN <<<<in.frame, in.from, in.len>>>> ELSE <<>>
             s == slave.stored
  <1>1. CASE in = NoMessage /\ Filled(s, txframeno, size)
    <2>1. m = <<>>
      BY <1>1 DEF IsFragment, NoMessage
    <2>2. s \in Seq(Range(s))
      BY <1>1 DEF Filled, IsParts, IsSeq
    <2>3. s \o <<>> = s
      BY <2>2, ConcatEmptySeq
    <2> QED
      BY <1>1, <2>1, <2>3, FilledHolds
  <1>2. CASE /\ IsFragment(in) /\ in.frame = txframeno /\ in.len \in Nat /\ in.from + in.len = size
             /\ in.no = 0 <=> in.from = 0
             /\ Filled(s, txframeno, in.from)
    <2> DEFINE t == <<txframeno, in.from, in.len>>
    <2>1. m = <<t>> /\ m # <<>>
      BY <1>2
    <2>2. CASE in.no = 0
      <3>1. in.from = 0 /\ size = in.len
        BY <1>2, <2>2
      <3>2. Filled(<<<<txframeno, 0, in.len>>>>, txframeno, in.len)
        BY <1>2, FilledOne
      <3> QED
        BY <2>1, <2>2, <3>1, <3>2, FilledHolds
    <2>3. CASE in.no # 0
      <3>1. Filled(Append(s, t), txframeno, size)
        <4>1. Filled(Append(s, t), txframeno, in.from + in.len)
          BY <1>2, FilledMore
        <4> QED
          BY <1>2, <4>1, Zenon
      <3>2. IsSeq(s)
        BY <1>2 DEF Filled, IsParts
      <3>3. s \o <<t>> = Append(s, t)
        <4> DEFINE S == Range(s) \cup {t}
        <4>1. s \in Seq(S) /\ t \in S
          BY <3>2, SeqMonotonic DEF IsSeq
        <4> HIDE DEF S, t
        <4> QED
          BY <4>1, AppendIsConcat
      <3> HIDE DEF t
      <3>4. Holds(Append(s, t), txframeno, size)
        BY <3>1, FilledHolds
      <3> QED
        BY <2>1, <2>3, <3>3, <3>4
    <2> QED
      BY <2>2, <2>3
  <1> QED
    BY <1>1, <1>2 DEF SentTo

\* A call of the SoE and EoE clients that returns success did what it says, whatever fragments,

\* refusals, mailbox errors and frames of the slave came between.
THEOREM SuccessMeansDone == ServicesSpec => []ServiceConfirmed
  <1>1. ClientsInv => ServiceConfirmed
    <2> SUFFICES ASSUME ClientsInv, pc = "idle", wkc > 0, ~stale, ~missed
                 PROVE  CASE call.op = "READ" ->
                            Holds(data, call.obj.idn, IF call.obj.size < call.size THEN call.obj.size ELSE call.size)
                      [] call.op = "WRITE" -> call.size < Width => Holds(slave.stored, call.n, call.size)
                      [] call.op = "SEND" ->
                            LET m == IF IsFragment(in) THEN <<<<in.frame, in.from, in.len>>>> ELSE <<>> IN
                            Holds(IF m # <<>> /\ in.no = 0 THEN m ELSE slave.stored \o m, txframeno, call.size)
                      [] call.op = "SETIP" -> slave.ip = call.n
                      [] call.op = "GETIP" -> data = <<slave.ip>>
                      [] OTHER -> TRUE
      BY Zenon DEF ServiceConfirmed
    <2>1. Reported /\ Undisturbed /\ TransferInv
      BY DEF Reported, Undisturbed, ClientsInv
    <2>2. CASE call.op = "READ"
      <3>1. Filled(data, call.obj.idn, IF call.obj.size < call.size THEN call.obj.size ELSE call.size)
        BY <2>1, <2>2 DEF TransferInv, ReadDone
      <3>2. Holds(data, call.obj.idn, IF call.obj.size < call.size THEN call.obj.size ELSE call.size)
        BY <3>1, FilledHolds, Zenon
      <3> QED
        BY <2>2, <3>2
    <2>3. CASE call.op = "WRITE"
      <3>1. call.size < Width => Holds(slave.stored, call.n, call.size)
        BY <2>1, <2>3, FilledHolds DEF TransferInv, WriteDone
      <3> QED
        BY <2>3, <3>1
    <2>4. CASE call.op = "SEND"
      <3>1. SentTo(call.size)
        BY <2>1, <2>4 DEF TransferInv, SendDone
      <3> QED
        BY <2>4, <3>1, SentHolds
    <2>5. CASE call.op = "SETIP"
      BY <2>1, <2>5 DEF TransferInv, IpDone
    <2>6. CASE call.op = "GETIP"
      BY <2>1, <2>6 DEF TransferInv, IpDone
    <2> QED
      BY <2>2, <2>3, <2>4, <2>5, <2>6
  <1> QED
    BY <1>1, ClientsInvariant, PTL

-----------------------------------------------------------------------------
(* The Ethernet frames of the slave: what is under way                     *)

SameRecord(r) == r = [no |-> r.no, size |-> r.size, offset |-> r.offset, frameno |-> r.frameno, data |-> r.data]

\* The frames the slave has begun, and where it is in the last of them.
SentOK ==
    /\ IsSeq(slave.sent) /\ \A k \in 1 .. Len(slave.sent) : slave.sent[k] \in Frames
    /\ slave.no \in Nat
    /\ slave.no > 0 => Len(slave.sent) > 0 /\ slave.no * Chunk < slave.sent[Len(slave.sent)].total
    /\ losses \in Nat /\ losses <= MaxLosses

\* A fragment in the out mailbox is the one before that place.
IsAt(m, j) ==
    /\ m = Fragment(Len(slave.sent), slave.sent[Len(slave.sent)].size, slave.sent[Len(slave.sent)].total, j)
    /\ j * Chunk < slave.sent[Len(slave.sent)].total
PostedOK ==
    IsFragment(out) =>
        Len(slave.sent) > 0 /\ \E j \in Nat : IsAt(out, j) /\ slave.no = IF out.last THEN 0 ELSE j + 1

\* A reassembly r is somewhere in frame number g of s.  A first fragment that was read twice and taken

\* for the second one leaves it behind the end.
Amid(r, s, g) ==
    /\ r.frameno = g % FrameNumbers
    /\ r.size = Block * Blocks(s[g].size)
    /\ r.offset = r.no * Chunk
    /\ s[g].total > maxdata
    /\ r.offset < s[g].total => Filled(r.data, g, r.offset)

\* The last fragment of that frame, and of each one after it, is lost unless it is still to come.
Missing(g) ==
    /\ losses >= Len(slave.sent) - g
    /\ slave.no = 0 /\ ~IsFragment(out) => losses > Len(slave.sent) - g

Reassembling == hook \/ (pc = "response" /\ call.op = "RECV")
RxInv ==
    /\ SameRecord(rx) /\ rx.no \in Nat
    /\ Reassembling /\ rx.no > 0 => \E g \in 1 .. Len(slave.sent) : Amid(rx, slave.sent, g) /\ Missing(g)

\* The size and the parts of a frame that is complete.
Complete(s, g, parts, size) == Overfull(s[g]) \/ (Filled(parts, g, s[g].total) /\ size = s[g].size)

FrameInv ==
    frame = NoFrame \/ (frame.of \in 1 .. Len(slave.sent) /\ Complete(slave.sent, frame.of, frame.data, frame.size))

FramesInv == SentOK /\ PostedOK /\ RxInv /\ FrameInv

-----------------------------------------------------------------------------
(* Lemmas on fragments and reassemblies                                    *)

\* Numbers that are less than n apart and the same modulo n are the same.
LEMMA SameNumber ==
  ASSUME NEW n \in Nat \ {0}, NEW a \in Nat, NEW b \in Nat, a <= b, b - a < n, a % n = b % n
  PROVE  a = b
  <1>1. PICK p \in Nat : p = a \div n /\ a = n * p + (a % n)
    <2>1. a \div n \in Nat
      OBVIOUS
    <2>2. a = n * (a \div n) + (a % n)
      OBVIOUS
    <2> QED
      BY <2>1, <2>2, Zenon
  <1>2. PICK q \in Nat : q = b \div n /\ b = n * q + (b % n)
    <2>1. b \div n \in Nat
      OBVIOUS
    <2>2. b = n * (b \div n) + (b % n)
      OBVIOUS
    <2> QED
      BY <2>1, <2>2, Zenon
  <1>3. PICK x \in Int, y \in Int, e \in Int : x = n * p /\ y = n * q /\ e = a % n
    OBVIOUS
  <1>4. a = x + e /\ b = y + e
    BY <1>1, <1>2, <1>3, Zenon
  <1>5. q <= p
    <2>1. SUFFICES ASSUME q > p PROVE FALSE
      OBVIOUS
    <2>2. PICK d \in Nat : q = (p + 1) + d
      <3>1. q - (p + 1) \in Nat /\ q = (p + 1) + (q - (p + 1))
        BY <2>1
      <3> QED
        BY <3>1
    <2>3. n * q = (n * p + n) + n * d /\ n * d \in Nat
      BY <2>2
    <2>4. PICK z \in Nat : z = n * d
      BY <2>3
    <2>5. y = (x + n) + z
      BY <1>3, <2>3, <2>4, Zenon
    <2> QED
      BY <1>4, <2>4, <2>5
  <1>6. p <= q
    <2>1. SUFFICES ASSUME p > q PROVE FALSE
      OBVIOUS
    <2>2. PICK d \in Nat : p = (q + 1) + d
      <3>1. p - (q + 1) \in Nat /\ p = (q + 1) + (p - (q + 1))
        BY <2>1
      <3> QED
        BY <3>1
    <2>3. n * p = (n * q + n) + n * d /\ n * d \in Nat
      BY <2>2
    <2>4. PICK z \in Nat : z = n * d
      BY <2>3
    <2>5. x = (y + n) + z
      BY <1>3, <2>3, <2>4, Zenon
    <2> QED
      BY <1>4, <2>4, <2>5
  <1>7. x = y
    BY <1>3, <1>5, <1>6
  <1> QED
    BY <1>4, <1>7

\* A number less than the modulus.
LEMMA SmallNumber ==
  ASSUME NEW n \in Nat \ {0}, NEW a \in Nat, a < n
  PROVE  a % n = a
  OBVIOUS

\* What is announced is no less than the size.
LEMMA BlocksCover ==
  ASSUME NEW size \in Nat
  PROVE  /\ Blocks(size) \in Nat /\ Block * Blocks(size) \in Nat /\ Block * Blocks(size) >= size
         /\ Blocks(size) * Block = Block * Blocks(size)
  <1>1. PICK b \in Nat \ {0} : b = Block
    BY EoEAssumption
  <1>2. size + b - 1 \in Nat
    BY <1>1
  <1>3. PICK q \in Nat : q = (size + b - 1) \div b /\ size + b - 1 < b * q + b
    BY <1>1, <1>2, DivBounds
  <1>4. PICK e \in Nat : e = b * q /\ q * b = e
    BY <1>1, <1>3
  <1>5. e >= size
    <2>1. size + b - 1 < e + b
      BY <1>3, <1>4, Zenon
    <2> QED
      BY <1>1, <1>4, <2>1
  <1>6. Blocks(size) = q
    BY <1>1, <1>3 DEF Blocks
  <1> QED
    BY <1>1, <1>3, <1>4, <1>5, <1>6, Zenon

\* What the proofs about the frames assume: the frames have sizes of 16 bits, a time stamp goes into

\* a block, and fewer mailbox calls fail than there are frame numbers.
FramesAssumption ==
    /\ \A f \in Frames : f.total < Width
    /\ Stamp <= Block
    /\ MaxLosses < FrameNumbers

\* The sizes of a frame of the slave.
LEMMA FrameSizes ==
  ASSUME NEW f \in Frames
  PROVE  f.size \in Nat \ {0} /\ f.total \in {f.size, f.size + Stamp} /\ f.total \in Nat /\ f.total > 0
  <1>1. \A h \in Frames : h.size \in Nat \ {0} /\ h.total \in {h.size, h.size + Stamp}
    BY ServicesAssumption, Zenon
  <1>2. f.size \in Nat \ {0} /\ f.total \in {f.size, f.size + Stamp}
    BY <1>1, Zenon
  <1>3. Stamp \in Nat
    BY EoEAssumption
  <1> QED
    BY <1>2, <1>3

\* What is in fragment number j of frame f, number g.
PieceOf(m, f, g, j) ==
    /\ f.size \in Nat /\ f.total \in Nat
    /\ m.kind = "EOE_FRAG" /\ m.frame = g /\ m.frameno = g % FrameNumbers /\ m.no = j
    /\ m.from = j * Chunk /\ m.from \in Nat /\ m.len \in Nat
    /\ m.last <=> f.total - j * Chunk <= maxdata
    /\ m.last => m.from + m.len = f.total
    /\ ~m.last => m.len = Chunk /\ m.from + m.len = (j + 1) * Chunk /\ (j + 1) * Chunk < f.total
    /\ m.stamp <=> f.total > f.size
    /\ j = 0 => m.offset = Blocks(f.size)

\* The fragment of a frame of the slave.
LEMMA SlaveFragment ==
  ASSUME NEW f \in Frames, NEW g, NEW j \in Nat, j * Chunk < f.total
  PROVE  PieceOf(Fragment(g, f.size, f.total, j), f, g, j)
  <1> DEFINE m == Fragment(g, f.size, f.total, j)
  <1>1. f.size \in Nat /\ f.total \in Nat
    BY FrameSizes
  <1>2. /\ m.kind = "EOE_FRAG" /\ m.frame = g /\ m.no = j
        /\ m.from = j * Chunk /\ m.from \in Nat /\ m.len \in Nat
        /\ m.last <=> f.total - j * Chunk <= maxdata
        /\ m.last => m.from + m.len = f.total
        /\ ~m.last => m.len = Chunk /\ m.from + m.len = (j + 1) * Chunk /\ (j + 1) * Chunk < f.total
    BY <1>1, FragmentIs
  <1>3. m.frameno = g % FrameNumbers /\ m.stamp = (f.total > f.size) /\ (j = 0 => m.offset = Blocks(f.size))
    BY Zenon DEF Fragment
  <1> HIDE DEF m
  <1>4. PieceOf(m, f, g, j)
    BY <1>1, <1>2, <1>3, Zenon DEF PieceOf
  <1> QED
    BY <1>4 DEF m

\* The size of a frame that is complete is that without the time stamp.
LEMMA SizeIs ==
  ASSUME FramesAssumption, NEW f \in Frames, NEW m, m.stamp <=> f.total > f.size,
         NEW r, r.offset = f.total
  PROVE  SizeAfter(r, m) = f.size
  <1>1. f.size \in Nat /\ f.total \in {f.size, f.size + Stamp} /\ f.total < Width /\ Stamp \in Nat /\ Width \in Nat \ {0}
    BY FrameSizes, EoEAssumption DEF FramesAssumption
  <1>2. CASE m.stamp
    <2>1. f.total > f.size
      BY <1>2, Zenon
    <2>2. f.total - Stamp = f.size /\ f.size < Width
      BY <1>1, <2>1
    <2>3. (f.total - Stamp) % Width = f.size
      BY <1>1, <2>2, SmallNumber
    <2> QED
      BY <1>2, <2>3 DEF SizeAfter
  <1>3. CASE ~m.stamp
    <2>1. ~(f.total > f.size)
      BY <1>3, Zenon
    <2>2. f.total = f.size /\ f.total - 0 = f.size
      BY <1>1, <2>1
    <2>3. f.size % Width = f.size
      BY <1>1, <2>2, SmallNumber
    <2> QED
      BY <1>3, <2>2, <2>3 DEF SizeAfter
  <1> QED
    BY <1>2, <1>3

\* A reassembly before the first fragment.
LEMMA BegunIs ==
  ASSUME NEW m
  PROVE  /\ SameRecord(NewFrame) /\ NewFrame.no = 0
         /\ SameRecord(Begun(m)) /\ Begun(m).no = 0 /\ Begun(m).offset = 0 /\ Begun(m).data = <<>>
         /\ Begun(m).size = m.offset * Block /\ Begun(m).frameno = m.frameno
  <1>1. SameRecord(NewFrame) /\ NewFrame.no = 0
    BY DEF SameRecord, NewFrame
  <1>2. Begun(m) = [no |-> 0, size |-> m.offset * Block, offset |-> 0, frameno |-> m.frameno, data |-> <<>>]
    <2> DEFINE z == m.offset * Block
    <2>1. Begun(m) = [NewFrame EXCEPT !.size = z, !.frameno = m.frameno]
      BY Zenon DEF Begun
    <2> HIDE DEF z
    <2>2. Begun(m) = [no |-> 0, size |-> z, offset |-> 0, frameno |-> m.frameno, data |-> <<>>]
      BY <2>1 DEF NewFrame
    <2> QED
      BY <2>2 DEF z
  <1> DEFINE z == m.offset * Block
  <1>3. Begun(m) = [no |-> 0, size |-> z, offset |-> 0, frameno |-> m.frameno, data |-> <<>>]
    BY <1>2
  <1> HIDE DEF z
  <1>4. /\ SameRecord(Begun(m)) /\ Begun(m).no = 0 /\ Begun(m).offset = 0 /\ Begun(m).data = <<>>
        /\ Begun(m).size = z /\ Begun(m).frameno = m.frameno
    BY <1>3 DEF SameRecord
  <1> QED
    BY <1>1, <1>4 DEF z

\* A reassembly after a fragment that fits.
LEMMA CopiedIs ==
  ASSUME NEW r, SameRecord(r), NEW m
  PROVE  /\ SameRecord(Copied(r, m)) /\ Copied(r, m).no = r.no + 1 /\ Copied(r, m).offset = r.offset + m.len
         /\ Copied(r, m).data = Append(r.data, <<m.frame, m.from, m.len>>)
         /\ Copied(r, m).size = r.size /\ Copied(r, m).frameno = r.frameno
  <1> DEFINE t == <<m.frame, m.from, m.len>>
             d == Append(r.data, t)
             o == r.offset + m.len
             n == r.no + 1
             c == Copied(r, m)
  <1>1. c = [r EXCEPT !.offset = o, !.no = n, !.data = d]
    BY Zenon DEF Copied
  <1>2. r = [no |-> r.no, size |-> r.size, offset |-> r.offset, frameno |-> r.frameno, data |-> r.data]
    BY DEF SameRecord
  <1> HIDE DEF t, d, o, n, c
  <1>3. c = [no |-> n, size |-> r.size, offset |-> o, frameno |-> r.frameno, data |-> d]
    BY <1>1, <1>2
  <1>4. c.no = n /\ c.size = r.size /\ c.offset = o /\ c.frameno = r.frameno /\ c.data = d
    BY <1>3
  <1>5. SameRecord(c)
    BY <1>3, <1>4 DEF SameRecord
  <1> QED
    BY <1>4, <1>5 DEF c, d, o, n, t

\* A reassembly that is where fragment number j of frame p begins.
Placed(r, s, p, j) ==
    /\ SameRecord(r) /\ r.no = j /\ r.offset = j * Chunk
    /\ r.size = Block * Blocks(s[p].size)
    /\ r.frameno = p % FrameNumbers
    /\ Filled(r.data, p, r.offset)

\* The fragment of a frame of a sequence.
LEMMA PieceIs ==
  ASSUME NEW s, NEW p, s[p] \in Frames, NEW j \in Nat, j * Chunk < s[p].total,
         NEW m, m = Fragment(p, s[p].size, s[p].total, j)
  PROVE  PieceOf(m, s[p], p, j)
  BY SlaveFragment

\* A fragment that is put in its place.
LEMMA PutInPlace ==
  ASSUME FramesAssumption, NEW s, NEW p, s[p] \in Frames, NEW j \in Nat, j * Chunk < s[p].total,
         NEW m, m = Fragment(p, s[p].size, s[p].total, j),
         NEW r, Placed(r, s, p, j),
         NEW c, c = Copied(r, m)
  PROVE  /\ SameRecord(c) /\ c.no = j + 1
         /\ ~m.last => Amid(c, s, p)
         /\ m.last => Filled(c.data, p, s[p].total) /\ SizeAfter(c, m) = s[p].size
  <1>1. /\ m.frame = p /\ m.from = j * Chunk /\ m.from \in Nat /\ m.len \in Nat
        /\ m.last <=> s[p].total - j * Chunk <= maxdata
        /\ m.last => m.from + m.len = s[p].total
        /\ ~m.last => m.from + m.len = (j + 1) * Chunk
        /\ m.stamp <=> s[p].total > s[p].size
        /\ s[p].total \in Nat
    <2>1. PieceOf(m, s[p], p, j)
      BY PieceIs
    <2> QED
      BY <2>1, Zenon DEF PieceOf
  <1>2. /\ SameRecord(r) /\ r.no = j /\ r.offset = m.from /\ r.size = Block * Blocks(s[p].size)
        /\ r.frameno = p % FrameNumbers /\ Filled(r.data, p, m.from)
    BY <1>1 DEF Placed
  <1>3. /\ SameRecord(c) /\ c.no = j + 1 /\ c.offset = m.from + m.len
        /\ c.data = Append(r.data, <<p, m.from, m.len>>)
        /\ c.size = r.size /\ c.frameno = r.frameno
    <2>1. /\ SameRecord(c) /\ c.no = r.no + 1 /\ c.offset = r.offset + m.len
          /\ c.data = Append(r.data, <<m.frame, m.from, m.len>>)
          /\ c.size = r.size /\ c.frameno = r.frameno
      BY <1>2, CopiedIs, Zenon
    <2> QED
      BY <1>1, <1>2, <2>1
  <1>4. Filled(c.data, p, m.from + m.len)
    <2>1. m.len \in Nat /\ Filled(r.data, p, m.from)
      BY <1>1, <1>2, Zenon
    <2>2. Filled(Append(r.data, <<p, m.from, m.len>>), p, m.from + m.len)
      BY <2>1, FilledMore, Zenon
    <2> QED
      BY <1>3, <2>2, Zenon
  <1>5. ASSUME ~m.last PROVE Amid(c, s, p)
    <2>1. c.offset = c.no * Chunk
      BY <1>1, <1>3, <1>5, Zenon
    <2>2. s[p].total > maxdata
      <3>1. PICK o \in Nat : o = j * Chunk
        BY <1>1
      <3>2. ~(s[p].total - o <= maxdata)
        BY <1>1, <1>5, <3>1, Zenon
      <3> QED
        BY <1>1, <3>1, <3>2, EoEAssumption
    <2>3. Filled(c.data, p, c.offset)
      BY <1>3, <1>4
    <2> QED
      BY <1>2, <1>3, <2>1, <2>2, <2>3 DEF Amid
  <1>6. ASSUME m.last PROVE Filled(c.data, p, s[p].total) /\ SizeAfter(c, m) = s[p].size
    <2>1. m.from + m.len = s[p].total
      BY <1>1, <1>6
    <2>2. c.offset = s[p].total
      BY <1>3, <2>1
    <2> QED
      BY <1>1, <1>4, <2>1, <2>2, SizeIs
  <1> QED
    BY <1>3, <1>5, <1>6

\* Where a first fragment begins, and where one begins that goes on with the frame.
LEMMA PlaceOf ==
  ASSUME FramesAssumption, NEW s, NEW p, s[p] \in Frames, NEW j \in Nat, j * Chunk < s[p].total,
         NEW m, m = Fragment(p, s[p].size, s[p].total, j)
  PROVE  /\ j = 0 => Placed(Begun(m), s, p, j)
         /\ \A r : SameRecord(r) /\ r.no = j /\ Amid(r, s, p) => Placed(r, s, p, j)
  <1>1. /\ m.frameno = p % FrameNumbers /\ s[p].size \in Nat
        /\ j = 0 => m.offset = Blocks(s[p].size)
    <2>1. PieceOf(m, s[p], p, j)
      BY PieceIs
    <2> QED
      BY <2>1, Zenon DEF PieceOf
  <1>2. ASSUME j = 0 PROVE Placed(Begun(m), s, p, j)
    <2>1. /\ SameRecord(Begun(m)) /\ Begun(m).no = 0 /\ Begun(m).offset = 0 /\ Begun(m).data = <<>>
          /\ Begun(m).size = m.offset * Block /\ Begun(m).frameno = m.frameno
      BY BegunIs
    <2>2. j * Chunk = 0
      BY <1>2, ChunkType
    <2>3. m.offset * Block = Block * Blocks(s[p].size)
      BY <1>1, <1>2, BlocksCover
    <2>4. Filled(<<>>, p, 0)
      BY FilledNone
    <2> QED
      BY <1>1, <1>2, <2>1, <2>2, <2>3, <2>4, Zenon DEF Placed
  <1>3. ASSUME NEW r, SameRecord(r), r.no = j, Amid(r, s, p) PROVE Placed(r, s, p, j)
    BY <1>3 DEF Placed, Amid
  <1> QED
    BY <1>2, <1>3

\* A fragment that does not fit is the last of a frame with a time stamp too many.
LEMMA NoRoom ==
  ASSUME NEW s, NEW p, s[p] \in Frames, NEW j \in Nat, j * Chunk < s[p].total,
         NEW m, m = Fragment(p, s[p].size, s[p].total, j), m.last,
         NEW r, Placed(r, s, p, j),
         \/ hook /\ ~(r.offset + m.len <= r.size)
         \/ ~(r.offset + m.len <= FrameBuffer)
  PROVE  Overfull(s[p])
  <1>1. /\ m.from = j * Chunk /\ m.from \in Nat /\ m.len \in Nat /\ m.from + m.len = s[p].total
        /\ s[p].total \in Nat /\ s[p].size \in Nat
    <2>1. PieceOf(m, s[p], p, j)
      BY PieceIs
    <2> QED
      BY <2>1, Zenon DEF PieceOf
  <1>2. r.offset + m.len = s[p].total /\ r.size = Block * Blocks(s[p].size)
    BY <1>1 DEF Placed
  <1>3. PICK b \in Nat : b = Block * Blocks(s[p].size)
    BY <1>1, BlocksCover
  <1>4. FrameBuffer \in Nat
    BY ServicesAssumption
  <1>5. \/ hook /\ ~(s[p].total <= b)
        \/ ~(s[p].total <= FrameBuffer)
    BY <1>2, <1>3, Zenon
  <1>6. /\ ~(s[p].total <= b) => s[p].total > b
        /\ ~(s[p].total <= FrameBuffer) => s[p].total > FrameBuffer
    BY <1>1, <1>3, <1>4
  <1> QED
    BY <1>3, <1>5, <1>6, Zenon DEF Overfull

\* What a fragment does to the reassembly of the hook, if it can only be taken for one of its frame.
LEMMA HookTakes ==
  ASSUME FramesAssumption, hook, NEW s, NEW p, s[p] \in Frames, NEW j \in Nat, j * Chunk < s[p].total,
         NEW m, m = Fragment(p, s[p].size, s[p].total, j),
         NEW r, SameRecord(r), r.no \in Nat, r.no = m.no /\ r.no > 0 /\ r.frameno = m.frameno => Amid(r, s, p),
         NEW w, w = ecx_EOEreadfragment(r, m, FrameBuffer)
  PROVE  \/ w.wkc # 1 /\ SameRecord(w.rx) /\ w.rx.no = 0
         \/ w.wkc # 1 /\ ~m.last /\ SameRecord(w.rx) /\ w.rx.no \in Nat /\ Amid(w.rx, s, p)
         \/ w.wkc = 1 /\ [w.rx EXCEPT !.data = <<>>] = NewFrame /\ Complete(s, p, w.rx.data, w.size)
  <1> DEFINE r1 == IF r.no = m.no THEN r ELSE NewFrame
             at == IF r1.no = 0 THEN Begun(m) ELSE r1
             fits == at.offset + m.len <= at.size /\ at.offset + m.len <= FrameBuffer
             put == IF fits THEN Copied(at, m) ELSE at
  <1>1. w = IF r1.no # m.no \/ (r1.no > 0 /\ ~SameFrame(r1, m))
              THEN Refused(NewFrame)
              ELSE IF m.last THEN [rx |-> [NewFrame EXCEPT !.data = put.data], wkc |-> 1, size |-> SizeAfter(put, m)]
                             ELSE Goes(put)
    BY Zenon DEF ecx_EOEreadfragment
  <1>2. m.no = j
    <2>1. PieceOf(m, s[p], p, j)
      BY PieceIs
    <2> QED
      BY <2>1, Zenon DEF PieceOf
  <1>3. SameRecord(NewFrame) /\ NewFrame.no = 0
    BY BegunIs
  <1>4. CASE r1.no # m.no \/ (r1.no > 0 /\ ~SameFrame(r1, m))
    <2>1. w = Refused(NewFrame)
      BY <1>1, <1>4, Zenon
    <2>2. w.wkc = -1 /\ w.rx = NewFrame
      BY <2>1 DEF Refused
    <2> QED
      BY <1>3, <2>2
  <1>5. CASE ~(r1.no # m.no \/ (r1.no > 0 /\ ~SameFrame(r1, m)))
    <2>1. r1.no = j
      BY <1>2, <1>5
    <2>2. Placed(at, s, p, j)
      <3>1. CASE j = 0
        <4>1. at = Begun(m)
          BY <2>1, <3>1
        <4> QED
          BY <3>1, <4>1, PlaceOf
      <3>2. CASE j # 0
        <4>1. j > 0 /\ at = r1
          BY <2>1, <3>2
        <4>2. r1 = r
          BY <1>3, <2>1, <3>2
        <4>3. r.no = j /\ r.frameno = m.frameno
          BY <1>5, <2>1, <4>1, <4>2 DEF SameFrame
        <4>4. Amid(r, s, p)
          BY <1>2, <4>1, <4>3
        <4> QED
          BY <4>1, <4>2, <4>3, <4>4, PlaceOf
      <3> QED
        BY <3>1, <3>2
    <2>3. at.no = j /\ SameRecord(at)
      BY <2>2 DEF Placed
    <2>4. j # 0 => Amid(at, s, p)
      <3>1. ASSUME j # 0 PROVE Amid(at, s, p)
        <4>1. j > 0 /\ at = r1
          BY <2>1, <3>1
        <4>2. r1 = r
          BY <1>3, <2>1, <3>1
        <4>3. r.no = j /\ r.frameno = m.frameno
          BY <1>5, <2>1, <4>1, <4>2 DEF SameFrame
        <4> QED
          BY <1>2, <4>1, <4>2, <4>3
      <3> QED
        BY <3>1
    <2>5. w = IF m.last THEN [rx |-> [NewFrame EXCEPT !.data = put.data], wkc |-> 1, size |-> SizeAfter(put, m)]
                        ELSE Goes(put)
      BY <1>1, <1>5, Zenon
    <2>6. fits => /\ SameRecord(put) /\ put.no = j + 1
                  /\ ~m.last => Amid(put, s, p)
                  /\ m.last => Filled(put.data, p, s[p].total) /\ SizeAfter(put, m) = s[p].size
      BY <2>2, PutInPlace
    <2>7. ~fits => put = at
      BY Zenon
    <2>8. ~fits /\ m.last => Overfull(s[p])
      BY <2>2, NoRoom
    <2> HIDE DEF at, fits, put, r1
    <2>9. CASE m.last
      <3>1. w = [rx |-> [NewFrame EXCEPT !.data = put.data], wkc |-> 1, size |-> SizeAfter(put, m)]
        BY <2>5, <2>9, Zenon
      <3>2. w.wkc = 1 /\ w.rx = [NewFrame EXCEPT !.data = put.data] /\ w.size = SizeAfter(put, m)
        BY <3>1
      <3>3. w.rx.data = put.data /\ [w.rx EXCEPT !.data = <<>>] = NewFrame
        <4> DEFINE d == put.data
        <4>1. w.rx = [NewFrame EXCEPT !.data = d]
          BY <3>2
        <4> HIDE DEF d
        <4>2. w.rx = [no |-> 0, size |-> 0, offset |-> 0, frameno |-> 0, data |-> d]
          BY <4>1 DEF NewFrame
        <4>3. [w.rx EXCEPT !.data = <<>>] = [no |-> 0, size |-> 0, offset |-> 0, frameno |-> 0, data |-> <<>>]
          BY <4>2
        <4>4. w.rx.data = d /\ [w.rx EXCEPT !.data = <<>>] = NewFrame
          BY <4>2, <4>3 DEF NewFrame
        <4> QED
          BY <4>4 DEF d
      <3>4. Complete(s, p, w.rx.data, w.size)
        BY <2>6, <2>8, <2>9, <3>2, <3>3 DEF Complete
      <3> QED
        BY <3>2, <3>3, <3>4
    <2>10. CASE ~m.last
      <3>1. w = Goes(put)
        BY <2>5, <2>10, Zenon
      <3>2. w.wkc = 0 /\ w.rx = put
        BY <3>1 DEF Goes
      <3>3. CASE fits
        BY <2>6, <2>10, <3>2, <3>3
      <3>4. CASE ~fits
        BY <2>3, <2>4, <2>7, <2>10, <3>2, <3>4
      <3> QED
        BY <3>3, <3>4
    <2> QED
      BY <2>9, <2>10
  <1> QED
    BY <1>4, <1>5

\* What a fragment does to the reassembly of ecx_EOErecv.  A first fragment that comes again can be

\* taken for the second one if the frame is over but for a part of the time stamp: the reassembly is
\* then behind the end, where nothing completes it.
LEMMA RecvTakes ==
  ASSUME FramesAssumption, NEW s, NEW p, s[p] \in Frames, NEW j \in Nat, j * Chunk < s[p].total,
         NEW m, m = Fragment(p, s[p].size, s[p].total, j),
         NEW r, SameRecord(r), r.no \in Nat, r.no > 0 /\ r.frameno = m.frameno => Amid(r, s, p),
         NEW w, w = ecx_EOErecv(r, m, FrameBuffer)
  PROVE  \/ w.wkc = -1
         \/ w.wkc = 0 /\ SameRecord(w.rx) /\ w.rx.no = 0
         \/ w.wkc = 0 /\ ~m.last /\ SameRecord(w.rx) /\ w.rx.no \in Nat /\ Amid(w.rx, s, p)
         \/ w.wkc = 1 /\ Complete(s, p, w.rx.data, w.size)
  <1> DEFINE at == IF r.no = 0 THEN Begun(m) ELSE r
             fits == at.offset + m.len <= FrameBuffer
             put == IF fits THEN Copied(at, m) ELSE at
  <1>1. w = IF RecvRefuses(r, m, FrameBuffer) THEN Refused(r)
            ELSE IF m.last THEN [rx |-> put, wkc |-> 1, size |-> SizeAfter(put, m)]
            ELSE Goes(put)
    BY Zenon DEF ecx_EOErecv
  <1>2. m.no = j
    <2>1. PieceOf(m, s[p], p, j)
      BY PieceIs
    <2> QED
      BY <2>1, Zenon DEF PieceOf
  <1>3. CASE RecvRefuses(r, m, FrameBuffer)
    <2>1. w = Refused(r)
      BY <1>1, <1>3, Zenon
    <2> QED
      BY <2>1 DEF Refused
  <1>4. ASSUME ~RecvRefuses(r, m, FrameBuffer), Placed(at, s, p, j), j # 0 => Amid(at, s, p)
        PROVE  \/ w.wkc = 0 /\ SameRecord(w.rx) /\ w.rx.no = 0
               \/ w.wkc = 0 /\ ~m.last /\ SameRecord(w.rx) /\ w.rx.no \in Nat /\ Amid(w.rx, s, p)
               \/ w.wkc = 1 /\ Complete(s, p, w.rx.data, w.size)
    <2>1. at.no = j /\ SameRecord(at)
      BY <1>4 DEF Placed
    <2>2. w = IF m.last THEN [rx |-> put, wkc |-> 1, size |-> SizeAfter(put, m)] ELSE Goes(put)
      BY <1>1, <1>4, Zenon
    <2>3. fits => /\ SameRecord(put) /\ put.no = j + 1
                  /\ ~m.last => Amid(put, s, p)
                  /\ m.last => Filled(put.data, p, s[p].total) /\ SizeAfter(put, m) = s[p].size
      BY <1>4, PutInPlace
    <2>4. ~fits => put = at
      BY Zenon
    <2>5. ~fits /\ m.last => Overfull(s[p])
      BY <1>4, NoRoom
    <2> HIDE DEF at, fits, put
    <2>6. CASE m.last
      <3>1. w.wkc = 1 /\ w.rx = put /\ w.size = SizeAfter(put, m)
        BY <2>2, <2>6
      <3>2. Complete(s, p, w.rx.data, w.size)
        BY <2>3, <2>5, <2>6, <3>1 DEF Complete
      <3> QED
        BY <3>1, <3>2
    <2>7. CASE ~m.last
      <3>1. w.wkc = 0 /\ w.rx = put
        BY <2>2, <2>7 DEF Goes
      <3>2. CASE fits
        BY <2>3, <2>7, <3>1, <3>2
      <3>3. CASE ~fits
        BY <1>4, <2>1, <2>4, <2>7, <3>1, <3>3
      <3> QED
        BY <3>2, <3>3
    <2> QED
      BY <2>6, <2>7
  <1>5. CASE ~RecvRefuses(r, m, FrameBuffer) /\ r.no = 0
    <2>1. j = 0
      BY <1>2, <1>5 DEF RecvRefuses
    <2>2. at = Begun(m)
      BY <1>5
    <2>3. Placed(at, s, p, j)
      BY <2>1, <2>2, PlaceOf
    <2> HIDE DEF at, put, fits
    <2> QED
      BY <1>4, <1>5, <2>1, <2>3
  <1>6. CASE ~RecvRefuses(r, m, FrameBuffer) /\ r.no > 0
    <2>1. at = r
      BY <1>6
    <2>2. r.frameno = m.frameno /\ r.offset = m.offset * Block
      BY <1>6 DEF RecvRefuses, SameFrame
    <2>3. Amid(r, s, p)
      BY <1>6, <2>2
    <2>4. CASE r.no = j
      <3>1. Placed(at, s, p, j) /\ Amid(at, s, p)
        BY <2>1, <2>3, <2>4, PlaceOf
      <3> HIDE DEF at, put, fits
      <3> QED
        BY <1>4, <1>6, <3>1
    <2>5. CASE r.no # j
      <3>1. j = 0
        BY <1>2, <1>6, <2>5 DEF RecvRefuses
      <3>2. /\ s[p].size \in Nat /\ s[p].total \in Nat /\ m.offset = Blocks(s[p].size)
            /\ m.last <=> s[p].total - j * Chunk <= maxdata
            /\ ~m.last => m.len = Chunk
        <4>1. PieceOf(m, s[p], p, j)
          BY PieceIs
        <4> QED
          BY <3>1, <4>1, Zenon DEF PieceOf
      <3>3. ~m.last
        <4>1. s[p].total > maxdata
          BY <2>3 DEF Amid
        <4>2. j * Chunk = 0
          BY <3>1, ChunkType
        <4>3. ~(s[p].total - 0 <= maxdata)
          BY <3>2, <4>1, EoEAssumption
        <4> QED
          BY <3>2, <4>2, <4>3, Zenon
      <3>4. w = Goes(put)
        BY <1>1, <1>6, <3>3, Zenon
      <3>5. w.wkc = 0 /\ w.rx = put
        BY <3>4 DEF Goes
      <3>6. CASE ~fits
        <4>1. put = r
          BY <2>1, <3>6, Zenon
        <4> QED
          BY <2>3, <3>3, <3>5, <4>1
      <3>7. CASE fits
        <4> DEFINE c == Copied(r, m)
        <4>1. put = c
          BY <2>1, <3>7, Zenon
        <4>2. /\ SameRecord(c) /\ c.no = r.no + 1 /\ c.offset = r.offset + m.len
              /\ c.size = r.size /\ c.frameno = r.frameno
          BY CopiedIs
        <4> HIDE DEF c
        <4>3. PICK h \in Nat : h = Chunk /\ h >= Block /\ Block \in Nat
          BY ChunkType, EoEAssumption
        <4>4. r.offset = r.no * Chunk
          BY <2>3 DEF Amid
        <4>5. c.offset = c.no * Chunk
          <5>1. r.no * h + h = (r.no + 1) * h
            BY <4>3
          <5> QED
            BY <3>2, <3>3, <4>2, <4>3, <4>4, <5>1, Zenon
        <4>6. ~(c.offset < s[p].total)
          <5>1. r.offset = Block * Blocks(s[p].size) /\ Block * Blocks(s[p].size) >= s[p].size
                /\ Block * Blocks(s[p].size) \in Nat
            BY <2>2, <3>2, BlocksCover
          <5>2. PICK o \in Nat : o = r.offset /\ o >= s[p].size
            BY <5>1
          <5>3. s[p].total \in {s[p].size, s[p].size + Stamp} /\ Stamp \in Nat /\ Stamp <= Block
            BY FrameSizes, EoEAssumption DEF FramesAssumption
          <5>4. c.offset = o + h
            BY <3>2, <3>3, <4>2, <4>3, <5>2, Zenon
          <5> QED
            BY <3>2, <4>3, <5>2, <5>3, <5>4
        <4>7. Amid(c, s, p)
          BY <2>3, <4>2, <4>5, <4>6 DEF Amid
        <4>8. c.no \in Nat
          BY <4>2
        <4> QED
          BY <3>3, <3>5, <4>1, <4>2, <4>7, <4>8
      <3> QED
        BY <3>6, <3>7
    <2> QED
      BY <2>4, <2>5
  <1> QED
    BY <1>3, <1>5, <1>6

\* A reassembly stays one.
LEMMA RecvKeeps ==
  ASSUME NEW r, SameRecord(r), r.no \in Nat, NEW m
  PROVE  LET w == ecx_EOErecv(r, m, FrameBuffer) IN SameRecord(w.rx) /\ w.rx.no \in Nat
  <1> DEFINE w == ecx_EOErecv(r, m, FrameBuffer)
             at == IF r.no = 0 THEN Begun(m) ELSE r
             put == IF at.offset + m.len <= FrameBuffer THEN Copied(at, m) ELSE at
  <1>1. SameRecord(at) /\ at.no \in Nat
    BY BegunIs
  <1>2. SameRecord(put) /\ put.no \in Nat
    <2>1. SameRecord(Copied(at, m)) /\ Copied(at, m).no = at.no + 1
      BY <1>1, CopiedIs
    <2> HIDE DEF at
    <2> QED
      BY <1>1, <2>1
  <1>3. w = IF RecvRefuses(r, m, FrameBuffer) THEN Refused(r)
            ELSE IF m.last THEN [rx |-> put, wkc |-> 1, size |-> SizeAfter(put, m)]
            ELSE Goes(put)
    BY Zenon DEF ecx_EOErecv
  <1> HIDE DEF put, at, w
  <1>4. w.rx = r \/ w.rx = put
    BY <1>3 DEF Refused, Goes
  <1>5. SameRecord(w.rx) /\ w.rx.no \in Nat
    BY <1>2, <1>4
  <1> QED
    BY <1>5 DEF w

-----------------------------------------------------------------------------
(* The Ethernet frames of the slave: the steps                             *)

\* At the start no frame has been sent.
LEMMA FramesStart == ServicesInit => FramesInv
  <1> SUFFICES ASSUME ServicesInit PROVE FramesInv
    OBVIOUS
  <1>1. /\ rx = NewFrame /\ frame = NoFrame /\ out = NoMessage /\ losses = 0
        /\ slave = [queue |-> <<>>, stored |-> <<>>, ip |-> 0, sent |-> <<>>, no |-> 0]
    BY DEF ServicesInit
  <1>2. slave.sent = <<>> /\ slave.no = 0
    BY <1>1
  <1>3. SentOK
    <2>1. IsSeq(slave.sent) /\ Len(slave.sent) = 0
      BY <1>2, EmptyIs
    <2>2. MaxLosses \in Nat
      BY ServicesAssumption, Zenon
    <2>3. \A k \in 1 .. Len(slave.sent) : slave.sent[k] \in Frames
      BY <2>1
    <2>4. losses \in Nat /\ losses <= MaxLosses
      BY <1>1, <2>2
    <2> QED
      BY <1>2, <2>1, <2>3, <2>4 DEF SentOK
  <1>4. PostedOK
    BY <1>1 DEF PostedOK, IsFragment, NoMessage
  <1>5. RxInv
    <2>1. SameRecord(rx) /\ rx.no = 0
      BY <1>1, BegunIs
    <2> QED
      BY <2>1 DEF RxInv
  <1>6. FrameInv
    BY <1>1 DEF FrameInv
  <1> QED
    BY <1>3, <1>4, <1>5, <1>6 DEF FramesInv

\* A step that posts no fragment, and reads none without a loss.
LEMMA FramesLeft ==
  ASSUME FramesInv, UNCHANGED frames, slave'.sent = slave.sent, slave'.no = slave.no,
         losses' \in Nat, losses' <= MaxLosses, losses' >= losses,
         Reassembling' => Reassembling,
         IsFragment(out') => out' = out,
         Reassembling' /\ IsFragment(out) => IsFragment(out') \/ losses' > losses
  PROVE  FramesInv'
  <1>1. UNCHANGED <<hook, rx, frame>>
    BY DEF frames
  <1>2. SentOK'
    BY DEF FramesInv, SentOK
  <1>3. PostedOK'
    BY DEF FramesInv, PostedOK, IsAt
  <1>4. RxInv'
    <2>1. SameRecord(rx') /\ rx'.no \in Nat
      BY <1>1 DEF FramesInv, RxInv
    <2>2. ASSUME Reassembling', rx'.no > 0
          PROVE  \E g \in 1 .. Len(slave'.sent) : Amid(rx', slave'.sent, g) /\ Missing(g)'
      <3>1. PICK g \in 1 .. Len(slave.sent) : Amid(rx, slave.sent, g) /\ Missing(g)
        BY <1>1, <2>2 DEF FramesInv, RxInv
      <3>2. losses \in Nat /\ Len(slave.sent) \in Nat
        BY LenProperties DEF FramesInv, SentOK, IsSeq
      <3>3. losses >= Len(slave.sent) - g /\ (slave.no = 0 /\ ~IsFragment(out) => losses > Len(slave.sent) - g)
        BY <3>1 DEF Missing
      <3>4. losses' >= Len(slave.sent) - g
        BY <3>2, <3>3
      <3>5. ASSUME slave.no = 0, ~IsFragment(out') PROVE losses' > Len(slave.sent) - g
        <4>1. CASE IsFragment(out)
          <5>1. losses' > losses
            BY <2>2, <3>5, <4>1
          <5> QED
            BY <3>2, <3>3, <5>1
        <4>2. CASE ~IsFragment(out)
          <5>1. losses > Len(slave.sent) - g
            BY <3>3, <3>5, <4>2
          <5> QED
            BY <3>2, <5>1
        <4> QED
          BY <4>1, <4>2
      <3>6. Missing(g)'
        BY <3>4, <3>5 DEF Missing
      <3> QED
        BY <1>1, <3>1, <3>6
    <2> QED
      BY <2>1, <2>2 DEF RxInv
  <1>5. FrameInv'
    BY <1>1 DEF FramesInv, FrameInv, Complete, Overfull
  <1> QED
    BY <1>2, <1>3, <1>4, <1>5 DEF FramesInv

\* The fragment in the out mailbox can be taken only for one of the frame that is reassembled.
LEMMA SameOrOther ==
  ASSUME FramesAssumption, FramesInv, Reassembling, IsFragment(out)
  PROVE  /\ Len(slave.sent) \in Nat \ {0} /\ slave.sent[Len(slave.sent)] \in Frames
         /\ \E j \in Nat : IsAt(out, j) /\ slave.no = (IF out.last THEN 0 ELSE j + 1)
         /\ out.frame = Len(slave.sent)
         /\ rx.no > 0 /\ rx.frameno = out.frameno => Amid(rx, slave.sent, Len(slave.sent))
  <1>1. Len(slave.sent) \in Nat /\ losses \in Nat /\ losses <= MaxLosses
        /\ \A k \in 1 .. Len(slave.sent) : slave.sent[k] \in Frames
    BY LenProperties DEF FramesInv, SentOK, IsSeq
  <1>2. Len(slave.sent) > 0 /\ \E j \in Nat : IsAt(out, j) /\ slave.no = (IF out.last THEN 0 ELSE j + 1)
    BY DEF FramesInv, PostedOK
  <1>3. Len(slave.sent) \in Nat \ {0} /\ slave.sent[Len(slave.sent)] \in Frames
    BY <1>1, <1>2
  <1>4. out.frame = Len(slave.sent) /\ out.frameno = Len(slave.sent) % FrameNumbers
    <2>1. PICK j \in Nat : IsAt(out, j)
      BY <1>2
    <2>2. PieceOf(out, slave.sent[Len(slave.sent)], Len(slave.sent), j)
      BY <1>3, <2>1, PieceIs DEF IsAt
    <2> QED
      BY <2>2, Zenon DEF PieceOf
  <1>5. ASSUME rx.no > 0, rx.frameno = out.frameno PROVE Amid(rx, slave.sent, Len(slave.sent))
    <2>1. PICK g \in 1 .. Len(slave.sent) : Amid(rx, slave.sent, g) /\ Missing(g)
      BY <1>5 DEF FramesInv, RxInv
    <2>2. g % FrameNumbers = Len(slave.sent) % FrameNumbers
      BY <1>4, <1>5, <2>1 DEF Amid
    <2>3. FrameNumbers \in Nat \ {0} /\ MaxLosses \in Nat /\ MaxLosses < FrameNumbers
      BY EoEAssumption, ServicesAssumption DEF FramesAssumption
    <2>4. g \in Nat /\ g <= Len(slave.sent)
      BY <1>1
    <2>5. losses >= Len(slave.sent) - g
      BY <2>1 DEF Missing
    <2>6. Len(slave.sent) - g < FrameNumbers
      BY <1>1, <2>3, <2>4, <2>5
    <2>7. g = Len(slave.sent)
      BY <1>1, <2>2, <2>3, <2>4, <2>6, SameNumber
    <2> QED
      BY <2>1, <2>7
  <1> QED
    BY <1>2, <1>3, <1>4, <1>5

\* What is left of the invariant when a fragment has been put into a reassembly.
LEMMA FramesPut ==
  ASSUME FramesInv, IsFragment(out), hook' = hook, slave'.sent = slave.sent, slave'.no = slave.no,
         losses' \in Nat, losses' <= MaxLosses,
         out' = out \/ out' = NoMessage,
         NEW j \in Nat, slave.no = IF out.last THEN 0 ELSE j + 1,
         Len(slave.sent) \in Nat \ {0},
         SameRecord(rx'), rx'.no \in Nat,
         \/ rx'.no = 0
         \/ ~Reassembling'
         \/ ~out.last /\ Amid(rx', slave.sent, Len(slave.sent)),
         \/ frame' = frame
         \/ frame'.of = Len(slave.sent) /\ Complete(slave.sent, Len(slave.sent), frame'.data, frame'.size)
  PROVE  FramesInv'
  <1>1. SentOK'
    BY DEF FramesInv, SentOK
  <1>2. PostedOK'
    BY DEF FramesInv, PostedOK, IsAt, IsFragment, NoMessage
  <1>3. RxInv'
    <2>1. ASSUME Reassembling', rx'.no > 0
          PROVE  \E g \in 1 .. Len(slave'.sent) : Amid(rx', slave'.sent, g) /\ Missing(g)'
      <3>1. ~out.last /\ Amid(rx', slave.sent, Len(slave.sent))
        BY <2>1
      <3>2. slave'.no = j + 1 /\ slave'.no # 0
        BY <3>1
      <3>3. losses' >= Len(slave'.sent) - Len(slave.sent)
        BY <2>1
      <3>4. Missing(Len(slave.sent))'
        BY <3>2, <3>3 DEF Missing
      <3> QED
        BY <3>1, <3>4
    <2> QED
      BY <2>1 DEF RxInv
  <1>4. FrameInv'
    <2>1. CASE frame' = frame
      BY <2>1 DEF FramesInv, FrameInv, Complete, Overfull
    <2>2. CASE frame'.of = Len(slave.sent) /\ Complete(slave.sent, Len(slave.sent), frame'.data, frame'.size)
      BY <2>2 DEF FrameInv, Complete, Overfull
    <2> QED
      BY <2>1, <2>2
  <1> QED
    BY <1>1, <1>2, <1>3, <1>4 DEF FramesInv

\* The hook takes a fragment.
LEMMA FramesHooked ==
  ASSUME FramesAssumption, FramesInv, hook, hook' = hook, IsFragment(out), Hook(out),
         slave'.sent = slave.sent, slave'.no = slave.no,
         losses' \in Nat, losses' <= MaxLosses,
         out' = out \/ out' = NoMessage
  PROVE  FramesInv'
  <1> DEFINE s == slave.sent
             p == Len(slave.sent)
             w == ecx_EOEreadfragment(rx, out, FrameBuffer)
  <1>1. Reassembling
    BY DEF Reassembling
  <1>2. PICK j \in Nat : IsAt(out, j) /\ slave.no = IF out.last THEN 0 ELSE j + 1
    BY <1>1, SameOrOther
  <1>3. p \in Nat \ {0} /\ s[p] \in Frames /\ out.frame = p
        /\ (rx.no > 0 /\ rx.frameno = out.frameno => Amid(rx, s, p))
    BY <1>1, SameOrOther
  <1>4. out = Fragment(p, s[p].size, s[p].total, j) /\ j * Chunk < s[p].total
    BY <1>2 DEF IsAt
  <1>5. SameRecord(rx) /\ rx.no \in Nat
    BY DEF FramesInv, RxInv
  <1> HIDE DEF s, p
  <1>6. \/ w.wkc # 1 /\ SameRecord(w.rx) /\ w.rx.no = 0
        \/ w.wkc # 1 /\ ~out.last /\ SameRecord(w.rx) /\ w.rx.no \in Nat /\ Amid(w.rx, s, p)
        \/ w.wkc = 1 /\ [w.rx EXCEPT !.data = <<>>] = NewFrame /\ Complete(s, p, w.rx.data, w.size)
    BY <1>3, <1>4, <1>5, HookTakes
  <1>7. /\ rx' = [w.rx EXCEPT !.data = IF w.wkc = 1 THEN <<>> ELSE @]
        /\ frame' = IF w.wkc = 1 THEN [of |-> out.frame, data |-> w.rx.data, size |-> w.size] ELSE frame
    BY Zenon DEF Hook
  <1> HIDE DEF w
  <1>8. CASE w.wkc = 1
    <2>1. rx' = NewFrame /\ frame' = [of |-> p, data |-> w.rx.data, size |-> w.size]
      BY <1>3, <1>6, <1>7, <1>8
    <2>2. SameRecord(rx') /\ rx'.no = 0 /\ rx'.no \in Nat
      BY <2>1, BegunIs
    <2>3. frame'.of = p /\ Complete(s, p, frame'.data, frame'.size)
      BY <1>6, <1>8, <2>1
    <2>4. frame'.of = Len(slave.sent) /\ Complete(slave.sent, Len(slave.sent), frame'.data, frame'.size)
          /\ Len(slave.sent) \in Nat \ {0}
      BY <1>3, <2>3 DEF s, p
    <2> QED
      BY <1>2, <2>2, <2>4, FramesPut
  <1>9. CASE w.wkc # 1
    <2>1. SameRecord(w.rx)
      BY <1>6, <1>9
    <2>2. rx' = w.rx /\ frame' = frame
      <3>1. rx' = [w.rx EXCEPT !.data = w.rx.data]
        BY <1>7, <1>9
      <3> QED
        BY <1>7, <1>9, <2>1, <3>1 DEF SameRecord
    <2>3. /\ SameRecord(rx') /\ rx'.no \in Nat
          /\ rx'.no = 0 \/ (~out.last /\ Amid(rx', s, p))
      BY <1>6, <1>9, <2>2
    <2> QED
      BY <1>2, <1>3, <2>2, <2>3, FramesPut DEF s, p
  <1> QED
    BY <1>8, <1>9

\* ecx_EOErecv takes a fragment.
LEMMA FramesReceived ==
  ASSUME FramesAssumption, ClientsOK, FramesInv, EOErecv, losses' \in Nat, losses' <= MaxLosses, losses' >= losses
  PROVE  FramesInv'
  <1> DEFINE s == slave.sent
             p == Len(slave.sent)
             w == ecx_EOErecv(rx, out, FrameBuffer)
  <1>1. /\ call.op = "RECV" /\ Receive /\ call' = call /\ hook' = hook /\ slave' = slave /\ pc = "response"
        /\ out' = out \/ out' = NoMessage
        /\ call.size = FrameBuffer
    BY DEF EOErecv, Receive, Read, ClientsOK, CallOK
  <1>2. Reassembling
    BY <1>1 DEF Reassembling
  <1>3. CASE ~IsFragment(out)
    <2>1. UNCHANGED <<rx, frame>>
      BY <1>3 DEF EOErecv
    <2>2. ~IsFragment(out')
      BY <1>1, <1>3 DEF IsFragment, NoMessage
    <2> QED
      BY <1>1, <1>2, <1>3, <2>1, <2>2, FramesLeft DEF frames
  <1>4. CASE IsFragment(out)
    <2>1. PICK j \in Nat : IsAt(out, j) /\ slave.no = IF out.last THEN 0 ELSE j + 1
      BY <1>2, <1>4, SameOrOther
    <2>2. p \in Nat \ {0} /\ s[p] \in Frames /\ out.frame = p
          /\ (rx.no > 0 /\ rx.frameno = out.frameno => Amid(rx, s, p))
      BY <1>2, <1>4, SameOrOther
    <2>3. out = Fragment(p, s[p].size, s[p].total, j) /\ j * Chunk < s[p].total
      BY <2>1 DEF IsAt
    <2>4. SameRecord(rx) /\ rx.no \in Nat
      BY DEF FramesInv, RxInv
    <2>5. ~hook
      BY <1>1, <1>4 DEF Receive, Handled
    <2>6. /\ rx' = w.rx
          /\ IF w.wkc = 1 THEN frame' = [of |-> out.frame, data |-> w.rx.data, size |-> w.size]
                          ELSE frame' = frame
          /\ w.wkc # 0 => pc' = "idle"
      BY <1>1, <1>4 DEF EOErecv, Return
    <2> HIDE DEF s, p
    <2>7. \/ w.wkc = -1
          \/ w.wkc = 0 /\ SameRecord(w.rx) /\ w.rx.no = 0
          \/ w.wkc = 0 /\ ~out.last /\ SameRecord(w.rx) /\ w.rx.no \in Nat /\ Amid(w.rx, s, p)
          \/ w.wkc = 1 /\ Complete(s, p, w.rx.data, w.size)
      BY <2>2, <2>3, <2>4, RecvTakes
    <2>8. SameRecord(w.rx) /\ w.rx.no \in Nat
      BY <2>4, RecvKeeps
    <2> HIDE DEF w
    <2>9. CASE w.wkc = 0
      <3>1. /\ rx'.no = 0 \/ (~out.last /\ Amid(rx', s, p))
            /\ frame' = frame
        BY <2>6, <2>7, <2>9
      <3> QED
        BY <1>1, <1>4, <2>1, <2>2, <2>6, <2>8, <3>1, FramesPut DEF s, p
    <2>10. CASE w.wkc # 0
      <3>1. ~Reassembling'
        BY <1>1, <2>5, <2>6, <2>10 DEF Reassembling
      <3>2. frame' = frame \/ (frame'.of = p /\ Complete(s, p, frame'.data, frame'.size))
        <4>1. CASE w.wkc = 1
          <5>1. frame' = [of |-> p, data |-> w.rx.data, size |-> w.size]
            BY <2>2, <2>6, <4>1
          <5>2. Complete(s, p, w.rx.data, w.size)
            BY <2>7, <4>1
          <5> QED
            BY <5>1, <5>2
        <4>2. CASE w.wkc # 1
          BY <2>6, <4>2
        <4> QED
          BY <4>1, <4>2
      <3> QED
        BY <1>1, <1>4, <2>1, <2>2, <2>6, <2>8, <3>1, <3>2, FramesPut DEF s, p
    <2> QED
      BY <2>9, <2>10
  <1> QED
    BY <1>3, <1>4

\* Mailbox calls that fail are counted, up to the bound.
LEMMA LossesStep ==
  ASSUME losses \in Nat, losses <= MaxLosses, [ServicesNext]_allvars
  PROVE  losses' \in Nat /\ losses' >= losses /\ losses' <= MaxLosses
  <1>1. MaxLosses \in Nat
    BY ServicesAssumption, Zenon
  <1>2. losses' = losses => losses' \in Nat /\ losses' >= losses /\ losses' <= MaxLosses
    OBVIOUS
  <1>3. Lost => losses' \in Nat /\ losses' >= losses /\ losses' <= MaxLosses
    BY <1>1 DEF Lost, Lossy
  <1> USE DEF SendRequest, Sent, NotSent, Receive, ReceiveNothing, Read, fates
  <1>4. CASE UNCHANGED allvars
    BY <1>2, <1>4 DEF allvars
  <1>5. CASE ReceiveHandled \/ SlaveTake \/ SlavePost \/ SlavePostFragment \/ ReadErrors
    BY <1>2, <1>3, <1>5, Zenon DEF ReceiveHandled, SlaveTake, SlavePost, SlavePostFragment, ReadErrors
  <1>6. CASE SoEReadRequest \/ SoEReadData \/ SoEReadNothing \/ SoEBadResponse
    BY <1>2, <1>3, <1>6, Zenon DEF SoEReadRequest, SoEReadData, SoEReadNothing, SoEBadResponse
  <1>7. CASE SoEWriteRequest \/ SoEWriteEmpty \/ SoEWriteDone \/ SoEWriteNothing
    BY <1>2, <1>3, <1>7, Zenon DEF SoEWriteRequest, SoEWriteEmpty, SoEWriteDone, SoEWriteNothing
  <1>8. CASE IpRequest \/ IpResponse \/ EoENothing \/ EOEsend \/ EOErecv
    BY <1>2, <1>3, <1>8, Zenon DEF IpRequest, IpResponse, EoENothing, EOEsend, EOErecv
  <1>9. CASE Begin
    BY <1>2, <1>3, <1>9, Zenon DEF Begin
  <1> QED
    BY <1>4, <1>5, <1>6, <1>7, <1>8, <1>9 DEF ServicesNext

\* The frames that have been begun change only with a fragment.
LEMMA SentKept ==
  ASSUME ClientsOK, [ServicesNext]_allvars
  PROVE  SlavePostFragment \/ (slave'.sent = slave.sent /\ slave'.no = slave.no)
  <1>1. slave = [queue |-> slave.queue, stored |-> slave.stored, ip |-> slave.ip, sent |-> slave.sent, no |-> slave.no]
    BY DEF ClientsOK, SlaveOK
  <1>2. CASE slave' = slave
    BY <1>2
  <1>3. CASE Begin
    <2>1. slave' = [slave EXCEPT !.stored = <<>>]
      BY <1>3 DEF Begin
    <2> QED
      BY <1>1, <2>1
  <1>4. CASE SlaveTake
    BY <1>4, TakeChanges
  <1>5. CASE SlavePost
    <2>1. PICK q : slave' = [slave EXCEPT !.queue = q]
      BY <1>5, Zenon DEF SlavePost
    <2> QED
      BY <1>1, <2>1
  <1> QED
    BY <1>2, <1>3, <1>4, <1>5, SlaveKept

\* The slave posts the first fragment of a frame, or the next one.
LEMMA FragmentIsNext ==
  ASSUME ClientsOK, FramesInv, SlavePostFragment
  PROVE  /\ out = NoMessage /\ UNCHANGED <<pc, call, losses, hook, rx, frame>>
         /\ \E f \in Frames :
               /\ \/ slave.no > 0 /\ slave'.sent = slave.sent /\ f = slave.sent[Len(slave.sent)]
                  \/ slave.no = 0 /\ slave'.sent = Append(slave.sent, f)
               /\ out' = Fragment(Len(slave'.sent), f.size, f.total, slave.no)
               /\ slave'.no = IF out'.last THEN 0 ELSE slave.no + 1
  <1>1. slave = [queue |-> slave.queue, stored |-> slave.stored, ip |-> slave.ip, sent |-> slave.sent, no |-> slave.no]
    BY DEF ClientsOK, SlaveOK
  <1>2. /\ slave.no \in Nat /\ \A k \in 1 .. Len(slave.sent) : slave.sent[k] \in Frames
        /\ slave.no > 0 => Len(slave.sent) > 0
        /\ Len(slave.sent) \in Nat
    BY LenProperties DEF FramesInv, SentOK, IsSeq
  <1>3. PICK f \in IF slave.no > 0 THEN {slave.sent[Len(slave.sent)]}
                  ELSE IF Len(slave.sent) < MaxFrames THEN Frames ELSE {} :
             LET s == IF slave.no > 0 THEN slave.sent ELSE Append(slave.sent, f)
                 m == Fragment(Len(s), f.size, f.total, slave.no)
             IN  /\ out' = m
                 /\ slave' = [slave EXCEPT !.sent = s, !.no = IF m.last THEN 0 ELSE @ + 1]
    BY Zenon DEF SlavePostFragment
  <1> DEFINE s == IF slave.no > 0 THEN slave.sent ELSE Append(slave.sent, f)
             m == Fragment(Len(s), f.size, f.total, slave.no)
             n == IF m.last THEN 0 ELSE slave.no + 1
  <1>4. f \in Frames
    <2>1. CASE slave.no > 0
      BY <1>2, <1>3, <2>1
    <2>2. CASE ~(slave.no > 0)
      BY <1>3, <2>2
    <2> QED
      BY <2>1, <2>2
  <1>5. out' = m /\ slave'.sent = s /\ slave'.no = n
    <2>1. out' = m /\ slave' = [slave EXCEPT !.sent = s, !.no = n]
      BY <1>3, Zenon
    <2> HIDE DEF n, m, s
    <2> QED
      BY <1>1, <2>1
  <1>6. \/ slave.no > 0 /\ slave'.sent = slave.sent /\ f = slave.sent[Len(slave.sent)]
        \/ slave.no = 0 /\ slave'.sent = Append(slave.sent, f)
    <2>1. CASE slave.no > 0
      <3>1. f = slave.sent[Len(slave.sent)]
        BY <1>3, <2>1
      <3> QED
        BY <1>5, <2>1, <3>1
    <2>2. CASE ~(slave.no > 0)
      BY <1>2, <1>5, <2>2
    <2> QED
      BY <2>1, <2>2
  <1>7. out = NoMessage /\ UNCHANGED <<pc, call, losses, hook, rx, frame>>
    BY DEF SlavePostFragment, calls, frames, fates
  <1>8. out' = Fragment(Len(slave'.sent), f.size, f.total, slave.no)
    <2> HIDE DEF s
    <2> QED
      BY <1>5
  <1>9. slave'.no = IF out'.last THEN 0 ELSE slave.no + 1
    <2> HIDE DEF m
    <2> QED
      BY <1>5
  <1> QED
    BY <1>4, <1>6, <1>7, <1>8, <1>9, Zenon

\* A fragment that is posted.
LEMMA FramesPosted ==
  ASSUME ClientsOK, FramesInv, SlavePostFragment
  PROVE  FramesInv'
  <1> DEFINE s == slave.sent
             t == slave'.sent
             p == Len(t)
  <1>1. out = NoMessage /\ UNCHANGED <<pc, call, losses, hook, rx, frame>>
    BY FragmentIsNext
  <1>2. PICK f \in Frames :
           /\ \/ slave.no > 0 /\ slave'.sent = slave.sent /\ f = slave.sent[Len(slave.sent)]
              \/ slave.no = 0 /\ slave'.sent = Append(slave.sent, f)
           /\ out' = Fragment(Len(slave'.sent), f.size, f.total, slave.no)
           /\ slave'.no = IF out'.last THEN 0 ELSE slave.no + 1
    BY FragmentIsNext
  <1>3. /\ IsSeq(s) /\ (\A k \in 1 .. Len(s) : s[k] \in Frames) /\ slave.no \in Nat
        /\ slave.no > 0 => Len(s) > 0 /\ slave.no * Chunk < s[Len(s)].total
        /\ losses \in Nat /\ losses <= MaxLosses /\ Len(s) \in Nat
    BY LenProperties DEF FramesInv, SentOK, IsSeq
  <1>4. /\ IsSeq(t) /\ p \in Nat \ {0} /\ t[p] = f
        /\ \A k \in 1 .. Len(s) : t[k] = s[k]
        /\ \/ slave.no > 0 /\ t = s /\ p = Len(s)
           \/ slave.no = 0 /\ p = Len(s) + 1
    <2>1. CASE slave.no > 0
      <3>1. t = s /\ f = s[Len(s)]
        BY <1>2, <2>1
      <3> QED
        BY <1>3, <2>1, <3>1
    <2>2. CASE ~(slave.no > 0)
      <3>1. slave.no = 0 /\ t = Append(s, f)
        BY <1>2, <2>2
      <3>2. /\ IsSeq(Append(s, f)) /\ Len(Append(s, f)) = Len(s) + 1
            /\ \A k \in 1 .. Len(s) : Append(s, f)[k] = s[k]
            /\ Append(s, f)[Len(s) + 1] = f
        BY <1>3, AppendMore
      <3> HIDE DEF s, t
      <3> QED
        BY <1>3, <3>1, <3>2
    <2> QED
      BY <2>1, <2>2
  <1>5. slave.no * Chunk < f.total
    <2>1. CASE slave.no > 0
      BY <1>2, <1>3, <2>1
    <2>2. CASE ~(slave.no > 0)
      <3>1. slave.no = 0 /\ 0 * Chunk = 0
        BY <1>2, <2>2, ChunkType
      <3>2. f.total > 0 /\ f.total \in Nat
        BY FrameSizes
      <3> QED
        BY <3>1, <3>2
    <2> QED
      BY <2>1, <2>2
  <1> DEFINE m == out'
  <1>6. PieceOf(m, f, p, slave.no)
    BY <1>2, <1>3, <1>5, SlaveFragment
  <1>7. m.kind = "EOE_FRAG" /\ (~m.last => (slave.no + 1) * Chunk < f.total)
    BY <1>6, Zenon DEF PieceOf
  <1>8. slave'.no \in Nat /\ (slave'.no > 0 => slave'.no * Chunk < f.total)
    <2>1. CASE m.last
      BY <1>2, <2>1
    <2>2. CASE ~m.last
      BY <1>2, <1>3, <1>7, <2>2
    <2> QED
      BY <2>1, <2>2
  <1>9. SentOK'
    <2>1. ASSUME NEW k \in 1 .. p PROVE t[k] \in Frames
      <3>1. k \in 1 .. Len(s) \/ k = p
        BY <1>3, <1>4
      <3> QED
        BY <1>3, <1>4, <3>1
    <2> HIDE DEF s, m
    <2>2. losses' \in Nat /\ losses' <= MaxLosses
      BY <1>1, <1>3
    <2>3. slave'.no > 0 => p > 0 /\ slave'.no * Chunk < t[p].total
      BY <1>4, <1>8
    <2> QED
      BY <1>4, <1>8, <2>1, <2>2, <2>3 DEF SentOK
  <1>10. PostedOK'
    <2>1. /\ out' = Fragment(Len(slave'.sent), slave'.sent[Len(slave'.sent)].size,
                               slave'.sent[Len(slave'.sent)].total, slave.no)
          /\ slave.no * Chunk < slave'.sent[Len(slave'.sent)].total
      BY <1>2, <1>4, <1>5
    <2>2. Len(slave'.sent) > 0
      BY <1>4
    <2> QED
      BY <1>2, <1>3, <2>1, <2>2 DEF PostedOK, IsAt
  <1>11. RxInv'
    <2>1. SameRecord(rx') /\ rx'.no \in Nat
      BY <1>1 DEF FramesInv, RxInv
    <2>2. ASSUME Reassembling', rx'.no > 0
          PROVE  \E g \in 1 .. p : Amid(rx', t, g) /\ Missing(g)'
      <3>1. Reassembling
        BY <1>1, <2>2 DEF Reassembling
      <3>2. PICK g \in 1 .. Len(s) : Amid(rx, s, g) /\ Missing(g)
        BY <1>1, <2>2, <3>1 DEF FramesInv, RxInv
      <3>3. g \in 1 .. p /\ t[g] = s[g]
        BY <1>3, <1>4, <3>2
      <3>4. Amid(rx', t, g)
        <4> HIDE DEF s, t
        <4>1. Amid(rx, s, g)
          BY <3>2
        <4> QED
          BY <1>1, <3>3, <4>1 DEF Amid
      <3>5. losses >= Len(s) - g /\ (slave.no = 0 /\ ~IsFragment(out) => losses > Len(s) - g)
        BY <3>2 DEF Missing
      <3>6. losses' >= p - g
        <4>1. CASE slave.no > 0
          BY <1>1, <1>4, <3>5, <4>1
        <4>2. CASE slave.no = 0
          <5>1. ~IsFragment(out)
            BY <1>1 DEF NoMessage, IsFragment
          <5>2. p = Len(s) + 1 /\ losses > Len(s) - g
            BY <1>4, <3>5, <4>2, <5>1
          <5> QED
            BY <1>1, <1>3, <3>2, <5>2
        <4> QED
          BY <1>3, <4>1, <4>2
      <3>7. IsFragment(out')
        BY <1>7 DEF IsFragment
      <3>8. Missing(g)'
        BY <3>6, <3>7 DEF Missing
      <3> QED
        BY <3>3, <3>4, <3>8
    <2> QED
      BY <2>1, <2>2 DEF RxInv
  <1>12. FrameInv'
    <2>1. CASE frame = NoFrame
      BY <1>1, <2>1 DEF FrameInv
    <2>2. CASE frame # NoFrame
      <3>1. frame.of \in 1 .. Len(s) /\ Complete(s, frame.of, frame.data, frame.size)
        BY <2>2 DEF FramesInv, FrameInv
      <3>2. t[frame.of] = s[frame.of] /\ frame.of \in 1 .. p
        BY <1>3, <1>4, <3>1
      <3>3. /\ frame'.of \in 1 .. Len(slave'.sent)
            /\ slave'.sent[frame'.of] = slave.sent[frame'.of]
            /\ Complete(slave.sent, frame'.of, frame'.data, frame'.size)
        BY <1>1, <3>1, <3>2
      <3> QED
        BY <1>1, <3>3 DEF FrameInv, Complete, Overfull
    <2> QED
      BY <2>1, <2>2
  <1> QED
    BY <1>9, <1>10, <1>11, <1>12 DEF FramesInv

\* A step that keeps the reassembly and the mailbox of the slave's messages, or empties the latter with

\* no fragment in it.
LEMMA FramesQuiet ==
  ASSUME ClientsOK, FramesInv, [ServicesNext]_allvars, UNCHANGED frames,
         ~SlavePostFragment, Reassembling' => Reassembling,
         out' = out \/ (~IsFragment(out) /\ ~IsFragment(out'))
  PROVE  FramesInv'
  <1>1. slave'.sent = slave.sent /\ slave'.no = slave.no
    BY SentKept
  <1>2. losses' \in Nat /\ losses' >= losses /\ losses' <= MaxLosses
    BY LossesStep DEF FramesInv, SentOK
  <1>3. IsFragment(out') => out' = out
    OBVIOUS
  <1>4. IsFragment(out) => IsFragment(out')
    BY DEF IsFragment
  <1> QED
    BY <1>1, <1>2, <1>3, <1>4, FramesLeft

\* A receive that ends with nothing.
LEMMA FramesMissed ==
  ASSUME ClientsOK, FramesInv, [ServicesNext]_allvars, ReceiveNothing, call' = call
  PROVE  FramesInv'
  <1>1. /\ slave' = slave /\ UNCHANGED frames /\ hook' = hook /\ pc = "response"
        /\ out' = NoMessage \/ out' = out
        /\ Lost \/ out = NoMessage
    BY DEF ReceiveNothing, frames
  <1>2. losses' \in Nat /\ losses' >= losses /\ losses' <= MaxLosses
    BY LossesStep DEF FramesInv, SentOK
  <1>3. Reassembling' => Reassembling
    BY <1>1 DEF Reassembling
  <1>4. IsFragment(out') => out' = out
    BY <1>1 DEF IsFragment, NoMessage
  <1>5. IsFragment(out) => losses' > losses
    <2>1. Lost => losses' > losses
      BY DEF Lost, FramesInv, SentOK
    <2>2. out = NoMessage => ~IsFragment(out)
      BY DEF IsFragment, NoMessage
    <2> QED
      BY <1>1, <2>1, <2>2
  <1> QED
    BY <1>1, <1>2, <1>3, <1>4, <1>5, FramesLeft

\* A receive of a message that is the caller's, and not a part of a frame that is reassembled.
LEMMA FramesTaken ==
  ASSUME ClientsOK, FramesInv, [ServicesNext]_allvars, Receive, call.op # "RECV", call' = call, UNCHANGED frames
  PROVE  FramesInv'
  <1>1. /\ hook' = hook /\ pc = "response" /\ slave' = slave
        /\ out' = NoMessage \/ out' = out
        /\ ~(hook /\ IsFragment(out))
    BY DEF Receive, Read, Handled, frames
  <1>2. losses' \in Nat /\ losses' >= losses /\ losses' <= MaxLosses
    BY LossesStep DEF FramesInv, SentOK
  <1>3. Reassembling' => Reassembling /\ hook
    BY <1>1 DEF Reassembling
  <1>4. IsFragment(out') => out' = out
    BY <1>1 DEF IsFragment, NoMessage
  <1> QED
    BY <1>1, <1>2, <1>3, <1>4, FramesLeft

\* A message that ecx_mbxreceive deals with itself.
LEMMA FramesHandled ==
  ASSUME FramesAssumption, ClientsOK, FramesInv, [ServicesNext]_allvars, Handled(out), Handle(out),
         Reassembling' => Reassembling,
         slave'.sent = slave.sent, slave'.no = slave.no,
         out' = out \/ out' = NoMessage
  PROVE  FramesInv'
  <1>1. losses' \in Nat /\ losses' >= losses /\ losses' <= MaxLosses
    BY LossesStep DEF FramesInv, SentOK
  <1>2. CASE IsFragment(out)
    <2>1. hook /\ Hook(out) /\ hook' = hook
      BY <1>2 DEF Handled, Handle, IsFragment
    <2> QED
      BY <1>1, <1>2, <2>1, FramesHooked
  <1>3. CASE ~IsFragment(out)
    <2>1. UNCHANGED frames
      BY <1>3 DEF Handle
    <2>2. ~IsFragment(out')
      BY <1>3 DEF IsFragment, NoMessage
    <2> QED
      BY <1>1, <1>3, <2>1, <2>2, FramesLeft
  <1> QED
    BY <1>2, <1>3

\* A call begins.
LEMMA FramesBegun ==
  ASSUME FramesAssumption, ClientsOK, FramesInv, [ServicesNext]_allvars, Begin
  PROVE  FramesInv'
  <1>1. slave'.sent = slave.sent /\ slave'.no = slave.no
    <2>1. slave' = [slave EXCEPT !.stored = <<>>]
      BY DEF Begin
    <2>2. slave = [queue |-> slave.queue, stored |-> slave.stored, ip |-> slave.ip, sent |-> slave.sent,
                   no |-> slave.no]
      BY DEF ClientsOK, SlaveOK
    <2> QED
      BY <2>1, <2>2
  <1>2. losses' \in Nat /\ losses' >= losses /\ losses' <= MaxLosses
    BY LossesStep DEF FramesInv, SentOK
  <1>3. /\ pc' = CASE call'.op = "RECV" -> "response" [] call'.op = "POLL" -> "idle" [] OTHER -> "request"
        /\ IF call'.op \notin {"SEND", "RECV"} /\ out # NoMessage
             THEN /\ out' = NoMessage
                  /\ \/ Handled(out) /\ Handle(out) /\ UNCHANGED losses
                     \/ ~Handled(out) /\ UNCHANGED <<frames, vars, losses>>
                     \/ Lost /\ UNCHANGED <<frames, vars>>
             ELSE /\ rx' = IF call'.op = "RECV" THEN NewFrame ELSE rx
                  /\ UNCHANGED <<out, hook, frame, vars, losses>>
    BY Zenon DEF Begin
  <1>4. CASE call'.op \notin {"SEND", "RECV"} /\ out # NoMessage
    <2>1. out' = NoMessage
      BY <1>3, <1>4
    <2>2. ~IsFragment(out')
      BY <2>1 DEF IsFragment, NoMessage
    <2>3. Reassembling' => hook'
      BY <1>4 DEF Reassembling
    <2>4. CASE Handled(out) /\ Handle(out)
      <3>1. hook' = hook
        BY <2>4 DEF Handle, frames
      <3> QED
        BY <1>1, <2>1, <2>3, <2>4, <3>1, FramesHandled DEF Reassembling
    <2>5. CASE ~Handled(out) /\ UNCHANGED frames
      <3>1. hook' = hook /\ ~(hook /\ IsFragment(out))
        BY <2>5 DEF Handled, frames
      <3>2. Reassembling' => Reassembling /\ hook
        BY <2>3, <3>1 DEF Reassembling
      <3> QED
        BY <1>1, <1>2, <2>2, <2>5, <3>1, <3>2, FramesLeft
    <2>6. CASE Lost /\ UNCHANGED frames
      <3>1. hook' = hook
        BY <2>6 DEF frames
      <3>2. Reassembling' => Reassembling
        BY <2>3, <3>1 DEF Reassembling
      <3>3. losses' > losses
        BY <2>6 DEF Lost, FramesInv, SentOK
      <3> QED
        BY <1>1, <1>2, <2>2, <2>6, <3>2, <3>3, FramesLeft
    <2> QED
      BY <1>3, <1>4, <2>4, <2>5, <2>6
  <1>5. CASE ~(call'.op \notin {"SEND", "RECV"} /\ out # NoMessage) /\ call'.op # "RECV"
    <2>1. UNCHANGED <<out, hook, rx, frame, losses>>
      BY <1>3, <1>5
    <2>2. Reassembling' => Reassembling
      BY <1>5, <2>1 DEF Reassembling
    <2> QED
      BY <1>1, <1>2, <2>1, <2>2, FramesLeft DEF frames, IsFragment
  <1>6. CASE call'.op = "RECV"
    <2>1. rx' = NewFrame /\ UNCHANGED <<out, hook, frame, losses>>
      BY <1>3, <1>6
    <2>2. SameRecord(rx') /\ rx'.no = 0
      BY <2>1, BegunIs
    <2>3. SentOK'
      BY <1>1, <1>2 DEF FramesInv, SentOK
    <2>4. PostedOK'
      BY <1>1, <2>1 DEF FramesInv, PostedOK, IsAt, IsFragment
    <2>5. RxInv'
      BY <2>2 DEF RxInv
    <2>6. FrameInv'
      BY <1>1, <2>1 DEF FramesInv, FrameInv, Complete, Overfull
    <2> QED
      BY <2>3, <2>4, <2>5, <2>6 DEF FramesInv
  <1> QED
    BY <1>4, <1>5, <1>6

\* Every step.
LEMMA FramesStep ==
  ASSUME FramesAssumption, ClientsOK, FramesInv, [ServicesNext]_allvars
  PROVE  FramesInv'
  <1>1. CASE SlavePostFragment
    BY <1>1, FramesPosted
  <1>2. CASE Begin
    BY <1>2, FramesBegun
  <1>3. CASE ReceiveHandled
    <2>1. /\ Handled(out) /\ Handle(out) /\ slave' = slave /\ UNCHANGED <<pc, call, hook>>
          /\ out' = out \/ out' = NoMessage
      BY <1>3 DEF ReceiveHandled, Read, Handle, Hook, calls, frames
    <2> QED
      BY <2>1, FramesHandled DEF Reassembling
  <1>4. CASE SoEReadNothing \/ SoEWriteNothing \/ EoENothing
    <2>1. ReceiveNothing /\ call' = call
      BY <1>4 DEF SoEReadNothing, SoEWriteNothing, EoENothing
    <2> QED
      BY <2>1, FramesMissed
  <1>5. CASE SoEReadData \/ SoEBadResponse \/ SoEWriteDone \/ IpResponse
    <2>1. Receive /\ call.op # "RECV" /\ call' = call /\ UNCHANGED frames
      BY <1>5 DEF SoEReadData, SoEBadResponse, SoEWriteDone, IpResponse
    <2> QED
      BY <2>1, FramesTaken
  <1>6. CASE EOErecv
    <2>1. losses' \in Nat /\ losses' >= losses /\ losses' <= MaxLosses
      BY LossesStep DEF FramesInv, SentOK
    <2> QED
      BY <1>6, <2>1, FramesReceived
  <1>7. ASSUME ~SlavePostFragment, UNCHANGED <<call, frames>>, out' = out, pc' = "response" => pc = "response" \/ call.op # "RECV"
        PROVE  FramesInv'
    <2>1. Reassembling' => Reassembling
      BY <1>7 DEF Reassembling, frames
    <2> QED
      BY <1>7, <2>1, FramesQuiet
  <1>8. ASSUME ~SlavePostFragment PROVE FramesInv' \/ ServicesNext
    <2>1. CASE UNCHANGED allvars
      BY <1>7, <1>8, <2>1 DEF allvars, calls
    <2> QED
      BY <2>1
  <1>9. ASSUME SoEReadRequest \/ SoEWriteRequest \/ SoEWriteEmpty \/ IpRequest \/ EOEsend \/ SlaveTake \/ ReadErrors,
               ~SlavePostFragment
        PROVE  FramesInv'
    <2>1. pc = "request" => call.op # "RECV"
      BY DEF ClientsOK, PlacesOK
    <2>2. pc = "empty" => call.op # "RECV"
      BY DEF ClientsOK, PlacesOK
    <2>3. CASE SoEReadRequest \/ IpRequest
      <3>1. UNCHANGED <<call, frames>> /\ out' = out /\ pc = "request"
        BY <2>3 DEF SoEReadRequest, IpRequest, SendRequest
      <3> QED
        BY <1>7, <1>9, <2>1, <3>1
    <2>4. CASE SoEWriteRequest \/ EOEsend
      <3>1. UNCHANGED <<call, frames>> /\ out' = out /\ pc = "request"
        BY <2>4, Zenon DEF SoEWriteRequest, EOEsend
      <3> QED
        BY <1>7, <1>9, <2>1, <3>1
    <2>5. CASE SoEWriteEmpty
      <3>1. UNCHANGED <<call, frames>> /\ out' = out /\ pc = "empty"
        BY <2>5 DEF SoEWriteEmpty
      <3> QED
        BY <1>7, <1>9, <2>2, <3>1
    <2>6. CASE SlaveTake \/ ReadErrors
      <3>1. UNCHANGED <<pc, call, frames>> /\ out' = out
        BY <2>6 DEF SlaveTake, ReadErrors, calls
      <3> QED
        BY <1>7, <1>9, <3>1
    <2> QED
      BY <1>9, <2>3, <2>4, <2>5, <2>6
  <1>10. ASSUME SlavePost, ~SlavePostFragment PROVE FramesInv'
    <2>1. UNCHANGED <<pc, call, frames>> /\ out = NoMessage /\ out'.kind \in AnswerKinds
      BY <1>10, QueueLess DEF SlavePost, ClientsOK, SlaveOK, calls
    <2>2. ~IsFragment(out) /\ ~IsFragment(out')
      BY <2>1 DEF IsFragment, NoMessage, AnswerKinds
    <2>3. Reassembling' => Reassembling
      BY <2>1 DEF Reassembling, frames
    <2> QED
      BY <1>10, <2>1, <2>2, <2>3, FramesQuiet
  <1> QED
    BY <1>1, <1>2, <1>3, <1>4, <1>5, <1>6, <1>8, <1>9, <1>10, Zenon DEF ServicesNext

\* An Ethernet frame that a reassembly completes is one the slave has sent, whole, in order and of its

\* size, as long as fewer mailbox calls fail than there are frame numbers.
THEOREM FramesAreWhole == ASSUME FramesAssumption PROVE ServicesSpec => []FrameWhole
  <1> DEFINE I == ClientsOK /\ FramesInv
  <1>1. ServicesInit => I
    BY ClientsStart, FramesStart
  <1>2. I /\ [ServicesNext]_allvars => I'
    BY ClientsStep, FramesStep
  <1>3. I => FrameWhole
    <2> SUFFICES ASSUME FrameInv, frame # NoFrame, ~Overfull(slave.sent[frame.of])
                 PROVE  /\ Holds(frame.data, frame.of, slave.sent[frame.of].total)
                        /\ frame.size = slave.sent[frame.of].size
      BY Zenon DEF FramesInv, FrameWhole
    <2>1. Filled(frame.data, frame.of, slave.sent[frame.of].total) /\ frame.size = slave.sent[frame.of].size
      BY DEF FrameInv, Complete
    <2> QED
      BY <2>1, FilledHolds
  <1> QED
    BY <1>1, <1>2, <1>3, PTL DEF ServicesSpec

================================================================================
