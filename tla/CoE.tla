--------------------------------- MODULE CoE ---------------------------------
(***************************************************************************)
(* The CoE service data transfers, ecx_SDOread and ecx_SDOwrite of         *)
(* ethercatcoe.c: expedited, in one frame, and in segments; and the        *)
(* process data over the mailbox, ecx_RxPDO and ecx_TxPDO.                 *)
(*                                                                         *)
(* The mailbox calls are taken at their word (module Mailbox): a send puts *)
(* the message in the slave's mailbox or fails, and a send that fails may  *)
(* have put it there; a receive returns a message, or nothing because the  *)
(* answer is late, or nothing because the message was read and lost.  The  *)
(* mailbox counter is Mailbox's matter.  The slave is external: it answers *)
(* every request in order, checks toggle bits and announced sizes as the   *)
(* protocol asks, and may abort any transfer.                              *)
(*                                                                         *)
(* Data: a piece of data is [call, from, len], len bytes from an offset of *)
(* the value that a call reads or writes.                                  *)
(***************************************************************************)
EXTENDS Integers, Sequences

CONSTANTS
    Objects,     \* the slave's objects that are read: [index, sub, size]
    Pdos,        \* the slave's PDOs: [index, sub, size], index the number and sub not used
    WriteSizes,  \* sizes of the values that are written
    Buffers,     \* sizes of the buffers for reading
    maxdata,     \* slavelist[slave].mbx_l - 0x10: bytes in the first frame
    Width,       \* 2^16: values of the uint16 framedatasize
    MaxCalls,    \* bound: calls
    MaxLosses    \* bound: mailbox calls that fail

ASSUME CoEAssumption ==
    /\ \A o \in Objects \cup Pdos : o.size \in Nat \ {0}
    /\ \A o \in Pdos : o.size <= maxdata + 8
    /\ \A o, p \in Objects : o.index = p.index /\ o.sub = p.sub => o = p
    /\ \A o, p \in Pdos : o.index = p.index => o = p
    /\ WriteSizes \subseteq Nat \ {0} /\ Buffers \subseteq Nat
    /\ maxdata \in Nat \ {0} /\ Width \in Nat /\ Width > maxdata + 7
    /\ MaxCalls \in Nat /\ MaxLosses \in Nat

VARIABLES
    pc,       \* idle | request | response | segment | segresponse
    call,     \* the current or last call: [n, op, obj, size], size that of the buffer or the value
    hp,       \* bytes copied from or to the caller's memory
    data,     \* read: the pieces in the buffer
    toggle, NotLast,  \* locals of the segment loops
    wkc,      \* how the call ended: ok | none | error
    in, out,  \* the slave's mailboxes
    slave,    \* external: [op, call, obj, size, pieces, at, toggle, done, queue]
    losses,   \* failed mailbox calls so far
    stale,    \* the call began with a message of an earlier call under way
    missed,   \* a receive of the call returned nothing, or a send reported as failed arrived
    lost      \* a message to the call was read and lost

locals == <<call, hp, data, toggle, NotLast>>
vars == <<pc, locals, wkc, in, out, slave, losses, stale, missed, lost>>

None == [kind |-> "none", index |-> 0, sub |-> 0, size |-> 0,
         call |-> 0, from |-> 0, len |-> 0, unused |-> 0, last |-> FALSE, toggle |-> 0]
\* The fields of an SDO frame that name an object.
Sdo(k, o) == [None EXCEPT !.kind = k, !.index = o.index, !.sub = o.sub]
\* A frame with len bytes of a value from an offset, and the size of the value.
Carrying(m, n, from, len, size) ==
    [m EXCEPT !.call = n, !.from = from, !.len = len, !.size = size]
\* A segment: the last one has at least 7 bytes, and says how many of them are unused.
Segment(k, n, from, len, last, t) ==
    LET short == last /\ len < 7 IN
    [Carrying([None EXCEPT !.kind = k], n, from, IF short THEN 7 ELSE len, 0)
        EXCEPT !.unused = IF short THEN 7 - len ELSE 0, !.last = last, !.toggle = t]

Least(a, b) == IF a < b THEN a ELSE b
Piece(m, len) == [call |-> m.call, from |-> m.from, len |-> len]

Init ==
    /\ pc = "idle"
    /\ call \in [n : {0}, op : {"READ"}, obj : Objects, size : {0}]
    /\ hp = 0 /\ data = <<>> /\ toggle = 0 /\ NotLast = FALSE
    /\ wkc = "none"
    /\ in = None /\ out = None
    /\ slave = [op |-> "none", call |-> 0, obj |-> call.obj, size |-> 0, pieces |-> <<>>,
                at |-> 0, toggle |-> 0, done |-> FALSE, queue |-> <<>>]
    /\ losses = 0
    /\ stale = FALSE /\ missed = FALSE /\ lost = FALSE

-----------------------------------------------------------------------------
(* Both calls                                                              *)

\* The call begins: what is in the slave's out mailbox is taken out, unless that read fails.
Begin ==
    /\ pc = "idle"
    /\ call.n < MaxCalls
    /\ call' \in [n : {call.n + 1}, op : {"READ"}, obj : Objects, size : Buffers] \cup
                 [n : {call.n + 1}, op : {"WRITE"}, obj : Objects, size : WriteSizes] \cup
                 [n : {call.n + 1}, op : {"TXPDO"}, obj : Pdos, size : Buffers] \cup
                 [n : {call.n + 1}, op : {"RXPDO"}, obj : Pdos, size : WriteSizes]
    /\ pc' = "request"
    /\ hp' = 0 /\ data' = <<>> /\ toggle' = 0 /\ NotLast' = FALSE
    /\ wkc' = "none"
    /\ out' \in {None, out}
    /\ stale' = (in # None \/ out' # None \/ slave.queue # <<>>)
    /\ missed' = FALSE /\ lost' = FALSE
    /\ UNCHANGED <<in, slave, losses>>

Return(w) == pc' = "idle" /\ wkc' = w

\* ecx_mbxsend of m.
Sent(m) == in = None /\ in' = m /\ UNCHANGED <<losses, missed>>
NotSent(m) ==
    /\ losses < MaxLosses
    /\ losses' = losses + 1
    /\ \/ UNCHANGED <<in, missed>>
       \/ in = None /\ in' = m /\ missed' = TRUE

\* ecx_mbxreceive takes the message that is there, or returns nothing.
Receive(kinds) ==
    /\ out.kind \in kinds
    /\ out' = None
    /\ UNCHANGED <<in, slave, losses, stale, missed, lost>>
ReceiveNothing ==
    /\ losses < MaxLosses
    /\ losses' = losses + 1
    /\ missed' = TRUE
    /\ \/ UNCHANGED <<out, lost>>
       \/ out # None /\ out' = None /\ lost' = TRUE
    /\ UNCHANGED <<in, slave, stale>>

\* The answers an SDO request may have that name an object, and those that do not or are of
\* another service.
Responses == {"UP_EXP", "UP", "DOWN"}
Unnamed == {"SEG_UP", "SEG_DOWN", "ABORT", "TXPDO", "LIST", "DESC", "ENTRY"}

\* No answer to the first request: the call fails.
NoResponse ==
    /\ pc = "response"
    /\ ReceiveNothing
    /\ Return("none")
    /\ UNCHANGED locals

-----------------------------------------------------------------------------
(* ecx_SDOread                                                             *)

ReadRequest ==
    /\ pc = "request" /\ call.op = "READ"
    /\ LET m == [Sdo("UP_REQ", call.obj) EXCEPT !.call = call.n] IN
        \/ Sent(m) /\ pc' = "response" /\ UNCHANGED wkc
        \/ NotSent(m) /\ Return("none")
    /\ UNCHANGED <<locals, out, slave, stale, lost>>

\* Mutant: the size is not compared with the buffer's.
Fits_Always(size) == TRUE

\* A value of this size fits in the parameter buffer.
Fits(size) == size <= call.size

\* The index is the one asked for; the subindex is not compared.
ReadMatches == out.index = call.obj.index

\* The whole value in one frame, expedited or normal, or a value too large for the buffer.
ReadResponse ==
    /\ pc = "response" /\ call.op = "READ"
    /\ Receive({"UP_EXP", "UP"}) /\ ReadMatches
    /\ IF Fits(out.size)
         THEN /\ data' = <<Piece(out, out.len)>>
              /\ hp' = out.len
              /\ NotLast' = (out.kind = "UP" /\ out.len < out.size)
              /\ IF NotLast' THEN pc' = "segment" /\ UNCHANGED wkc ELSE Return("ok")
         ELSE /\ Return("error")
              /\ UNCHANGED <<data, hp, NotLast>>
    /\ UNCHANGED <<call, toggle>>

\* A download response of an earlier call has the size field of an empty value.
ReadDownResponse ==
    /\ pc = "response" /\ call.op = "READ"
    /\ Receive({"DOWN"}) /\ ReadMatches
    /\ Return("ok")
    /\ UNCHANGED locals

ReadBadResponse ==
    /\ pc = "response" /\ call.op = "READ"
    /\ Receive(Unnamed) \/ (Receive(Responses) /\ ~ReadMatches)
    /\ Return("error")
    /\ UNCHANGED locals

\* The request for the next segment; when it fails the next one is tried, with the other toggle.
ReadSegmentRequest ==
    /\ pc = "segment" /\ call.op = "READ"
    /\ LET m == [None EXCEPT !.kind = "SEG_UP_REQ", !.toggle = toggle] IN
        \/ Sent(m) /\ pc' = "segresponse" /\ UNCHANGED toggle
        \/ NotSent(m) /\ toggle' = 1 - toggle /\ UNCHANGED pc
    /\ UNCHANGED <<call, hp, data, NotLast, wkc, out, slave, stale, lost>>

\* Mutant: the unused bytes of a short last segment are copied too.
DataIn_Padded(m) == m.len

\* Bytes of data in a segment.
DataIn(m) == IF m.last /\ m.len = 7 THEN m.len - m.unused ELSE m.len

ReadSegment ==
    /\ pc = "segresponse" /\ call.op = "READ"
    /\ Receive({"SEG_UP"})
    /\ data' = Append(data, Piece(out, DataIn(out)))
    /\ hp' = hp + DataIn(out)
    /\ NotLast' = ~out.last
    /\ toggle' = 1 - toggle
    /\ IF out.last THEN Return("ok") ELSE pc' = "segment" /\ UNCHANGED wkc
    /\ UNCHANGED call

\* Mutant: the loop goes on after an abort.
ReadBadSegment_LoopsOn ==
    /\ pc = "segresponse" /\ call.op = "READ"
    /\ Receive((Responses \cup Unnamed) \ {"SEG_UP"})
    /\ toggle' = 1 - toggle
    /\ pc' = "segment"
    /\ UNCHANGED <<call, hp, data, NotLast, wkc>>

ReadBadSegment ==
    /\ pc = "segresponse" /\ call.op = "READ"
    /\ Receive((Responses \cup Unnamed) \ {"SEG_UP"})
    /\ NotLast' = FALSE
    /\ toggle' = 1 - toggle
    /\ Return("error")
    /\ UNCHANGED <<call, hp, data>>

\* No answer: the loop goes on with the request for the segment after it.
ReadNoSegment ==
    /\ pc = "segresponse" /\ call.op = "READ"
    /\ ReceiveNothing
    /\ toggle' = 1 - toggle
    /\ pc' = "segment"
    /\ UNCHANGED <<call, hp, data, NotLast, wkc>>

-----------------------------------------------------------------------------
(* ecx_SDOwrite                                                            *)

Left == call.size - hp

\* Bytes for the next frame: the rest, taken in 16 bits, or what the frame holds.
FrameData(room) == Least(Left % Width, room)

\* Up to 4 bytes are sent expedited; of more than a frame holds, the first part.
WriteRequest ==
    /\ pc = "request" /\ call.op = "WRITE"
    /\ LET exp == call.size <= 4
           len == IF exp THEN call.size ELSE FrameData(maxdata)
           m == Carrying(Sdo(IF exp THEN "DOWN_EXP_REQ" ELSE "DOWN_REQ", call.obj),
                         call.n, 0, len, call.size)
       IN /\ hp' = len
          /\ NotLast' = (~exp /\ Left % Width > maxdata)
          /\ \/ Sent(m) /\ pc' = "response" /\ UNCHANGED wkc
             \/ NotSent(m) /\ Return("none")
    /\ UNCHANGED <<call, data, toggle, out, slave, stale, lost>>

\* Index and subindex are those of the request; the command is not compared.
WriteMatches == out.index = call.obj.index /\ out.sub = call.obj.sub

WriteResponse ==
    /\ pc = "response" /\ call.op = "WRITE"
    /\ Receive(Responses) /\ WriteMatches
    /\ IF NotLast THEN pc' = "segment" /\ UNCHANGED wkc ELSE Return("ok")
    /\ UNCHANGED locals

WriteBadResponse ==
    /\ pc = "response" /\ call.op = "WRITE"
    /\ Receive(Unnamed) \/ (Receive(Responses) /\ ~WriteMatches)
    /\ Return("error")
    /\ UNCHANGED locals

\* After a segment, its answer or its failure: the next one, or the end.
NextSegment(w) ==
    /\ toggle' = 1 - toggle
    /\ IF NotLast' THEN pc' = "segment" /\ UNCHANGED wkc ELSE Return(w)

\* Mutant: the data pointer stays behind.
WriteSegment_PointerKept ==
    /\ pc = "segment" /\ call.op = "WRITE"
    /\ LET len == FrameData(maxdata + 7)
           m == Segment("SEG_DOWN_REQ", call.n, 0, len, ~NotLast', toggle)
       IN /\ NotLast' = (Left % Width > maxdata + 7)
          /\ hp' = hp + len
          /\ \/ Sent(m) /\ pc' = "segresponse" /\ UNCHANGED <<toggle, wkc>>
             \/ NotSent(m) /\ NextSegment("none")
    /\ UNCHANGED <<call, data, out, slave, stale, lost>>

\* The next segment; one that could not be sent is passed over.
WriteSegment ==
    /\ pc = "segment" /\ call.op = "WRITE"
    /\ LET len == FrameData(maxdata + 7)
           m == Segment("SEG_DOWN_REQ", call.n, hp, len, ~NotLast', toggle)
       IN /\ NotLast' = (Left % Width > maxdata + 7)
          /\ hp' = hp + len
          /\ \/ Sent(m) /\ pc' = "segresponse" /\ UNCHANGED <<toggle, wkc>>
             \/ NotSent(m) /\ NextSegment("none")
    /\ UNCHANGED <<call, data, out, slave, stale, lost>>

WriteSegmentResponse ==
    /\ pc = "segresponse" /\ call.op = "WRITE"
    /\ Receive({"SEG_DOWN"})
    /\ UNCHANGED NotLast
    /\ NextSegment("ok")
    /\ UNCHANGED <<call, hp, data>>

WriteBadSegmentResponse ==
    /\ pc = "segresponse" /\ call.op = "WRITE"
    /\ Receive((Responses \cup Unnamed) \ {"SEG_DOWN"})
    /\ NotLast' = FALSE
    /\ NextSegment("error")
    /\ UNCHANGED <<call, hp, data>>

WriteNoSegmentResponse ==
    /\ pc = "segresponse" /\ call.op = "WRITE"
    /\ ReceiveNothing
    /\ UNCHANGED NotLast
    /\ NextSegment("none")
    /\ UNCHANGED <<call, hp, data>>

-----------------------------------------------------------------------------
(* ecx_RxPDO and ecx_TxPDO                                                 *)

\* The PDO, cut to what the mailbox holds, is sent, and nothing comes back.
RxPDO ==
    /\ pc = "request" /\ call.op = "RXPDO"
    /\ LET len == FrameData(maxdata + 8)
           m == Carrying(Sdo("RXPDO", call.obj), call.n, 0, len, len)
       IN  \/ Sent(m) /\ Return("ok")
           \/ NotSent(m) /\ Return("none")
    /\ UNCHANGED <<locals, out, slave, stale, lost>>

TxPDORequest ==
    /\ pc = "request" /\ call.op = "TXPDO"
    /\ LET m == [Sdo("TXPDO_RR", call.obj) EXCEPT !.call = call.n] IN
        \/ Sent(m) /\ pc' = "response" /\ UNCHANGED wkc
        \/ NotSent(m) /\ Return("none")
    /\ UNCHANGED <<locals, out, slave, stale, lost>>

\* The number of the PDO is not compared.
TxPDOResponse ==
    /\ pc = "response" /\ call.op = "TXPDO"
    /\ Receive({"TXPDO"})
    /\ IF Fits(out.len)
         THEN /\ data' = <<Piece(out, out.len)>> /\ hp' = out.len
              /\ Return("ok")
         ELSE Return("error") /\ UNCHANGED <<data, hp>>
    /\ UNCHANGED <<call, toggle, NotLast>>

TxPDOBadResponse ==
    /\ pc = "response" /\ call.op = "TXPDO"
    /\ Receive((Responses \cup Unnamed) \ {"TXPDO"})
    /\ Return("error")
    /\ UNCHANGED locals

-----------------------------------------------------------------------------
(* The slave                                                               *)

\* The slave takes the request, is then in state s, and answers with m.
Take(s, m) ==
    /\ in' = None
    /\ slave' = [s EXCEPT !.queue = Append(slave.queue, m)]
    /\ UNCHANGED <<pc, locals, wkc, out, losses, stale, missed, lost>>

\* The transfer a first request begins.
Begun(operation, size, at, pieces, done) ==
    [slave EXCEPT !.op = operation, !.call = in.call, !.size = size, !.at = at,
                  !.obj = [index |-> in.index, sub |-> in.sub],
                  !.pieces = pieces, !.toggle = 0, !.done = done]

SlaveUpload ==
    /\ in.kind = "UP_REQ"
    /\ \E o \in Objects :
        /\ o.index = in.index /\ o.sub = in.sub
        /\ LET len == Least(o.size, maxdata) IN
            IF o.size <= 4
              THEN Take(Begun("none", o.size, o.size, <<>>, TRUE),
                        Carrying(Sdo("UP_EXP", o), in.call, 0, o.size, o.size))
              ELSE Take(Begun(IF len < o.size THEN "up" ELSE "none", o.size, len, <<>>, len = o.size),
                        Carrying(Sdo("UP", o), in.call, 0, len, o.size))

SlaveUploadSegment ==
    /\ in.kind = "SEG_UP_REQ" /\ slave.op = "up" /\ in.toggle = slave.toggle
    /\ LET len == Least(slave.size - slave.at, maxdata + 7)
           last == slave.at + len = slave.size
       IN Take([slave EXCEPT !.at = @ + len, !.toggle = 1 - @, !.op = IF last THEN "none" ELSE "up"],
               Segment("SEG_UP", slave.call, slave.at, len, last, in.toggle))

SlaveDownload ==
    /\ in.kind \in {"DOWN_EXP_REQ", "DOWN_REQ"}
    /\ Take(Begun(IF in.len < in.size THEN "down" ELSE "none", in.size, in.len,
                  <<Piece(in, in.len)>>, in.len = in.size),
            Sdo("DOWN", [index |-> in.index, sub |-> in.sub]))

\* The size of the value is known when the last segment has come.
SlaveDownloadSegment ==
    /\ in.kind = "SEG_DOWN_REQ" /\ slave.op = "down" /\ in.toggle = slave.toggle
    /\ ~in.last \/ slave.at + DataIn(in) = slave.size
    /\ Take([slave EXCEPT !.at = @ + DataIn(in), !.toggle = 1 - @, !.done = in.last,
                          !.op = IF in.last THEN "none" ELSE "down",
                          !.pieces = Append(@, Piece(in, DataIn(in)))],
            [None EXCEPT !.kind = "SEG_DOWN", !.toggle = in.toggle])

\* It sends the PDO asked for, and takes one without an answer.
SlaveTxPDO ==
    /\ in.kind = "TXPDO_RR"
    /\ \E o \in Pdos : o.index = in.index /\ Take(slave, Carrying(Sdo("TXPDO", o), in.call, 0, o.size, o.size))

SlaveRxPDO ==
    /\ in.kind = "RXPDO"
    /\ in' = None
    /\ slave' = [slave EXCEPT !.pieces = <<Piece(in, in.len)>>]
    /\ UNCHANGED <<pc, locals, wkc, out, losses, stale, missed, lost>>

\* Wrong toggle, wrong size, no such transfer, or any other reason.
SlaveAbort ==
    /\ in.kind \notin {"none", "RXPDO"}
    /\ Take([slave EXCEPT !.op = "none"], [None EXCEPT !.kind = "ABORT"])

SlaveAnswer ==
    /\ out = None /\ slave.queue # <<>>
    /\ out' = Head(slave.queue)
    /\ slave' = [slave EXCEPT !.queue = Tail(@)]
    /\ UNCHANGED <<pc, locals, wkc, in, losses, stale, missed, lost>>

-----------------------------------------------------------------------------

Master ==
    \/ Begin \/ NoResponse
    \/ ReadRequest \/ ReadResponse \/ ReadDownResponse \/ ReadBadResponse
    \/ ReadSegmentRequest \/ ReadSegment \/ ReadBadSegment \/ ReadNoSegment
    \/ WriteRequest \/ WriteResponse \/ WriteBadResponse
    \/ WriteSegment \/ WriteSegmentResponse \/ WriteBadSegmentResponse \/ WriteNoSegmentResponse
    \/ RxPDO \/ TxPDORequest \/ TxPDOResponse \/ TxPDOBadResponse

Slave ==
    \/ SlaveUpload \/ SlaveUploadSegment \/ SlaveDownload \/ SlaveDownloadSegment
    \/ SlaveTxPDO \/ SlaveRxPDO \/ SlaveAbort \/ SlaveAnswer

Next == Master \/ Slave

Spec == Init /\ [][Next]_vars

\* The calling thread runs, and a slave that is there answers.
FairSpec == Spec /\ WF_vars(Master) /\ WF_vars(Slave)

-----------------------------------------------------------------------------
(* Properties                                                              *)

Ended(o) == pc = "idle" /\ call.n > 0 /\ call.op = o /\ wkc = "ok"

\* The pieces are those of the value of size bytes of this call, whole and in order.
Whole(pieces, size) ==
    /\ pieces # <<>> /\ pieces[1].from = 0
    /\ \A k \in DOMAIN pieces :
        /\ pieces[k].call = call.n
        /\ pieces[k].from + pieces[k].len = IF k < Len(pieces) THEN pieces[k + 1].from ELSE size

\* The locals and messages have their types; no frame of ecx_SDOwrite or of the slave is longer than
\* the mailbox, no more is sent than the caller gave, and a segment is asked for only if one is left.
TypeOK ==
    /\ pc \in {"idle", "request", "response", "segment", "segresponse"}
    /\ call.n \in 0 .. MaxCalls
    /\ hp \in Nat
    /\ call.op = "WRITE" => hp <= call.size
    /\ toggle \in {0, 1} /\ NotLast \in BOOLEAN
    /\ wkc \in {"ok", "none", "error"}
    /\ pc = "segment" => NotLast
    /\ in.len <= maxdata + 8 /\ out.len <= maxdata + 8

\* The value ecx_SDOread reports is the object's, whole and in order, even when requests fail and
\* answers come late so that answers and requests are out of step; no answer may be lost.  Whatever
\* is lost, no more is copied than the buffer holds.  A PDO that ecx_TxPDO reports is the one asked for.
ReadWhole ==
    /\ Ended("READ") /\ ~stale /\ ~lost => Whole(data, call.obj.size)
    /\ call.op \in {"READ", "TXPDO"} /\ ~stale => hp <= call.size
    /\ Ended("TXPDO") /\ ~stale => Whole(data, call.obj.size)

\* "The function will combine all segments and copy them to the parameter buffer": the same, also
\* when an answer is lost.
SegmentsCombined == Ended("READ") /\ ~stale => Whole(data, call.obj.size)

\* A value that ecx_SDOwrite reports as written is in the slave, whole, although segments that
\* could not be sent are passed over; as long as no answer is out of step with its segment, which
\* a late one and one to a segment believed lost are, and the size fits in 16 bits.  A PDO that
\* ecx_RxPDO reports as sent is in the slave or its mailbox, as far as a message holds it.
WriteConfirmed ==
    call.size < Width =>
        /\ Ended("WRITE") /\ ~stale /\ ~missed => slave.done /\ Whole(slave.pieces, call.size)
        /\ Ended("RXPDO") =>
            Whole(IF in.kind = "RXPDO" THEN <<Piece(in, in.len)>> ELSE slave.pieces,
                  Least(call.size, maxdata + 8))

\* Every call ends once mailbox calls no longer fail: neither loop over segments goes round forever.
CallEnds == pc # "idle" ~> pc = "idle"

=============================================================================
