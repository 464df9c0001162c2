------------------------------- MODULE Services -------------------------------
(***************************************************************************)
(* One slave's mailbox as the SoE and EoE clients share it: ecx_SoEread    *)
(* and ecx_SoEwrite (ethercatsoe.c), ecx_EOEsetIp, ecx_EOEgetIp,           *)
(* ecx_EOEsend and ecx_EOErecv, or the reading of Ethernet frames by a     *)
(* hook (ethercateoe.c, test/linux/eoe_test), and the errors they report   *)
(* to the list of module ErrorList.                                        *)
(*                                                                         *)
(* As in module CoE the mailbox calls are taken at their word (module      *)
(* Mailbox): a send puts the message in the slave's mailbox or fails, and  *)
(* one that fails may have put it there; a receive returns a message, or   *)
(* nothing because it is late, or nothing because it was read and lost; a  *)
(* message that was read may come again.  The slave is external: it        *)
(* answers every request in order and sends Ethernet frames of its own.    *)
(***************************************************************************)
EXTENDS ErrorList, EoE

CONSTANTS
    Idns,        \* SoE values: [elem, idn, size], elem the drive and the element flags
    Buffers,     \* sizes of the buffers for reading
    FrameBuffer, \* size of the buffer for Ethernet frames
    ValueSizes,  \* sizes of the SoE values the master writes
    WriteSizes,  \* sizes of the Ethernet frames the master sends
    Frames,      \* Ethernet frames of the slave: [size, total], total with its time stamp
    MaxCalls,    \* bound: calls
    MaxFrames,   \* bound: Ethernet frames of the slave
    MaxLosses    \* bound: mailbox calls that fail

ASSUME ServicesAssumption ==
    /\ \A v \in Idns : v.size \in Nat \ {0}
    /\ \A f \in Frames : f.size \in Nat \ {0} /\ f.total \in {f.size, f.size + Stamp}
    /\ Buffers \cup ValueSizes \cup WriteSizes \cup {FrameBuffer} \subseteq Nat \ {0}
    /\ MaxCalls \in Nat /\ MaxFrames \in Nat /\ MaxLosses \in Nat
    /\ {"unexpected", "no response", "SoE", "mailbox"} \subseteq Errors

VARIABLES
    pc,       \* idle | request | empty | response
    call,     \* the current or last call: [n, op, obj, size]
    hp,       \* bytes sent, or totalsize of ecx_SoEread
    data,     \* pieces of a value in the caller's buffer
    NotLast,  \* local of the loops
    wkc,      \* how the call ended, by sign
    txframeno,  \* static of ecx_EOEsend: frames begun
    hook,     \* context->EOEhook is set
    rx,       \* the reassembly of the hook, or of ecx_EOErecv
    frame,    \* the last Ethernet frame completed: [of, data, size]
    in, out,  \* the slave's mailboxes
    slave,    \* external: [queue, stored, ip, sent, no], stored what it was given in the call
    losses,   \* failed mailbox calls so far
    stale,    \* the call began with an answer to an earlier one under way
    missed    \* a send of the call failed, or a message came again

calls == <<pc, call, hp, data, NotLast, wkc, txframeno>>
frames == <<hook, rx, frame>>
fates == <<losses, stale, missed>>
allvars == <<calls, frames, in, out, slave, fates, vars>>

NoMessage == [kind |-> "none"]
AnyIdn == CHOOSE v \in Idns : TRUE
NoFrame == [of |-> 0, data |-> <<>>, size |-> 0]

ServicesInit ==
    /\ Init
    /\ pc = "idle"
    /\ call = [n |-> 0, op |-> "POLL", obj |-> AnyIdn, size |-> 0]
    /\ hp = 0 /\ data = <<>> /\ NotLast = FALSE /\ wkc = 0 /\ txframeno = 0
    /\ hook \in BOOLEAN
    /\ rx = NewFrame /\ frame = NoFrame
    /\ in = NoMessage /\ out = NoMessage
    /\ slave = [queue |-> <<>>, stored |-> <<>>, ip |-> 0, sent |-> <<>>, no |-> 0]
    /\ losses = 0 /\ stale = FALSE /\ missed = FALSE

-----------------------------------------------------------------------------
(* The mailbox                                                             *)

IsFragment(m) == m.kind = "EOE_FRAG"

\* The hook of eoe_test: it takes every fragment, and a frame that is complete goes to the stack.
Hook(m) ==
    LET r == ecx_EOEreadfragment(rx, m, FrameBuffer) IN
    /\ rx' = [r.rx EXCEPT !.data = IF r.wkc = 1 THEN <<>> ELSE @]
    /\ frame' = IF r.wkc = 1 THEN [of |-> m.frame, data |-> r.rx.data, size |-> r.size] ELSE frame

\* ecx_mbxreceive gives fragments to the hook and mailbox errors to the list, and goes on; these
\* two do not come back to the caller.
Handled(m) == m.kind = "MBX_ERROR" \/ (hook /\ IsFragment(m))
Handle(m) ==
    IF IsFragment(m) THEN Hook(m) /\ UNCHANGED <<hook, vars>>
    ELSE ecx_pusherror("mailbox") /\ UNCHANGED frames

Lossy == losses < MaxLosses
Lost == Lossy /\ losses' = losses + 1

\* The message in the out mailbox is read, and perhaps comes again.
Read ==
    /\ out # NoMessage
    /\ \/ out' = NoMessage /\ UNCHANGED <<losses, missed>>
       \/ Lost /\ missed' = TRUE /\ UNCHANGED out
    /\ UNCHANGED <<in, slave, stale>>

\* ecx_mbxreceive returns nothing: there is nothing, or it is late, or it was read and lost.
ReceiveNothing ==
    /\ pc = "response"
    /\ \/ Lost
       \/ out = NoMessage /\ in = NoMessage /\ slave.queue = <<>> /\ UNCHANGED losses
    /\ out' \in {NoMessage, out}
    /\ UNCHANGED <<in, slave, stale, missed, frames>>

\* A message on the way that ecx_mbxreceive deals with itself.
ReceiveHandled ==
    /\ pc = "response"
    /\ Handled(out)
    /\ Read
    /\ Handle(out)
    /\ UNCHANGED calls

\* Any other message is the caller's.
Receive ==
    /\ pc = "response"
    /\ out # NoMessage
    /\ ~Handled(out)
    /\ Read

\* ecx_mbxsend of m.
Sent(m) == in = NoMessage /\ in' = m /\ UNCHANGED <<losses, missed>>
NotSent(m) ==
    /\ Lost
    /\ missed' = TRUE
    /\ \/ UNCHANGED in
       \/ in = NoMessage /\ in' = m

Return(w) == pc' = "idle" /\ wkc' = w

\* A call begins, and but for ecx_EOEsend and ecx_EOErecv with reading one message without waiting.
\* The mailbox reader of eoe_test does only that.
Begin ==
    /\ pc = "idle"
    /\ call.n < MaxCalls
    /\ call' \in [n : {call.n + 1}, op : {"READ"}, obj : Idns, size : Buffers] \cup
                 [n : {call.n + 1}, op : {"WRITE"}, obj : {AnyIdn}, size : ValueSizes] \cup
                 [n : {call.n + 1}, op : {"SEND"}, obj : {AnyIdn}, size : WriteSizes] \cup
                 [n : {call.n + 1}, op : {"SETIP", "GETIP"}, obj : {AnyIdn}, size : {0}] \cup
                 [n : {call.n + 1}, op : IF hook THEN {"POLL"} ELSE {"RECV"}, obj : {AnyIdn},
                  size : {FrameBuffer}]
    /\ pc' = CASE call'.op = "RECV" -> "response" [] call'.op = "POLL" -> "idle" [] OTHER -> "request"
    /\ hp' = 0 /\ data' = <<>> /\ NotLast' = FALSE /\ wkc' = 0
    /\ IF call'.op \notin {"SEND", "RECV"} /\ out # NoMessage
         THEN /\ out' = NoMessage
              /\ \/ Handled(out) /\ Handle(out) /\ UNCHANGED losses
                 \/ ~Handled(out) /\ UNCHANGED <<frames, vars, losses>>
                 \/ Lost /\ UNCHANGED <<frames, vars>>
         ELSE /\ rx' = IF call'.op = "RECV" THEN NewFrame ELSE rx
              /\ UNCHANGED <<out, hook, frame, vars, losses>>
    /\ txframeno' = txframeno + (IF call'.op = "SEND" THEN 1 ELSE 0)
    /\ stale' = (in # NoMessage \/ slave.queue # <<>> \/ ~(out'.kind \in {"none", "EOE_FRAG"}))
    /\ missed' = FALSE
    /\ slave' = [slave EXCEPT !.stored = <<>>]
    /\ UNCHANGED in

-----------------------------------------------------------------------------
(* ecx_SoEread                                                             *)

\* A request of one message.
SendRequest(m) ==
    /\ pc = "request"
    /\ \/ Sent(m) /\ pc' = "response" /\ UNCHANGED wkc
       \/ NotSent(m) /\ Return(-1)
    /\ UNCHANGED <<call, hp, data, NotLast, txframeno, frames, out, slave, stale, vars>>

SoEReadRequest ==
    /\ call.op = "READ"
    /\ SendRequest([kind |-> "SOE_READREQ", obj |-> call.obj])

\* The response is of this kind, without an error, and of this drive and element; its IDN is not
\* compared.
SoEMatches(kind) == out.kind = kind /\ ~out.error /\ out.elem = call.obj.elem

\* A fragment is appended, as far as the buffer goes; the last one ends the call.
SoEReadData ==
    /\ call.op = "READ"
    /\ Receive
    /\ SoEMatches("SOE_READRES")
    /\ LET room == call.size - hp
           len == IF out.len <= room THEN out.len ELSE room
       IN  /\ data' = IF len = 0 THEN data ELSE Append(data, <<out.idn, out.from, len>>)
           /\ hp' = hp + len
    /\ IF out.incomplete THEN UNCHANGED <<pc, wkc>> ELSE Return(1)
    /\ UNCHANGED <<call, NotLast, txframeno, frames, vars>>

\* Which error another response stands for: only that of a read is looked into.
SoEFault == IF out.kind = "SOE_READRES" /\ out.error THEN "SoE" ELSE "unexpected"

SoEBadResponse ==
    /\ \/ call.op = "READ" /\ ~SoEMatches("SOE_READRES")
       \/ call.op = "WRITE" /\ ~SoEMatches("SOE_WRITERES")
    /\ Receive
    /\ ecx_pusherror(SoEFault)
    /\ Return(0)
    /\ UNCHANGED <<call, hp, data, NotLast, txframeno, frames>>

SoEReadNothing ==
    /\ call.op = "READ"
    /\ ReceiveNothing
    /\ ecx_pusherror("no response")
    /\ Return(-1)
    /\ UNCHANGED <<call, hp, data, NotLast, txframeno>>

-----------------------------------------------------------------------------
(* ecx_SoEwrite                                                            *)

\* What is left of the value, as a uint16.
Left == (call.size - hp) % Width

\* The next part of the value; what does not fit in 16 bits is forgotten.  A part that could not be
\* sent is not sent again: the loop goes on with the part after it.
SoEWriteRequest ==
    /\ pc = "request" /\ call.op = "WRITE"
    /\ LET more == Left > maxdata
           len == IF more THEN maxdata ELSE Left
           m == [kind |-> "SOE_WRITEREQ", obj |-> call.obj, incomplete |-> more,
                 from |-> hp, len |-> len, call |-> call.n]
       IN  /\ NotLast' = more
           /\ hp' = hp + len
           /\ \/ Sent(m) /\ pc' = (IF more THEN "empty" ELSE "response") /\ UNCHANGED wkc
              \/ NotSent(m) /\ IF more THEN UNCHANGED <<pc, wkc>> ELSE Return(-1)
    /\ UNCHANGED <<call, data, txframeno, frames, out, slave, stale, vars>>

\* ecx_mbxempty between two parts: the slave has taken the first, or it takes too long and has
\* perhaps something to say.
SoEWriteEmpty ==
    /\ pc = "empty"
    /\ \/ in = NoMessage /\ pc' = "request" /\ UNCHANGED losses
       \/ Lost /\ pc' = "response"
    /\ UNCHANGED <<call, hp, data, NotLast, wkc, txframeno, frames, in, out, slave, stale, missed, vars>>

\* Mutant: an error response counts as well.
SoEWriteDone_AnyResponse ==
    /\ call.op = "WRITE"
    /\ Receive
    /\ out.kind = "SOE_WRITERES"
    /\ Return(1)
    /\ NotLast' = FALSE
    /\ UNCHANGED <<call, hp, data, txframeno, frames, vars>>

SoEWriteDone ==
    /\ call.op = "WRITE"
    /\ Receive
    /\ SoEMatches("SOE_WRITERES")
    /\ Return(1)
    /\ NotLast' = FALSE
    /\ UNCHANGED <<call, hp, data, txframeno, frames, vars>>

\* No response: an error, and the next part if there is one.
SoEWriteNothing ==
    /\ call.op = "WRITE"
    /\ ReceiveNothing
    /\ ecx_pusherror("no response")
    /\ IF NotLast THEN pc' = "request" /\ UNCHANGED wkc ELSE Return(-1)
    /\ UNCHANGED <<call, hp, data, NotLast, txframeno>>

-----------------------------------------------------------------------------
(* EoE                                                                     *)

IpRequest ==
    \/ call.op = "SETIP" /\ SendRequest([kind |-> "EOE_SETIP", ip |-> call.n])
    \/ call.op = "GETIP" /\ SendRequest([kind |-> "EOE_GETIP"])

\* The frame type and the result are looked at; a fragment of a frame is neither.
IpResponse ==
    /\ call.op \in {"SETIP", "GETIP"}
    /\ Receive
    /\ IF call.op = "SETIP"
         THEN Return(IF out.kind = "EOE_SETIPRES" /\ ~out.error THEN 1 ELSE -1) /\ UNCHANGED data
         ELSE IF out.kind = "EOE_GETIPRES" THEN Return(1) /\ data' = <<out.ip>>
         ELSE Return(-1) /\ UNCHANGED data
    /\ UNCHANGED <<call, hp, NotLast, txframeno, frames, vars>>

EoENothing ==
    /\ call.op \in {"SETIP", "GETIP", "RECV"}
    /\ ReceiveNothing
    /\ Return(-1)
    /\ UNCHANGED <<call, hp, data, NotLast, txframeno, vars>>

\* ecx_EOEsend: one fragment, and the next one when it was taken into the mailbox.
EOEsend ==
    /\ pc = "request" /\ call.op = "SEND"
    /\ LET m == Fragment(txframeno, call.size, call.size, hp \div Chunk) IN
        /\ NotLast' = ~m.last
        /\ \/ /\ Sent(m)
              /\ IF m.last THEN Return(1) /\ UNCHANGED hp
                 ELSE hp' = hp + m.len /\ UNCHANGED <<pc, wkc>>
           \/ NotSent(m) /\ Return(-1) /\ UNCHANGED hp
    /\ UNCHANGED <<call, data, txframeno, frames, out, slave, stale, vars>>

\* ecx_EOErecv: a turn of its loop.
EOErecv ==
    /\ call.op = "RECV"
    /\ Receive
    /\ IF ~IsFragment(out) THEN Return(-1) /\ UNCHANGED <<rx, frame>>
       ELSE LET r == ecx_EOErecv(rx, out, call.size) IN
            /\ rx' = r.rx
            /\ IF r.wkc = 1
                 THEN frame' = [of |-> out.frame, data |-> r.rx.data, size |-> r.size]
                 ELSE UNCHANGED frame
            /\ IF r.wkc = 0 THEN UNCHANGED <<pc, wkc>> ELSE Return(r.wkc)
    /\ UNCHANGED <<call, hp, data, NotLast, txframeno, hook, vars>>

-----------------------------------------------------------------------------
(* The slave                                                               *)

\* It takes a request and answers it, with an error of the service or of the mailbox if it likes.
Answer(m) == slave' = [slave EXCEPT !.queue = Append(@, m)]
MailboxError == [kind |-> "MBX_ERROR"]

\* The parts of a value, or the refusal of it.
Part(v, from) ==
    [kind |-> "SOE_READRES", error |-> FALSE, elem |-> v.elem, idn |-> v.idn, from |-> from,
     len |-> IF v.size - from > maxdata THEN maxdata ELSE v.size - from, incomplete |-> v.size - from > maxdata]
Parts(v) == [k \in 1 .. (v.size + maxdata - 1) \div maxdata |-> Part(v, (k - 1) * maxdata)]
Refusal(kind, v) ==
    [kind |-> kind, error |-> TRUE, elem |-> v.elem, idn |-> v.idn, from |-> 0, len |-> 2, incomplete |-> FALSE]

SlaveRead ==
    /\ in.kind = "SOE_READREQ"
    /\ \/ slave' = [slave EXCEPT !.queue = @ \o Parts(in.obj)]
       \/ Answer(Refusal("SOE_READRES", in.obj)) \/ Answer(MailboxError)

\* The value written is what came since its first part; a value that is complete is confirmed.
SlaveWrite ==
    /\ in.kind = "SOE_WRITEREQ"
    /\ LET stored == Append(IF in.from = 0 THEN <<>> ELSE slave.stored, <<in.call, in.from, in.len>>)
           done == [Refusal("SOE_WRITERES", in.obj) EXCEPT !.error = FALSE]
       IN  \/ slave' = [slave EXCEPT !.stored = stored,
                                     !.queue = IF in.incomplete THEN @ ELSE Append(@, done)]
           \/ ~in.incomplete /\ Answer(Refusal("SOE_WRITERES", in.obj))

SlaveIp ==
    \/ in.kind = "EOE_SETIP" /\ slave' = [slave EXCEPT !.ip = in.ip, !.queue = Append(@, [kind |-> "EOE_SETIPRES", error |-> FALSE])]
    \/ in.kind = "EOE_SETIP" /\ Answer([kind |-> "EOE_SETIPRES", error |-> TRUE])
    \/ in.kind = "EOE_GETIP" /\ Answer([kind |-> "EOE_GETIPRES", ip |-> slave.ip])

\* The fragments of a frame of the master.
SlaveFrame ==
    /\ IsFragment(in)
    /\ slave' = [slave EXCEPT !.stored =
            Append(IF in.no = 0 THEN <<>> ELSE @, <<in.frame, in.from, in.len>>)]

SlaveTake ==
    /\ SlaveRead \/ SlaveWrite \/ SlaveIp \/ SlaveFrame
    /\ in' = NoMessage
    /\ UNCHANGED <<calls, frames, out, fates, vars>>

\* It posts its next answer, or the next fragment of an Ethernet frame.
SlavePost ==
    /\ out = NoMessage
    /\ slave.queue # <<>>
    /\ out' = Head(slave.queue)
    /\ slave' = [slave EXCEPT !.queue = Tail(@)]
    /\ UNCHANGED <<calls, frames, in, fates, vars>>

SlavePostFragment ==
    /\ out = NoMessage
    /\ \E f \in IF slave.no > 0 THEN {slave.sent[Len(slave.sent)]}
                ELSE IF Len(slave.sent) < MaxFrames THEN Frames ELSE {} :
        LET sent == IF slave.no > 0 THEN slave.sent ELSE Append(slave.sent, f)
            m == Fragment(Len(sent), f.size, f.total, slave.no)
        IN  /\ out' = m
            /\ slave' = [slave EXCEPT !.sent = sent, !.no = IF m.last THEN 0 ELSE @ + 1]
    /\ UNCHANGED <<calls, frames, in, fates, vars>>

\* The application reads the error list between its calls while EcatError is set, as slaveinfo does.
ReadErrors == pc = "idle" /\ ecaterror /\ ecx_poperror /\ UNCHANGED <<calls, frames, in, out, slave, fates>>

ServicesNext ==
    \/ Begin \/ ReceiveHandled
    \/ SoEReadRequest \/ SoEReadData \/ SoEReadNothing \/ SoEBadResponse
    \/ SoEWriteRequest \/ SoEWriteEmpty \/ SoEWriteDone \/ SoEWriteNothing
    \/ IpRequest \/ IpResponse \/ EoENothing \/ EOEsend \/ EOErecv
    \/ SlaveTake \/ SlavePost \/ SlavePostFragment
    \/ ReadErrors

ServicesSpec == ServicesInit /\ [][ServicesNext]_allvars

-----------------------------------------------------------------------------
(* Properties                                                              *)

\* What a sequence of parts covers: the bytes, each with its owner.
Bytes(parts) == UNION {{<<parts[k][1], b>> : b \in parts[k][2] .. (parts[k][2] + parts[k][3] - 1)} : k \in DOMAIN parts}
InOrder(parts) == \A k \in 1 .. Len(parts) - 1 : parts[k + 1][2] = parts[k][2] + parts[k][3]
Holds(parts, owner, size) == InOrder(parts) /\ Bytes(parts) = {<<owner, b>> : b \in 0 .. size - 1}

\* A call of the SoE and EoE clients that returns success did what it says: the value that was asked
\* for is in the buffer as far as it fits, in order; the value or frame that was sent is in the slave
\* or on its way there, whole; the address is the slave's.  Not so if the answer to an earlier call
\* was under way when the call began (nothing in the messages tells them apart), or if a send of the
\* call failed or a message came twice, or for a value of 64 KB or more, which ecx_SoEwrite cuts off.
ServiceConfirmed ==
    pc = "idle" /\ wkc > 0 /\ ~stale /\ ~missed =>
        CASE call.op = "READ" ->
                Holds(data, call.obj.idn, IF call.obj.size < call.size THEN call.obj.size ELSE call.size)
          [] call.op = "WRITE" -> call.size < Width => Holds(slave.stored, call.n, call.size)
          [] call.op = "SEND" ->
                LET m == IF IsFragment(in) THEN <<<<in.frame, in.from, in.len>>>> ELSE <<>> IN
                Holds(IF m # <<>> /\ in.no = 0 THEN m ELSE slave.stored \o m, txframeno, call.size)
          [] call.op = "SETIP" -> slave.ip = call.n
          [] call.op = "GETIP" -> data = <<slave.ip>>
          [] OTHER -> TRUE

\* A fragment that exceeds the announced size, or the buffer, because a time stamp was appended.
Overfull(f) ==
    \/ hook /\ f.total > Block * Blocks(f.size)
    \/ f.total > FrameBuffer

\* An Ethernet frame that a reassembly completes is one the slave has sent, whole and in order, and
\* has its size, whichever fragments were lost or came twice in between, as long as fewer frames were
\* lost than there are frame numbers (ecx_EOEreadfragment, ecx_EOErecv).  A time stamp that does not
\* fit spoils it.
FrameWhole ==
    frame # NoFrame =>
        LET f == slave.sent[frame.of] IN
        Overfull(f) \/ (Holds(frame.data, frame.of, f.total) /\ frame.size = f.size)

=============================================================================
