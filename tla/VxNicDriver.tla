----------------------------- MODULE VxNicDriver -----------------------------
(***************************************************************************)
(* The VxWorks port of the NIC driver (oshw/vxworks/nicdrv.c) without a    *)
(* second card, beside the Linux one of module NicDriver: the same index   *)
(* allocation and the same loops of ecx_srconfirm, but frames are received *)
(* by another task.  mux_rx_callback, run by that task, puts a reference   *)
(* to the packet in the message queue of its index, which holds one; the   *)
(* thread that waits for the index takes it from there.                    *)
(*                                                                         *)
(* Packets come from a pool.  A packet belongs to the pool, to the         *)
(* callback, to a queue or to a thread; the network stack (external) gives *)
(* one back when its frame has left or when the callback refuses it.       *)
(***************************************************************************)
EXTENDS NicDriver, FiniteSetsExt, TLC

CONSTANT Packets   \* packets in the pool

ASSUME VxAssumption == Packets \in Nat \ {0} /\ IsFiniteSet(Threads)

VARIABLES
    port,    \* linux | vxworks | closing | closed, which port this is (others: PortNicDrivers)
    msgQId,  \* per index, its message queue: open | drained | deleted
    queue,   \* per index, the packet in the message queue; a deleted one keeps what is in it
    rxtask,  \* the packet in mux_rx_callback
    held,    \* per thread: the packet it has taken from a queue
    free     \* packets in the pool

\* This port: open, in ecx_closenic, closed.
VxPorts == {"vxworks", "closing", "closed"}

device == <<port, msgQId>>
queues == <<queue, rxtask, held>>
vxvars == <<device, queues, free>>

\* The transactions that have index i, one unless an index was shared.
Owners(i) == {txn[t] : t \in {u \in Threads : Owns(u) /\ idx[u] = i}}
\* A packet with the frame f, posted while those transactions had its index.
NoPacket == [frame |-> NoFrame, owners |-> {}]
Packet(f) == [frame |-> f, owners |-> Owners(f.idx)]

VxInitRest ==
    /\ msgQId = [i \in Idx |-> "open"]
    /\ queue = [i \in Idx |-> NoPacket]
    /\ rxtask = NoFrame
    /\ held = [t \in Threads |-> NoPacket]
    /\ free = Packets
VxInit == Init /\ port \in {"linux", "vxworks"} /\ VxInitRest

-----------------------------------------------------------------------------
(* Sending                                                                 *)

\* Mutant: what an earlier transaction left in the queue stays there.
OutframeBuffer_NotCleaned(t) ==
    /\ free > 0
    /\ Goto(t, "send", "transmit")
    /\ free' = free - 1
    /\ UNCHANGED <<device, queues, shared, idx, cnt, txn, tries, answer, history>>

\* ec_outfram_send: the packet to send is one abandoned in the queue of the index, or a new one.
OutframeBuffer(t) ==
    /\ queue[idx[t]] # NoPacket \/ free > 0
    /\ Goto(t, "send", "transmit")
    /\ queue' = [queue EXCEPT ![idx[t]] = NoPacket]
    /\ free' = IF queue[idx[t]] = NoPacket THEN free - 1 ELSE free
    /\ UNCHANGED <<device, rxtask, held, shared, idx, cnt, txn, tries, answer, history>>

\* No packet to be had: the send has failed.
OutframeNoBuffer(t) ==
    /\ queue[idx[t]] = NoPacket /\ free = 0
    /\ Goto(t, "send", "sendfailed")
    /\ sendFailed' = TRUE
    /\ UNCHANGED <<vxvars, shared, idx, cnt, txn, tries, answer, begun, exhausted, late>>

\* muxSend; the packet goes back to the pool when the frame is on the cable.
MuxSend(t) ==
    /\ Goto(t, "transmit", "wait")
    /\ wire' = wire \cup {[idx |-> idx[t], txn |-> txbuf[idx[t]], by |-> t, try |-> tries[t]]}
    /\ free' = free + 1
    /\ UNCHANGED <<device, queues, rxbufstat, rxbuf, txbuf, lastidx, getindex_mutex, rx_mutex, tempbuf,
                   idx, cnt, txn, tries, answer, history>>

\* muxSend has failed: the packet is freed, and ecx_outframe sets the status to EC_BUF_EMPTY.
MuxSendFails(t) ==
    /\ SendMayFail
    /\ Goto(t, "transmit", "sendfailed")
    /\ sendFailed' = TRUE
    /\ free' = free + 1
    /\ UNCHANGED <<device, queues, shared, idx, cnt, txn, tries, answer, begun, exhausted, late>>

-----------------------------------------------------------------------------
(* Receiving                                                               *)

\* mux_rx_callback up to the test of the status word; a frame nobody expects is refused, and so is
\* every frame after muxUnbind.  Without a packet the network stack cannot receive.
RxCallback ==
    /\ rxtask = NoFrame
    /\ free > 0
    /\ \E f \in wire :
        /\ wire' = wire \ {f}
        /\ IF rxbufstat[f.idx] = "TX" /\ port # "closed"
             THEN rxtask' = f /\ free' = free - 1
             ELSE UNCHANGED <<rxtask, free>>
    /\ UNCHANGED <<device, queue, held, rxbufstat, rxbuf, txbuf, lastidx, getindex_mutex, rx_mutex, tempbuf,
                   local, history>>

\* Mutant: the packet that makes room in the queue is not freed.
RxPost_Leak ==
    /\ rxtask # NoFrame
    /\ rxtask' = NoFrame
    /\ queue' = [queue EXCEPT ![rxtask.idx] = Packet(rxtask)]
    /\ UNCHANGED <<free, device, held, shared, local, history>>

\* The rest of it: the packet is put in the queue of the index, in the place of one that is there; a
\* queue that was deleted takes none, and the stack gets the packet back.
RxPost ==
    /\ rxtask # NoFrame
    /\ rxtask' = NoFrame
    /\ IF msgQId[rxtask.idx] = "deleted"
         THEN UNCHANGED queue /\ free' = free + 1
         ELSE /\ queue' = [queue EXCEPT ![rxtask.idx] = Packet(rxtask)]
              /\ free' = IF queue[rxtask.idx] # NoPacket THEN free + 1 ELSE free
    /\ UNCHANGED <<device, held, shared, local, history>>

\* ecx_recvpkt: msgQReceive has a packet.
RecvPacket(t) ==
    /\ queue[idx[t]] # NoPacket
    /\ Goto(t, "wait", "recv")
    /\ held' = [held EXCEPT ![t] = queue[idx[t]]]
    /\ queue' = [queue EXCEPT ![idx[t]] = NoPacket]
    /\ UNCHANGED <<device, rxtask, free, shared, idx, cnt, txn, tries, answer, history>>

\* The ticks of msgQReceive are over.
RecvExpired(t) ==
    /\ queue[idx[t]] = NoPacket
    /\ Goto(t, "wait", "poll")
    /\ UNCHANGED <<vxvars, shared, idx, cnt, txn, tries, answer, history>>

\* The rest of ecx_inframe: any packet found in the queue is the answer.
TakePacket(t) ==
    \E w \in Wkcs :
        LET a == [txn |-> held[t].frame.txn, wkc |-> w] IN
        /\ held[t] # NoPacket
        /\ Goto(t, "recv", Returned(a))
        /\ rxbuf' = [rxbuf EXCEPT ![idx[t]] = a]
        /\ answer' = [answer EXCEPT ![t] = a]
        /\ SetStat(idx[t], "COMPLETE")
        /\ held' = [held EXCEPT ![t] = NoPacket]
        /\ free' = free + 1
        /\ UNCHANGED <<device, queue, rxtask, txbuf, lastidx, getindex_mutex, rx_mutex, tempbuf, wire,
                       idx, cnt, txn, tries, history>>

-----------------------------------------------------------------------------

\* A frame of transaction x is in the network stack or in a queue.
Queued(x) == rxtask.txn = x \/ \E i \in Idx : queue[i].frame.txn = x

\* ecx_setbufstat at the end of the primitive; its frame may still be under way, or in the queue.
ReleaseIndex(t) ==
    /\ Goto(t, "release", "idle")
    /\ SetStat(idx[t], "EMPTY")
    /\ late' = IF UnderWay(txn[t]) \/ Queued(txn[t]) THEN late \cup {txn[t]} ELSE late
    /\ idx' = [idx EXCEPT ![t] = 0]
    /\ cnt' = [cnt EXCEPT ![t] = 0]
    /\ txn' = [txn EXCEPT ![t] = NoTxn]
    /\ tries' = [tries EXCEPT ![t] = 0]
    /\ answer' = [answer EXCEPT ![t] = NoAnswer]
    /\ UNCHANGED <<vxvars, rxbuf, txbuf, lastidx, getindex_mutex, rx_mutex, tempbuf, wire,
                   begun, exhausted, sendFailed>>

\* ecx_closenic, called when the application is done.  The loop over the indexes empties the queue of
\* each one (msgQReceive) and then deletes it (msgQDelete), while the callback is still bound: a packet
\* posted in between stays in the deleted queue.
Finished == begun = MaxTxn /\ \A t \in Threads : pc[t] = "idle"

DrainQueue(i) ==
    /\ port \in {"vxworks", "closing"} /\ Finished
    /\ msgQId[i] = "open" /\ \A j \in 0 .. i - 1 : msgQId[j] = "deleted"
    /\ port' = "closing"
    /\ msgQId' = [msgQId EXCEPT ![i] = "drained"]
    /\ queue' = [queue EXCEPT ![i] = NoPacket]
    /\ free' = IF queue[i] # NoPacket THEN free + 1 ELSE free
    /\ UNCHANGED <<rxtask, held, vars>>

DeleteQueue(i) ==
    /\ port = "closing"
    /\ msgQId[i] = "drained"
    /\ msgQId' = [msgQId EXCEPT ![i] = "deleted"]
    /\ UNCHANGED <<port, queues, free, vars>>

\* muxUnbind
Unbind ==
    /\ port = "closing"
    /\ \A i \in Idx : msgQId[i] = "deleted"
    /\ port' = "closed"
    /\ UNCHANGED <<msgQId, queues, free, vars>>

CloseNic == (\E i \in Idx : DrainQueue(i) \/ DeleteQueue(i)) \/ Unbind

VxGetIndex(t) == GetIndex(t) /\ UNCHANGED vxvars
VxBuild(t) == (SetupDatagram(t) \/ OutframeMark(t) \/ OutframeUnmark(t)) /\ UNCHANGED vxvars
VxOutframe(t) ==
    VxBuild(t) \/ OutframeBuffer(t) \/ OutframeNoBuffer(t) \/ MuxSend(t) \/ MuxSendFails(t)
VxInframe(t) == RecvPacket(t) \/ RecvExpired(t) \/ TakePacket(t)
VxSrconfirm(t) == Srconfirm(t) /\ UNCHANGED vxvars
VxStep(t) ==
    \/ VxGetIndex(t) \/ VxOutframe(t) \/ VxInframe(t) \/ VxSrconfirm(t)
    \/ CopyAnswer(t) /\ UNCHANGED vxvars
    \/ ReleaseIndex(t)

VxNext ==
    \/ port = "linux" /\ Next /\ UNCHANGED vxvars
    \/ port = "vxworks" /\ \E t \in Threads : VxStep(t)
    \/ port \in VxPorts /\ (RxCallback \/ RxPost)
    \/ port \in VxPorts /\ Lose /\ UNCHANGED vxvars
    \/ CloseNic
    \/ port = "closed" /\ UNCHANGED <<vars, vxvars>>

ThreadSymmetry == Permutations(Threads)

VxSpec == VxInit /\ [][VxNext]_<<vars, vxvars>>

-----------------------------------------------------------------------------
(* Properties                                                              *)

\* A queue that was deleted with a packet in it.
Lost(i) == msgQId[i] = "deleted" /\ queue[i] # NoPacket

\* No packet is lost or freed twice, however frames come late, overrun a queue or find it deleted: one
\* that is not in the pool is in the hand of the callback, in a queue, or in the hand of a thread.  The
\* exception is ecx_closenic, which loses at most one: that of a callback which had tested the status
\* word before the last transaction ended.
PacketsKept ==
    /\ free + Quantify(Idx, LAMBDA i : queue[i] # NoPacket)
            + Quantify(Threads, LAMBDA t : held[t] # NoPacket)
            + Quantify(Threads, LAMBDA t : port \in VxPorts /\ pc[t] = "transmit")
            + (IF rxtask = NoFrame THEN 0 ELSE 1) = Packets
    /\ Quantify(Idx, Lost) <= (IF port \in {"closing", "closed"} THEN 1 ELSE 0)

\* What was put in a queue for an earlier transaction, or for nobody, is never taken for an answer:
\* ec_outfram_send throws it away ("Clean up any abandoned frames").  A frame that comes while the
\* next transaction waits is another matter (ForeignOnlyIfLate).
AbandonedNotTaken ==
    Undisturbed => \A t \in Threads : held[t] # NoPacket => txn[t] \in held[t].owners

=============================================================================
