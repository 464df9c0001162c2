---------------------------- MODULE PortNicDrivers ----------------------------
(***************************************************************************)
(* Further ports of the NIC driver, each with one card, beside the ones of *)
(* NicDriver and VxNicDriver.  They share its text up to the calls of the  *)
(* system; what the calls change is modelled here:                         *)
(*   erika   one lock (ee_port_lock) for the search of an index and for    *)
(*           receiving; a frame nobody waits for is followed by the next   *)
(*           one, under the lock; sending reports no error                 *)
(*   macosx  libpcap instead of a socket; a frame nobody waits for fails   *)
(*           an assertion                                                  *)
(*   rtk     the Ethernet controller of the Blackfin (rtk/lw_mac): a ring  *)
(*           of two receive buffers the controller fills in turn, and one  *)
(*           transmit buffer for all threads, which no lock protects.      *)
(***************************************************************************)
EXTENDS VxNicDriver

CONSTANT PortTries   \* bound: transmissions in one ecx_srconfirm of macosx and rtk

ASSUME PortAssumption == PortTries \in 1 .. MaxTries

VARIABLES
    ring,      \* rtk, rxBuffer: per receive buffer the frame it holds complete, still in wire
    rxIdx,     \* rtk, rxIdx: the buffer bfin_EMAC_recv looks at
    dmaIdx,    \* rtk: the buffer the controller fills next
    txBuffer   \* rtk, txBuffer: the frame last copied for transmission

emac == <<ring, rxIdx, dmaIdx, txBuffer>>
portvars == <<vars, vxvars, emac>>

\* ETH_RX_BUF_SIZE
RingIdx == 0 .. 1
NextBuffer(i) == IF i = 1 THEN 0 ELSE i + 1

-----------------------------------------------------------------------------
(* erika                                                                   *)

ErikaInit == port = "erika" /\ VxInitRest

\* ee_port_lock is held neither by a search nor by a receiver.
PortLockFree == getindex_mutex = NoThread /\ rx_mutex = NoThread

ErikaGetIndex(t) == GetIndex(t) /\ (pc[t] = "idle" => PortLockFree)

\* eth_send_packet has no result: the frame has been sent.
ErikaOutframe(t) == OutframeMark(t) \/ OutframeSend(t)

\* ecx_recvpkt, "strange things happened": the loop reads the next frame and keeps the lock.
ErikaStrange(t) ==
    \E f \in wire :
        /\ pc[t] = "recv"
        /\ f.idx # idx[t]
        /\ rxbufstat[f.idx] # "TX"
        /\ wire' = wire \ {f}
        /\ UNCHANGED <<rxbufstat, rxbuf, txbuf, lastidx, getindex_mutex, rx_mutex, tempbuf, local, history>>

ErikaInframe(t) ==
    \/ InframeBuffered(t) \/ InframeNotBuffered(t)
    \/ InframeLock(t) /\ PortLockFree
    \/ RecvNothing(t) \/ RecvOwn(t) \/ RecvOther(t) \/ ErikaStrange(t) \/ StoreOther(t)

ErikaSrconfirm(t) == Srconfirm(t)

\* ecx_setbufstat at the end of a primitive.
ErikaRelease(t) == Release(t)

ErikaStep(t) ==
    /\ \/ ErikaGetIndex(t)
       \/ SetupDatagram(t) \/ ErikaOutframe(t) \/ ErikaInframe(t) \/ ErikaSrconfirm(t)
       \/ CopyAnswer(t) \/ ErikaRelease(t)
    /\ UNCHANGED <<vxvars, emac>>

-----------------------------------------------------------------------------
(* macosx                                                                  *)

MacInit == port = "macosx" /\ VxInitRest

MacGetIndex(t) == GetIndex(t)
MacOutframe(t) == Outframe(t)

\* assert(0) where a frame comes that nobody waits for: the program ends, unless it was built
\* without assertions.
MacStrange(t) ==
    /\ RecvStrange(t)
    /\ port' \in {port, "aborted"}
    /\ UNCHANGED <<msgQId, queues, free, emac>>

\* pcap_next_ex gives at most one packet, and none is no error.
MacRecvpkt(t) == RecvNothing(t) \/ RecvOwn(t) \/ RecvOther(t)
MacInframe(t) ==
    InframeBuffered(t) \/ InframeNotBuffered(t) \/ InframeLock(t) \/ MacRecvpkt(t) \/ StoreOther(t)
MacSrconfirm(t) == Srconfirm(t) /\ tries'[t] <= PortTries
MacRelease(t) == Release(t)

MacStep(t) ==
    \/ /\ \/ MacGetIndex(t)
          \/ SetupDatagram(t) \/ MacOutframe(t) \/ MacInframe(t) \/ MacSrconfirm(t)
          \/ CopyAnswer(t) \/ MacRelease(t)
       /\ UNCHANGED <<vxvars, emac>>
    \/ MacStrange(t)

-----------------------------------------------------------------------------
(* rtk                                                                     *)

RtkInit == port = "rtk" /\ VxInitRest
\* bfin_EMAC_init
EmacInit ==
    /\ ring = [i \in RingIdx |-> NoFrame]
    /\ rxIdx = 0
    /\ dmaIdx = 0
    /\ txBuffer = NoFrame

RtkGetIndex(t) == GetIndex(t) /\ UNCHANGED emac

\* bfin_EMAC_send copies the frame into the only transmit buffer.  Another thread that has copied its
\* own but not started the transmission yet will transmit this one: its send fails unnoticed.
EmacCopy(t) ==
    /\ Goto(t, "send", "transmit")
    /\ txBuffer' = [idx |-> idx[t], txn |-> txbuf[idx[t]], by |-> t, try |-> tries[t]]
    /\ sendFailed' = (sendFailed \/ \E u \in Threads : pc[u] = "transmit")
    /\ UNCHANGED <<ring, rxIdx, dmaIdx, shared, idx, cnt, txn, tries, answer, begun, exhausted, late>>

\* The transmission is started, and awaited; an error of the controller ends the program.
EmacSend(t) ==
    /\ Goto(t, "transmit", "wait")
    /\ wire' = wire \cup {[idx |-> txBuffer.idx, txn |-> txBuffer.txn, by |-> t, try |-> tries[t]]}
    /\ UNCHANGED <<emac, rxbufstat, rxbuf, txbuf, lastidx, getindex_mutex, rx_mutex, tempbuf,
                   idx, cnt, txn, tries, answer, history>>

RtkOutframe(t) == (OutframeMark(t) /\ UNCHANGED emac) \/ EmacCopy(t) \/ EmacSend(t)

\* The controller fills its buffers in turn, read or not: it overwrites a frame that was not read.
EmacReceive ==
    \E f \in wire :
        /\ \A i \in RingIdx : ring[i] # f
        /\ ring' = [ring EXCEPT ![dmaIdx] = f]
        /\ dmaIdx' = NextBuffer(dmaIdx)
        /\ wire' = wire \ {ring[dmaIdx]}
        /\ UNCHANGED <<rxIdx, txBuffer, rxbufstat, rxbuf, txbuf, lastidx, getindex_mutex, rx_mutex, tempbuf,
                       local, history>>

\* bfin_EMAC_recv: the frame at rxIdx is read and its buffer given back.
EmacRecv ==
    /\ ring[rxIdx] # NoFrame
    /\ wire' = wire \ {ring[rxIdx]}
    /\ ring' = [ring EXCEPT ![rxIdx] = NoFrame]
    /\ rxIdx' = NextBuffer(rxIdx)
    /\ UNCHANGED <<dmaIdx, txBuffer>>

\* The buffer at rxIdx is not complete: no frame, even if the other one is.
EmacEmpty(t) == ring[rxIdx] = NoFrame /\ RecvNothing(t) /\ UNCHANGED emac

RtkInframe(t) ==
    \/ (InframeBuffered(t) \/ InframeNotBuffered(t) \/ InframeLock(t) \/ StoreOther(t)) /\ UNCHANGED emac
    \/ EmacEmpty(t)
    \/ (RecvOwn(t) \/ RecvOther(t) \/ RecvStrange(t)) /\ EmacRecv

RtkSrconfirm(t) == Srconfirm(t) /\ tries'[t] <= PortTries /\ UNCHANGED emac
RtkRelease(t) == Release(t) /\ UNCHANGED emac

RtkStep(t) ==
    \/ RtkGetIndex(t)
    \/ (SetupDatagram(t) \/ CopyAnswer(t)) /\ UNCHANGED emac
    \/ RtkOutframe(t) \/ RtkInframe(t) \/ RtkSrconfirm(t) \/ RtkRelease(t)

\* A frame that has reached a receive buffer is not lost on the way.
RtkLose == Lose /\ (\A i \in RingIdx : ring[i] \in wire => ring[i] \in wire') /\ UNCHANGED emac

-----------------------------------------------------------------------------

PortInit == Init /\ EmacInit /\ (VxInit \/ ErikaInit \/ MacInit \/ RtkInit)

\* The program has ended, or made the transactions of the bound.
PortRest ==
    /\ \/ port = "aborted"
       \/ begun = MaxTxn /\ \A t \in Threads : pc[t] = "idle"
    /\ UNCHANGED portvars

PortNext ==
    \/ VxNext /\ UNCHANGED emac
    \/ port = "erika" /\ \E t \in Threads : ErikaStep(t)
    \/ port = "macosx" /\ \E t \in Threads : MacStep(t)
    \/ port \in {"erika", "macosx"} /\ Lose /\ UNCHANGED <<vxvars, emac>>
    \/ port = "rtk" /\ ((\E t \in Threads : RtkStep(t)) \/ EmacReceive \/ RtkLose) /\ UNCHANGED vxvars
    \/ port \in {"erika", "macosx", "rtk", "aborted"} /\ PortRest

PortSpec == PortInit /\ [][PortNext]_portvars

-----------------------------------------------------------------------------

\* bfin_EMAC_recv looks at the buffer that is filled first: it finds no frame only when there is none.
\* NicDriverRing.cfg shows that this does not hold.
RingInStep ==
    port = "rtk" /\ ring[rxIdx] = NoFrame => \A i \in RingIdx : ring[i] = NoFrame

=============================================================================
