------------------------- MODULE PortNicDriversProofs -------------------------
(***************************************************************************)
(* Proofs about the ports of the NIC driver together (PortNicDrivers): the *)
(* four safety properties of NicDriver on every port, and the two          *)
(* properties of the packets of VxWorks.                                   *)
(*                                                                         *)
(* The ports without a task of their own for receiving are instances of    *)
(* the driver of NicDriver: their steps are its steps, so that they keep   *)
(* its inductive invariant (D!IndInv).  VxWorks has an invariant of its    *)
(* own, without rx_mutex and with the places a packet can be at.           *)
(***************************************************************************)
EXTENDS PortNicDrivers, NicDriverProofs, FiniteSetTheorems

\* A thread whose frame is being transmitted is still in its send().
SendPc == [t \in Threads |-> IF pc[t] = "transmit" THEN "send" ELSE pc[t]]
D == INSTANCE NicDriverProofs WITH pc <- SendPc

Ports == {"linux", "erika", "macosx", "rtk", "aborted"} \cup VxPorts
PacketType == [frame : Frame, owners : SUBSET Txn]

PortTypeOK ==
    /\ D!TypeOK
    /\ pc \in [Threads -> PC \cup {"transmit"}]
    /\ port \in Ports
    /\ msgQId \in [Idx -> {"open", "drained", "deleted"}]
    /\ queue \in [Idx -> PacketType]
    /\ rxtask \in Frame
    /\ held \in [Threads -> PacketType]
    /\ free \in Nat
    /\ ring \in [RingIdx -> Frame]
    /\ rxIdx \in RingIdx
    /\ dmaIdx \in RingIdx
    /\ txBuffer \in Frame

-----------------------------------------------------------------------------
(* The ports without a receive task                                        *)

\* Nothing of the VxWorks port is in use.
NoPackets ==
    /\ queue = [i \in Idx |-> NoPacket]
    /\ rxtask = NoFrame
    /\ held = [t \in Threads |-> NoPacket]
    /\ free = Packets

\* rtk: one thread at a time transmits, and what it transmits is its own frame.
TransmitInv ==
    Undisturbed =>
        /\ \A t, u \in Threads : pc[t] = "transmit" /\ pc[u] = "transmit" => t = u
        /\ \A t \in Threads : pc[t] = "transmit" => txBuffer.idx = idx[t] /\ txBuffer.txn = txn[t]

DriverInv == NoPackets /\ D!IndInv /\ TransmitInv

-----------------------------------------------------------------------------
(* VxWorks                                                                 *)

VxMutexInv == \A t \in Threads : pc[t] \in {"search", "take"} => getindex_mutex = t

\* A thread has a packet only between taking it from the queue and reading it.
HeldInv == \A t \in Threads : held[t] # NoPacket => pc[t] = "recv"

\* Every frame on the cable was sent by a thread.
SenderInv == \A f \in wire : f.by \in Threads

\* There is no late store here: a buffer nobody uses is free.
VxFreeInv ==
    \A i \in Idx : (\A t \in Threads : Owns(t) => idx[t] # i) => rxbufstat[i] = "EMPTY"

\* From the cleaning of its queue on, a thread finds only packets there that came while its own
\* transaction had the index.
CleanInv ==
    ~sendFailed =>
        \A t \in Threads :
            /\ pc[t] \in {"transmit", "wait", "recv", "poll"} /\ queue[idx[t]] # NoPacket
                  => txn[t] \in queue[idx[t]].owners
            /\ held[t] # NoPacket => txn[t] \in held[t].owners

\* Every datagram and frame is accounted for, wherever it is.
VxFlowInv ==
    /\ \A t \in Threads : Owns(t) /\ pc[t] # "build" => txbuf[idx[t]] = txn[t]
    /\ \A f \in wire : Accounted(f.txn, f.idx)
    /\ rxtask # NoFrame => Accounted(rxtask.txn, rxtask.idx)
    /\ \A i \in Idx : queue[i] # NoPacket => Accounted(queue[i].frame.txn, i)
    /\ \A t \in Threads : held[t] # NoPacket => Accounted(held[t].frame.txn, idx[t])

\* The places a packet can be at besides the pool and the callback.
Full == {i \in Idx : queue[i] # NoPacket}
Holding == {t \in Threads : held[t] # NoPacket}
Sending == {t \in Threads : port \in VxPorts /\ pc[t] = "transmit"}
InCallback == IF rxtask = NoFrame THEN 0 ELSE 1
PacketCount == free + Cardinality(Full) + Cardinality(Holding) + Cardinality(Sending) + InCallback

\* The queue of index i holds a packet that came after ecx_closenic had emptied it.
Left(i) == msgQId[i] # "open" /\ queue[i] # NoPacket

\* ecx_closenic finds no thread in a transaction, so that the callback accepts no more frames: only one
\* it had accepted before can come after.
CloseInv ==
    /\ port = "vxworks" => \A i \in Idx : msgQId[i] = "open"
    /\ port # "vxworks" => Finished
    /\ \A i, j \in Idx : Left(i) /\ Left(j) => i = j
    /\ \A i \in Idx : Left(i) => rxtask = NoFrame

VxQuietInv == OwnInv /\ VxFlowInv /\ ReadInv
VxInv ==
    /\ VxMutexInv /\ AnswerInv /\ FailInv /\ HeldInv /\ SenderInv /\ VxFreeInv /\ CleanInv
    /\ PacketCount = Packets /\ CloseInv
    /\ Undisturbed => VxQuietInv

PortInv == PortTypeOK /\ (port \notin VxPorts => DriverInv) /\ (port \in VxPorts => VxInv)

-----------------------------------------------------------------------------
(* Steps of the ports as steps of the driver                               *)

PcOK == pc \in [Threads -> PC \cup {"transmit"}]

\* The steps of a thread in NicDriver are its steps also while other threads transmit, which they
\* neither begin nor end.
LEMMA StepMaps ==
  ASSUME PcOK, NEW t \in Threads, Step(t)
  PROVE  D!Step(t) /\ PcOK' /\ \A u \in Threads : pc'[u] = "transmit" <=> pc[u] = "transmit"
  <1> DEFINE Same == PcOK' /\ \A u \in Threads : pc'[u] = "transmit" <=> pc[u] = "transmit"
  <1> USE DEF PcOK, PC, SendPc, Goto, D!Goto, SetStat, D!SetStat, local, D!local, shared, D!shared,
              history, D!history

  <1>1. CASE GetIndexLock(t)
    <2>1. D!GetIndexLock(t)
      BY <1>1 DEF GetIndexLock, D!GetIndexLock, NextIdx, D!NextIdx
    <2>2. Same
      BY <1>1 DEF GetIndexLock
    <2> QED
      BY <2>1, <2>2 DEF D!GetIndexLock, D!Step, D!GetIndex, D!Outframe, D!Inframe, D!Srconfirm

  <1>2. CASE GetIndexSearch(t)
    <2>1. D!GetIndexSearch(t)
      BY <1>2 DEF GetIndexSearch, D!GetIndexSearch, SearchOn, NextIdx, D!SearchOn, D!NextIdx
    <2>2. Same
      BY <1>2 DEF GetIndexSearch
    <2> QED
      BY <2>1, <2>2 DEF D!GetIndexSearch, D!Step, D!GetIndex, D!Outframe, D!Inframe, D!Srconfirm

  <1>3. CASE GetIndexFound(t)
    <2>1. D!GetIndexFound(t)
      BY <1>3 DEF GetIndexFound, D!GetIndexFound, SearchOn, D!SearchOn
    <2>2. Same
      BY <1>3 DEF GetIndexFound
    <2> QED
      BY <2>1, <2>2 DEF D!GetIndexFound, D!Step, D!GetIndex, D!Outframe, D!Inframe, D!Srconfirm

  <1>4. CASE GetIndexTake(t)
    <2>1. D!GetIndexTake(t)
      BY <1>4 DEF GetIndexTake, D!GetIndexTake
    <2>2. Same
      BY <1>4 DEF GetIndexTake
    <2> QED
      BY <2>1, <2>2 DEF D!GetIndexTake, D!Step, D!GetIndex, D!Outframe, D!Inframe, D!Srconfirm

  <1>5. CASE SetupDatagram(t)
    <2>1. D!SetupDatagram(t)
      BY <1>5 DEF SetupDatagram, D!SetupDatagram
    <2>2. Same
      BY <1>5 DEF SetupDatagram
    <2> QED
      BY <2>1, <2>2 DEF D!SetupDatagram, D!Step, D!GetIndex, D!Outframe, D!Inframe, D!Srconfirm

  <1>6. CASE OutframeMark(t)
    <2>1. D!OutframeMark(t)
      BY <1>6 DEF OutframeMark, D!OutframeMark
    <2>2. Same
      BY <1>6 DEF OutframeMark
    <2> QED
      BY <2>1, <2>2 DEF D!OutframeMark, D!Step, D!GetIndex, D!Outframe, D!Inframe, D!Srconfirm

  <1>7. CASE OutframeSend(t)
    <2>1. D!OutframeSend(t)
      BY <1>7 DEF OutframeSend, D!OutframeSend
    <2>2. Same
      BY <1>7 DEF OutframeSend
    <2> QED
      BY <2>1, <2>2 DEF D!OutframeSend, D!Step, D!GetIndex, D!Outframe, D!Inframe, D!Srconfirm

  <1>8. CASE OutframeSendFails(t)
    <2>1. D!OutframeSendFails(t)
      BY <1>8 DEF OutframeSendFails, D!OutframeSendFails
    <2>2. Same
      BY <1>8 DEF OutframeSendFails
    <2> QED
      BY <2>1, <2>2 DEF D!OutframeSendFails, D!Step, D!GetIndex, D!Outframe, D!Inframe, D!Srconfirm

  <1>9. CASE OutframeUnmark(t)
    <2>1. D!OutframeUnmark(t)
      BY <1>9 DEF OutframeUnmark, D!OutframeUnmark
    <2>2. Same
      BY <1>9 DEF OutframeUnmark
    <2> QED
      BY <2>1, <2>2 DEF D!OutframeUnmark, D!Step, D!GetIndex, D!Outframe, D!Inframe, D!Srconfirm

  <1>10. CASE InframeBuffered(t)
    <2>1. D!InframeBuffered(t)
      BY <1>10 DEF InframeBuffered, D!InframeBuffered, Returned, D!Returned
    <2>2. Same
      BY <1>10 DEF InframeBuffered, Returned
    <2> QED
      BY <2>1, <2>2 DEF D!InframeBuffered, D!Step, D!GetIndex, D!Outframe, D!Inframe, D!Srconfirm

  <1>11. CASE InframeNotBuffered(t)
    <2>1. D!InframeNotBuffered(t)
      BY <1>11 DEF InframeNotBuffered, D!InframeNotBuffered
    <2>2. Same
      BY <1>11 DEF InframeNotBuffered
    <2> QED
      BY <2>1, <2>2 DEF D!InframeNotBuffered, D!Step, D!GetIndex, D!Outframe, D!Inframe, D!Srconfirm

  <1>12. CASE InframeLock(t)
    <2>1. D!InframeLock(t)
      BY <1>12 DEF InframeLock, D!InframeLock
    <2>2. Same
      BY <1>12 DEF InframeLock
    <2> QED
      BY <2>1, <2>2 DEF D!InframeLock, D!Step, D!GetIndex, D!Outframe, D!Inframe, D!Srconfirm

  <1>13. CASE RecvNothing(t)
    <2>1. D!RecvNothing(t)
      BY <1>13 DEF RecvNothing, D!RecvNothing
    <2>2. Same
      BY <1>13 DEF RecvNothing
    <2> QED
      BY <2>1, <2>2 DEF D!RecvNothing, D!Step, D!GetIndex, D!Outframe, D!Inframe, D!Srconfirm

  <1>14. CASE RecvOwn(t)
    <2>1. D!RecvOwn(t)
      <3>1. PICK f \in wire, w \in Wkcs : RecvOwn(t)!(f, w)
        BY <1>14 DEF RecvOwn
      <3>2. D!RecvOwn(t)!(f, w)
        BY <3>1 DEF Returned, D!Returned
      <3> QED
        BY <3>2 DEF D!RecvOwn
    <2>2. Same
      BY <1>14 DEF RecvOwn, Returned
    <2> QED
      BY <2>1, <2>2 DEF D!RecvOwn, D!Step, D!GetIndex, D!Outframe, D!Inframe, D!Srconfirm

  <1>15. CASE RecvOther(t)
    <2>1. D!RecvOther(t)
      BY <1>15 DEF RecvOther, D!RecvOther
    <2>2. Same
      BY <1>15 DEF RecvOther
    <2> QED
      BY <2>1, <2>2 DEF D!RecvOther, D!Step, D!GetIndex, D!Outframe, D!Inframe, D!Srconfirm

  <1>16. CASE RecvStrange(t)
    <2>1. D!RecvStrange(t)
      BY <1>16 DEF RecvStrange, D!RecvStrange
    <2>2. Same
      BY <1>16 DEF RecvStrange
    <2> QED
      BY <2>1, <2>2 DEF D!RecvStrange, D!Step, D!GetIndex, D!Outframe, D!Inframe, D!Srconfirm

  <1>17. CASE StoreOther(t)
    <2>1. D!StoreOther(t)
      BY <1>17 DEF StoreOther, D!StoreOther, NoFrame, NoTxn, D!NoFrame, D!NoTxn
    <2>2. Same
      BY <1>17 DEF StoreOther
    <2> QED
      BY <2>1, <2>2 DEF D!StoreOther, D!Step, D!GetIndex, D!Outframe, D!Inframe, D!Srconfirm

  <1>18. CASE PollAgain(t)
    <2>1. D!PollAgain(t)
      BY <1>18 DEF PollAgain, D!PollAgain
    <2>2. Same
      BY <1>18 DEF PollAgain
    <2> QED
      BY <2>1, <2>2 DEF D!PollAgain, D!Step, D!GetIndex, D!Outframe, D!Inframe, D!Srconfirm

  <1>19. CASE Retransmit(t)
    <2>1. D!Retransmit(t)
      BY <1>19 DEF Retransmit, D!Retransmit
    <2>2. Same
      BY <1>19 DEF Retransmit
    <2> QED
      BY <2>1, <2>2 DEF D!Retransmit, D!Step, D!GetIndex, D!Outframe, D!Inframe, D!Srconfirm

  <1>20. CASE TimeOut(t)
    <2>1. D!TimeOut(t)
      BY <1>20 DEF TimeOut, D!TimeOut
    <2>2. Same
      BY <1>20 DEF TimeOut
    <2> QED
      BY <2>1, <2>2 DEF D!TimeOut, D!Step, D!GetIndex, D!Outframe, D!Inframe, D!Srconfirm

  <1>21. CASE CopyAnswer(t)
    <2>1. D!CopyAnswer(t)
      BY <1>21 DEF CopyAnswer, D!CopyAnswer
    <2>2. Same
      BY <1>21 DEF CopyAnswer
    <2> QED
      BY <2>1, <2>2 DEF D!CopyAnswer, D!Step, D!GetIndex, D!Outframe, D!Inframe, D!Srconfirm

  <1>22. CASE Release(t)
    <2>1. D!Release(t)
      BY <1>22 DEF Release, D!Release, UnderWay, NoTxn, NoAnswer, D!UnderWay, D!NoTxn, D!NoAnswer
    <2>2. Same
      BY <1>22 DEF Release
    <2> QED
      BY <2>1, <2>2 DEF D!Release, D!Step, D!GetIndex, D!Outframe, D!Inframe, D!Srconfirm

  <1> QED
    BY <1>1, <1>2, <1>3, <1>4, <1>5, <1>6, <1>7, <1>8, <1>9, <1>10, <1>11, <1>12, <1>13, <1>14, <1>15,
       <1>16, <1>17, <1>18, <1>19, <1>20, <1>21, <1>22
       DEF Step, GetIndex, Outframe, Inframe, Srconfirm

\* On the ports without a receive task every step is one of the driver, or one of the two of the
\* controller of rtk.
LEMMA PortMaps ==
  ASSUME PcOK, port \notin VxPorts, [PortNext]_portvars
  PROVE  \/ [D!Next]_(D!vars) /\ PcOK' /\ UNCHANGED txBuffer
                /\ (\A u \in Threads : pc'[u] = "transmit" <=> pc[u] = "transmit")
         \/ \E t \in Threads : EmacCopy(t) \/ EmacSend(t)
  <1> DEFINE Mapped == [D!Next]_(D!vars) /\ PcOK' /\ UNCHANGED txBuffer
                       /\ (\A u \in Threads : pc'[u] = "transmit" <=> pc[u] = "transmit")
  <1> USE DEF VxPorts
  <1>1. ASSUME NEW t \in Threads, Step(t), UNCHANGED txBuffer PROVE Mapped
    BY <1>1, StepMaps DEF D!Next
  <1>2. ASSUME Lose, UNCHANGED txBuffer PROVE Mapped
    BY <1>2 DEF Lose, D!Next, D!Lose, PcOK, SendPc, local, D!local, history, D!history
  <1>3. ASSUME UNCHANGED vars, UNCHANGED txBuffer PROVE Mapped
    BY <1>3 DEF vars, D!vars, PcOK, SendPc, shared, D!shared, local, D!local, history, D!history
  <1>4. CASE VxNext /\ UNCHANGED emac
    BY <1>1, <1>2, <1>3, <1>4 DEF VxNext, Next, Rest, CloseNic, DrainQueue, DeleteQueue, Unbind, emac
  <1>5. ASSUME NEW t \in Threads, ErikaStep(t) PROVE Mapped
    <2>1. CASE ErikaStrange(t)
      <3>1. Lose
        BY <2>1 DEF ErikaStrange, Lose
      <3> QED
        BY <1>2, <1>5, <3>1 DEF ErikaStep, emac
    <2>2. CASE Step(t)
      BY <1>1, <1>5, <2>2 DEF ErikaStep, emac
    <2> QED
      BY <1>5, <2>1, <2>2
         DEF ErikaStep, ErikaGetIndex, ErikaOutframe, ErikaInframe, ErikaSrconfirm, ErikaRelease,
             Step, Outframe, Inframe
  <1>6. ASSUME NEW t \in Threads, MacStep(t) PROVE Mapped
    <2>1. Step(t) /\ UNCHANGED txBuffer
      BY <1>6 DEF MacStep, MacStrange, MacGetIndex, MacOutframe, MacInframe, MacRecvpkt, MacSrconfirm,
                  MacRelease, Step, Inframe, emac
    <2> QED
      BY <1>1, <2>1
  <1>7. ASSUME NEW t \in Threads, RtkStep(t) PROVE Mapped \/ EmacCopy(t) \/ EmacSend(t)
    <2>1. \/ Step(t) /\ UNCHANGED txBuffer
          \/ EmacCopy(t) \/ EmacSend(t)
      BY <1>7 DEF RtkStep, RtkGetIndex, RtkOutframe, RtkInframe, RtkSrconfirm, RtkRelease, EmacEmpty,
                  EmacRecv, Step, Outframe, Inframe, emac
    <2> QED
      BY <1>1, <2>1
  <1>8. CASE EmacReceive
    <2>1. PICK f \in wire : EmacReceive!(f)
      BY <1>8 DEF EmacReceive
    <2>2. CASE ring[dmaIdx] \in wire
      <3>1. Lose
        BY <2>1, <2>2 DEF Lose
      <3> QED
        BY <1>2, <2>1, <3>1
    <2>3. CASE ring[dmaIdx] \notin wire
      <3>1. wire' = wire
        BY <2>1, <2>3
      <3>2. UNCHANGED vars
        BY <2>1, <3>1 DEF vars, shared
      <3> QED
        BY <1>3, <2>1, <3>2
    <2> QED
      BY <2>2, <2>3
  <1>9. CASE RtkLose
    BY <1>2, <1>9 DEF RtkLose, emac
  <1>10. CASE Lose /\ UNCHANGED <<vxvars, emac>>
    BY <1>2, <1>10 DEF emac
  <1>11. CASE PortRest \/ UNCHANGED portvars
    BY <1>3, <1>11 DEF PortRest, portvars, emac
  <1> QED
    BY <1>4, <1>5, <1>6, <1>7, <1>8, <1>9, <1>10, <1>11 DEF PortNext

\* Linux, Erika and macOS: the port does nothing else than the driver of NicDriver.
SocketPorts == {"linux", "erika", "macosx"}
SocketSpec == PortInit /\ port \in SocketPorts /\ [][PortNext]_portvars

\* A step of such a port is a step of NicDriver.
LEMMA SocketStep ==
  ASSUME port \in SocketPorts \cup {"aborted"}, [PortNext]_portvars
  PROVE  [Next]_vars /\ port' \in SocketPorts \cup {"aborted"}
  <1> USE DEF SocketPorts, VxPorts, vxvars, device
  <1>1. CASE VxNext /\ UNCHANGED emac
    BY <1>1 DEF VxNext, CloseNic, DrainQueue, DeleteQueue, Unbind
  <1>2. ASSUME NEW t \in Threads, ErikaStep(t), port = "erika" PROVE [Next]_vars /\ port' = port
    <2>1. CASE ErikaStrange(t)
      BY <1>2, <2>1 DEF ErikaStep, ErikaStrange, Next, Lose
    <2>2. CASE Step(t)
      BY <1>2, <2>2 DEF ErikaStep, Next
    <2> QED
      BY <1>2, <2>1, <2>2
         DEF ErikaStep, ErikaGetIndex, ErikaOutframe, ErikaInframe, ErikaSrconfirm, ErikaRelease,
             Step, Outframe, Inframe
  <1>3. ASSUME NEW t \in Threads, MacStep(t), port = "macosx"
        PROVE  [Next]_vars /\ port' \in {"macosx", "aborted"}
    <2>1. Step(t) /\ port' \in {"macosx", "aborted"}
      BY <1>3 DEF MacStep, MacStrange, MacGetIndex, MacOutframe, MacInframe, MacRecvpkt, MacSrconfirm,
                  MacRelease, Step, Inframe
    <2> QED
      BY <2>1 DEF Next
  <1>4. CASE Lose /\ UNCHANGED <<vxvars, emac>>
    BY <1>4 DEF Next
  <1>5. CASE PortRest \/ UNCHANGED portvars
    BY <1>5 DEF PortRest, portvars
  <1> QED
    BY <1>1, <1>2, <1>3, <1>4, <1>5 DEF PortNext

\* The drivers of Erika and macOS, with their locks, their second look at the receive queue and
\* their assertion, implement the one of Linux: what is proved of that one holds for them.
THEOREM SocketPortsImplement == SocketSpec => Spec
  <1>1. PortInit => Init
    BY DEF PortInit
  <1>2. port \in SocketPorts => port \in SocketPorts \cup {"aborted"}
    OBVIOUS
  <1>3. port \in SocketPorts \cup {"aborted"} /\ [PortNext]_portvars
           => [Next]_vars /\ (port \in SocketPorts \cup {"aborted"})'
    BY SocketStep
  <1> QED
    BY <1>1, <1>2, <1>3, PTL DEF SocketSpec, Spec

-----------------------------------------------------------------------------
(* Types, on all ports                                                     *)

\* What NicDriverProofs shows of a step, with SendPc for pc.
LEMMA MappedTypeStep == D!TypeOK /\ [D!Next]_(D!vars) => D!TypeOK'
  BY D!TypeStep, NicAssumption DEF D!TypeStep
\* The invariant of the driver under the mapping: its steps keep it,
LEMMA MappedIndStep == D!IndInv /\ [D!Next]_(D!vars) => D!IndInv'
  BY D!IndStep, NicAssumption DEF D!IndStep
\* and its initial states satisfy it.
LEMMA MappedInit == D!Init => D!IndInv
  BY D!InitInd, NicAssumption DEF D!InitInd

\* The mapped program counters have the type of the driver's.
LEMMA SendPcType == PcOK => SendPc \in [Threads -> PC]
  BY DEF PcOK, SendPc, PC

\* A port changes only to "closed" or "aborted", and only that of VxWorks has packets.
LEMMA PortStays ==
  ASSUME port \in Ports, [PortNext]_portvars
  PROVE  /\ port' \in Ports
         /\ port' \in VxPorts <=> port \in VxPorts
         /\ port \notin VxPorts => UNCHANGED <<msgQId, queue, rxtask, held, free>>
  <1> USE DEF Ports, VxPorts, vxvars, device, queues
  <1>1. CASE VxNext /\ UNCHANGED emac
    <2>1. ASSUME NEW t \in Threads, VxStep(t) PROVE port' = port
      BY <2>1 DEF VxStep, VxGetIndex, VxBuild, VxOutframe, OutframeBuffer, OutframeNoBuffer, MuxSend,
                  MuxSendFails, VxInframe, RecvPacket, RecvExpired, TakePacket, VxSrconfirm, ReleaseIndex
    <2>2. ASSUME RxCallback \/ RxPost PROVE port' = port
      BY <2>2 DEF RxCallback, RxPost
    <2> QED
      BY <1>1, <2>1, <2>2 DEF VxNext, CloseNic, DrainQueue, DeleteQueue, Unbind
  <1>2. ASSUME NEW t \in Threads, ErikaStep(t), port = "erika"
        PROVE  UNCHANGED vxvars
    BY <1>2 DEF ErikaStep
  <1>3. ASSUME NEW t \in Threads, MacStep(t), port = "macosx"
        PROVE  port' \in {"macosx", "aborted"} /\ UNCHANGED <<msgQId, queue, rxtask, held, free>>
    BY <1>3 DEF MacStep, MacStrange
  <1>4. CASE PortRest \/ UNCHANGED portvars
    BY <1>4 DEF PortRest, portvars
  <1> QED
    BY <1>1, <1>2, <1>3, <1>4 DEF PortNext

\* The receive buffers and the two places in them.
LEMMA RingStep ==
  ASSUME PortTypeOK, [PortNext]_portvars
  PROVE  ring' \in [RingIdx -> Frame] /\ rxIdx' \in RingIdx /\ dmaIdx' \in RingIdx
  <1> USE DEF PortTypeOK, emac
  <1>0. NoFrame \in Frame /\ \A i \in RingIdx : NextBuffer(i) \in RingIdx
    BY NicAssumption DEF Frame, NoFrame, NoTxn, Txn, Idx, NextBuffer, RingIdx
  <1>1. CASE UNCHANGED emac
    BY <1>1
  <1>2. ASSUME NEW t \in Threads, RtkStep(t) PROVE UNCHANGED <<ring, rxIdx, dmaIdx>> \/ EmacRecv
    BY <1>2 DEF RtkStep, RtkGetIndex, RtkOutframe, EmacCopy, EmacSend, RtkInframe, EmacEmpty,
                RtkSrconfirm,
                RtkRelease
  <1>3. CASE EmacRecv
    BY <1>0, <1>3 DEF EmacRecv
  <1>4. CASE EmacReceive
    <2>1. PICK f \in wire : EmacReceive!(f)
      BY <1>4 DEF EmacReceive
    <2> QED
      BY <1>0, <2>1 DEF D!TypeOK, D!Frame, Frame, D!Idx, Idx, D!Txn, Txn
  <1>5. UNCHANGED emac \/ EmacReceive \/ \E t \in Threads : RtkStep(t)
    <2>1. ASSUME NEW t \in Threads, ErikaStep(t) PROVE UNCHANGED emac
      BY <2>1 DEF ErikaStep
    <2>2. ASSUME NEW t \in Threads, MacStep(t) PROVE UNCHANGED emac
      BY <2>2 DEF MacStep, MacStrange
    <2> QED
      BY <2>1, <2>2 DEF PortNext, PortRest, RtkLose, portvars
  <1> QED
    BY <1>1, <1>2, <1>3, <1>4, <1>5

\* The steps of VxWorks; the controller of rtk has no part in them.
LEMMA VxCases ==
  ASSUME port \in VxPorts, [PortNext]_portvars
  PROVE  /\ \/ port = "vxworks" /\ \E t \in Threads : VxStep(t)
            \/ RxCallback \/ RxPost \/ CloseNic
            \/ Lose /\ UNCHANGED vxvars
            \/ UNCHANGED <<vars, vxvars>>
         /\ UNCHANGED emac
  BY DEF VxPorts, PortNext, VxNext, PortRest, portvars

\* A step of a thread that VxWorks shares with the driver keeps the types.
LEMMA SharedTypeStep ==
  ASSUME PortTypeOK, NEW t \in Threads, Step(t), UNCHANGED <<vxvars, emac>>
  PROVE  PortTypeOK'
  <1>1. D!TypeOK' /\ PcOK'
    BY StepMaps, MappedTypeStep DEF PortTypeOK, PcOK, D!Next
  <1> QED
    BY <1>1 DEF PortTypeOK, PcOK, vxvars, device, queues, emac

\* Every step keeps the types.
LEMMA PortTypeStep == PortTypeOK /\ [PortNext]_portvars => PortTypeOK'
  <1> SUFFICES ASSUME PortTypeOK, [PortNext]_portvars PROVE PortTypeOK'
    OBVIOUS
  <1> USE NicAssumption DEF device
  <1>0. PcOK
    BY DEF PortTypeOK, PcOK
  <1>1. CASE port \notin VxPorts
    <2>1. D!TypeOK' /\ PcOK' /\ txBuffer' \in Frame
      <3>1. CASE [D!Next]_(D!vars) /\ PcOK' /\ UNCHANGED txBuffer
        BY <3>1, MappedTypeStep DEF PortTypeOK
      <3>2. ASSUME NEW t \in Threads, EmacCopy(t) PROVE D!TypeOK' /\ PcOK' /\ txBuffer' \in Frame
        <4>1. PcOK' /\ SendPc' = SendPc
          BY <1>0, <3>2 DEF EmacCopy, Goto, PcOK, SendPc
        <4>2. txBuffer' \in Frame
          BY <3>2 DEF PortTypeOK, EmacCopy, Goto, D!TypeOK, D!Idx, Idx, D!Txn, Txn, D!Frame, Frame,
                      D!Answer, Answer, D!BufStat, BufStat
        <4>3. sendFailed' \in BOOLEAN
          BY <3>2, Zenon DEF EmacCopy
        <4> QED
          BY <3>2, <4>1, <4>2, <4>3 DEF PortTypeOK, D!TypeOK, EmacCopy, shared
      <3>3. ASSUME NEW t \in Threads, EmacSend(t) PROVE D!TypeOK' /\ PcOK' /\ txBuffer' \in Frame
        <4>1. PcOK'
          BY <1>0, <3>3 DEF EmacSend, Goto, PcOK, PC
        <4>2. SendPc' \in [Threads -> D!PC]
          BY <4>1 DEF PcOK, SendPc, PC, D!PC
        <4>3. [idx |-> txBuffer.idx, txn |-> txBuffer.txn, by |-> t, try |-> tries[t]] \in D!Frame
          BY DEF PortTypeOK, D!TypeOK, D!Idx, Idx, D!Txn, Txn, D!Frame, Frame, D!Answer, Answer,
                 D!BufStat, BufStat
        <4> QED
          BY <3>3, <4>1, <4>2, <4>3 DEF PortTypeOK, D!TypeOK, EmacSend, history, emac
      <3> QED
        BY <1>0, <1>1, <3>1, <3>2, <3>3, PortMaps
    <2> QED
      BY <1>1, <2>1, PortStays, RingStep DEF PortTypeOK, PcOK
  <1>2. CASE port \in VxPorts
    <2>0. UNCHANGED emac /\ port' \in Ports
      BY <1>2, VxCases, PortStays DEF PortTypeOK
    <2>1. PcOK' => SendPc' \in [Threads -> D!PC]
      BY DEF PcOK, SendPc, PC, D!PC
    <2>2. NoPacket \in PacketType /\ NoFrame \in Frame /\ 0 \in D!Idx /\ 0 \in D!Txn /\ NoAnswer \in D!Answer
      BY DEF PacketType, NoPacket, NoFrame, NoTxn, NoAnswer, D!TypeOK, D!Idx, Idx, D!Txn, Txn, D!Frame,
             Frame, D!Answer, Answer, D!BufStat, BufStat
    <2>3. ASSUME NEW t \in Threads, Step(t), UNCHANGED vxvars PROVE PortTypeOK'
      BY <2>0, <2>3, SharedTypeStep
    <2>4. ASSUME NEW t \in Threads, OutframeBuffer(t) PROVE PortTypeOK'
      <3>1. PcOK' /\ free' \in Nat
        BY <1>0, <2>4 DEF OutframeBuffer, Goto, PcOK, PC, PortTypeOK
      <3> QED
        BY <2>0, <2>1, <2>2, <2>4, <3>1 DEF PortTypeOK, PcOK, D!TypeOK, OutframeBuffer, shared, history,
                                            emac
    <2>5. ASSUME NEW t \in Threads, OutframeNoBuffer(t) PROVE PortTypeOK'
      <3>1. PcOK'
        BY <1>0, <2>5 DEF OutframeNoBuffer, Goto, PcOK, PC
      <3> QED
        BY <2>0, <2>1, <2>5, <3>1
           DEF PortTypeOK, PcOK, D!TypeOK, OutframeNoBuffer, vxvars, device, queues, shared, emac
    <2>6. ASSUME NEW t \in Threads, MuxSend(t) PROVE PortTypeOK'
      <3>1. PcOK'
        BY <1>0, <2>6 DEF MuxSend, Goto, PcOK, PC
      <3>2. [idx |-> idx[t], txn |-> txbuf[idx[t]], by |-> t, try |-> tries[t]] \in D!Frame
        BY DEF PortTypeOK, D!TypeOK, D!Idx, Idx, D!Txn, Txn, D!Frame, Frame, D!Answer, Answer,
               D!BufStat, BufStat
      <3> QED
        BY <2>0, <2>1, <2>6, <3>1, <3>2 DEF PortTypeOK, PcOK, D!TypeOK, MuxSend, queues, history, emac
    <2>7. ASSUME NEW t \in Threads, MuxSendFails(t) PROVE PortTypeOK'
      <3>1. PcOK'
        BY <1>0, <2>7 DEF MuxSendFails, Goto, PcOK, PC
      <3> QED
        BY <2>0, <2>1, <2>7, <3>1 DEF PortTypeOK, PcOK, D!TypeOK, MuxSendFails, queues, shared, emac
    <2>8. ASSUME NEW t \in Threads, RecvPacket(t) PROVE PortTypeOK'
      <3>1. PcOK'
        BY <1>0, <2>8 DEF RecvPacket, Goto, PcOK, PC
      <3>2. queue[idx[t]] \in PacketType
        BY DEF PortTypeOK, D!TypeOK, D!Idx, Idx
      <3> QED
        BY <2>0, <2>1, <2>2, <2>8, <3>1, <3>2 DEF PortTypeOK, PcOK, D!TypeOK, RecvPacket, shared,
                                                  history, emac
    <2>9. ASSUME NEW t \in Threads, RecvExpired(t) PROVE PortTypeOK'
      <3>1. PcOK'
        BY <1>0, <2>9 DEF RecvExpired, Goto, PcOK, PC
      <3> QED
        BY <2>0, <2>1, <2>9, <3>1
           DEF PortTypeOK, PcOK, D!TypeOK, RecvExpired, vxvars, device, queues, shared, history, emac
    <2>10. ASSUME NEW t \in Threads, TakePacket(t) PROVE PortTypeOK'
      <3>1. PICK w \in Wkcs : TakePacket(t)!(w)
        BY <2>10 DEF TakePacket
      <3>2. PcOK'
        BY <1>0, <3>1 DEF Goto, Returned, PcOK, PC
      <3>3. held[t].frame.txn \in Txn
        BY DEF PortTypeOK, PacketType, Frame
      <3>4. [txn |-> held[t].frame.txn, wkc |-> w] \in D!Answer
        BY <3>3 DEF D!Answer, D!Txn, Txn
      <3>5. "COMPLETE" \in D!BufStat
        BY DEF D!BufStat
      <3>6. rxbufstat' \in [D!Idx -> D!BufStat] /\ rxbuf' \in [D!Idx -> D!Answer] /\ answer' \in [Threads -> D!Answer]
        BY <3>1, <3>4, <3>5 DEF PortTypeOK, D!TypeOK, SetStat
      <3>7. held' \in [Threads -> PacketType] /\ free' \in Nat
        BY <2>2, <3>1 DEF PortTypeOK
      <3> QED
        BY <2>0, <2>1, <3>1, <3>2, <3>6, <3>7 DEF PortTypeOK, PcOK, D!TypeOK, history, emac
    <2>11. ASSUME NEW t \in Threads, ReleaseIndex(t) PROVE PortTypeOK'
      <3>1. PcOK'
        BY <1>0, <2>11 DEF ReleaseIndex, Goto, PcOK, PC
      <3>2. "EMPTY" \in D!BufStat /\ NoTxn \in D!Txn /\ 0 \in 0 .. MaxTries /\ 0 \in 0 .. EC_MAXBUF
        BY <2>2 DEF D!BufStat, NoTxn
      <3> QED
        BY <2>0, <2>1, <2>2, <2>11, <3>1, <3>2
           DEF PortTypeOK, PcOK, D!TypeOK, ReleaseIndex, SetStat, vxvars, device, queues, emac
    <2>12. CASE RxCallback
      <3>1. PICK f \in wire : /\ wire' = wire \ {f}
                              /\ \/ rxtask' = f /\ free' = free - 1
                                 \/ UNCHANGED <<rxtask, free>>
        BY <2>12 DEF RxCallback
      <3>2. f \in Frame
        BY DEF PortTypeOK, D!TypeOK, D!Idx, Idx, D!Txn, Txn, D!Frame, Frame, D!Answer, Answer,
               D!BufStat, BufStat
      <3>3. UNCHANGED <<SendPc, pc, queue, held>>
        BY <2>12 DEF RxCallback, local, SendPc
      <3> QED
        BY <2>0, <2>12, <3>1, <3>2, <3>3 DEF PortTypeOK, D!TypeOK, RxCallback, local, history, emac
    <2>13. CASE RxPost
      <3>1. Owners(rxtask.idx) \subseteq Txn
        BY DEF PortTypeOK, D!TypeOK, D!Txn, Txn, Owners
      <3>2. Packet(rxtask) \in PacketType
        BY <3>1 DEF PortTypeOK, PacketType, Packet
      <3>3. UNCHANGED <<SendPc, pc, held>> /\ free' \in Nat
        BY <2>13 DEF PortTypeOK, RxPost, local, SendPc
      <3>4. queue' \in [Idx -> PacketType]
        BY <2>13, <3>2 DEF PortTypeOK, RxPost
      <3> QED
        BY <2>0, <2>2, <2>13, <3>3, <3>4 DEF PortTypeOK, D!TypeOK, RxPost, shared, local, history, emac
    <2>14. CASE Lose /\ UNCHANGED vxvars
      <3>1. UNCHANGED <<SendPc, pc>>
        BY <2>14 DEF Lose, local, SendPc
      <3> QED
        BY <2>0, <2>14, <3>1 DEF PortTypeOK, D!TypeOK, Lose, vxvars, device, queues, local, history, emac
    <2>15. CASE CloseNic
      <3>1. UNCHANGED <<SendPc, pc>>
        BY <2>15 DEF CloseNic, DrainQueue, DeleteQueue, Unbind, vars, local, SendPc
      <3>4. free' \in Nat
        BY <2>15 DEF PortTypeOK, CloseNic, DrainQueue, DeleteQueue, Unbind
      <3>5. UNCHANGED vars /\ UNCHANGED <<rxtask, held>>
        BY <2>15 DEF CloseNic, DrainQueue, DeleteQueue, Unbind, queues
      <3>6. msgQId' \in [Idx -> {"open", "drained", "deleted"}] /\ queue' \in [Idx -> PacketType]
        BY <2>2, <2>15 DEF PortTypeOK, CloseNic, DrainQueue, DeleteQueue, Unbind, queues
      <3>7. D!TypeOK'
        BY <3>1, <3>5 DEF PortTypeOK, D!TypeOK, vars, shared, local, history
      <3> QED
        BY <2>0, <3>1, <3>4, <3>5, <3>6, <3>7 DEF PortTypeOK, emac
    <2>16. CASE UNCHANGED <<vars, vxvars>>
      <3>1. UNCHANGED <<SendPc, pc>>
        BY <2>16 DEF vars, local, SendPc
      <3> QED
        BY <2>0, <2>16, <3>1 DEF PortTypeOK, D!TypeOK, vxvars, device, queues, vars, shared, local, history, emac
    <2>17. ASSUME NEW t \in Threads, VxStep(t) PROVE PortTypeOK'
      BY <2>17, <2>3, <2>4, <2>5, <2>6, <2>7, <2>8, <2>9, <2>10, <2>11
         DEF VxStep, VxGetIndex, VxOutframe, VxBuild, VxInframe, VxSrconfirm, Step, Outframe
    <2> QED
      BY <1>2, <2>12, <2>13, <2>14, <2>15, <2>16, <2>17, VxCases
  <1> QED
    BY <1>1, <1>2

-----------------------------------------------------------------------------
(* The ports without a receive task keep the invariant of the driver       *)

\* A thread that sends or transmits keeps its index and its transaction.
LEMMA SendingKept ==
  ASSUME PortTypeOK, D!Next, NEW u \in Threads, pc[u] = "transmit"
  PROVE  idx'[u] = idx[u] /\ txn'[u] = txn[u]
  <1> USE DEF D!Goto, D!history, D!local
  <1>1. SendPc[u] = "send"
    BY DEF SendPc
  <1>2. idx \in [Threads -> D!Idx] /\ txn \in [Threads -> D!Txn]
    BY DEF PortTypeOK, D!TypeOK
  <1>3. ASSUME NEW t \in Threads, D!GetIndex(t) PROVE idx'[u] = idx[u] /\ txn'[u] = txn[u]
    BY <1>1, <1>2, <1>3 DEF D!GetIndex, D!GetIndexLock, D!GetIndexSearch, D!GetIndexFound, D!GetIndexTake
  <1>4. ASSUME NEW t \in Threads, D!SetupDatagram(t) \/ D!Outframe(t) PROVE UNCHANGED <<idx, txn>>
    BY <1>4 DEF D!SetupDatagram, D!Outframe, D!OutframeMark, D!OutframeSend, D!OutframeSendFails,
                D!OutframeUnmark
  <1>5. ASSUME NEW t \in Threads, D!Inframe(t) PROVE UNCHANGED <<idx, txn>>
    BY <1>5 DEF D!Inframe, D!InframeBuffered, D!InframeNotBuffered, D!InframeLock, D!RecvNothing,
                D!RecvOwn,
                D!RecvOther, D!RecvStrange, D!StoreOther
  <1>6. ASSUME NEW t \in Threads, D!Srconfirm(t) \/ D!CopyAnswer(t) PROVE UNCHANGED <<idx, txn>>
    BY <1>6 DEF D!Srconfirm, D!PollAgain, D!Retransmit, D!TimeOut, D!CopyAnswer
  <1>7. ASSUME NEW t \in Threads, D!Release(t) PROVE idx'[u] = idx[u] /\ txn'[u] = txn[u]
    BY <1>1, <1>2, <1>7 DEF D!Release
  <1> QED
    BY <1>3, <1>4, <1>5, <1>6, <1>7 DEF D!Next, D!Step, D!Lose, D!Rest, D!vars

\* Every step of such a port keeps the invariant.
LEMMA DriverStep ==
  ASSUME PortTypeOK, DriverInv, port \notin VxPorts, [PortNext]_portvars
  PROVE  DriverInv'
  <1>0. PcOK
    BY DEF PortTypeOK, PcOK
  <1>1. NoPackets'
    BY PortStays DEF PortTypeOK, DriverInv, NoPackets
  <1>2. D!Undisturbed <=> Undisturbed
    BY DEF D!Undisturbed, Undisturbed
  <1>3. ASSUME [D!Next]_(D!vars), UNCHANGED txBuffer,
               \A u \in Threads : pc'[u] = "transmit" <=> pc[u] = "transmit"
        PROVE  D!IndInv' /\ TransmitInv'
    <2>1. D!IndInv'
      BY <1>3, MappedIndStep DEF DriverInv
    <2>2. ASSUME Undisturbed' PROVE Undisturbed
      BY <1>3, <2>2, NicAssumption, D!QuietBefore DEF D!QuietBefore, D!Undisturbed, Undisturbed
    <2>3. ASSUME NEW u \in Threads, pc[u] = "transmit" PROVE idx'[u] = idx[u] /\ txn'[u] = txn[u]
      BY <1>3, <2>3, SendingKept DEF D!vars, D!local
    <2>4. TransmitInv'
      BY <1>3, <2>2, <2>3 DEF DriverInv, TransmitInv
    <2> QED
      BY <2>1, <2>4
  <1>4. ASSUME NEW t \in Threads, EmacCopy(t) PROVE D!IndInv' /\ TransmitInv'
    <2>1. PcOK' /\ SendPc' = SendPc /\ pc[t] = "send" /\ SendPc[t] = "send"
      BY <1>0, <1>4 DEF EmacCopy, Goto, PcOK, SendPc
    <2>2. UNCHANGED <<shared, idx, cnt, txn, tries, answer, begun, exhausted, late, SendPc>>
      BY <1>4, <2>1 DEF EmacCopy
    <2>3. sendFailed => sendFailed'
      BY <1>4 DEF EmacCopy
    <2>4. D!BaseInv'
      <3>1. D!BaseInv
        BY DEF DriverInv, D!IndInv
      <3>2. D!TypeOK'
        BY PortTypeStep DEF PortTypeOK
      <3>3. D!MutexInv' /\ D!StoreInv'
        BY <2>2, <3>1 DEF D!BaseInv, D!MutexInv, D!StoreInv, shared
      <3>4. D!AnswerInv' /\ D!FailInv'
        BY <2>2, <2>3, <3>1 DEF D!BaseInv, D!AnswerInv, D!FailInv, D!NoAnswer
      <3>5. D!FreeInv'
        BY <2>2, <3>1 DEF D!BaseInv, D!FreeInv, D!Owns, shared
      <3> QED
        BY <3>2, <3>3, <3>4, <3>5 DEF D!BaseInv
    <2>5. ASSUME Undisturbed' PROVE Undisturbed /\ \A u \in Threads : pc[u] # "transmit"
      <3>1. ~exhausted' /\ ~sendFailed'
        BY <2>5 DEF Undisturbed
      <3>2. ~exhausted
        BY <2>2, <3>1
      <3>3. ~sendFailed /\ ~\E u \in Threads : pc[u] = "transmit"
        BY <1>4, <3>1, Zenon DEF EmacCopy
      <3> QED
        BY <3>2, <3>3 DEF Undisturbed
    <2>6. ASSUME Undisturbed' PROVE D!QuietInv'
      <3>1. D!QuietInv
        BY <1>2, <2>5, <2>6 DEF DriverInv, D!IndInv
      <3>2. late' = late
        BY <2>2
      <3> QED
        BY <2>2, <3>1, <3>2
           DEF D!QuietInv, D!OwnInv, D!FlowInv, D!ReadInv, D!Accounted, D!Owns, shared
    <2>7. ASSUME Undisturbed' PROVE TransmitInv'
      <3>1. txbuf[idx[t]] = txn[t]
        BY <1>2, <2>1, <2>5, <2>7 DEF DriverInv, D!IndInv, D!QuietInv, D!FlowInv, D!Owns
      <3>2. txBuffer'.idx = idx'[t] /\ txBuffer'.txn = txn'[t]
        BY <1>4, <3>1 DEF EmacCopy
      <3>3. \A u \in Threads : pc'[u] = "transmit" => u = t
        BY <1>0, <1>4, <2>5, <2>7 DEF EmacCopy, Goto, PcOK
      <3> QED
        BY <3>2, <3>3 DEF TransmitInv
    <2> QED
      BY <2>4, <2>6, <2>7 DEF D!IndInv, D!Undisturbed, Undisturbed, TransmitInv
  <1>5. ASSUME NEW t \in Threads, EmacSend(t) PROVE D!IndInv' /\ TransmitInv'
    <2>1. PcOK' /\ pc[t] = "transmit" /\ SendPc[t] = "send" /\ SendPc' = [SendPc EXCEPT ![t] = "wait"]
      BY <1>0, <1>5 DEF EmacSend, Goto, PcOK, PC, SendPc
    <2>2. Undisturbed' <=> Undisturbed
      BY <1>5 DEF EmacSend, history, Undisturbed
    <2>3. CASE Undisturbed
      <3>1. txBuffer.idx = idx[t] /\ txBuffer.txn = txn[t] /\ \A u \in Threads : pc[u] = "transmit" => u = t
        BY <2>1, <2>3 DEF DriverInv, TransmitInv
      <3>2. txbuf[idx[t]] = txn[t]
        BY <1>2, <2>1, <2>3 DEF DriverInv, D!IndInv, D!QuietInv, D!FlowInv, D!Owns
      <3>4. D!OutframeSend(t)
        BY <1>5, <2>1, <3>1, <3>2 DEF EmacSend, D!OutframeSend, D!Goto, history, D!history
      <3>5. D!IndInv'
        BY <3>4, MappedIndStep DEF DriverInv, D!Next, D!Step, D!Outframe
      <3>6. \A u \in Threads : pc'[u] # "transmit"
        BY <1>0, <1>5, <3>1 DEF EmacSend, Goto, PcOK
      <3> QED
        BY <3>5, <3>6 DEF TransmitInv
    <2>4. CASE ~Undisturbed
      <3>1. D!TypeOK'
        BY PortTypeStep DEF PortTypeOK
      <3>2. UNCHANGED <<rxbufstat, getindex_mutex, rx_mutex, tempbuf, idx, answer, sendFailed>>
        BY <1>5 DEF EmacSend, history
      <3>3. D!BaseInv'
        BY <2>1, <3>1, <3>2
           DEF DriverInv, D!IndInv, D!BaseInv, D!TypeOK, D!MutexInv, D!StoreInv, D!AnswerInv, D!FailInv,
               D!FreeInv, D!Owns, D!Idx
      <3> QED
        BY <2>2, <2>4, <3>3 DEF D!IndInv, D!Undisturbed, Undisturbed, TransmitInv
    <2> QED
      BY <2>3, <2>4
  <1> QED
    BY <1>0, <1>1, <1>3, <1>4, <1>5, PortMaps DEF DriverInv

-----------------------------------------------------------------------------
(* VxWorks                                                                 *)

\* The types the VxWorks lemmas use.
BufferTypes ==
    /\ rxbufstat \in [Idx -> BufStat]
    /\ rxbuf \in [Idx -> Answer]
    /\ txbuf \in [Idx -> Txn]
    /\ wire \subseteq Frame
    /\ pc \in [Threads -> PC \cup {"transmit"}]
    /\ idx \in [Threads -> Idx]
    /\ txn \in [Threads -> Txn]
    /\ answer \in [Threads -> Answer]
    /\ exhausted \in BOOLEAN
    /\ sendFailed \in BOOLEAN
    /\ msgQId \in [Idx -> {"open", "drained", "deleted"}]
    /\ queue \in [Idx -> PacketType]
    /\ rxtask \in Frame
    /\ held \in [Threads -> PacketType]
    /\ free \in Nat

\* The type invariant of the ports without the part that speaks of SendPc.
LEMMA TypesOfBuffers == PortTypeOK => BufferTypes
  BY DEF PortTypeOK, BufferTypes, D!TypeOK, D!Idx, Idx, D!Txn, Txn, D!Frame, Frame, D!Answer, Answer,
         D!BufStat, BufStat

\* VxWorks: one thread at a time searches an index.
LEMMA VxMutexStep ==
  ASSUME BufferTypes, VxMutexInv,
         port \in VxPorts, [PortNext]_portvars
  PROVE  VxMutexInv'
  <1> USE NicAssumption DEF BufferTypes, Goto, SetStat, shared, local, history, vars, vxvars, device, queues,
                            VxMutexInv
  <1>1. ASSUME NEW t \in Threads, GetIndexLock(t), UNCHANGED vxvars PROVE VxMutexInv'
    BY <1>1 DEF GetIndexLock
  <1>2. ASSUME NEW t \in Threads, GetIndexSearch(t), UNCHANGED vxvars PROVE VxMutexInv'
    BY <1>2 DEF GetIndexSearch, SearchOn
  <1>3. ASSUME NEW t \in Threads, GetIndexFound(t), UNCHANGED vxvars PROVE VxMutexInv'
    BY <1>3 DEF GetIndexFound, SearchOn
  <1>4. ASSUME NEW t \in Threads, GetIndexTake(t), UNCHANGED vxvars PROVE VxMutexInv'
    BY <1>4 DEF GetIndexTake
  <1>5. ASSUME NEW t \in Threads, SetupDatagram(t), UNCHANGED vxvars PROVE VxMutexInv'
    BY <1>5 DEF SetupDatagram
  <1>6. ASSUME NEW t \in Threads, OutframeMark(t), UNCHANGED vxvars PROVE VxMutexInv'
    BY <1>6 DEF OutframeMark
  <1>7. ASSUME NEW t \in Threads, OutframeUnmark(t), UNCHANGED vxvars PROVE VxMutexInv'
    BY <1>7 DEF OutframeUnmark
  <1>8. ASSUME NEW t \in Threads, PollAgain(t), UNCHANGED vxvars PROVE VxMutexInv'
    BY <1>8 DEF PollAgain
  <1>9. ASSUME NEW t \in Threads, Retransmit(t), UNCHANGED vxvars PROVE VxMutexInv'
    BY <1>9 DEF Retransmit
  <1>10. ASSUME NEW t \in Threads, TimeOut(t), UNCHANGED vxvars PROVE VxMutexInv'
    BY <1>10 DEF TimeOut
  <1>11. ASSUME NEW t \in Threads, CopyAnswer(t), UNCHANGED vxvars PROVE VxMutexInv'
    BY <1>11 DEF CopyAnswer
  <1>12. ASSUME NEW t \in Threads, OutframeBuffer(t) PROVE VxMutexInv'
    BY <1>12 DEF OutframeBuffer
  <1>13. ASSUME NEW t \in Threads, OutframeNoBuffer(t) PROVE VxMutexInv'
    BY <1>13 DEF OutframeNoBuffer
  <1>14. ASSUME NEW t \in Threads, MuxSend(t) PROVE VxMutexInv'
    BY <1>14 DEF MuxSend
  <1>15. ASSUME NEW t \in Threads, MuxSendFails(t) PROVE VxMutexInv'
    BY <1>15 DEF MuxSendFails
  <1>16. ASSUME NEW t \in Threads, RecvPacket(t) PROVE VxMutexInv'
    BY <1>16 DEF RecvPacket
  <1>17. ASSUME NEW t \in Threads, RecvExpired(t) PROVE VxMutexInv'
    BY <1>17 DEF RecvExpired
  <1>18. ASSUME NEW t \in Threads, TakePacket(t) PROVE VxMutexInv'
    BY <1>18 DEF TakePacket, Returned
  <1>19. ASSUME NEW t \in Threads, ReleaseIndex(t) PROVE VxMutexInv'
    BY <1>19 DEF ReleaseIndex, UnderWay, Queued
  <1>20. CASE RxCallback
    BY <1>20 DEF RxCallback
  <1>21. CASE RxPost
    BY <1>21 DEF RxPost, Packet, Owners
  <1>22. CASE Lose /\ UNCHANGED vxvars
    BY <1>22 DEF Lose
  <1>23. CASE CloseNic
    BY <1>23 DEF CloseNic, DrainQueue, DeleteQueue, Unbind
  <1>24. CASE UNCHANGED <<vars, vxvars>>
    BY <1>24
  <1> QED
    BY <1>1, <1>2, <1>3, <1>4, <1>5, <1>6, <1>7, <1>8, <1>9, <1>10, <1>11, <1>12, <1>13,
       <1>14, <1>15, <1>16, <1>17, <1>18, <1>19, <1>20, <1>21, <1>22, <1>23, <1>24, VxCases
       DEF VxStep, VxGetIndex, GetIndex, VxOutframe, VxBuild, VxInframe, VxSrconfirm, Srconfirm

\* VxWorks: the facts about single threads.
LEMMA VxLocalStep ==
  ASSUME BufferTypes, AnswerInv, FailInv, HeldInv, SenderInv,
         port \in VxPorts, [PortNext]_portvars
  PROVE  (AnswerInv /\ FailInv /\ HeldInv /\ SenderInv)'
  <1> USE NicAssumption DEF BufferTypes, Goto, SetStat, shared, local, history, vars, vxvars, device, queues,
                            AnswerInv, FailInv, HeldInv, SenderInv
  <1>1. ASSUME NEW t \in Threads, GetIndexLock(t), UNCHANGED vxvars
         PROVE  (AnswerInv /\ FailInv /\ HeldInv /\ SenderInv)'
    BY <1>1 DEF GetIndexLock
  <1>2. ASSUME NEW t \in Threads, GetIndexSearch(t), UNCHANGED vxvars
         PROVE  (AnswerInv /\ FailInv /\ HeldInv /\ SenderInv)'
    BY <1>2 DEF GetIndexSearch, SearchOn
  <1>3. ASSUME NEW t \in Threads, GetIndexFound(t), UNCHANGED vxvars
         PROVE  (AnswerInv /\ FailInv /\ HeldInv /\ SenderInv)'
    BY <1>3 DEF GetIndexFound, SearchOn
  <1>4. ASSUME NEW t \in Threads, GetIndexTake(t), UNCHANGED vxvars
         PROVE  (AnswerInv /\ FailInv /\ HeldInv /\ SenderInv)'
    BY <1>4 DEF GetIndexTake
  <1>5. ASSUME NEW t \in Threads, SetupDatagram(t), UNCHANGED vxvars
         PROVE  (AnswerInv /\ FailInv /\ HeldInv /\ SenderInv)'
    BY <1>5 DEF SetupDatagram
  <1>6. ASSUME NEW t \in Threads, OutframeMark(t), UNCHANGED vxvars
         PROVE  (AnswerInv /\ FailInv /\ HeldInv /\ SenderInv)'
    BY <1>6 DEF OutframeMark
  <1>7. ASSUME NEW t \in Threads, OutframeUnmark(t), UNCHANGED vxvars
         PROVE  (AnswerInv /\ FailInv /\ HeldInv /\ SenderInv)'
    BY <1>7 DEF OutframeUnmark
  <1>8. ASSUME NEW t \in Threads, PollAgain(t), UNCHANGED vxvars
         PROVE  (AnswerInv /\ FailInv /\ HeldInv /\ SenderInv)'
    BY <1>8 DEF PollAgain
  <1>9. ASSUME NEW t \in Threads, Retransmit(t), UNCHANGED vxvars
         PROVE  (AnswerInv /\ FailInv /\ HeldInv /\ SenderInv)'
    BY <1>9 DEF Retransmit
  <1>10. ASSUME NEW t \in Threads, TimeOut(t), UNCHANGED vxvars
         PROVE  (AnswerInv /\ FailInv /\ HeldInv /\ SenderInv)'
    BY <1>10 DEF TimeOut
  <1>11. ASSUME NEW t \in Threads, CopyAnswer(t), UNCHANGED vxvars
         PROVE  (AnswerInv /\ FailInv /\ HeldInv /\ SenderInv)'
    BY <1>11 DEF CopyAnswer
  <1>12. ASSUME NEW t \in Threads, OutframeBuffer(t)
         PROVE  (AnswerInv /\ FailInv /\ HeldInv /\ SenderInv)'
    BY <1>12 DEF OutframeBuffer
  <1>13. ASSUME NEW t \in Threads, OutframeNoBuffer(t)
         PROVE  (AnswerInv /\ FailInv /\ HeldInv /\ SenderInv)'
    BY <1>13 DEF OutframeNoBuffer
  <1>14. ASSUME NEW t \in Threads, MuxSend(t)
         PROVE  (AnswerInv /\ FailInv /\ HeldInv /\ SenderInv)'
    BY <1>14 DEF MuxSend
  <1>15. ASSUME NEW t \in Threads, MuxSendFails(t)
         PROVE  (AnswerInv /\ FailInv /\ HeldInv /\ SenderInv)'
    BY <1>15 DEF MuxSendFails
  <1>16. ASSUME NEW t \in Threads, RecvPacket(t)
         PROVE  (AnswerInv /\ FailInv /\ HeldInv /\ SenderInv)'
    BY <1>16 DEF RecvPacket
  <1>17. ASSUME NEW t \in Threads, RecvExpired(t)
         PROVE  (AnswerInv /\ FailInv /\ HeldInv /\ SenderInv)'
    BY <1>17 DEF RecvExpired
  <1>18. ASSUME NEW t \in Threads, TakePacket(t)
         PROVE  (AnswerInv /\ FailInv /\ HeldInv /\ SenderInv)'
    BY <1>18 DEF TakePacket, Returned
  <1>19. ASSUME NEW t \in Threads, ReleaseIndex(t)
         PROVE  (AnswerInv /\ FailInv /\ HeldInv /\ SenderInv)'
    BY <1>19 DEF ReleaseIndex, UnderWay, Queued
  <1>20. CASE RxCallback
    BY <1>20 DEF RxCallback
  <1>21. CASE RxPost
    BY <1>21 DEF RxPost, Packet, Owners
  <1>22. CASE Lose /\ UNCHANGED vxvars
    BY <1>22 DEF Lose
  <1>23. CASE CloseNic
    BY <1>23 DEF CloseNic, DrainQueue, DeleteQueue, Unbind
  <1>24. CASE UNCHANGED <<vars, vxvars>>
    BY <1>24
  <1> QED
    BY <1>1, <1>2, <1>3, <1>4, <1>5, <1>6, <1>7, <1>8, <1>9, <1>10, <1>11, <1>12, <1>13,
       <1>14, <1>15, <1>16, <1>17, <1>18, <1>19, <1>20, <1>21, <1>22, <1>23, <1>24, VxCases
       DEF VxStep, VxGetIndex, GetIndex, VxOutframe, VxBuild, VxInframe, VxSrconfirm, Srconfirm

\* VxWorks: a release leaves the buffer free, and nothing is stored in a free one.
LEMMA VxFreeStep ==
  ASSUME BufferTypes, VxFreeInv,
         port \in VxPorts, [PortNext]_portvars
  PROVE  VxFreeInv'
  <1> USE NicAssumption DEF BufferTypes, Goto, SetStat, shared, local, history, vars, vxvars, device, queues,
                            VxFreeInv, Owns
  <1>1. ASSUME NEW t \in Threads, GetIndexLock(t), UNCHANGED vxvars PROVE VxFreeInv'
    BY <1>1 DEF GetIndexLock
  <1>2. ASSUME NEW t \in Threads, GetIndexSearch(t), UNCHANGED vxvars PROVE VxFreeInv'
    BY <1>2 DEF GetIndexSearch, SearchOn
  <1>3. ASSUME NEW t \in Threads, GetIndexFound(t), UNCHANGED vxvars PROVE VxFreeInv'
    BY <1>3 DEF GetIndexFound, SearchOn
  <1>4. ASSUME NEW t \in Threads, GetIndexTake(t), UNCHANGED vxvars PROVE VxFreeInv'
    BY <1>4 DEF GetIndexTake
  <1>5. ASSUME NEW t \in Threads, SetupDatagram(t), UNCHANGED vxvars PROVE VxFreeInv'
    BY <1>5 DEF SetupDatagram
  <1>6. ASSUME NEW t \in Threads, OutframeMark(t), UNCHANGED vxvars PROVE VxFreeInv'
    BY <1>6 DEF OutframeMark
  <1>7. ASSUME NEW t \in Threads, OutframeUnmark(t), UNCHANGED vxvars PROVE VxFreeInv'
    BY <1>7 DEF OutframeUnmark
  <1>8. ASSUME NEW t \in Threads, PollAgain(t), UNCHANGED vxvars PROVE VxFreeInv'
    BY <1>8 DEF PollAgain
  <1>9. ASSUME NEW t \in Threads, Retransmit(t), UNCHANGED vxvars PROVE VxFreeInv'
    BY <1>9 DEF Retransmit
  <1>10. ASSUME NEW t \in Threads, TimeOut(t), UNCHANGED vxvars PROVE VxFreeInv'
    BY <1>10 DEF TimeOut
  <1>11. ASSUME NEW t \in Threads, CopyAnswer(t), UNCHANGED vxvars PROVE VxFreeInv'
    BY <1>11 DEF CopyAnswer
  <1>12. ASSUME NEW t \in Threads, OutframeBuffer(t) PROVE VxFreeInv'
    BY <1>12 DEF OutframeBuffer
  <1>13. ASSUME NEW t \in Threads, OutframeNoBuffer(t) PROVE VxFreeInv'
    BY <1>13 DEF OutframeNoBuffer
  <1>14. ASSUME NEW t \in Threads, MuxSend(t) PROVE VxFreeInv'
    BY <1>14 DEF MuxSend
  <1>15. ASSUME NEW t \in Threads, MuxSendFails(t) PROVE VxFreeInv'
    BY <1>15 DEF MuxSendFails
  <1>16. ASSUME NEW t \in Threads, RecvPacket(t) PROVE VxFreeInv'
    BY <1>16 DEF RecvPacket
  <1>17. ASSUME NEW t \in Threads, RecvExpired(t) PROVE VxFreeInv'
    BY <1>17 DEF RecvExpired
  <1>18. ASSUME NEW t \in Threads, TakePacket(t) PROVE VxFreeInv'
    BY <1>18 DEF TakePacket, Returned
  <1>19. ASSUME NEW t \in Threads, ReleaseIndex(t) PROVE VxFreeInv'
    BY <1>19 DEF ReleaseIndex, UnderWay, Queued
  <1>20. CASE RxCallback
    BY <1>20 DEF RxCallback
  <1>21. CASE RxPost
    BY <1>21 DEF RxPost, Packet, Owners
  <1>22. CASE Lose /\ UNCHANGED vxvars
    BY <1>22 DEF Lose
  <1>23. CASE CloseNic
    BY <1>23 DEF CloseNic, DrainQueue, DeleteQueue, Unbind
  <1>24. CASE UNCHANGED <<vars, vxvars>>
    BY <1>24
  <1> QED
    BY <1>1, <1>2, <1>3, <1>4, <1>5, <1>6, <1>7, <1>8, <1>9, <1>10, <1>11, <1>12, <1>13,
       <1>14, <1>15, <1>16, <1>17, <1>18, <1>19, <1>20, <1>21, <1>22, <1>23, <1>24, VxCases
       DEF VxStep, VxGetIndex, GetIndex, VxOutframe, VxBuild, VxInframe, VxSrconfirm, Srconfirm

\* VxWorks: a queue is cleaned before a frame is sent, and what comes then is told apart.
LEMMA CleanStep ==
  ASSUME BufferTypes, HeldInv, FailInv, CleanInv,
         port \in VxPorts, [PortNext]_portvars
  PROVE  CleanInv'
  <1> USE NicAssumption DEF BufferTypes, Goto, SetStat, shared, local, history, vars, vxvars, device, queues,
                            HeldInv, FailInv, CleanInv, Owns
  <1>1. ASSUME NEW t \in Threads, GetIndexLock(t), UNCHANGED vxvars PROVE CleanInv'
    BY <1>1 DEF GetIndexLock
  <1>2. ASSUME NEW t \in Threads, GetIndexSearch(t), UNCHANGED vxvars PROVE CleanInv'
    BY <1>2 DEF GetIndexSearch, SearchOn
  <1>3. ASSUME NEW t \in Threads, GetIndexFound(t), UNCHANGED vxvars PROVE CleanInv'
    BY <1>3 DEF GetIndexFound, SearchOn
  <1>4. ASSUME NEW t \in Threads, GetIndexTake(t), UNCHANGED vxvars PROVE CleanInv'
    BY <1>4 DEF GetIndexTake
  <1>5. ASSUME NEW t \in Threads, SetupDatagram(t), UNCHANGED vxvars PROVE CleanInv'
    BY <1>5 DEF SetupDatagram
  <1>6. ASSUME NEW t \in Threads, OutframeMark(t), UNCHANGED vxvars PROVE CleanInv'
    BY <1>6 DEF OutframeMark
  <1>7. ASSUME NEW t \in Threads, OutframeUnmark(t), UNCHANGED vxvars PROVE CleanInv'
    BY <1>7 DEF OutframeUnmark
  <1>8. ASSUME NEW t \in Threads, PollAgain(t), UNCHANGED vxvars PROVE CleanInv'
    BY <1>8 DEF PollAgain
  <1>9. ASSUME NEW t \in Threads, Retransmit(t), UNCHANGED vxvars PROVE CleanInv'
    BY <1>9 DEF Retransmit
  <1>10. ASSUME NEW t \in Threads, TimeOut(t), UNCHANGED vxvars PROVE CleanInv'
    BY <1>10 DEF TimeOut
  <1>11. ASSUME NEW t \in Threads, CopyAnswer(t), UNCHANGED vxvars PROVE CleanInv'
    BY <1>11 DEF CopyAnswer
  <1>12. ASSUME NEW t \in Threads, OutframeBuffer(t) PROVE CleanInv'
    BY <1>12 DEF OutframeBuffer
  <1>13. ASSUME NEW t \in Threads, OutframeNoBuffer(t) PROVE CleanInv'
    BY <1>13 DEF OutframeNoBuffer
  <1>14. ASSUME NEW t \in Threads, MuxSend(t) PROVE CleanInv'
    BY <1>14 DEF MuxSend
  <1>15. ASSUME NEW t \in Threads, MuxSendFails(t) PROVE CleanInv'
    BY <1>15 DEF MuxSendFails
  <1>16. ASSUME NEW t \in Threads, RecvPacket(t) PROVE CleanInv'
    BY <1>16 DEF RecvPacket
  <1>17. ASSUME NEW t \in Threads, RecvExpired(t) PROVE CleanInv'
    BY <1>17 DEF RecvExpired
  <1>18. ASSUME NEW t \in Threads, TakePacket(t) PROVE CleanInv'
    BY <1>18 DEF TakePacket, Returned
  <1>19. ASSUME NEW t \in Threads, ReleaseIndex(t) PROVE CleanInv'
    BY <1>19 DEF ReleaseIndex, UnderWay, Queued
  <1>20. CASE RxCallback
    BY <1>20 DEF RxCallback
  <1>21. CASE RxPost
    BY <1>21 DEF RxPost, Packet, Owners
  <1>22. CASE Lose /\ UNCHANGED vxvars
    BY <1>22 DEF Lose
  <1>23. CASE CloseNic
    BY <1>23 DEF CloseNic, DrainQueue, DeleteQueue, Unbind
  <1>24. CASE UNCHANGED <<vars, vxvars>>
    BY <1>24
  <1> QED
    BY <1>1, <1>2, <1>3, <1>4, <1>5, <1>6, <1>7, <1>8, <1>9, <1>10, <1>11, <1>12, <1>13,
       <1>14, <1>15, <1>16, <1>17, <1>18, <1>19, <1>20, <1>21, <1>22, <1>23, <1>24, VxCases
       DEF VxStep, VxGetIndex, GetIndex, VxOutframe, VxBuild, VxInframe, VxSrconfirm, Srconfirm

\* VxWorks: no index is given away while its owner uses it.
LEMMA VxOwnStep ==
  ASSUME BufferTypes, VxMutexInv, FailInv, VxFreeInv, OwnInv, Undisturbed',
         port \in VxPorts, [PortNext]_portvars
  PROVE  OwnInv'
  <1> USE NicAssumption DEF BufferTypes, Goto, SetStat, shared, local, history, vars, vxvars, device, queues,
                            VxMutexInv, FailInv, VxFreeInv, OwnInv, Owns, Undisturbed
  <1>1. ASSUME NEW t \in Threads, GetIndexLock(t), UNCHANGED vxvars PROVE OwnInv'
    BY <1>1 DEF GetIndexLock
  <1>2. ASSUME NEW t \in Threads, GetIndexSearch(t), UNCHANGED vxvars PROVE OwnInv'
    BY <1>2 DEF GetIndexSearch, SearchOn
  <1>3. ASSUME NEW t \in Threads, GetIndexFound(t), UNCHANGED vxvars PROVE OwnInv'
    <2>1. rxbufstat[idx[t]] = "EMPTY"
      BY <1>3, Zenon DEF GetIndexFound
    <2>2. \A u \in Threads : Owns(u) => idx[u] # idx[t]
      BY <2>1
    <2>3. ASSUME NEW u \in Threads, u # t PROVE pc[u] # "take"
      BY <1>3, <2>3 DEF GetIndexFound
    <2> QED
      BY <1>3, <2>2, <2>3 DEF GetIndexFound
  <1>4. ASSUME NEW t \in Threads, GetIndexTake(t), UNCHANGED vxvars PROVE OwnInv'
    BY <1>4 DEF GetIndexTake
  <1>5. ASSUME NEW t \in Threads, SetupDatagram(t), UNCHANGED vxvars PROVE OwnInv'
    BY <1>5 DEF SetupDatagram
  <1>6. ASSUME NEW t \in Threads, OutframeMark(t), UNCHANGED vxvars PROVE OwnInv'
    BY <1>6 DEF OutframeMark
  <1>7. ASSUME NEW t \in Threads, OutframeUnmark(t), UNCHANGED vxvars PROVE OwnInv'
    BY <1>7 DEF OutframeUnmark
  <1>8. ASSUME NEW t \in Threads, PollAgain(t), UNCHANGED vxvars PROVE OwnInv'
    BY <1>8 DEF PollAgain
  <1>9. ASSUME NEW t \in Threads, Retransmit(t), UNCHANGED vxvars PROVE OwnInv'
    BY <1>9 DEF Retransmit
  <1>10. ASSUME NEW t \in Threads, TimeOut(t), UNCHANGED vxvars PROVE OwnInv'
    BY <1>10 DEF TimeOut
  <1>11. ASSUME NEW t \in Threads, CopyAnswer(t), UNCHANGED vxvars PROVE OwnInv'
    BY <1>11 DEF CopyAnswer
  <1>12. ASSUME NEW t \in Threads, OutframeBuffer(t) PROVE OwnInv'
    BY <1>12 DEF OutframeBuffer
  <1>13. ASSUME NEW t \in Threads, OutframeNoBuffer(t) PROVE OwnInv'
    BY <1>13 DEF OutframeNoBuffer
  <1>14. ASSUME NEW t \in Threads, MuxSend(t) PROVE OwnInv'
    BY <1>14 DEF MuxSend
  <1>15. ASSUME NEW t \in Threads, MuxSendFails(t) PROVE OwnInv'
    BY <1>15 DEF MuxSendFails
  <1>16. ASSUME NEW t \in Threads, RecvPacket(t) PROVE OwnInv'
    BY <1>16 DEF RecvPacket
  <1>17. ASSUME NEW t \in Threads, RecvExpired(t) PROVE OwnInv'
    BY <1>17 DEF RecvExpired
  <1>18. ASSUME NEW t \in Threads, TakePacket(t) PROVE OwnInv'
    BY <1>18 DEF TakePacket, Returned
  <1>19. ASSUME NEW t \in Threads, ReleaseIndex(t) PROVE OwnInv'
    BY <1>19 DEF ReleaseIndex, UnderWay, Queued
  <1>20. CASE RxCallback
    BY <1>20 DEF RxCallback
  <1>21. CASE RxPost
    BY <1>21 DEF RxPost, Packet, Owners
  <1>22. CASE Lose /\ UNCHANGED vxvars
    BY <1>22 DEF Lose
  <1>23. CASE CloseNic
    BY <1>23 DEF CloseNic, DrainQueue, DeleteQueue, Unbind
  <1>24. CASE UNCHANGED <<vars, vxvars>>
    BY <1>24
  <1> QED
    BY <1>1, <1>2, <1>3, <1>4, <1>5, <1>6, <1>7, <1>8, <1>9, <1>10, <1>11, <1>12, <1>13,
       <1>14, <1>15, <1>16, <1>17, <1>18, <1>19, <1>20, <1>21, <1>22, <1>23, <1>24, VxCases
       DEF VxStep, VxGetIndex, GetIndex, VxOutframe, VxBuild, VxInframe, VxSrconfirm, Srconfirm

\* VxWorks: every datagram and frame stays accounted for.
LEMMA VxFlowStep ==
  ASSUME BufferTypes, HeldInv, FailInv, OwnInv, VxFlowInv, Undisturbed',
         port \in VxPorts, [PortNext]_portvars
  PROVE  VxFlowInv'
  <1> USE NicAssumption DEF BufferTypes, Goto, SetStat, shared, local, history, vars, vxvars, device, queues,
                            HeldInv, FailInv, OwnInv, VxFlowInv, Owns, Undisturbed
  <1>1. ASSUME NEW t \in Threads, GetIndexLock(t), UNCHANGED vxvars PROVE VxFlowInv'
    <2>1. \A x, i : Accounted(x, i) => Accounted(x, i)'
      BY <1>1 DEF GetIndexLock, Accounted
    <2> QED
      BY <1>1, <2>1 DEF GetIndexLock
  <1>2. ASSUME NEW t \in Threads, GetIndexSearch(t), UNCHANGED vxvars PROVE VxFlowInv'
    <2>1. \A x, i : Accounted(x, i) => Accounted(x, i)'
      BY <1>2 DEF GetIndexSearch, SearchOn, Accounted
    <2> QED
      BY <1>2, <2>1 DEF GetIndexSearch, SearchOn
  <1>3. ASSUME NEW t \in Threads, GetIndexFound(t), UNCHANGED vxvars PROVE VxFlowInv'
    <2>1. \A x, i : Accounted(x, i) => Accounted(x, i)'
      BY <1>3 DEF GetIndexFound, SearchOn, Accounted
    <2> QED
      BY <1>3, <2>1 DEF GetIndexFound, SearchOn
  <1>4. ASSUME NEW t \in Threads, GetIndexTake(t), UNCHANGED vxvars PROVE VxFlowInv'
    <2>1. \A x, i : Accounted(x, i) => Accounted(x, i)'
      BY <1>4 DEF GetIndexTake, Accounted
    <2> QED
      BY <1>4, <2>1 DEF GetIndexTake
  <1>5. ASSUME NEW t \in Threads, SetupDatagram(t), UNCHANGED vxvars PROVE VxFlowInv'
    BY <1>5 DEF SetupDatagram, Accounted
  <1>6. ASSUME NEW t \in Threads, OutframeMark(t), UNCHANGED vxvars PROVE VxFlowInv'
    BY <1>6 DEF OutframeMark, Accounted
  <1>7. ASSUME NEW t \in Threads, OutframeUnmark(t), UNCHANGED vxvars PROVE VxFlowInv'
    BY <1>7 DEF OutframeUnmark, Accounted
  <1>8. ASSUME NEW t \in Threads, PollAgain(t), UNCHANGED vxvars PROVE VxFlowInv'
    <2>1. \A x, i : Accounted(x, i) => Accounted(x, i)'
      BY <1>8 DEF PollAgain, Accounted
    <2> QED
      BY <1>8, <2>1 DEF PollAgain
  <1>9. ASSUME NEW t \in Threads, Retransmit(t), UNCHANGED vxvars PROVE VxFlowInv'
    <2>1. \A x, i : Accounted(x, i) => Accounted(x, i)'
      BY <1>9 DEF Retransmit, Accounted
    <2> QED
      BY <1>9, <2>1 DEF Retransmit
  <1>10. ASSUME NEW t \in Threads, TimeOut(t), UNCHANGED vxvars PROVE VxFlowInv'
    <2>1. \A x, i : Accounted(x, i) => Accounted(x, i)'
      BY <1>10 DEF TimeOut, Accounted
    <2> QED
      BY <1>10, <2>1 DEF TimeOut
  <1>11. ASSUME NEW t \in Threads, CopyAnswer(t), UNCHANGED vxvars PROVE VxFlowInv'
    BY <1>11 DEF CopyAnswer, Accounted
  <1>12. ASSUME NEW t \in Threads, OutframeBuffer(t) PROVE VxFlowInv'
    <2>1. \A x, i : Accounted(x, i) => Accounted(x, i)'
      BY <1>12 DEF OutframeBuffer, Accounted
    <2> QED
      BY <1>12, <2>1 DEF OutframeBuffer
  <1>13. ASSUME NEW t \in Threads, OutframeNoBuffer(t) PROVE VxFlowInv'
    BY <1>13 DEF OutframeNoBuffer, Accounted
  <1>14. ASSUME NEW t \in Threads, MuxSend(t) PROVE VxFlowInv'
    BY <1>14 DEF MuxSend, Accounted
  <1>15. ASSUME NEW t \in Threads, MuxSendFails(t) PROVE VxFlowInv'
    BY <1>15 DEF MuxSendFails, Accounted
  <1>16. ASSUME NEW t \in Threads, RecvPacket(t) PROVE VxFlowInv'
    BY <1>16 DEF RecvPacket, Accounted
  <1>17. ASSUME NEW t \in Threads, RecvExpired(t) PROVE VxFlowInv'
    BY <1>17 DEF RecvExpired, Accounted
  <1>18. ASSUME NEW t \in Threads, TakePacket(t) PROVE VxFlowInv'
    BY <1>18 DEF TakePacket, Returned, Accounted
  <1>19. ASSUME NEW t \in Threads, ReleaseIndex(t) PROVE VxFlowInv'
    <2>1. ASSUME NEW x, NEW i, Accounted(x, i), UnderWay(x) \/ Queued(x) \/ i # idx[t]
          PROVE Accounted(x, i)'
      <3>1. CASE x \in late
        BY <1>19, <3>1 DEF ReleaseIndex, Accounted
      <3>2. ASSUME NEW u \in Threads, Owns(u), txn[u] = x, idx[u] = i, u # t
            PROVE Accounted(x, i)'
        BY <1>19, <3>2 DEF ReleaseIndex, Accounted
      <3>3. CASE txn[t] = x /\ idx[t] = i
        BY <1>19, <2>1, <3>3 DEF ReleaseIndex, Accounted
      <3> QED
        BY <2>1, <3>1, <3>2, <3>3 DEF Accounted
    <2>2. \A f \in wire' : Accounted(f.txn, f.idx)'
      BY <1>19, <2>1 DEF ReleaseIndex, UnderWay
    <2>3. rxtask # NoFrame => Accounted(rxtask.txn, rxtask.idx)'
      BY <1>19, <2>1 DEF ReleaseIndex, Queued
    <2>4. \A i \in Idx : queue[i] # NoPacket => Accounted(queue[i].frame.txn, i)'
      BY <1>19, <2>1 DEF ReleaseIndex, Queued
    <2>5. ASSUME NEW u \in Threads,
    held[u] # NoPacket PROVE idx'[u] = idx[u] /\ Accounted(held[u].frame.txn, idx[u])'
      <3>1. u # t /\ idx[u] # idx[t]
        BY <1>19, <2>5 DEF ReleaseIndex
      <3> QED
        BY <1>19, <2>1, <2>5, <3>1 DEF ReleaseIndex
    <2>6. \A u \in Threads : (Owns(u) /\ pc[u] # "build" => txbuf[idx[u]] = txn[u])'
      BY <1>19 DEF ReleaseIndex
    <2> QED
      BY <1>19, <2>2, <2>3, <2>4, <2>5, <2>6 DEF ReleaseIndex
  <1>20. CASE RxCallback
    BY <1>20 DEF RxCallback, Accounted
  <1>21. CASE RxPost
    BY <1>21 DEF RxPost, Packet, Owners, Accounted
  <1>22. CASE Lose /\ UNCHANGED vxvars
    BY <1>22 DEF Lose, Accounted
  <1>23. CASE CloseNic
    BY <1>23 DEF CloseNic, DrainQueue, DeleteQueue, Unbind, Accounted
  <1>24. CASE UNCHANGED <<vars, vxvars>>
    BY <1>24 DEF Accounted
  <1> QED
    BY <1>1, <1>2, <1>3, <1>4, <1>5, <1>6, <1>7, <1>8, <1>9, <1>10, <1>11, <1>12, <1>13,
       <1>14, <1>15, <1>16, <1>17, <1>18, <1>19, <1>20, <1>21, <1>22, <1>23, <1>24, VxCases
       DEF VxStep, VxGetIndex, GetIndex, VxOutframe, VxBuild, VxInframe, VxSrconfirm, Srconfirm

\* VxWorks: a completed buffer belongs to its reader until the index is released.
LEMMA VxReadStep ==
  ASSUME BufferTypes, AnswerInv, FailInv, OwnInv, VxFlowInv, ReadInv, Undisturbed',
         port \in VxPorts, [PortNext]_portvars
  PROVE  ReadInv'
  <1> USE NicAssumption DEF BufferTypes, Goto, SetStat, shared, local, history, vars, vxvars, device, queues,
                            AnswerInv, FailInv, OwnInv, VxFlowInv, ReadInv, Accounted, Owns, Undisturbed
  <1>1. ASSUME NEW t \in Threads, GetIndexLock(t), UNCHANGED vxvars PROVE ReadInv'
    BY <1>1 DEF GetIndexLock
  <1>2. ASSUME NEW t \in Threads, GetIndexSearch(t), UNCHANGED vxvars PROVE ReadInv'
    BY <1>2 DEF GetIndexSearch, SearchOn
  <1>3. ASSUME NEW t \in Threads, GetIndexFound(t), UNCHANGED vxvars PROVE ReadInv'
    BY <1>3 DEF GetIndexFound, SearchOn
  <1>4. ASSUME NEW t \in Threads, GetIndexTake(t), UNCHANGED vxvars PROVE ReadInv'
    BY <1>4 DEF GetIndexTake
  <1>5. ASSUME NEW t \in Threads, SetupDatagram(t), UNCHANGED vxvars PROVE ReadInv'
    BY <1>5 DEF SetupDatagram
  <1>6. ASSUME NEW t \in Threads, OutframeMark(t), UNCHANGED vxvars PROVE ReadInv'
    BY <1>6 DEF OutframeMark
  <1>7. ASSUME NEW t \in Threads, OutframeUnmark(t), UNCHANGED vxvars PROVE ReadInv'
    BY <1>7 DEF OutframeUnmark
  <1>8. ASSUME NEW t \in Threads, PollAgain(t), UNCHANGED vxvars PROVE ReadInv'
    BY <1>8 DEF PollAgain
  <1>9. ASSUME NEW t \in Threads, Retransmit(t), UNCHANGED vxvars PROVE ReadInv'
    BY <1>9 DEF Retransmit
  <1>10. ASSUME NEW t \in Threads, TimeOut(t), UNCHANGED vxvars PROVE ReadInv'
    BY <1>10 DEF TimeOut
  <1>11. ASSUME NEW t \in Threads, CopyAnswer(t), UNCHANGED vxvars PROVE ReadInv'
    BY <1>11 DEF CopyAnswer
  <1>12. ASSUME NEW t \in Threads, OutframeBuffer(t) PROVE ReadInv'
    BY <1>12 DEF OutframeBuffer
  <1>13. ASSUME NEW t \in Threads, OutframeNoBuffer(t) PROVE ReadInv'
    BY <1>13 DEF OutframeNoBuffer
  <1>14. ASSUME NEW t \in Threads, MuxSend(t) PROVE ReadInv'
    BY <1>14 DEF MuxSend
  <1>15. ASSUME NEW t \in Threads, MuxSendFails(t) PROVE ReadInv'
    BY <1>15 DEF MuxSendFails
  <1>16. ASSUME NEW t \in Threads, RecvPacket(t) PROVE ReadInv'
    BY <1>16 DEF RecvPacket
  <1>17. ASSUME NEW t \in Threads, RecvExpired(t) PROVE ReadInv'
    BY <1>17 DEF RecvExpired
  <1>18. ASSUME NEW t \in Threads, TakePacket(t) PROVE ReadInv'
    BY <1>18 DEF TakePacket, Returned
  <1>19. ASSUME NEW t \in Threads, ReleaseIndex(t) PROVE ReadInv'
    BY <1>19 DEF ReleaseIndex, UnderWay, Queued
  <1>20. CASE RxCallback
    BY <1>20 DEF RxCallback
  <1>21. CASE RxPost
    BY <1>21 DEF RxPost, Packet, Owners
  <1>22. CASE Lose /\ UNCHANGED vxvars
    BY <1>22 DEF Lose
  <1>23. CASE CloseNic
    BY <1>23 DEF CloseNic, DrainQueue, DeleteQueue, Unbind
  <1>24. CASE UNCHANGED <<vars, vxvars>>
    BY <1>24
  <1> QED
    BY <1>1, <1>2, <1>3, <1>4, <1>5, <1>6, <1>7, <1>8, <1>9, <1>10, <1>11, <1>12, <1>13,
       <1>14, <1>15, <1>16, <1>17, <1>18, <1>19, <1>20, <1>21, <1>22, <1>23, <1>24, VxCases
       DEF VxStep, VxGetIndex, GetIndex, VxOutframe, VxBuild, VxInframe, VxSrconfirm, Srconfirm

\* These places are finite in number.
LEMMA FinitePlaces ==
  /\ IsFiniteSet(Full) /\ IsFiniteSet(Holding) /\ IsFiniteSet(Sending)
  /\ Cardinality(Full) \in Nat /\ Cardinality(Holding) \in Nat /\ Cardinality(Sending) \in Nat
  <1>1. 0 \in Int /\ EC_MAXBUF - 1 \in Int
    BY NicAssumption
  <1>2. IsFiniteSet(Idx) /\ IsFiniteSet(Threads)
    BY <1>1, FS_Interval, VxAssumption DEF Idx
  <1>3. Full \subseteq Idx /\ Holding \subseteq Threads /\ Sending \subseteq Threads
    BY DEF Full, Holding, Sending
  <1>4. IsFiniteSet(Full) /\ IsFiniteSet(Holding) /\ IsFiniteSet(Sending)
    BY <1>2, <1>3, FS_Subset
  <1> QED
    BY <1>4, FS_CardinalityType

\* VxWorks: no step changes the number of packets.
LEMMA PacketsStep ==
  ASSUME PortTypeOK, BufferTypes, HeldInv, SenderInv, port \in VxPorts, [PortNext]_portvars
  PROVE  PacketCount' = PacketCount
  <1> USE DEF BufferTypes, Goto, device
  <1>0. port' \in VxPorts
    BY PortStays DEF PortTypeOK
  <1>1. ASSUME NEW t \in Threads, Step(t), UNCHANGED vxvars PROVE PacketCount' = PacketCount
    <2>1. \A u \in Threads : pc'[u] = "transmit" <=> pc[u] = "transmit"
      BY <1>1, StepMaps DEF PcOK
    <2>2. Sending' = Sending
      BY <1>1, <2>1 DEF Sending, vxvars
    <2> QED
      BY <1>1, <2>2 DEF PacketCount, Full, Holding, InCallback, vxvars, device, queues
  <1>2. ASSUME NEW t \in Threads, OutframeBuffer(t) PROVE PacketCount' = PacketCount
    <2>1. Sending' = Sending \cup {t} /\ t \notin Sending
      BY <1>0, <1>2 DEF OutframeBuffer, Sending
    <2>2. Cardinality(Sending') = Cardinality(Sending) + 1
      BY <2>1, FinitePlaces, FS_AddElement
    <2>3. UNCHANGED <<Holding, InCallback>>
      BY <1>2 DEF OutframeBuffer, Holding, InCallback
    <2>4. CASE queue[idx[t]] = NoPacket
      <3>1. Full' = Full /\ free' = free - 1
        BY <1>2, <2>4 DEF OutframeBuffer, Full
      <3> QED
        BY <2>2, <2>3, <3>1, FinitePlaces DEF PacketCount
    <2>5. CASE queue[idx[t]] # NoPacket
      <3>1. Full' = Full \ {idx[t]} /\ idx[t] \in Full /\ free' = free
        BY <1>2, <2>5 DEF OutframeBuffer, Full
      <3>2. Cardinality(Full') = Cardinality(Full) - 1
        BY <3>1, FinitePlaces, FS_RemoveElement
      <3> QED
        BY <2>2, <2>3, <3>1, <3>2, FinitePlaces DEF PacketCount
    <2> QED
      BY <2>4, <2>5
  <1>3. ASSUME NEW t \in Threads, OutframeNoBuffer(t) \/ RecvExpired(t) PROVE PacketCount' = PacketCount
    <2>1. Sending' = Sending
      BY <1>3 DEF OutframeNoBuffer, RecvExpired, Sending, vxvars
    <2>2. UNCHANGED <<free, Full, Holding, InCallback>>
      BY <1>3 DEF OutframeNoBuffer, RecvExpired, Full, Holding, InCallback, vxvars, device, queues
    <2> QED
      BY <2>1, <2>2 DEF PacketCount, InCallback
  <1>4. ASSUME NEW t \in Threads, MuxSend(t) \/ MuxSendFails(t) PROVE PacketCount' = PacketCount
    <2>1. Sending' = Sending \ {t} /\ t \in Sending /\ free' = free + 1
      BY <1>0, <1>4 DEF MuxSend, MuxSendFails, Sending
    <2>2. Cardinality(Sending') = Cardinality(Sending) - 1
      BY <2>1, FinitePlaces, FS_RemoveElement
    <2>3. UNCHANGED <<Full, Holding, InCallback>>
      BY <1>4 DEF MuxSend, MuxSendFails, Full, Holding, InCallback, queues
    <2> QED
      BY <2>1, <2>2, <2>3, FinitePlaces DEF PacketCount, InCallback
  <1>5. ASSUME NEW t \in Threads, RecvPacket(t) PROVE PacketCount' = PacketCount
    <2>1. Full' = Full \ {idx[t]} /\ idx[t] \in Full
      BY <1>5 DEF RecvPacket, Full
    <2>2. Holding' = Holding \cup {t} /\ t \notin Holding
      BY <1>5 DEF RecvPacket, Holding, HeldInv
    <2>3. Cardinality(Full') = Cardinality(Full) - 1
      BY <2>1, FinitePlaces, FS_RemoveElement
    <2>5. Cardinality(Holding') = Cardinality(Holding) + 1
      BY <2>2, FinitePlaces, FS_AddElement
    <2>4. UNCHANGED <<free, Sending, InCallback>>
      BY <1>5 DEF RecvPacket, Sending, InCallback
    <2> QED
      BY <2>3, <2>4, <2>5, FinitePlaces DEF PacketCount, InCallback
  <1>6. ASSUME NEW t \in Threads, TakePacket(t) PROVE PacketCount' = PacketCount
    <2>1. PICK w \in Wkcs : TakePacket(t)!(w)
      BY <1>6 DEF TakePacket
    <2>2. Holding' = Holding \ {t} /\ t \in Holding
      BY <2>1 DEF Holding
    <2>3. Cardinality(Holding') = Cardinality(Holding) - 1
      BY <2>2, FinitePlaces, FS_RemoveElement
    <2>4. Sending' = Sending
      BY <2>1 DEF Sending, Returned
    <2>5. UNCHANGED <<Full, InCallback>> /\ free' = free + 1
      BY <2>1 DEF Full, InCallback
    <2> QED
      BY <2>3, <2>4, <2>5, FinitePlaces DEF PacketCount, InCallback
  <1>7. ASSUME NEW t \in Threads, ReleaseIndex(t) PROVE PacketCount' = PacketCount
    <2>1. Sending' = Sending
      BY <1>7 DEF ReleaseIndex, Sending, vxvars
    <2> QED
      BY <1>7, <2>1 DEF PacketCount, ReleaseIndex, Full, Holding, InCallback, vxvars, device, queues
  <1>8. CASE RxCallback
    <2>1. PICK f \in wire : \/ rxtask' = f /\ free' = free - 1
                            \/ UNCHANGED <<rxtask, free>>
      BY <1>8 DEF RxCallback
    <2>2. f # NoFrame
      BY NicAssumption DEF SenderInv, NoFrame
    <2>3. UNCHANGED <<Full, Holding, Sending>> /\ rxtask = NoFrame
      BY <1>8 DEF RxCallback, Full, Holding, Sending, local
    <2> QED
      BY <2>1, <2>2, <2>3, FinitePlaces DEF PacketCount, InCallback
  <1>9. CASE RxPost
    <2>1. UNCHANGED <<Holding, Sending>> /\ rxtask # NoFrame /\ rxtask' = NoFrame
      BY <1>9 DEF RxPost, Holding, Sending, local
    <2>2. CASE msgQId[rxtask.idx] = "deleted"
      BY <1>9, <2>1, <2>2, FinitePlaces DEF RxPost, PacketCount, Full, InCallback
    <2>3. CASE msgQId[rxtask.idx] # "deleted"
      <3>1. Packet(rxtask) # NoPacket /\ rxtask.idx \in Idx
        BY <2>1 DEF Packet, NoPacket, Frame
      <3>2. Full' = Full \cup {rxtask.idx}
        BY <1>9, <2>3, <3>1 DEF RxPost, Full
      <3>3. free' = IF rxtask.idx \in Full THEN free + 1 ELSE free
        BY <1>9, <2>3, <3>1 DEF RxPost, Full
      <3>4. Cardinality(Full') = IF rxtask.idx \in Full THEN Cardinality(Full) ELSE Cardinality(Full) + 1
        BY <3>2, FinitePlaces, FS_AddElement
      <3> QED
        BY <2>1, <3>3, <3>4, FinitePlaces DEF PacketCount, InCallback
    <2> QED
      BY <2>2, <2>3
  <1>10. CASE Lose /\ UNCHANGED vxvars
    BY <1>10 DEF PacketCount, Full, Holding, Sending, InCallback, Lose, local, vxvars, device, queues
  <1>11. CASE CloseNic
    <2>1. UNCHANGED <<Holding, Sending, InCallback>>
      <3>1. UNCHANGED <<pc, held, rxtask>>
        BY <1>11 DEF CloseNic, DrainQueue, DeleteQueue, Unbind, vars, local, queues
      <3> QED
        BY <1>0, <3>1 DEF Holding, Sending, InCallback
    <2>2. ASSUME NEW i \in Idx, DrainQueue(i) PROVE PacketCount' = PacketCount
      <3>1. Full' = Full \ {i} /\ free' = IF i \in Full THEN free + 1 ELSE free
        BY <2>2 DEF DrainQueue, Full
      <3>2. Cardinality(Full') = IF i \in Full THEN Cardinality(Full) - 1 ELSE Cardinality(Full)
        BY <3>1, FinitePlaces, FS_RemoveElement
      <3> QED
        BY <2>1, <3>1, <3>2, FinitePlaces DEF PacketCount, InCallback
    <2>3. ASSUME (\E i \in Idx : DeleteQueue(i)) \/ Unbind PROVE PacketCount' = PacketCount
      <3>1. UNCHANGED <<Full, free>>
        BY <2>3 DEF DeleteQueue, Unbind, Full, queues
      <3> QED
        BY <2>1, <3>1 DEF PacketCount, InCallback
    <2> QED
      BY <1>11, <2>2, <2>3 DEF CloseNic
  <1>12. CASE UNCHANGED <<vars, vxvars>>
    BY <1>12 DEF PacketCount, Full, Holding, Sending, InCallback, vars, local, vxvars, device, queues
  <1>13. ASSUME NEW t \in Threads, VxStep(t) PROVE PacketCount' = PacketCount
    BY <1>1, <1>2, <1>3, <1>4, <1>5, <1>6, <1>7, <1>13
       DEF VxStep, VxGetIndex, VxOutframe, VxBuild, VxInframe, VxSrconfirm, Step, Outframe
  <1> QED
    BY <1>8, <1>9, <1>10, <1>11, <1>12, <1>13, VxCases

\* VxWorks: while the port is closed at most one packet comes.
LEMMA CloseStep ==
  ASSUME BufferTypes, VxFreeInv, CloseInv, port \in VxPorts, [PortNext]_portvars
  PROVE  CloseInv'
  <1> USE DEF BufferTypes, VxPorts, CloseInv, Left, Finished, device, queues, vxvars
  <1>1. ASSUME NEW t \in Threads, VxStep(t), port = "vxworks" PROVE CloseInv'
    <2>1. UNCHANGED <<port, msgQId>>
      BY <1>1 DEF VxStep, VxGetIndex, VxBuild, VxOutframe, OutframeBuffer, OutframeNoBuffer, MuxSend,
                  MuxSendFails, VxInframe, RecvPacket, RecvExpired, TakePacket, VxSrconfirm, ReleaseIndex
    <2> QED
      BY <1>1, <2>1
  <1>2. CASE RxCallback
    <2>1. UNCHANGED <<port, msgQId, queue, pc, begun>>
      BY <1>2 DEF RxCallback, local, history
    <2>2. CASE port = "vxworks"
      BY <2>1, <2>2
    <2>3. CASE port # "vxworks"
      <3>1. \A i \in Idx : rxbufstat[i] # "TX"
        BY <2>3 DEF VxFreeInv, Owns
      <3>2. rxtask' = rxtask
        BY <1>2, <3>1 DEF RxCallback, Frame
      <3> QED
        BY <2>1, <3>2
    <2> QED
      BY <2>2, <2>3
  <1>3. CASE RxPost
    <2>1. UNCHANGED <<port, msgQId, pc, begun>> /\ rxtask # NoFrame /\ rxtask' = NoFrame
      BY <1>3 DEF RxPost, local, history
    <2>2. \A i \in Idx : i # rxtask.idx => queue'[i] = queue[i]
      BY <1>3 DEF RxPost
    <2>3. \A i \in Idx : ~Left(i)
      BY <2>1
    <2> QED
      BY <2>1, <2>2, <2>3
  <1>4. CASE CloseNic
    <2>1. UNCHANGED <<pc, begun, rxtask>>
      BY <1>4 DEF CloseNic, DrainQueue, DeleteQueue, Unbind, vars, local, history
    <2>2. Finished
      BY <1>4 DEF CloseNic, DrainQueue, DeleteQueue, Unbind
    <2>3. port' # "vxworks"
      BY <1>4 DEF CloseNic, DrainQueue, DeleteQueue, Unbind
    <2>4. \A i \in Idx : Left(i)' => Left(i)
      BY <1>4 DEF CloseNic, DrainQueue, DeleteQueue, Unbind
    <2> QED
      BY <2>1, <2>2, <2>3, <2>4
  <1>5. CASE Lose /\ UNCHANGED vxvars
    BY <1>5 DEF Lose, local, history
  <1>6. CASE UNCHANGED <<vars, vxvars>>
    BY <1>6 DEF vars, local, history
  <1> QED
    BY <1>1, <1>2, <1>3, <1>4, <1>5, <1>6, VxCases

-----------------------------------------------------------------------------
(* The inductive invariant of all ports                                    *)

\* VxWorks: a disturbance is never undone.
LEMMA VxQuietBefore ==
  ASSUME port \in VxPorts, [PortNext]_portvars, Undisturbed'
  PROVE  Undisturbed
  <1> USE DEF history, vars, Undisturbed
  <1>1. ASSUME NEW t \in Threads, VxStep(t) PROVE ~exhausted /\ ~sendFailed
    <2>1. CASE VxGetIndex(t)
      <3>1. CASE GetIndexLock(t) \/ GetIndexSearch(t) \/ GetIndexTake(t)
        BY <3>1 DEF GetIndexLock, GetIndexSearch, GetIndexTake
      <3>2. CASE GetIndexFound(t)
        <4>1. sendFailed' = sendFailed
          BY <3>2 DEF GetIndexFound
        <4>2. exhausted => exhausted'
          BY <3>2, Zenon DEF GetIndexFound
        <4> QED
          BY <4>1, <4>2
      <3> QED
        BY <2>1, <3>1, <3>2 DEF VxGetIndex, GetIndex
    <2>2. CASE VxOutframe(t)
      BY <2>2 DEF VxOutframe, VxBuild, SetupDatagram, OutframeMark, OutframeUnmark, OutframeBuffer,
                  OutframeNoBuffer, MuxSend, MuxSendFails
    <2>3. CASE VxInframe(t)
      <3>1. CASE RecvPacket(t) \/ RecvExpired(t)
        BY <3>1 DEF RecvPacket, RecvExpired
      <3>2. CASE TakePacket(t)
        <4>1. PICK w \in Wkcs : TakePacket(t)!(w)
          BY <3>2 DEF TakePacket
        <4> QED
          BY <4>1
      <3> QED
        BY <2>3, <3>1, <3>2 DEF VxInframe
    <2>4. CASE VxSrconfirm(t) \/ CopyAnswer(t) \/ ReleaseIndex(t)
      BY <2>4 DEF VxSrconfirm, Srconfirm, PollAgain, Retransmit, TimeOut, CopyAnswer, ReleaseIndex
    <2> QED
      BY <1>1, <2>1, <2>2, <2>3, <2>4 DEF VxStep
  <1> QED
    BY <1>1, VxCases DEF RxCallback, RxPost, Lose, CloseNic, DrainQueue, DeleteQueue, Unbind

\* VxWorks: every step keeps the invariant.
LEMMA VxInvStep ==
  ASSUME PortTypeOK, VxInv, port \in VxPorts, [PortNext]_portvars
  PROVE  VxInv'
  <1>1. BufferTypes
    BY TypesOfBuffers
  <1>2. (VxMutexInv /\ AnswerInv /\ FailInv /\ HeldInv /\ SenderInv /\ VxFreeInv /\ CleanInv)'
    BY <1>1, VxMutexStep, VxLocalStep, VxFreeStep, CleanStep DEF VxInv
  <1>3. PacketCount' = Packets /\ CloseInv'
    BY <1>1, PacketsStep, CloseStep DEF VxInv
  <1>4. ASSUME Undisturbed' PROVE VxQuietInv'
    <2>1. VxQuietInv
      BY <1>4, VxQuietBefore DEF VxInv
    <2> QED
      BY <1>1, <1>4, <2>1, VxOwnStep, VxFlowStep, VxReadStep DEF VxInv, VxQuietInv
  <1> QED
    BY <1>2, <1>3, <1>4 DEF VxInv

\* Every step of a port keeps the invariant.
LEMMA PortInvStep == PortInv /\ [PortNext]_portvars => PortInv'
  BY PortTypeStep, PortStays, DriverStep, VxInvStep DEF PortInv, PortTypeOK

\* The initial states of all ports satisfy the invariant.
LEMMA PortInvInit == PortInit => PortInv
  <1> SUFFICES ASSUME PortInit PROVE PortInv
    OBVIOUS
  <1> USE NicAssumption, VxAssumption
  <1>1. SendPc = [t \in Threads |-> "idle"] /\ pc = [t \in Threads |-> "idle"]
    BY DEF PortInit, Init, SendPc
  <1>2. D!IndInv
    <2>1. D!Init
      <3>1. Init
        BY DEF PortInit
      <3> QED
        BY <1>1, <3>1 DEF Init, D!Init, D!Idx, Idx, D!NoAnswer, NoAnswer, D!NoTxn, NoTxn, D!NoFrame,
                          NoFrame
    <2> QED
      BY <2>1, MappedInit
  <1>3. /\ port \in Ports
        /\ queue = [i \in Idx |-> NoPacket] /\ rxtask = NoFrame
        /\ held = [t \in Threads |-> NoPacket] /\ free = Packets
        /\ msgQId = [i \in Idx |-> "open"]
    BY DEF PortInit, VxInit, ErikaInit, MacInit, RtkInit, VxInitRest, Ports, VxPorts
  <1>4. NoPacket \in PacketType /\ NoFrame \in Frame
    BY DEF PacketType, NoPacket, NoFrame, Frame, Idx, Txn, NoTxn
  <1>5. PortTypeOK
    <2>1. ring \in [RingIdx -> Frame] /\ rxIdx \in RingIdx /\ dmaIdx \in RingIdx /\ txBuffer \in Frame
      BY <1>4 DEF PortInit, EmacInit, RingIdx
    <2>2. D!TypeOK
      BY <1>2 DEF D!IndInv, D!BaseInv
    <2> QED
      BY <1>1, <1>3, <1>4, <2>1, <2>2 DEF PortTypeOK, PC
  <1>6. DriverInv
    BY <1>1, <1>2, <1>3 DEF DriverInv, NoPackets, TransmitInv
  <1>7. port \in VxPorts => VxInv
    <2>1. rxbufstat = [i \in Idx |-> "EMPTY"] /\ answer = [t \in Threads |-> NoAnswer] /\ wire = {}
      BY DEF PortInit, Init
    <2>2. PacketCount = Packets
      <3>1. Full = {} /\ Holding = {} /\ Sending = {} /\ InCallback = 0
        BY <1>1, <1>3 DEF Full, Holding, Sending, InCallback
      <3> QED
        BY <1>3, <3>1, FS_EmptySet DEF PacketCount
    <2>3. VxMutexInv /\ AnswerInv /\ FailInv /\ HeldInv /\ SenderInv /\ VxFreeInv /\ CleanInv
      BY <1>1, <1>3, <2>1 DEF VxMutexInv, AnswerInv, FailInv, HeldInv, SenderInv, VxFreeInv, CleanInv
    <2>4. VxQuietInv
      BY <1>1, <1>3, <2>1 DEF VxQuietInv, OwnInv, VxFlowInv, ReadInv, Owns
    <2>5. port \in VxPorts => CloseInv
      BY <1>3 DEF PortInit, VxInit, ErikaInit, MacInit, RtkInit, VxPorts, CloseInv, Left
    <2> QED
      BY <2>2, <2>3, <2>4, <2>5 DEF VxInv
  <1> QED
    BY <1>5, <1>6, <1>7 DEF PortInv

\* The inductive invariant holds in every reachable state of every port.
THEOREM PortInvariance == PortSpec => []PortInv
  BY PortInvInit, PortInvStep, PTL DEF PortSpec

\* With SendPc for pc, the properties of the driver speak of the same threads.
LEMMA MappedProperties ==
  ASSUME PortTypeOK, D!IndInv
  PROVE  ExclusiveIndex /\ AnswerStable /\ ForeignOnlyIfLate /\ LostOnlyToLateStore
  <1> USE DEF PortTypeOK
  <1>1. \A t \in Threads : /\ D!Owns(t) <=> Owns(t)
                           /\ pc[t] \in {"copy", "release"} => SendPc[t] = pc[t]
    BY DEF D!Owns, Owns, SendPc
  <1>2. D!Undisturbed <=> Undisturbed
    BY DEF D!Undisturbed, Undisturbed
  <1>3. D!QuietInv => ExclusiveIndex /\ AnswerStable
    BY <1>1 DEF D!QuietInv, D!OwnInv, D!ReadInv, ExclusiveIndex, AnswerStable
  <1>4. D!QuietInv => ForeignOnlyIfLate
    BY <1>1 DEF D!QuietInv, D!ReadInv, ForeignOnlyIfLate, D!NoAnswer, NoAnswer, D!NoTxn, NoTxn
  <1>5. D!BaseInv /\ D!QuietInv => LostOnlyToLateStore
    <2> SUFFICES ASSUME D!BaseInv, D!QuietInv, NEW i \in Idx,
                        \A t \in Threads : Owns(t) => idx[t] # i, rxbufstat[i] # "EMPTY"
                 PROVE  rxbufstat[i] = "RCVD" /\ rxbuf[i].txn \in late
      BY DEF LostOnlyToLateStore
    <2>1. i \in D!Idx /\ \A t \in Threads : D!Owns(t) => idx[t] # i
      BY <1>1 DEF D!Idx, Idx
    <2>2. rxbufstat[i] = "RCVD"
      BY <2>1 DEF D!BaseInv, D!FreeInv
    <2> QED
      BY <2>1, <2>2 DEF D!QuietInv, D!FlowInv, D!Accounted
  <1> QED
    BY <1>2, <1>3, <1>4, <1>5
       DEF D!IndInv, ExclusiveIndex, AnswerStable, ForeignOnlyIfLate, LostOnlyToLateStore

\* On every port all variables keep their types (nicdrv.c of each port).
THEOREM PortTypesCorrect == PortSpec => []PortTypeOK
  <1>1. PortInv => PortTypeOK
    BY DEF PortInv
  <1> QED
    BY <1>1, PortInvariance, PTL

\* On every port ecx_getindex gives no frame index to two transactions, while its searches succeed and
\* no send has failed; on rtk a frame that is overwritten in the transmit buffer counts as failed.
THEOREM PortIndexesExclusive == PortSpec => []ExclusiveIndex
  <1>1. PortInv => ExclusiveIndex
    BY MappedProperties DEF PortInv, DriverInv, VxInv, VxQuietInv, OwnInv, ExclusiveIndex
  <1> QED
    BY <1>1, PortInvariance, PTL

\* On every port, under these conditions, the data a primitive copies out of the receive buffer are
\* those of the frame whose counter ecx_inframe returned.
THEOREM PortAnswersStable == PortSpec => []AnswerStable
  <1>1. PortInv => AnswerStable
    BY MappedProperties DEF PortInv, DriverInv, VxInv, VxQuietInv, ReadInv, AnswerStable
  <1> QED
    BY <1>1, PortInvariance, PTL

\* On every port, under these conditions, the answer a transaction accepts is its own or that of one
\* that ended with a frame under way: on the cable, in the ring of rtk, or in a queue of VxWorks.
THEOREM PortForeignAnswersAreLate == PortSpec => []ForeignOnlyIfLate
  <1>1. PortInv => ForeignOnlyIfLate
    BY MappedProperties DEF PortInv, DriverInv, VxInv, VxQuietInv, ReadInv, ForeignOnlyIfLate
  <1> QED
    BY <1>1, PortInvariance, PTL

\* On every port, under these conditions, an index is lost only to a frame stored after its
\* transaction had released it; on VxWorks, which stores nothing for others, none is lost.
THEOREM PortIndexesLostOnlyToLateStores == PortSpec => []LostOnlyToLateStore
  <1>1. PortInv => LostOnlyToLateStore
    BY MappedProperties DEF PortInv, DriverInv, VxInv, VxFreeInv, LostOnlyToLateStore
  <1> QED
    BY <1>1, PortInvariance, PTL

\* VxWorks: ec_outfram_send, mux_rx_callback and ecx_recvpkt lose no packet of the pool and free none
\* twice, and ecx_closenic loses at most one, which is posted between the emptying and the deletion of
\* its queue.
THEOREM PacketsAreKept == PortSpec => []PacketsKept
  <1>1. ASSUME PortInv PROVE PacketCount = Packets
    <2>1. CASE port \in VxPorts
      BY <1>1, <2>1 DEF PortInv, VxInv
    <2>2. CASE port \notin VxPorts
      <3>1. NoPackets
        BY <1>1, <2>2 DEF PortInv, DriverInv
      <3>2. Full = {} /\ Holding = {} /\ Sending = {} /\ InCallback = 0
        BY <2>2, <3>1 DEF NoPackets, Full, Holding, Sending, InCallback
      <3> QED
        BY <3>1, <3>2, FS_EmptySet, VxAssumption DEF PacketCount, NoPackets
    <2> QED
      BY <2>1, <2>2
  <1>2. ASSUME PortInv PROVE Quantify(Idx, Lost) <= (IF port \in {"closing", "closed"} THEN 1 ELSE 0)
    <2> DEFINE L == {i \in Idx : Lost(i)}
    <2>1. CASE L = {}
      BY <2>1, FS_EmptySet DEF Quantify
    <2>2. CASE L # {}
      <3>1. PICK i \in Idx : Lost(i)
        BY <2>2
      <3>2. port \in VxPorts
        BY <1>2, <3>1 DEF PortInv, DriverInv, NoPackets, Lost
      <3>3. CloseInv
        BY <1>2, <3>2 DEF PortInv, VxInv
      <3>4. L = {i} /\ port # "vxworks"
        BY <3>1, <3>3 DEF CloseInv, Left, Lost
      <3>5. Cardinality(L) = 1
        BY <3>4, FS_Singleton
      <3> QED
        BY <3>2, <3>4, <3>5 DEF Quantify, VxPorts
    <2> QED
      BY <2>1, <2>2
  <1>3. PortInv => PacketsKept
    BY <1>1, <1>2 DEF PacketsKept, PacketCount, Quantify, Full, Holding, Sending, InCallback
  <1> QED
    BY <1>3, PortInvariance, PTL

\* VxWorks: ec_outfram_send cleans the queue of its index, so that ecx_recvpkt takes no packet that
\* was put there for an earlier transaction.
THEOREM AbandonedNeverTaken == PortSpec => []AbandonedNotTaken
  <1>1. PortInv => AbandonedNotTaken
    BY DEF PortInv, DriverInv, NoPackets, VxInv, CleanInv, AbandonedNotTaken, Undisturbed
  <1> QED
    BY <1>1, PortInvariance, PTL

=============================================================================
