------------------------------ MODULE NicDriver ------------------------------
(***************************************************************************)
(* The Linux NIC driver of the master (oshw/linux/nicdrv.c) in the         *)
(* non-redundant mode, used by several application threads through the     *)
(* confirmed datagram primitives of ethercatbase.c.                        *)
(*                                                                         *)
(* A primitive is one TRANSACTION: it takes a frame index (ecx_getindex),  *)
(* builds a datagram in the tx buffer of that index, sends it and polls    *)
(* for the answer (ecx_srconfirm), copies the answer out of the rx buffer  *)
(* of the index and frees the index (ecx_setbufstat).  The threads share   *)
(* the buffers, their status words, the socket, and the two mutexes; the   *)
(* status words are read and written mostly WITHOUT a mutex, so every read *)
(* and every write of one is a step of its own here.                       *)
(*                                                                         *)
(* Data: a datagram is the transaction that built it, and an answer is     *)
(* that transaction with its working counter.  The wire loses and delays   *)
(* frames freely and returns them in any order.                            *)
(***************************************************************************)
EXTENDS Naturals, FiniteSets

CONSTANTS
    Threads,      \* application threads using the port
    EC_MAXBUF,    \* number of frame buffers (16 in the code)
    MaxTxn,       \* bound: transactions begun by all threads together
    MaxTries,     \* bound: transmissions in one ecx_srconfirm (timeout / EC_TIMEOUTRET)
    Wkcs,         \* working counters an answer may carry
    SendMayFail,  \* whether send() may return -1
    NoThread      \* a free mutex

ASSUME NicAssumption ==
    /\ EC_MAXBUF \in Nat \ {0}
    /\ MaxTxn \in Nat
    /\ MaxTries \in Nat \ {0}
    /\ Wkcs \subseteq Nat
    /\ SendMayFail \in BOOLEAN
    /\ NoThread \notin Threads

VARIABLES
    rxbufstat,       \* port->rxbufstat: status of each rx buffer
    rxbuf,           \* port->rxbuf: the answer stored in each rx buffer
    txbuf,           \* port->txbuf: the transaction whose datagram is in the tx buffer
    lastidx,         \* port->lastidx
    getindex_mutex,  \* owner of port->getindex_mutex
    rx_mutex,        \* owner of port->rx_mutex
    tempbuf,         \* port->tempinbuf: frame read by the owner of rx_mutex
    wire,            \* frames on the cable, in the slaves or in the socket
    pc, idx, cnt,    \* per thread: place in the code, frame index, search counter
    txn, tries,      \* per thread: current transaction, its transmissions so far
    answer,          \* per thread: the answer ecx_inframe returned the counter of
    begun,           \* history: number of transactions begun
    exhausted,       \* history: a search of ecx_getindex found no free index
    sendFailed,      \* history: a send() returned -1
    late             \* history: transactions that ended with a frame still under way

shared == <<rxbufstat, rxbuf, txbuf, lastidx, getindex_mutex, rx_mutex, tempbuf, wire>>
local == <<pc, idx, cnt, txn, tries, answer>>
history == <<begun, exhausted, sendFailed, late>>
vars == <<shared, local, history>>

Idx == 0 .. EC_MAXBUF - 1
BufStat == {"EMPTY", "ALLOC", "TX", "RCVD", "COMPLETE"}
\* Transactions are numbered as they begin; 0 is none.
Txn == 0 .. MaxTxn
NoTxn == 0
Answer == [txn : Txn, wkc : Wkcs \cup {0}]
NoAnswer == [txn |-> NoTxn, wkc |-> 0]
\* A frame: its index byte, the datagram it carries, who sent it and at which try.
Frame == [idx : Idx, txn : Txn, by : Threads \cup {NoThread}, try : 0 .. MaxTries]
NoFrame == [idx |-> 0, txn |-> NoTxn, by |-> NoThread, try |-> 0]

PC == {"idle", "search", "take", "build", "out", "send", "sendfailed", "wait",
       "lock", "recv", "store", "poll", "copy", "release"}

\* Thread t holds a frame index: from the return of ecx_getindex to the final ecx_setbufstat.
Owns(t) == pc[t] \notin {"idle", "search", "take"}

Init ==
    /\ rxbufstat = [i \in Idx |-> "EMPTY"]
    /\ rxbuf = [i \in Idx |-> NoAnswer]
    /\ txbuf = [i \in Idx |-> NoTxn]
    /\ lastidx = 0
    /\ getindex_mutex = NoThread
    /\ rx_mutex = NoThread
    /\ tempbuf = NoFrame
    /\ wire = {}
    /\ pc = [t \in Threads |-> "idle"]
    /\ idx = [t \in Threads |-> 0]
    /\ cnt = [t \in Threads |-> 0]
    /\ txn = [t \in Threads |-> 0]
    /\ tries = [t \in Threads |-> 0]
    /\ answer = [t \in Threads |-> NoAnswer]
    /\ begun = 0
    /\ exhausted = FALSE
    /\ sendFailed = FALSE
    /\ late = {}

Goto(t, from, to) == pc[t] = from /\ pc' = [pc EXCEPT ![t] = to]
SetStat(i, s) == rxbufstat' = [rxbufstat EXCEPT ![i] = s]

-----------------------------------------------------------------------------
(* ecx_getindex                                                            *)

\* Index after i, wrapping at the end of the buffer array.
NextIdx(i) == IF i + 1 >= EC_MAXBUF THEN 0 ELSE i + 1

\* Mutant: ecx_getindex without its mutex.
GetIndexLock_NoMutex(t) ==
    /\ Goto(t, "idle", "search")
    /\ begun < MaxTxn
    /\ idx' = [idx EXCEPT ![t] = NextIdx(lastidx)]
    /\ txn' = [txn EXCEPT ![t] = begun + 1]
    /\ begun' = begun + 1
    /\ UNCHANGED <<shared, cnt, tries, answer, exhausted, sendFailed, late>>

GetIndexLock(t) ==
    /\ Goto(t, "idle", "search")
    /\ begun < MaxTxn
    /\ getindex_mutex = NoThread
    /\ getindex_mutex' = t
    /\ idx' = [idx EXCEPT ![t] = NextIdx(lastidx)]
    /\ txn' = [txn EXCEPT ![t] = begun + 1]
    /\ begun' = begun + 1
    /\ UNCHANGED <<rxbufstat, rxbuf, txbuf, lastidx, rx_mutex, tempbuf, wire, cnt, tries, answer,
                   exhausted, sendFailed, late>>

\* The loop condition of the search for an unused index.
SearchOn(t) == rxbufstat[idx[t]] # "EMPTY" /\ cnt[t] < EC_MAXBUF

GetIndexSearch(t) ==
    /\ pc[t] = "search"
    /\ SearchOn(t)
    /\ idx' = [idx EXCEPT ![t] = NextIdx(@)]
    /\ cnt' = [cnt EXCEPT ![t] = @ + 1]
    /\ UNCHANGED <<shared, pc, txn, tries, answer, history>>

\* The search stops at a free index, or at a busy one once all were tried.
GetIndexFound(t) ==
    /\ Goto(t, "search", "take")
    /\ ~SearchOn(t)
    /\ exhausted' = (exhausted \/ rxbufstat[idx[t]] # "EMPTY")
    /\ UNCHANGED <<shared, idx, cnt, txn, tries, answer, begun, sendFailed, late>>

GetIndexTake(t) ==
    /\ Goto(t, "take", "build")
    /\ SetStat(idx[t], "ALLOC")
    /\ lastidx' = idx[t]
    /\ getindex_mutex' = NoThread
    /\ UNCHANGED <<rxbuf, txbuf, rx_mutex, tempbuf, wire, idx, cnt, txn, tries, answer, history>>

-----------------------------------------------------------------------------
(* ecx_setupdatagram and ecx_outframe                                      *)

SetupDatagram(t) ==
    /\ Goto(t, "build", "out")
    /\ txbuf' = [txbuf EXCEPT ![idx[t]] = txn[t]]
    /\ tries' = [tries EXCEPT ![t] = 1]
    /\ UNCHANGED <<rxbufstat, rxbuf, lastidx, getindex_mutex, rx_mutex, tempbuf, wire,
                   idx, cnt, txn, answer, history>>

OutframeMark(t) ==
    /\ Goto(t, "out", "send")
    /\ SetStat(idx[t], "TX")
    /\ UNCHANGED <<rxbuf, txbuf, lastidx, getindex_mutex, rx_mutex, tempbuf, wire,
                   idx, cnt, txn, tries, answer, history>>

\* The frame leaves with whatever datagram the tx buffer of the index holds.
OutframeSend(t) ==
    /\ Goto(t, "send", "wait")
    /\ wire' = wire \cup {[idx |-> idx[t], txn |-> txbuf[idx[t]], by |-> t, try |-> tries[t]]}
    /\ UNCHANGED <<rxbufstat, rxbuf, txbuf, lastidx, getindex_mutex, rx_mutex, tempbuf,
                   idx, cnt, txn, tries, answer, history>>

OutframeSendFails(t) ==
    /\ SendMayFail
    /\ Goto(t, "send", "sendfailed")
    /\ sendFailed' = TRUE
    /\ UNCHANGED <<shared, idx, cnt, txn, tries, answer, begun, exhausted, late>>

\* After a failed send the status word says EMPTY, but the caller goes on to poll.
OutframeUnmark(t) ==
    /\ Goto(t, "sendfailed", "wait")
    /\ SetStat(idx[t], "EMPTY")
    /\ UNCHANGED <<rxbuf, txbuf, lastidx, getindex_mutex, rx_mutex, tempbuf, wire,
                   idx, cnt, txn, tries, answer, history>>

-----------------------------------------------------------------------------
(* ecx_inframe and ecx_recvpkt                                             *)

\* What ecx_srconfirm's caller does with a frame: copy the data out when the counter is positive.
Returned(a) == IF a.wkc > 0 THEN "copy" ELSE "release"

\* Another thread has put the answer in the buffer: take it, without any mutex.
InframeBuffered(t) ==
    /\ rxbufstat[idx[t]] = "RCVD"
    /\ Goto(t, "wait", Returned(rxbuf[idx[t]]))
    /\ answer' = [answer EXCEPT ![t] = rxbuf[idx[t]]]
    /\ SetStat(idx[t], "COMPLETE")
    /\ UNCHANGED <<rxbuf, txbuf, lastidx, getindex_mutex, rx_mutex, tempbuf, wire,
                   idx, cnt, txn, tries, history>>

\* Not there (yet): go for rx_mutex.  The answer may be stored before it is granted.
InframeNotBuffered(t) ==
    /\ rxbufstat[idx[t]] # "RCVD"
    /\ Goto(t, "wait", "lock")
    /\ UNCHANGED <<shared, idx, cnt, txn, tries, answer, history>>

InframeLock(t) ==
    /\ Goto(t, "lock", "recv")
    /\ rx_mutex = NoThread
    /\ rx_mutex' = t
    /\ UNCHANGED <<rxbufstat, rxbuf, txbuf, lastidx, getindex_mutex, tempbuf, wire,
                   idx, cnt, txn, tries, answer, history>>

\* recv() returned nothing, or a frame that is not EtherCAT.
RecvNothing(t) ==
    /\ Goto(t, "recv", "poll")
    /\ rx_mutex' = NoThread
    /\ UNCHANGED <<rxbufstat, rxbuf, txbuf, lastidx, getindex_mutex, tempbuf, wire,
                   idx, cnt, txn, tries, answer, history>>

\* Mutant: the index of the frame is not compared with the awaited one.
RecvOwn_AnyIndex(t) ==
    \E f \in wire, w \in Wkcs :
        LET a == [txn |-> f.txn, wkc |-> w] IN
        /\ Goto(t, "recv", Returned(a))
        /\ wire' = wire \ {f}
        /\ rxbuf' = [rxbuf EXCEPT ![idx[t]] = a]
        /\ answer' = [answer EXCEPT ![t] = a]
        /\ SetStat(idx[t], "COMPLETE")
        /\ rx_mutex' = NoThread
        /\ UNCHANGED <<txbuf, lastidx, getindex_mutex, tempbuf, idx, cnt, txn, tries, history>>

\* A frame with the awaited index completes the wait, whatever the status word says.
RecvOwn(t) ==
    \E f \in wire, w \in Wkcs :
        LET a == [txn |-> f.txn, wkc |-> w] IN
        /\ f.idx = idx[t]
        /\ Goto(t, "recv", Returned(a))
        /\ wire' = wire \ {f}
        /\ rxbuf' = [rxbuf EXCEPT ![idx[t]] = a]
        /\ answer' = [answer EXCEPT ![t] = a]
        /\ SetStat(idx[t], "COMPLETE")
        /\ rx_mutex' = NoThread
        /\ UNCHANGED <<txbuf, lastidx, getindex_mutex, tempbuf, idx, cnt, txn, tries, history>>

\* Mutant: the frame is stored whether or not somebody waits for it.
RecvOther_AnyStatus(t) ==
    \E f \in wire :
        /\ f.idx # idx[t]
        /\ Goto(t, "recv", "store")
        /\ wire' = wire \ {f}
        /\ tempbuf' = f
        /\ UNCHANGED <<rxbufstat, rxbuf, txbuf, lastidx, getindex_mutex, rx_mutex,
                       idx, cnt, txn, tries, answer, history>>

\* Somebody is waiting for a frame with another index: it will be stored for him.
RecvOther(t) ==
    \E f \in wire :
        /\ f.idx # idx[t]
        /\ rxbufstat[f.idx] = "TX"
        /\ Goto(t, "recv", "store")
        /\ wire' = wire \ {f}
        /\ tempbuf' = f
        /\ UNCHANGED <<rxbufstat, rxbuf, txbuf, lastidx, getindex_mutex, rx_mutex,
                       idx, cnt, txn, tries, answer, history>>

\* Mutant: the path that drops a frame leaves rx_mutex locked.
RecvStrange_NoUnlock(t) ==
    \E f \in wire :
        /\ f.idx # idx[t]
        /\ rxbufstat[f.idx] # "TX"
        /\ Goto(t, "recv", "poll")
        /\ wire' = wire \ {f}
        /\ UNCHANGED <<rxbufstat, rxbuf, txbuf, lastidx, getindex_mutex, rx_mutex, tempbuf,
                       idx, cnt, txn, tries, answer, history>>

\* Nobody waits for it: "strange things happened", the frame is dropped.
RecvStrange(t) ==
    \E f \in wire :
        /\ f.idx # idx[t]
        /\ rxbufstat[f.idx] # "TX"
        /\ Goto(t, "recv", "poll")
        /\ wire' = wire \ {f}
        /\ rx_mutex' = NoThread
        /\ UNCHANGED <<rxbufstat, rxbuf, txbuf, lastidx, getindex_mutex, tempbuf,
                       idx, cnt, txn, tries, answer, history>>

\* Store the frame and mark it received; the status word was tested a step ago.
StoreOther(t) ==
    /\ Goto(t, "store", "poll")
    /\ \E w \in Wkcs : rxbuf' = [rxbuf EXCEPT ![tempbuf.idx] = [txn |-> tempbuf.txn, wkc |-> w]]
    /\ SetStat(tempbuf.idx, "RCVD")
    /\ tempbuf' = NoFrame
    /\ rx_mutex' = NoThread
    /\ UNCHANGED <<txbuf, lastidx, getindex_mutex, wire, idx, cnt, txn, tries, answer, history>>

-----------------------------------------------------------------------------
(* The loops of ecx_waitinframe_red and ecx_srconfirm                      *)

\* No frame, the receive timer still runs: poll again.
PollAgain(t) ==
    /\ Goto(t, "poll", "wait")
    /\ UNCHANGED <<shared, idx, cnt, txn, tries, answer, history>>

\* The receive timer has run out but the overall one has not: transmit again.
Retransmit(t) ==
    /\ Goto(t, "poll", "out")
    /\ tries[t] < MaxTries
    /\ tries' = [tries EXCEPT ![t] = @ + 1]
    /\ UNCHANGED <<shared, idx, cnt, txn, answer, history>>

\* Both timers have run out: EC_NOFRAME.
TimeOut(t) ==
    /\ Goto(t, "poll", "release")
    /\ UNCHANGED <<shared, idx, cnt, txn, tries, answer, history>>

\* The primitive copies its data out of the rx buffer of the index.
CopyAnswer(t) ==
    /\ Goto(t, "copy", "release")
    /\ answer' = [answer EXCEPT ![t] = rxbuf[idx[t]]]
    /\ UNCHANGED <<shared, idx, cnt, txn, tries, history>>

\* A frame of transaction x has not come to rest: it is under way or in the receive buffer.
UnderWay(x) == tempbuf.txn = x \/ \E f \in wire : f.txn = x

\* Mutant: a primitive that returns without freeing its index.
Release_NotFreed(t) ==
    /\ Goto(t, "release", "idle")
    /\ late' = IF UnderWay(txn[t]) THEN late \cup {txn[t]} ELSE late
    /\ idx' = [idx EXCEPT ![t] = 0]
    /\ cnt' = [cnt EXCEPT ![t] = 0]
    /\ txn' = [txn EXCEPT ![t] = NoTxn]
    /\ tries' = [tries EXCEPT ![t] = 0]
    /\ answer' = [answer EXCEPT ![t] = NoAnswer]
    /\ UNCHANGED <<shared, begun, exhausted, sendFailed>>

\* ecx_setbufstat(idx, EC_BUF_EMPTY), the last statement of every primitive; the locals of
\* the calls end with it.
Release(t) ==
    /\ Goto(t, "release", "idle")
    /\ SetStat(idx[t], "EMPTY")
    /\ late' = IF UnderWay(txn[t]) THEN late \cup {txn[t]} ELSE late
    /\ idx' = [idx EXCEPT ![t] = 0]
    /\ cnt' = [cnt EXCEPT ![t] = 0]
    /\ txn' = [txn EXCEPT ![t] = NoTxn]
    /\ tries' = [tries EXCEPT ![t] = 0]
    /\ answer' = [answer EXCEPT ![t] = NoAnswer]
    /\ UNCHANGED <<rxbuf, txbuf, lastidx, getindex_mutex, rx_mutex, tempbuf, wire,
                   begun, exhausted, sendFailed>>

-----------------------------------------------------------------------------

\* The cable or the network stack loses a frame.
Lose ==
    \E f \in wire :
        /\ wire' = wire \ {f}
        /\ UNCHANGED <<rxbufstat, rxbuf, txbuf, lastidx, getindex_mutex, rx_mutex, tempbuf,
                       local, history>>

\* Every thread has made the transactions of the bound.
Rest ==
    /\ begun = MaxTxn
    /\ \A t \in Threads : pc[t] = "idle"
    /\ UNCHANGED vars

\* In the middle a turn of the search.
GetIndex(t) ==
    \/ GetIndexLock(t)
    \/ pc[t] = "search" /\ (GetIndexSearch(t) \/ GetIndexFound(t))
    \/ GetIndexTake(t)
Outframe(t) == OutframeMark(t) \/ OutframeSend(t) \/ OutframeSendFails(t) \/ OutframeUnmark(t)
Inframe(t) ==
    \/ InframeBuffered(t) \/ InframeNotBuffered(t) \/ InframeLock(t) \/ RecvNothing(t)
    \/ RecvOwn(t) \/ RecvOther(t) \/ RecvStrange(t) \/ StoreOther(t)
Srconfirm(t) == PollAgain(t) \/ Retransmit(t) \/ TimeOut(t)
Step(t) == GetIndex(t) \/ SetupDatagram(t) \/ Outframe(t) \/ Inframe(t) \/ Srconfirm(t)
           \/ CopyAnswer(t) \/ Release(t)

Next == (\E t \in Threads : Step(t)) \/ Lose \/ Rest

Spec == Init /\ [][Next]_vars

\* A thread that can move does so, a mutex that is free again and again is granted, and
\* the monotonic clock runs out the timers of a thread that polls forever.
Fairness ==
    \A t \in Threads :
        /\ WF_vars(Step(t))
        /\ SF_vars(InframeLock(t))
        /\ SF_vars(GetIndexLock(t))
        /\ SF_vars(TimeOut(t))

FairSpec == Spec /\ Fairness

-----------------------------------------------------------------------------
(* Properties                                                              *)

\* The indexes that ecx_getindex gives out and the ones the status words, buffers and frames are found
\* by stay within the buffers; counters stay in their bounds.
TypeOK ==
    /\ rxbufstat \in [Idx -> BufStat]
    /\ rxbuf \in [Idx -> Answer]
    /\ txbuf \in [Idx -> Txn]
    /\ lastidx \in Idx
    /\ getindex_mutex \in Threads \cup {NoThread}
    /\ rx_mutex \in Threads \cup {NoThread}
    /\ tempbuf \in Frame
    /\ wire \subseteq Frame
    /\ pc \in [Threads -> PC]
    /\ idx \in [Threads -> Idx]
    /\ cnt \in [Threads -> 0 .. EC_MAXBUF]
    /\ txn \in [Threads -> Txn]
    /\ tries \in [Threads -> 0 .. MaxTries]
    /\ answer \in [Threads -> Answer]
    /\ begun \in Txn
    /\ exhausted \in BOOLEAN
    /\ sendFailed \in BOOLEAN
    /\ late \subseteq Txn

\* No search for an index has failed and no send has failed so far.
Undisturbed == ~exhausted /\ ~sendFailed

\* Two transactions under way never use the same frame index, as long as the searches of
\* ecx_getindex found free indexes and every send() succeeded.
ExclusiveIndex ==
    Undisturbed =>
        \A t, u \in Threads : Owns(t) /\ Owns(u) /\ idx[t] = idx[u] => t = u

\* What the comment of ecx_getindex promises without any condition: it returns a NEW index, so
\* the index of a transaction that has one is not in use by another one.
NewIndexIsNew ==
    \A t, u \in Threads : pc[t] = "build" /\ Owns(u) /\ idx[t] = idx[u] => t = u

\* Between the return of the working counter by ecx_inframe and the copying of the data, no
\* other thread's store touches the rx buffer: data and counter come from the same frame.
AnswerStable ==
    Undisturbed =>
        \A t \in Threads : pc[t] = "copy" => rxbuf[idx[t]] = answer[t]

\* The answer a transaction returns is its own, or that of an earlier transaction that had
\* given up its index with a frame still under way.
ForeignOnlyIfLate ==
    Undisturbed =>
        \A t \in Threads :
            pc[t] \in {"copy", "release"} /\ answer[t] # NoAnswer
                => answer[t].txn \in late \cup {txn[t]}

\* An index that no transaction uses is free, or it was lost to a frame stored after its
\* transaction had released it: releases are never lost in any other way.
LostOnlyToLateStore ==
    Undisturbed =>
        \A i \in Idx :
            (\A t \in Threads : Owns(t) => idx[t] # i) /\ rxbufstat[i] # "EMPTY"
                => rxbufstat[i] = "RCVD" /\ rxbuf[i].txn \in late

\* Every transaction comes to an end.
TransactionEnds == \A t \in Threads : pc[t] # "idle" ~> pc[t] = "idle"

=============================================================================
