----------------------------- MODULE Redundancy -----------------------------
(***************************************************************************)
(* The Linux NIC driver in redundant mode (ecx_outframe_red and            *)
(* ecx_waitinframe_red of oshw/linux/nicdrv.c, called by ecx_srconfirm).   *)
(*                                                                         *)
(* The slaves 1 .. N hang in a row between two network cards.  Every       *)
(* datagram leaves through the primary socket, with a dummy broadcast read *)
(* of the same index through the secondary one.  From which card a frame   *)
(* came (the source address it was sent with) and at which one it arrived  *)
(* tells the driver where the row is interrupted, and whether it has to    *)
(* send the datagram once more through the secondary socket.               *)
(*                                                                         *)
(* Cable i joins station i and station i + 1; station 0 is the primary     *)
(* card and station N + 1 the secondary one.  A slave executes a frame     *)
(* that passes it away from the primary card or that turns round at its    *)
(* open port towards it.  The frame driver's races between threads inside  *)
(* one call are the subject of NicDriver; here a call of ecx_inframe, made *)
(* under rx_mutex, is one step.                                            *)
(***************************************************************************)
EXTENDS Naturals, Sequences, FiniteSets, FiniteSetsExt, TLC

CONSTANTS
    Threads,     \* application threads using the port
    N,           \* slaves in the row
    EC_MAXBUF,   \* frame buffers
    MaxTxn,      \* bound: datagrams sent by all threads, retransmissions included
    MaxTries,    \* bound: transmissions in one ecx_srconfirm
    MaxTroubles  \* bound: cables that break or are mended, frames lost on a whole cable, failing sends

ASSUME RedundancyAssumption ==
    /\ N \in Nat \ {0}
    /\ EC_MAXBUF \in Nat \ {0} /\ Cardinality(Threads) <= EC_MAXBUF
    /\ {MaxTxn, MaxTries, MaxTroubles} \subseteq Nat

VARIABLES
    stat,      \* rxbufstat of the primary stack and of redport, per index
    rx,        \* rxbuf and rxsa of both stacks: the frame stored per index
    tx,        \* txbuf: the datagram per index
    lastidx,   \* port->lastidx
    broken,    \* the cables that are interrupted
    net,       \* frames on their way to each socket, or in its receive queue
    pc, idx, txn, tries,  \* per thread: place in the code, index, datagram, transmissions
    got,       \* per thread: the sockets whose frame ecx_waitinframe_red has (wkc > EC_NOFRAME)
    answer,    \* per thread: what the call returns: the frame in rxbuf, or NoFrame for EC_NOFRAME
    begun,     \* history: datagrams begun
    executed,  \* history: the slaves that executed each datagram, in order
    troubles, retries,
    mixed,     \* history: the frames of an index may be mixed up: a wait ended with one of them still under
               \* way, or ecx_getindex gave it out while a call whose send had failed went on with it
    disturbed  \* history: threads during whose call a cable changed, a frame got lost or dropped, or
               \* a send failed

vars == <<stat, rx, tx, lastidx, broken, net, pc, idx, txn, tries, got, answer, begun, executed,
          troubles, retries, mixed, disturbed>>

Idx == 0 .. EC_MAXBUF - 1
Sockets == {"PRIM", "SEC"}
Cables == 0 .. N
NoFrame == [idx |-> 0, txn |-> 0, try |-> 0, kind |-> "none", by |-> <<>>, sa |-> "none"]
Data(t, by) == [idx |-> idx[t], txn |-> txn[t], try |-> tries[t], kind |-> "data", by |-> by, sa |-> "PRIM"]
Dummy(t) == [idx |-> idx[t], txn |-> txn[t], try |-> tries[t], kind |-> "dummy", by |-> <<>>, sa |-> "SEC"]

Init ==
    /\ stat = [s \in Sockets |-> [i \in Idx |-> "EMPTY"]]
    /\ rx = [s \in Sockets |-> [i \in Idx |-> NoFrame]]
    /\ tx = [i \in Idx |-> <<>>]
    /\ lastidx = 0
    /\ broken \in {{}} \cup {{c} : c \in Cables}
    /\ net = [s \in Sockets |-> {}]
    /\ pc = [t \in Threads |-> "idle"]
    /\ idx = [t \in Threads |-> 0]
    /\ txn = [t \in Threads |-> 0]
    /\ tries = [t \in Threads |-> 0]
    /\ got = [t \in Threads |-> {}]
    /\ answer = [t \in Threads |-> NoFrame]
    /\ begun = 0
    /\ executed = [x \in 1 .. MaxTxn |-> <<>>]
    /\ troubles = 0
    /\ retries = 0
    /\ mixed = FALSE
    /\ disturbed = {}

Goto(t, from, to) == pc[t] = from /\ pc' = [pc EXCEPT ![t] = to]
SetStat(s, i, x) == stat' = [stat EXCEPT ![s][i] = x]

-----------------------------------------------------------------------------
(* The row of slaves (external): which ones execute a frame that enters at *)
(* a card, in their order, and at which card it arrives.                   *)

SlavesFrom(i, j) == [n \in 1 .. j + 1 - i |-> i + n - 1]

Executing(s) ==
    IF s = "PRIM" THEN SlavesFrom(1, IF broken = {} THEN N ELSE Min(broken))
    ELSE IF broken = {} THEN <<>> ELSE SlavesFrom(Max(broken) + 1, N)

Arrives(s) ==
    IF broken = {} THEN Sockets \ {s}
    ELSE IF s = "PRIM" THEN {s} \ (IF 0 \in broken THEN Sockets ELSE {})
    ELSE {s} \ (IF N \in broken THEN Sockets ELSE {})

\* Send frame f through socket s.
Send(s, f) ==
    LET run == [f EXCEPT !.by = @ \o Executing(s)] IN
    /\ net' = [d \in Sockets |-> IF d \in Arrives(s) THEN net[d] \cup {run} ELSE net[d]]
    /\ executed' = IF f.kind = "data" THEN [executed EXCEPT ![f.txn] = @ \o Executing(s)] ELSE executed

-----------------------------------------------------------------------------
(* ecx_getindex in both stacks, and the building of the datagram           *)

NextFree(i) == CHOOSE j \in Idx :
    \E d \in 1 .. EC_MAXBUF :
        /\ j = (i + d) % EC_MAXBUF
        /\ stat["PRIM"][j] = "EMPTY"
        /\ \A e \in 1 .. d - 1 : stat["PRIM"][(i + e) % EC_MAXBUF] # "EMPTY"

GetIndex(t) ==
    /\ Goto(t, "idle", "out")
    /\ begun + retries < MaxTxn
    /\ \E i \in Idx : stat["PRIM"][i] = "EMPTY"
    /\ LET i == NextFree(lastidx) IN
        /\ idx' = [idx EXCEPT ![t] = i]
        /\ lastidx' = i
        /\ stat' = [s \in Sockets |-> [stat[s] EXCEPT ![i] = "ALLOC"]]
        /\ tx' = [tx EXCEPT ![i] = <<>>]
    /\ txn' = [txn EXCEPT ![t] = begun + 1]
    /\ tries' = [tries EXCEPT ![t] = 1]
    /\ begun' = begun + 1
    /\ disturbed' = disturbed \ {t}
    /\ mixed' = (mixed \/ \E u \in Threads : pc[u] # "idle" /\ idx[u] = NextFree(lastidx))
    /\ UNCHANGED <<rx, broken, net, got, answer, executed, troubles, retries>>

-----------------------------------------------------------------------------
(* ecx_outframe_red.  A send() that fails marks the buffer free, and the    *)
(* caller, which does not look at the result, goes on with its index.      *)

SendFails(t, s) ==
    /\ troubles < MaxTroubles
    /\ troubles' = troubles + 1
    /\ SetStat(s, idx[t], "EMPTY")
    /\ disturbed' = disturbed \cup {t}
    /\ UNCHANGED <<rx, lastidx, broken, net, idx, txn, tries, answer, begun, executed, retries>>

\* The datagram leaves through the primary socket.
OutframePrimary(t) ==
    /\ Goto(t, "out", "dummy")
    /\ SetStat("PRIM", idx[t], "TX")
    /\ Send("PRIM", Data(t, tx[idx[t]]))
    /\ got' = [got EXCEPT ![t] = {}]
    /\ UNCHANGED <<rx, tx, lastidx, broken, idx, txn, tries, answer, begun, troubles, retries, mixed, disturbed>>

OutframePrimaryFails(t) ==
    /\ Goto(t, "out", "dummy")
    /\ SendFails(t, "PRIM")
    /\ got' = [got EXCEPT ![t] = {}]
    /\ UNCHANGED <<tx, mixed>>

\* Under tx_mutex: the dummy frame, with this index, leaves through the secondary socket.
OutframeDummy(t) ==
    /\ Goto(t, "dummy", "wait")
    /\ SetStat("SEC", idx[t], "TX")
    /\ Send("SEC", Dummy(t))
    /\ UNCHANGED <<rx, tx, lastidx, broken, idx, txn, tries, got, answer, begun, troubles, retries, mixed,
                   disturbed>>

OutframeDummyFails(t) ==
    /\ Goto(t, "dummy", "wait")
    /\ SendFails(t, "SEC")
    /\ UNCHANGED <<tx, got, mixed>>

-----------------------------------------------------------------------------
(* ecx_inframe, on either stack; a poll that finds nothing changes nothing *)

\* Mutant: the index of the frame that arrives is not compared with the one waited for.
Complete_AnyIndex(s, i) ==
    \/ /\ stat[s][i] = "RCVD"
       /\ SetStat(s, i, "COMPLETE")
       /\ UNCHANGED <<rx, net>>
    \/ /\ stat[s][i] # "RCVD"
       /\ \E f \in net[s] :
            /\ net' = [net EXCEPT ![s] = @ \ {f}]
            /\ rx' = [rx EXCEPT ![s][i] = f]
            /\ SetStat(s, i, "COMPLETE")

\* The frame of index i has been found, or arrives now, and is complete in stack s.
Complete(s, i) ==
    \/ /\ stat[s][i] = "RCVD"
       /\ SetStat(s, i, "COMPLETE")
       /\ UNCHANGED <<rx, net>>
    \/ /\ stat[s][i] # "RCVD"
       /\ \E f \in net[s] :
            /\ f.idx = i
            /\ net' = [net EXCEPT ![s] = @ \ {f}]
            /\ rx' = [rx EXCEPT ![s][i] = f]
            /\ SetStat(s, i, "COMPLETE")

\* A frame of another index arrives: kept if somebody waits for it, dropped otherwise.  It is
\* dropped too when it overtakes its sender, which has not yet marked the secondary stack.
OtherFrame(s, i) ==
    /\ stat[s][i] # "RCVD"
    /\ \E f \in net[s] :
        /\ f.idx # i
        /\ net' = [net EXCEPT ![s] = @ \ {f}]
        /\ IF stat[s][f.idx] = "TX"
           THEN rx' = [rx EXCEPT ![s][f.idx] = f] /\ SetStat(s, f.idx, "RCVD")
           ELSE UNCHANGED <<rx, stat>>
        /\ disturbed' = disturbed \cup {t \in Threads : pc[t] = "dummy" /\ idx[t] = f.idx}

InframeOwn(t, s) ==
    /\ pc[t] = "wait"
    /\ s \notin got[t]
    /\ Complete(s, idx[t])
    /\ got' = [got EXCEPT ![t] = @ \cup {s}]
    /\ UNCHANGED <<tx, lastidx, broken, pc, idx, txn, tries, answer, begun, executed, troubles, retries,
                   mixed, disturbed>>

InframeOther(t, s) ==
    /\ (pc[t] = "wait" /\ s \notin got[t]) \/ (pc[t] = "rewait" /\ s = "SEC")
    /\ OtherFrame(s, idx[t])
    /\ UNCHANGED <<tx, lastidx, broken, pc, idx, txn, tries, got, answer, begun, executed, troubles,
                   retries, mixed>>

-----------------------------------------------------------------------------
(* The decisions of ecx_waitinframe_red                                    *)

\* primrx and secrx: with which source address the awaited frame came in, if it did.
Source(t, s) == IF s \in got[t] THEN rx[s][idx[t]].sa ELSE "none"
\* A frame of index i is under way, or was put in its buffer by another thread and not yet looked at.
UnderWay(i) == \E s \in Sockets : stat[s][i] = "RCVD" \/ \E f \in net[s] : f.idx = i

\* Both frames are in, or the timer has expired.
WaitOver(t) ==
    /\ mixed' = (mixed \/ (got[t] # Sockets /\ UnderWay(idx[t])))

\* What ecx_srconfirm does with the result: a frame is returned, EC_NOFRAME is tried again.
Result(t, f) ==
    IF f = NoFrame /\ tries[t] < MaxTries /\ begun + retries < MaxTxn
    THEN /\ pc' = [pc EXCEPT ![t] = "out"]
         /\ tries' = [tries EXCEPT ![t] = @ + 1]
         /\ retries' = retries + 1
         /\ UNCHANGED answer
    ELSE /\ pc' = [pc EXCEPT ![t] = "done"]
         /\ answer' = [answer EXCEPT ![t] = f]
         /\ UNCHANGED <<tries, retries>>

\* The frames have changed sides: the ring is whole.
DecideWhole(t) ==
    /\ pc[t] = "wait"
    /\ Source(t, "PRIM") = "SEC" /\ Source(t, "SEC") = "PRIM"
    /\ WaitOver(t)
    /\ rx' = [rx EXCEPT !["PRIM"][idx[t]] = rx["SEC"][idx[t]]]
    /\ Result(t, rx["SEC"][idx[t]])
    /\ UNCHANGED <<stat, tx, lastidx, broken, net, idx, txn, got, begun, executed, troubles, disturbed>>

\* The dummy came back to its card.
Resending(t) == Source(t, "PRIM") \in {"none", "PRIM"} /\ Source(t, "SEC") = "SEC"

\* Mutant: the first part of a broken ring is not carried over into the second transmission.
DecideResend_NoCopy(t) ==
    /\ Goto(t, "wait", "rewait")
    /\ Resending(t)
    /\ WaitOver(t)
    /\ SetStat("SEC", idx[t], "TX")
    /\ Send("SEC", Data(t, tx[idx[t]]))
    /\ UNCHANGED <<rx, tx, lastidx, broken, idx, txn, tries, got, answer, begun, troubles, retries, disturbed>>

\* Send the datagram, or what the first slaves have made of it,
\* through the secondary socket.
CarriedOver(t) == IF Source(t, "PRIM") = "PRIM" THEN rx["PRIM"][idx[t]].by ELSE tx[idx[t]]

DecideResend(t) ==
    /\ Goto(t, "wait", "rewait")
    /\ Resending(t)
    /\ WaitOver(t)
    /\ tx' = [tx EXCEPT ![idx[t]] = CarriedOver(t)]
    /\ Send("SEC", Data(t, CarriedOver(t)))
    /\ SetStat("SEC", idx[t], "TX")
    /\ UNCHANGED <<rx, lastidx, broken, idx, txn, tries, got, answer, begun, troubles, retries, disturbed>>

DecideResendFails(t) ==
    /\ Goto(t, "wait", "rewait")
    /\ Resending(t)
    /\ WaitOver(t)
    /\ tx' = [tx EXCEPT ![idx[t]] = CarriedOver(t)]
    /\ SendFails(t, "SEC")
    /\ UNCHANGED got

\* Every other combination: the result of the primary socket stands.
DecidePrimary(t) ==
    /\ pc[t] = "wait"
    /\ ~(Source(t, "PRIM") = "SEC" /\ Source(t, "SEC") = "PRIM")
    /\ ~Resending(t)
    /\ WaitOver(t)
    /\ Result(t, IF "PRIM" \in got[t] THEN rx["PRIM"][idx[t]] ELSE NoFrame)
    /\ UNCHANGED <<stat, rx, tx, lastidx, broken, net, idx, txn, got, begun, executed, troubles,
                   disturbed>>

\* The wait for the second transmission takes any frame of the index: the source address is not
\* looked at again.
ResendAnswered(t) ==
    /\ pc[t] = "rewait"
    /\ \/ /\ stat["SEC"][idx[t]] = "RCVD"
          /\ UNCHANGED net
          /\ rx' = [rx EXCEPT !["PRIM"][idx[t]] = rx["SEC"][idx[t]]]
          /\ Result(t, rx["SEC"][idx[t]])
       \/ /\ stat["SEC"][idx[t]] # "RCVD"
          /\ \E f \in net["SEC"] :
                /\ f.idx = idx[t]
                /\ net' = [net EXCEPT !["SEC"] = @ \ {f}]
                /\ rx' = [s \in Sockets |-> [rx[s] EXCEPT ![idx[t]] = f]]
                /\ Result(t, f)
    /\ SetStat("SEC", idx[t], "COMPLETE")
    /\ UNCHANGED <<tx, lastidx, broken, idx, txn, got, begun, executed, troubles, mixed, disturbed>>

\* EC_TIMEOUTRET is over: what the primary socket had, if anything, stands.
ResendExpired(t) ==
    /\ pc[t] = "rewait"
    /\ stat["SEC"][idx[t]] # "RCVD"
    /\ mixed' = (mixed \/ UnderWay(idx[t]))
    /\ Result(t, IF "PRIM" \in got[t] THEN rx["PRIM"][idx[t]] ELSE NoFrame)
    /\ UNCHANGED <<stat, rx, tx, lastidx, broken, net, idx, txn, got, begun, executed, troubles,
                   disturbed>>

\* ecx_setbufstat in both stacks; a freed buffer is not read again.
Release(t) ==
    /\ Goto(t, "done", "idle")
    /\ stat' = [s \in Sockets |-> [stat[s] EXCEPT ![idx[t]] = "EMPTY"]]
    /\ rx' = [s \in Sockets |-> [rx[s] EXCEPT ![idx[t]] = NoFrame]]
    /\ tx' = [tx EXCEPT ![idx[t]] = <<>>]
    /\ mixed' = (mixed \/ UnderWay(idx[t]))
    /\ idx' = [idx EXCEPT ![t] = 0]
    /\ txn' = [txn EXCEPT ![t] = 0]
    /\ tries' = [tries EXCEPT ![t] = 0]
    /\ got' = [got EXCEPT ![t] = {}]
    /\ answer' = [answer EXCEPT ![t] = NoFrame]
    /\ UNCHANGED <<lastidx, broken, net, begun, executed, troubles, retries, disturbed>>

-----------------------------------------------------------------------------
(* The environment                                                         *)

\* A cable breaks or is mended, between two frames.
CableChanges ==
    /\ troubles < MaxTroubles
    /\ troubles' = troubles + 1
    /\ \E c \in Cables : broken' = IF c \in broken THEN broken \ {c} ELSE broken \cup {c}
    /\ disturbed' = disturbed \cup {t \in Threads : pc[t] # "idle"}
    /\ UNCHANGED <<stat, rx, tx, lastidx, net, pc, idx, txn, tries, got, answer, begun, executed, retries, mixed>>

Lose ==
    /\ troubles < MaxTroubles
    /\ troubles' = troubles + 1
    /\ \E s \in Sockets : \E f \in net[s] : net' = [net EXCEPT ![s] = @ \ {f}]
    /\ disturbed' = disturbed \cup {t \in Threads : pc[t] # "idle"}
    /\ UNCHANGED <<stat, rx, tx, lastidx, broken, pc, idx, txn, tries, got, answer, begun, executed,
                   retries, mixed>>

Rest == begun + retries = MaxTxn /\ (\A t \in Threads : pc[t] = "idle") /\ UNCHANGED vars

waitinframe_red(t) ==
    \/ \E s \in Sockets : InframeOwn(t, s) \/ InframeOther(t, s)
    \/ DecideWhole(t) \/ DecideResend(t) \/ DecideResendFails(t) \/ DecidePrimary(t)
    \/ ResendAnswered(t) \/ ResendExpired(t)
Next ==
    \/ \E t \in Threads : \/ GetIndex(t)
                          \/ OutframePrimary(t) \/ OutframePrimaryFails(t)
                          \/ OutframeDummy(t) \/ OutframeDummyFails(t)
                          \/ waitinframe_red(t) \/ Release(t)
    \/ CableChanges \/ Lose \/ Rest

Spec == Init /\ [][Next]_vars

ThreadSymmetry == Permutations(Threads)

-----------------------------------------------------------------------------
(* Properties                                                              *)

\* One interruption of the row goes unnoticed by the callers: a datagram during which nothing
\* changed, no frame was lost or late and no send failed is executed by every slave exactly once, in
\* the order of the row, and the answer is the frame that carries all their work.
OneBreakHidden ==
    \A t \in Threads :
        pc[t] = "done" /\ t \notin disturbed /\ ~mixed /\ Cardinality(broken) <= 1
            => /\ executed[txn[t]] = SlavesFrom(1, N)
               /\ answer[t].by = SlavesFrom(1, N) /\ answer[t].kind = "data" /\ answer[t].txn = txn[t]

\* Whatever the cables do, whichever frames are lost and whichever sends fail: an answer with a
\* positive working counter is the datagram of this call, and its counter counts slaves that really
\* executed it; the dummy is never returned for it.  The exceptions are a frame that outlives a wait
\* and an index that is given out again while its call, whose send failed, goes on.
AnswerGenuine ==
    ~mixed => \A t \in Threads :
        pc[t] = "done" /\ Len(answer[t].by) > 0
            => /\ answer[t].kind = "data" /\ answer[t].txn = txn[t]
               /\ \A i \in 1 .. Len(answer[t].by) :
                    Cardinality({j \in 1 .. Len(answer[t].by) : answer[t].by[j] = answer[t].by[i]})
                        <= Cardinality({j \in 1 .. Len(executed[txn[t]]) : executed[txn[t]][j] = answer[t].by[i]})

=============================================================================
