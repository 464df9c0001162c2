--------------------------- MODULE NicDriverProofs ---------------------------
(***************************************************************************)
(* Proofs about the NIC driver, for any number of threads and buffers and  *)
(* any bounds: type correctness and the four safety properties of          *)
(* NicDriver, from one inductive invariant.                                *)
(***************************************************************************)
EXTENDS NicDriver, TLAPS

\* A thread between lock and unlock holds the mutex.
MutexInv ==
    /\ \A t \in Threads : pc[t] \in {"search", "take"} => getindex_mutex = t
    /\ \A t \in Threads : pc[t] \in {"recv", "store"} => rx_mutex = t

\* The status word of the buffer a thread is about to store into may have changed since it was
\* tested, but not to RCVD or COMPLETE: only a holder of rx_mutex or a reader of RCVD does that.
StoreInv ==
    \A t \in Threads : pc[t] = "store" => rxbufstat[tempbuf.idx] \in {"EMPTY", "ALLOC", "TX"}

\* A thread that has not received anything has no answer.
AnswerInv ==
    \A t \in Threads : pc[t] \notin {"copy", "release"} => answer[t] = NoAnswer

\* Only a failed send leads to the unmarking of an index that is still in use.
FailInv ==
    \A t \in Threads : pc[t] = "sendfailed" => sendFailed

\* A buffer nobody uses is free, or holds a frame that was stored too late.
FreeInv ==
    \A i \in Idx :
        (\A t \in Threads : Owns(t) => idx[t] # i) => rxbufstat[i] \in {"EMPTY", "RCVD"}

\* The transaction of a frame with index i is known to be late, or is under way with that index.
Accounted(x, i) ==
    x \in late \/ \E t \in Threads : Owns(t) /\ txn[t] = x /\ idx[t] = i

\* No owner's index is marked free, or about to be taken, or shared.
OwnInv ==
    /\ \A t \in Threads : Owns(t) => rxbufstat[idx[t]] # "EMPTY"
    /\ \A t, u \in Threads : pc[t] = "take" /\ Owns(u) => idx[u] # idx[t]
    /\ \A t, u \in Threads : Owns(t) /\ Owns(u) /\ idx[t] = idx[u] => t = u

\* Every datagram, frame and stored answer is accounted for.
FlowInv ==
    /\ \A t \in Threads : Owns(t) /\ pc[t] # "build" => txbuf[idx[t]] = txn[t]
    /\ \A f \in wire : Accounted(f.txn, f.idx)
    /\ \A t \in Threads : pc[t] = "store" => Accounted(tempbuf.txn, tempbuf.idx)
    /\ \A i \in Idx : rxbufstat[i] = "RCVD" => Accounted(rxbuf[i].txn, i)

\* The answer of a thread is the content of its completed buffer.
ReadInv ==
    /\ \A t \in Threads :
          pc[t] = "copy" => rxbufstat[idx[t]] = "COMPLETE" /\ rxbuf[idx[t]] = answer[t]
    /\ \A t \in Threads :
          pc[t] \in {"copy", "release"} /\ answer[t] # NoAnswer
              => answer[t].txn \in late \cup {txn[t]}

BaseInv == TypeOK /\ MutexInv /\ StoreInv /\ AnswerInv /\ FailInv /\ FreeInv
QuietInv == OwnInv /\ FlowInv /\ ReadInv
IndInv == BaseInv /\ (Undisturbed => QuietInv)

-----------------------------------------------------------------------------

\* The index after one of the buffer array is one of the array (ecx_getindex wraps).
LEMMA NextIdxType == \A i \in Idx : NextIdx(i) \in Idx
  BY NicAssumption DEF Idx, NextIdx

\* Init establishes the inductive invariant.
LEMMA InitInd == Init => IndInv
  <1> SUFFICES ASSUME Init PROVE IndInv
    OBVIOUS
  <1>1. 0 \in Idx /\ 0 \in Txn
    BY NicAssumption DEF Idx, Txn
  <1>2. NoAnswer \in Answer /\ NoFrame \in Frame
    BY <1>1, NicAssumption DEF Answer, NoAnswer, Frame, NoFrame, NoTxn
  <1>3. TypeOK
    <2>1. exhausted \in BOOLEAN /\ sendFailed \in BOOLEAN
      BY Zenon DEF Init
    <2>2. /\ cnt \in [Threads -> 0 .. EC_MAXBUF]
          /\ tries \in [Threads -> 0 .. MaxTries]
          /\ txn \in [Threads -> Txn]
      BY <1>1, NicAssumption DEF Init
    <2>3. pc \in [Threads -> PC] /\ rxbufstat \in [Idx -> BufStat]
      BY DEF Init, PC, BufStat
    <2> QED
      BY <1>1, <1>2, <2>1, <2>2, <2>3 DEF Init, TypeOK, NoTxn
  <1>4. MutexInv /\ StoreInv /\ AnswerInv /\ FailInv /\ FreeInv
    BY DEF Init, MutexInv, StoreInv, AnswerInv, FailInv, FreeInv
  <1>5. QuietInv
    BY DEF Init, QuietInv, OwnInv, FlowInv, ReadInv, Owns
  <1> QED
    BY <1>3, <1>4, <1>5 DEF IndInv, BaseInv

\* Every step keeps the types.
LEMMA TypeStep == TypeOK /\ [Next]_vars => TypeOK'
  <1> SUFFICES ASSUME TypeOK, [Next]_vars PROVE TypeOK'
    OBVIOUS
  <1> USE NicAssumption DEF TypeOK, Goto, SetStat, shared, local, history
  <1>0. 0 \in Idx /\ 0 \in Txn /\ NoAnswer \in Answer /\ NoFrame \in Frame
    BY DEF Idx, Txn, Answer, NoAnswer, Frame, NoFrame, NoTxn
  <1>1. ASSUME NEW t \in Threads, GetIndexLock(t) PROVE TypeOK'
    BY <1>1, NextIdxType DEF GetIndexLock, PC, Txn
  <1>2. ASSUME NEW t \in Threads, GetIndexSearch(t) PROVE TypeOK'
    BY <1>2, NextIdxType DEF GetIndexSearch, SearchOn
  <1>3. ASSUME NEW t \in Threads, GetIndexFound(t) PROVE TypeOK'
    BY <1>3 DEF GetIndexFound, PC
  <1>4. ASSUME NEW t \in Threads, GetIndexTake(t) PROVE TypeOK'
    BY <1>4 DEF GetIndexTake, PC, BufStat
  <1>5. ASSUME NEW t \in Threads, SetupDatagram(t) PROVE TypeOK'
    BY <1>5 DEF SetupDatagram, PC
  <1>6. ASSUME NEW t \in Threads, OutframeMark(t) PROVE TypeOK'
    BY <1>6 DEF OutframeMark, PC, BufStat
  <1>7. ASSUME NEW t \in Threads, OutframeSend(t) PROVE TypeOK'
    BY <1>7 DEF OutframeSend, PC, Frame
  <1>8. ASSUME NEW t \in Threads, OutframeSendFails(t) PROVE TypeOK'
    BY <1>8 DEF OutframeSendFails, PC
  <1>9. ASSUME NEW t \in Threads, OutframeUnmark(t) PROVE TypeOK'
    BY <1>9 DEF OutframeUnmark, PC, BufStat
  <1>10. ASSUME NEW t \in Threads, InframeBuffered(t) PROVE TypeOK'
    BY <1>10 DEF InframeBuffered, Returned, PC, BufStat
  <1>11. ASSUME NEW t \in Threads, InframeNotBuffered(t) PROVE TypeOK'
    BY <1>11 DEF InframeNotBuffered, PC
  <1>12. ASSUME NEW t \in Threads, InframeLock(t) PROVE TypeOK'
    BY <1>12 DEF InframeLock, PC
  <1>13. ASSUME NEW t \in Threads, RecvNothing(t) PROVE TypeOK'
    BY <1>13 DEF RecvNothing, PC
  <1>14. ASSUME NEW t \in Threads, RecvOwn(t) PROVE TypeOK'
    <2>1. PICK f \in wire, w \in Wkcs : RecvOwn(t)!(f, w)
      BY <1>14 DEF RecvOwn
    <2>2. [txn |-> f.txn, wkc |-> w] \in Answer
      BY <2>1 DEF Answer, Frame
    <2> QED
      BY <2>1, <2>2 DEF Returned, PC, BufStat
  <1>15. ASSUME NEW t \in Threads, RecvOther(t) PROVE TypeOK'
    BY <1>15 DEF RecvOther, PC
  <1>16. ASSUME NEW t \in Threads, RecvStrange(t) PROVE TypeOK'
    BY <1>16 DEF RecvStrange, PC
  <1>17. ASSUME NEW t \in Threads, StoreOther(t) PROVE TypeOK'
    BY <1>17, <1>0 DEF StoreOther, PC, BufStat, Answer, Frame
  <1>18. ASSUME NEW t \in Threads, Srconfirm(t) PROVE TypeOK'
    BY <1>18 DEF Srconfirm, PollAgain, Retransmit, TimeOut, PC
  <1>19. ASSUME NEW t \in Threads, CopyAnswer(t) PROVE TypeOK'
    BY <1>19 DEF CopyAnswer, PC
  <1>20. ASSUME NEW t \in Threads, Release(t) PROVE TypeOK'
    BY <1>20, <1>0 DEF Release, PC, BufStat, NoTxn
  <1>21. CASE Lose
    BY <1>21 DEF Lose
  <1>22. CASE Rest \/ UNCHANGED vars
    BY <1>22 DEF Rest, vars
  <1> QED
    BY <1>1, <1>2, <1>3, <1>4, <1>5, <1>6, <1>7, <1>8, <1>9, <1>10, <1>11, <1>12, <1>13, <1>14,
       <1>15, <1>16, <1>17, <1>18, <1>19, <1>20, <1>21, <1>22
       DEF Next, Step, GetIndex, Outframe, Inframe


\* The two mutexes protect the search of an index and the receiving of a frame.
LEMMA MutexStep == TypeOK /\ MutexInv /\ [Next]_vars => MutexInv'
  <1> SUFFICES ASSUME TypeOK, MutexInv, [Next]_vars PROVE MutexInv'
    OBVIOUS
  <1> USE NicAssumption DEF TypeOK, MutexInv, Goto, SetStat, shared, local, history
  <1>1. ASSUME NEW t \in Threads, GetIndexLock(t) PROVE MutexInv'
    BY <1>1 DEF GetIndexLock
  <1>2. ASSUME NEW t \in Threads, GetIndexSearch(t) PROVE MutexInv'
    BY <1>2 DEF GetIndexSearch, SearchOn
  <1>3. ASSUME NEW t \in Threads, GetIndexFound(t) PROVE MutexInv'
    BY <1>3 DEF GetIndexFound
  <1>4. ASSUME NEW t \in Threads, GetIndexTake(t) PROVE MutexInv'
    BY <1>4 DEF GetIndexTake
  <1>5. ASSUME NEW t \in Threads, SetupDatagram(t) PROVE MutexInv'
    BY <1>5 DEF SetupDatagram
  <1>6. ASSUME NEW t \in Threads, OutframeMark(t) PROVE MutexInv'
    BY <1>6 DEF OutframeMark
  <1>7. ASSUME NEW t \in Threads, OutframeSend(t) PROVE MutexInv'
    BY <1>7 DEF OutframeSend
  <1>8. ASSUME NEW t \in Threads, OutframeSendFails(t) PROVE MutexInv'
    BY <1>8 DEF OutframeSendFails
  <1>9. ASSUME NEW t \in Threads, OutframeUnmark(t) PROVE MutexInv'
    BY <1>9 DEF OutframeUnmark
  <1>10. ASSUME NEW t \in Threads, InframeBuffered(t) PROVE MutexInv'
    BY <1>10 DEF InframeBuffered, Returned
  <1>11. ASSUME NEW t \in Threads, InframeNotBuffered(t) PROVE MutexInv'
    BY <1>11 DEF InframeNotBuffered
  <1>12. ASSUME NEW t \in Threads, InframeLock(t) PROVE MutexInv'
    BY <1>12 DEF InframeLock
  <1>13. ASSUME NEW t \in Threads, RecvNothing(t) PROVE MutexInv'
    BY <1>13 DEF RecvNothing
  <1>14. ASSUME NEW t \in Threads, RecvOwn(t) PROVE MutexInv'
    BY <1>14 DEF RecvOwn, Returned
  <1>15. ASSUME NEW t \in Threads, RecvOther(t) PROVE MutexInv'
    BY <1>15 DEF RecvOther
  <1>16. ASSUME NEW t \in Threads, RecvStrange(t) PROVE MutexInv'
    BY <1>16 DEF RecvStrange
  <1>17. ASSUME NEW t \in Threads, StoreOther(t) PROVE MutexInv'
    BY <1>17 DEF StoreOther
  <1>18. ASSUME NEW t \in Threads, Srconfirm(t) PROVE MutexInv'
    BY <1>18 DEF Srconfirm, PollAgain, Retransmit, TimeOut
  <1>19. ASSUME NEW t \in Threads, CopyAnswer(t) PROVE MutexInv'
    BY <1>19 DEF CopyAnswer
  <1>20. ASSUME NEW t \in Threads, Release(t) PROVE MutexInv'
    BY <1>20 DEF Release
  <1>21. CASE Lose
    BY <1>21 DEF Lose
  <1>22. CASE Rest \/ UNCHANGED vars
    BY <1>22 DEF Rest, vars
  <1> QED
    BY <1>1, <1>2, <1>3, <1>4, <1>5, <1>6, <1>7, <1>8, <1>9, <1>10, <1>11, <1>12, <1>13, <1>14, <1>15, <1>16, <1>17, <1>18, <1>19, <1>20, <1>21, <1>22
       DEF Next, Step, GetIndex, Outframe, Inframe

\* Between the test of a status word and the store it decided on, the word does not become
\* RCVD or COMPLETE.
LEMMA StoreStep == TypeOK /\ MutexInv /\ StoreInv /\ [Next]_vars => StoreInv'
  <1> SUFFICES ASSUME TypeOK, MutexInv, StoreInv, [Next]_vars PROVE StoreInv'
    OBVIOUS
  <1> USE NicAssumption DEF TypeOK, MutexInv, StoreInv, Goto, SetStat, shared, local, history
  <1>1. ASSUME NEW t \in Threads, GetIndexLock(t) PROVE StoreInv'
    BY <1>1 DEF GetIndexLock
  <1>2. ASSUME NEW t \in Threads, GetIndexSearch(t) PROVE StoreInv'
    BY <1>2 DEF GetIndexSearch, SearchOn
  <1>3. ASSUME NEW t \in Threads, GetIndexFound(t) PROVE StoreInv'
    BY <1>3 DEF GetIndexFound
  <1>4. ASSUME NEW t \in Threads, GetIndexTake(t) PROVE StoreInv'
    BY <1>4 DEF GetIndexTake
  <1>5. ASSUME NEW t \in Threads, SetupDatagram(t) PROVE StoreInv'
    BY <1>5 DEF SetupDatagram
  <1>6. ASSUME NEW t \in Threads, OutframeMark(t) PROVE StoreInv'
    BY <1>6 DEF OutframeMark
  <1>7. ASSUME NEW t \in Threads, OutframeSend(t) PROVE StoreInv'
    BY <1>7 DEF OutframeSend
  <1>8. ASSUME NEW t \in Threads, OutframeSendFails(t) PROVE StoreInv'
    BY <1>8 DEF OutframeSendFails
  <1>9. ASSUME NEW t \in Threads, OutframeUnmark(t) PROVE StoreInv'
    BY <1>9 DEF OutframeUnmark
  <1>10. ASSUME NEW t \in Threads, InframeBuffered(t) PROVE StoreInv'
    BY <1>10 DEF InframeBuffered, Returned
  <1>11. ASSUME NEW t \in Threads, InframeNotBuffered(t) PROVE StoreInv'
    BY <1>11 DEF InframeNotBuffered
  <1>12. ASSUME NEW t \in Threads, InframeLock(t) PROVE StoreInv'
    BY <1>12 DEF InframeLock
  <1>13. ASSUME NEW t \in Threads, RecvNothing(t) PROVE StoreInv'
    BY <1>13 DEF RecvNothing
  <1>14. ASSUME NEW t \in Threads, RecvOwn(t) PROVE StoreInv'
    BY <1>14 DEF RecvOwn, Returned
  <1>15. ASSUME NEW t \in Threads, RecvOther(t) PROVE StoreInv'
    BY <1>15 DEF RecvOther
  <1>16. ASSUME NEW t \in Threads, RecvStrange(t) PROVE StoreInv'
    BY <1>16 DEF RecvStrange
  <1>17. ASSUME NEW t \in Threads, StoreOther(t) PROVE StoreInv'
    BY <1>17 DEF StoreOther
  <1>18. ASSUME NEW t \in Threads, Srconfirm(t) PROVE StoreInv'
    BY <1>18 DEF Srconfirm, PollAgain, Retransmit, TimeOut
  <1>19. ASSUME NEW t \in Threads, CopyAnswer(t) PROVE StoreInv'
    BY <1>19 DEF CopyAnswer
  <1>20. ASSUME NEW t \in Threads, Release(t) PROVE StoreInv'
    BY <1>20 DEF Release
  <1>21. CASE Lose
    BY <1>21 DEF Lose
  <1>22. CASE Rest \/ UNCHANGED vars
    BY <1>22 DEF Rest, vars
  <1> QED
    BY <1>1, <1>2, <1>3, <1>4, <1>5, <1>6, <1>7, <1>8, <1>9, <1>10, <1>11, <1>12, <1>13, <1>14, <1>15, <1>16, <1>17, <1>18, <1>19, <1>20, <1>21, <1>22
       DEF Next, Step, GetIndex, Outframe, Inframe

\* Every step keeps the facts about single threads.
LEMMA LocalStep == TypeOK /\ AnswerInv /\ FailInv /\ [Next]_vars => (AnswerInv /\ FailInv)'
  <1> SUFFICES ASSUME TypeOK, AnswerInv, FailInv, [Next]_vars PROVE (AnswerInv /\ FailInv)'
    OBVIOUS
  <1> USE NicAssumption DEF TypeOK, AnswerInv, FailInv, Goto, SetStat, shared, local, history
  <1>1. ASSUME NEW t \in Threads, GetIndexLock(t) PROVE (AnswerInv /\ FailInv)'
    BY <1>1 DEF GetIndexLock
  <1>2. ASSUME NEW t \in Threads, GetIndexSearch(t) PROVE (AnswerInv /\ FailInv)'
    BY <1>2 DEF GetIndexSearch, SearchOn
  <1>3. ASSUME NEW t \in Threads, GetIndexFound(t) PROVE (AnswerInv /\ FailInv)'
    BY <1>3 DEF GetIndexFound
  <1>4. ASSUME NEW t \in Threads, GetIndexTake(t) PROVE (AnswerInv /\ FailInv)'
    BY <1>4 DEF GetIndexTake
  <1>5. ASSUME NEW t \in Threads, SetupDatagram(t) PROVE (AnswerInv /\ FailInv)'
    BY <1>5 DEF SetupDatagram
  <1>6. ASSUME NEW t \in Threads, OutframeMark(t) PROVE (AnswerInv /\ FailInv)'
    BY <1>6 DEF OutframeMark
  <1>7. ASSUME NEW t \in Threads, OutframeSend(t) PROVE (AnswerInv /\ FailInv)'
    BY <1>7 DEF OutframeSend
  <1>8. ASSUME NEW t \in Threads, OutframeSendFails(t) PROVE (AnswerInv /\ FailInv)'
    BY <1>8 DEF OutframeSendFails
  <1>9. ASSUME NEW t \in Threads, OutframeUnmark(t) PROVE (AnswerInv /\ FailInv)'
    BY <1>9 DEF OutframeUnmark
  <1>10. ASSUME NEW t \in Threads, InframeBuffered(t) PROVE (AnswerInv /\ FailInv)'
    BY <1>10 DEF InframeBuffered, Returned
  <1>11. ASSUME NEW t \in Threads, InframeNotBuffered(t) PROVE (AnswerInv /\ FailInv)'
    BY <1>11 DEF InframeNotBuffered
  <1>12. ASSUME NEW t \in Threads, InframeLock(t) PROVE (AnswerInv /\ FailInv)'
    BY <1>12 DEF InframeLock
  <1>13. ASSUME NEW t \in Threads, RecvNothing(t) PROVE (AnswerInv /\ FailInv)'
    BY <1>13 DEF RecvNothing
  <1>14. ASSUME NEW t \in Threads, RecvOwn(t) PROVE (AnswerInv /\ FailInv)'
    BY <1>14 DEF RecvOwn, Returned
  <1>15. ASSUME NEW t \in Threads, RecvOther(t) PROVE (AnswerInv /\ FailInv)'
    BY <1>15 DEF RecvOther
  <1>16. ASSUME NEW t \in Threads, RecvStrange(t) PROVE (AnswerInv /\ FailInv)'
    BY <1>16 DEF RecvStrange
  <1>17. ASSUME NEW t \in Threads, StoreOther(t) PROVE (AnswerInv /\ FailInv)'
    BY <1>17 DEF StoreOther
  <1>18. ASSUME NEW t \in Threads, Srconfirm(t) PROVE (AnswerInv /\ FailInv)'
    BY <1>18 DEF Srconfirm, PollAgain, Retransmit, TimeOut
  <1>19. ASSUME NEW t \in Threads, CopyAnswer(t) PROVE (AnswerInv /\ FailInv)'
    BY <1>19 DEF CopyAnswer
  <1>20. ASSUME NEW t \in Threads, Release(t) PROVE (AnswerInv /\ FailInv)'
    BY <1>20 DEF Release
  <1>21. CASE Lose
    BY <1>21 DEF Lose
  <1>22. CASE Rest \/ UNCHANGED vars
    BY <1>22 DEF Rest, vars
  <1> QED
    BY <1>1, <1>2, <1>3, <1>4, <1>5, <1>6, <1>7, <1>8, <1>9, <1>10, <1>11, <1>12, <1>13, <1>14, <1>15, <1>16, <1>17, <1>18, <1>19, <1>20, <1>21, <1>22
       DEF Next, Step, GetIndex, Outframe, Inframe

\* A release leaves the index free; only a late store marks a free index.
LEMMA FreeStep == TypeOK /\ MutexInv /\ StoreInv /\ FreeInv /\ [Next]_vars => FreeInv'
  <1> SUFFICES ASSUME TypeOK, MutexInv, StoreInv, FreeInv, [Next]_vars PROVE FreeInv'
    OBVIOUS
  <1> USE NicAssumption DEF TypeOK, FreeInv, Owns, Goto, SetStat, shared, local, history
  <1>1. ASSUME NEW t \in Threads, GetIndexLock(t) PROVE FreeInv'
    BY <1>1 DEF GetIndexLock
  <1>2. ASSUME NEW t \in Threads, GetIndexSearch(t) PROVE FreeInv'
    BY <1>2 DEF GetIndexSearch, SearchOn
  <1>3. ASSUME NEW t \in Threads, GetIndexFound(t) PROVE FreeInv'
    BY <1>3 DEF GetIndexFound
  <1>4. ASSUME NEW t \in Threads, GetIndexTake(t) PROVE FreeInv'
    BY <1>4 DEF GetIndexTake
  <1>5. ASSUME NEW t \in Threads, SetupDatagram(t) PROVE FreeInv'
    BY <1>5 DEF SetupDatagram
  <1>6. ASSUME NEW t \in Threads, OutframeMark(t) PROVE FreeInv'
    BY <1>6 DEF OutframeMark
  <1>7. ASSUME NEW t \in Threads, OutframeSend(t) PROVE FreeInv'
    BY <1>7 DEF OutframeSend
  <1>8. ASSUME NEW t \in Threads, OutframeSendFails(t) PROVE FreeInv'
    BY <1>8 DEF OutframeSendFails
  <1>9. ASSUME NEW t \in Threads, OutframeUnmark(t) PROVE FreeInv'
    BY <1>9 DEF OutframeUnmark
  <1>10. ASSUME NEW t \in Threads, InframeBuffered(t) PROVE FreeInv'
    BY <1>10 DEF InframeBuffered, Returned
  <1>11. ASSUME NEW t \in Threads, InframeNotBuffered(t) PROVE FreeInv'
    BY <1>11 DEF InframeNotBuffered
  <1>12. ASSUME NEW t \in Threads, InframeLock(t) PROVE FreeInv'
    BY <1>12 DEF InframeLock
  <1>13. ASSUME NEW t \in Threads, RecvNothing(t) PROVE FreeInv'
    BY <1>13 DEF RecvNothing
  <1>14. ASSUME NEW t \in Threads, RecvOwn(t) PROVE FreeInv'
    BY <1>14 DEF RecvOwn, Returned
  <1>15. ASSUME NEW t \in Threads, RecvOther(t) PROVE FreeInv'
    BY <1>15 DEF RecvOther
  <1>16. ASSUME NEW t \in Threads, RecvStrange(t) PROVE FreeInv'
    BY <1>16 DEF RecvStrange
  <1>17. ASSUME NEW t \in Threads, StoreOther(t) PROVE FreeInv'
    BY <1>17 DEF StoreOther
  <1>18. ASSUME NEW t \in Threads, Srconfirm(t) PROVE FreeInv'
    BY <1>18 DEF Srconfirm, PollAgain, Retransmit, TimeOut
  <1>19. ASSUME NEW t \in Threads, CopyAnswer(t) PROVE FreeInv'
    BY <1>19 DEF CopyAnswer
  <1>20. ASSUME NEW t \in Threads, Release(t) PROVE FreeInv'
    BY <1>20 DEF Release
  <1>21. CASE Lose
    BY <1>21 DEF Lose
  <1>22. CASE Rest \/ UNCHANGED vars
    BY <1>22 DEF Rest, vars
  <1> QED
    BY <1>1, <1>2, <1>3, <1>4, <1>5, <1>6, <1>7, <1>8, <1>9, <1>10, <1>11, <1>12, <1>13, <1>14, <1>15, <1>16, <1>17, <1>18, <1>19, <1>20, <1>21, <1>22
       DEF Next, Step, GetIndex, Outframe, Inframe


\* The two histories only grow: what is undisturbed after a step was so before it.
LEMMA QuietBefore == [Next]_vars /\ Undisturbed' => Undisturbed
  <1> SUFFICES ASSUME [Next]_vars, Undisturbed' PROVE Undisturbed
    OBVIOUS
  <1> DEFINE HistoryGrows == (exhausted => exhausted') /\ (sendFailed => sendFailed')
  <1>1. HistoryGrows
    <2>1. ASSUME NEW t \in Threads, GetIndexLock(t) PROVE HistoryGrows
      BY <2>1 DEF GetIndexLock, history
    <2>2. ASSUME NEW t \in Threads, GetIndexSearch(t) PROVE HistoryGrows
      BY <2>2 DEF GetIndexSearch, SearchOn, history
    <2>3. ASSUME NEW t \in Threads, GetIndexFound(t) PROVE HistoryGrows
      BY <2>3 DEF GetIndexFound, history
    <2>4. ASSUME NEW t \in Threads, GetIndexTake(t) PROVE HistoryGrows
      BY <2>4 DEF GetIndexTake, history
    <2>5. ASSUME NEW t \in Threads, SetupDatagram(t) PROVE HistoryGrows
      BY <2>5 DEF SetupDatagram, history
    <2>6. ASSUME NEW t \in Threads, OutframeMark(t) PROVE HistoryGrows
      BY <2>6 DEF OutframeMark, history
    <2>7. ASSUME NEW t \in Threads, OutframeSend(t) PROVE HistoryGrows
      BY <2>7 DEF OutframeSend, history
    <2>8. ASSUME NEW t \in Threads, OutframeSendFails(t) PROVE HistoryGrows
      BY <2>8 DEF OutframeSendFails, history
    <2>9. ASSUME NEW t \in Threads, OutframeUnmark(t) PROVE HistoryGrows
      BY <2>9 DEF OutframeUnmark, history
    <2>10. ASSUME NEW t \in Threads, InframeBuffered(t) PROVE HistoryGrows
      BY <2>10 DEF InframeBuffered, Returned, history
    <2>11. ASSUME NEW t \in Threads, InframeNotBuffered(t) PROVE HistoryGrows
      BY <2>11 DEF InframeNotBuffered, history
    <2>12. ASSUME NEW t \in Threads, InframeLock(t) PROVE HistoryGrows
      BY <2>12 DEF InframeLock, history
    <2>13. ASSUME NEW t \in Threads, RecvNothing(t) PROVE HistoryGrows
      BY <2>13 DEF RecvNothing, history
    <2>14. ASSUME NEW t \in Threads, RecvOwn(t) PROVE HistoryGrows
      BY <2>14 DEF RecvOwn, Returned, history
    <2>15. ASSUME NEW t \in Threads, RecvOther(t) PROVE HistoryGrows
      BY <2>15 DEF RecvOther, history
    <2>16. ASSUME NEW t \in Threads, RecvStrange(t) PROVE HistoryGrows
      BY <2>16 DEF RecvStrange, history
    <2>17. ASSUME NEW t \in Threads, StoreOther(t) PROVE HistoryGrows
      BY <2>17 DEF StoreOther, history
    <2>18. ASSUME NEW t \in Threads, Srconfirm(t) PROVE HistoryGrows
      BY <2>18 DEF Srconfirm, PollAgain, Retransmit, TimeOut, history
    <2>19. ASSUME NEW t \in Threads, CopyAnswer(t) PROVE HistoryGrows
      BY <2>19 DEF CopyAnswer, history
    <2>20. ASSUME NEW t \in Threads, Release(t) PROVE HistoryGrows
      BY <2>20 DEF Release, history
    <2>21. CASE Lose \/ Rest \/ UNCHANGED vars
      BY <2>21 DEF Lose, Rest, vars, history
    <2> QED
      BY <2>1, <2>2, <2>3, <2>4, <2>5, <2>6, <2>7, <2>8, <2>9, <2>10, <2>11, <2>12, <2>13, <2>14, <2>15, <2>16, <2>17, <2>18, <2>19, <2>20, <2>21
         DEF Next, Step, GetIndex, Outframe, Inframe
  <1> QED
    BY <1>1 DEF Undisturbed

\* While undisturbed, an index in use stays marked and has one user.
LEMMA OwnStep ==
    BaseInv /\ OwnInv /\ [Next]_vars /\ Undisturbed' => OwnInv'
  <1> SUFFICES ASSUME BaseInv, OwnInv, [Next]_vars, Undisturbed' PROVE OwnInv'
    OBVIOUS
  <1> USE NicAssumption DEF BaseInv, TypeOK, MutexInv, StoreInv, FailInv, OwnInv, Undisturbed, Owns, Goto, SetStat, shared, local, history
  <1>1. ASSUME NEW t \in Threads, GetIndexLock(t) PROVE OwnInv'
    BY <1>1 DEF GetIndexLock
  <1>2. ASSUME NEW t \in Threads, GetIndexSearch(t) PROVE OwnInv'
    BY <1>2 DEF GetIndexSearch, SearchOn
  <1>3. ASSUME NEW t \in Threads, GetIndexFound(t) PROVE OwnInv'
    <2>1. rxbufstat[idx[t]] = "EMPTY"
      BY <1>3, Zenon DEF GetIndexFound, Undisturbed
    <2>2. \A u \in Threads : Owns(u) => idx[u] # idx[t]
      BY <2>1
    <2>3. ASSUME NEW u \in Threads, u # t PROVE pc[u] # "take"
      BY <1>3, <2>3 DEF GetIndexFound
    <2> QED
      BY <1>3, <2>2, <2>3 DEF GetIndexFound
  <1>4. ASSUME NEW t \in Threads, GetIndexTake(t) PROVE OwnInv'
    BY <1>4 DEF GetIndexTake
  <1>5. ASSUME NEW t \in Threads, SetupDatagram(t) PROVE OwnInv'
    BY <1>5 DEF SetupDatagram
  <1>6. ASSUME NEW t \in Threads, OutframeMark(t) PROVE OwnInv'
    BY <1>6 DEF OutframeMark
  <1>7. ASSUME NEW t \in Threads, OutframeSend(t) PROVE OwnInv'
    BY <1>7 DEF OutframeSend
  <1>8. ASSUME NEW t \in Threads, OutframeSendFails(t) PROVE OwnInv'
    BY <1>8 DEF OutframeSendFails
  <1>9. ASSUME NEW t \in Threads, OutframeUnmark(t) PROVE OwnInv'
    BY <1>9 DEF OutframeUnmark
  <1>10. ASSUME NEW t \in Threads, InframeBuffered(t) PROVE OwnInv'
    BY <1>10 DEF InframeBuffered, Returned
  <1>11. ASSUME NEW t \in Threads, InframeNotBuffered(t) PROVE OwnInv'
    BY <1>11 DEF InframeNotBuffered
  <1>12. ASSUME NEW t \in Threads, InframeLock(t) PROVE OwnInv'
    BY <1>12 DEF InframeLock
  <1>13. ASSUME NEW t \in Threads, RecvNothing(t) PROVE OwnInv'
    BY <1>13 DEF RecvNothing
  <1>14. ASSUME NEW t \in Threads, RecvOwn(t) PROVE OwnInv'
    BY <1>14 DEF RecvOwn, Returned
  <1>15. ASSUME NEW t \in Threads, RecvOther(t) PROVE OwnInv'
    BY <1>15 DEF RecvOther
  <1>16. ASSUME NEW t \in Threads, RecvStrange(t) PROVE OwnInv'
    BY <1>16 DEF RecvStrange
  <1>17. ASSUME NEW t \in Threads, StoreOther(t) PROVE OwnInv'
    BY <1>17 DEF StoreOther
  <1>18. ASSUME NEW t \in Threads, Srconfirm(t) PROVE OwnInv'
    BY <1>18 DEF Srconfirm, PollAgain, Retransmit, TimeOut
  <1>19. ASSUME NEW t \in Threads, CopyAnswer(t) PROVE OwnInv'
    BY <1>19 DEF CopyAnswer
  <1>20. ASSUME NEW t \in Threads, Release(t) PROVE OwnInv'
    BY <1>20 DEF Release
  <1>21. CASE Lose
    BY <1>21 DEF Lose
  <1>22. CASE Rest \/ UNCHANGED vars
    BY <1>22 DEF Rest, vars
  <1> QED
    BY <1>1, <1>2, <1>3, <1>4, <1>5, <1>6, <1>7, <1>8, <1>9, <1>10, <1>11, <1>12, <1>13, <1>14, <1>15, <1>16, <1>17, <1>18, <1>19, <1>20, <1>21, <1>22
       DEF Next, Step, GetIndex, Outframe, Inframe

\* While undisturbed, every frame is accounted for by a user of its index or as late.
LEMMA FlowStep ==
    BaseInv /\ OwnInv /\ FlowInv /\ [Next]_vars /\ Undisturbed' => FlowInv'
  <1> SUFFICES ASSUME BaseInv, OwnInv, FlowInv, [Next]_vars, Undisturbed' PROVE FlowInv'
    OBVIOUS
  <1> USE NicAssumption DEF BaseInv, TypeOK, MutexInv, StoreInv, OwnInv, FlowInv, Accounted, Owns, Goto, SetStat, shared, local, history
  <1>1. ASSUME NEW t \in Threads, GetIndexLock(t) PROVE FlowInv'
    BY <1>1 DEF GetIndexLock
  <1>2. ASSUME NEW t \in Threads, GetIndexSearch(t) PROVE FlowInv'
    BY <1>2 DEF GetIndexSearch, SearchOn
  <1>3. ASSUME NEW t \in Threads, GetIndexFound(t) PROVE FlowInv'
    BY <1>3 DEF GetIndexFound
  <1>4. ASSUME NEW t \in Threads, GetIndexTake(t) PROVE FlowInv'
    BY <1>4 DEF GetIndexTake
  <1>5. ASSUME NEW t \in Threads, SetupDatagram(t) PROVE FlowInv'
    BY <1>5 DEF SetupDatagram
  <1>6. ASSUME NEW t \in Threads, OutframeMark(t) PROVE FlowInv'
    BY <1>6 DEF OutframeMark
  <1>7. ASSUME NEW t \in Threads, OutframeSend(t) PROVE FlowInv'
    BY <1>7 DEF OutframeSend
  <1>8. ASSUME NEW t \in Threads, OutframeSendFails(t) PROVE FlowInv'
    BY <1>8 DEF OutframeSendFails
  <1>9. ASSUME NEW t \in Threads, OutframeUnmark(t) PROVE FlowInv'
    BY <1>9 DEF OutframeUnmark
  <1>10. ASSUME NEW t \in Threads, InframeBuffered(t) PROVE FlowInv'
    BY <1>10 DEF InframeBuffered, Returned
  <1>11. ASSUME NEW t \in Threads, InframeNotBuffered(t) PROVE FlowInv'
    BY <1>11 DEF InframeNotBuffered
  <1>12. ASSUME NEW t \in Threads, InframeLock(t) PROVE FlowInv'
    BY <1>12 DEF InframeLock
  <1>13. ASSUME NEW t \in Threads, RecvNothing(t) PROVE FlowInv'
    BY <1>13 DEF RecvNothing
  <1>14. ASSUME NEW t \in Threads, RecvOwn(t) PROVE FlowInv'
    BY <1>14 DEF RecvOwn, Returned
  <1>15. ASSUME NEW t \in Threads, RecvOther(t) PROVE FlowInv'
    BY <1>15 DEF RecvOther
  <1>16. ASSUME NEW t \in Threads, RecvStrange(t) PROVE FlowInv'
    BY <1>16 DEF RecvStrange
  <1>17. ASSUME NEW t \in Threads, StoreOther(t) PROVE FlowInv'
    BY <1>17 DEF StoreOther
  <1>18. ASSUME NEW t \in Threads, Srconfirm(t) PROVE FlowInv'
    BY <1>18 DEF Srconfirm, PollAgain, Retransmit, TimeOut
  <1>19. ASSUME NEW t \in Threads, CopyAnswer(t) PROVE FlowInv'
    BY <1>19 DEF CopyAnswer
  <1>20. ASSUME NEW t \in Threads, Release(t) PROVE FlowInv'
    <2>1. ASSUME NEW x, NEW i, Accounted(x, i), UnderWay(x) \/ i # idx[t]
          PROVE Accounted(x, i)'
      <3>1. CASE x \in late
        BY <1>20, <3>1 DEF Release
      <3>2. ASSUME NEW u \in Threads, Owns(u), txn[u] = x, idx[u] = i, u # t
            PROVE Accounted(x, i)'
        BY <1>20, <3>2 DEF Release
      <3>3. CASE txn[t] = x /\ idx[t] = i
        BY <1>20, <2>1, <3>3 DEF Release
      <3> QED
        BY <2>1, <3>1, <3>2, <3>3
    <2>2. \A f \in wire : UnderWay(f.txn)
      BY DEF UnderWay
    <2>3. UnderWay(tempbuf.txn)
      BY DEF UnderWay
    <2>4. \A f \in wire' : Accounted(f.txn, f.idx)'
      BY <1>20, <2>1, <2>2 DEF Release
    <2>5. \A u \in Threads : pc'[u] = "store" => Accounted(tempbuf.txn, tempbuf.idx)'
      BY <1>20, <2>1, <2>3 DEF Release
    <2>6. ASSUME NEW i \in Idx, rxbufstat'[i] = "RCVD" PROVE Accounted(rxbuf[i].txn, i)'
      BY <1>20, <2>1, <2>6 DEF Release
    <2> QED
      BY <1>20, <2>4, <2>5, <2>6 DEF Release
  <1>21. CASE Lose
    BY <1>21 DEF Lose
  <1>22. CASE Rest \/ UNCHANGED vars
    BY <1>22 DEF Rest, vars
  <1> QED
    BY <1>1, <1>2, <1>3, <1>4, <1>5, <1>6, <1>7, <1>8, <1>9, <1>10, <1>11, <1>12, <1>13, <1>14, <1>15, <1>16, <1>17, <1>18, <1>19, <1>20, <1>21, <1>22
       DEF Next, Step, GetIndex, Outframe, Inframe

\* While undisturbed, a completed buffer belongs to its reader until the index is released.
LEMMA ReadStep ==
    BaseInv /\ OwnInv /\ FlowInv /\ ReadInv /\ [Next]_vars /\ Undisturbed' => ReadInv'
  <1> SUFFICES ASSUME BaseInv, OwnInv, FlowInv, ReadInv, [Next]_vars, Undisturbed' PROVE ReadInv'
    OBVIOUS
  <1> USE NicAssumption DEF BaseInv, TypeOK, MutexInv, StoreInv, AnswerInv, OwnInv, FlowInv, ReadInv, Accounted, Owns, Goto, SetStat, shared, local, history
  <1>1. ASSUME NEW t \in Threads, GetIndexLock(t) PROVE ReadInv'
    BY <1>1 DEF GetIndexLock
  <1>2. ASSUME NEW t \in Threads, GetIndexSearch(t) PROVE ReadInv'
    BY <1>2 DEF GetIndexSearch, SearchOn
  <1>3. ASSUME NEW t \in Threads, GetIndexFound(t) PROVE ReadInv'
    BY <1>3 DEF GetIndexFound
  <1>4. ASSUME NEW t \in Threads, GetIndexTake(t) PROVE ReadInv'
    BY <1>4 DEF GetIndexTake
  <1>5. ASSUME NEW t \in Threads, SetupDatagram(t) PROVE ReadInv'
    BY <1>5 DEF SetupDatagram
  <1>6. ASSUME NEW t \in Threads, OutframeMark(t) PROVE ReadInv'
    BY <1>6 DEF OutframeMark
  <1>7. ASSUME NEW t \in Threads, OutframeSend(t) PROVE ReadInv'
    BY <1>7 DEF OutframeSend
  <1>8. ASSUME NEW t \in Threads, OutframeSendFails(t) PROVE ReadInv'
    BY <1>8 DEF OutframeSendFails
  <1>9. ASSUME NEW t \in Threads, OutframeUnmark(t) PROVE ReadInv'
    BY <1>9 DEF OutframeUnmark
  <1>10. ASSUME NEW t \in Threads, InframeBuffered(t) PROVE ReadInv'
    BY <1>10 DEF InframeBuffered, Returned
  <1>11. ASSUME NEW t \in Threads, InframeNotBuffered(t) PROVE ReadInv'
    BY <1>11 DEF InframeNotBuffered
  <1>12. ASSUME NEW t \in Threads, InframeLock(t) PROVE ReadInv'
    BY <1>12 DEF InframeLock
  <1>13. ASSUME NEW t \in Threads, RecvNothing(t) PROVE ReadInv'
    BY <1>13 DEF RecvNothing
  <1>14. ASSUME NEW t \in Threads, RecvOwn(t) PROVE ReadInv'
    BY <1>14 DEF RecvOwn, Returned
  <1>15. ASSUME NEW t \in Threads, RecvOther(t) PROVE ReadInv'
    BY <1>15 DEF RecvOther
  <1>16. ASSUME NEW t \in Threads, RecvStrange(t) PROVE ReadInv'
    BY <1>16 DEF RecvStrange
  <1>17. ASSUME NEW t \in Threads, StoreOther(t) PROVE ReadInv'
    BY <1>17 DEF StoreOther
  <1>18. ASSUME NEW t \in Threads, Srconfirm(t) PROVE ReadInv'
    BY <1>18 DEF Srconfirm, PollAgain, Retransmit, TimeOut
  <1>19. ASSUME NEW t \in Threads, CopyAnswer(t) PROVE ReadInv'
    BY <1>19 DEF CopyAnswer
  <1>20. ASSUME NEW t \in Threads, Release(t) PROVE ReadInv'
    BY <1>20 DEF Release
  <1>21. CASE Lose
    BY <1>21 DEF Lose
  <1>22. CASE Rest \/ UNCHANGED vars
    BY <1>22 DEF Rest, vars
  <1> QED
    BY <1>1, <1>2, <1>3, <1>4, <1>5, <1>6, <1>7, <1>8, <1>9, <1>10, <1>11, <1>12, <1>13, <1>14, <1>15, <1>16, <1>17, <1>18, <1>19, <1>20, <1>21, <1>22
       DEF Next, Step, GetIndex, Outframe, Inframe


-----------------------------------------------------------------------------

\* Every step keeps the inductive invariant.
LEMMA IndStep == IndInv /\ [Next]_vars => IndInv'
  <1> SUFFICES ASSUME IndInv, [Next]_vars PROVE IndInv'
    OBVIOUS
  <1>1. BaseInv'
    BY TypeStep, MutexStep, StoreStep, LocalStep, FreeStep DEF IndInv, BaseInv
  <1>2. ASSUME Undisturbed' PROVE QuietInv'
    <2>1. QuietInv
      BY <1>2, QuietBefore DEF IndInv
    <2> QED
      BY <1>2, <2>1, OwnStep, FlowStep, ReadStep DEF IndInv, QuietInv
  <1> QED
    BY <1>1, <1>2 DEF IndInv

\* The inductive invariant holds in every reachable state of the driver.
THEOREM Invariance == Spec => []IndInv
  BY InitInd, IndStep, PTL DEF Spec

\* Every variable of the driver keeps its type (nicdrv.c, all functions).
THEOREM TypeCorrect == Spec => []TypeOK
  <1>1. IndInv => TypeOK
    BY DEF IndInv, BaseInv
  <1> QED
    BY <1>1, Invariance, PTL

\* ecx_getindex never gives a frame index to two transactions, while its searches succeed and
\* no send() has failed.
THEOREM IndexesExclusive == Spec => []ExclusiveIndex
  <1>1. IndInv => ExclusiveIndex
    BY DEF IndInv, QuietInv, OwnInv, ExclusiveIndex
  <1> QED
    BY <1>1, Invariance, PTL

\* Under the same conditions a primitive copies the data of the frame whose counter it got:
\* ecx_inframe of another thread cannot overwrite the buffer in between.
THEOREM AnswersStable == Spec => []AnswerStable
  <1>1. IndInv => AnswerStable
    BY DEF IndInv, QuietInv, ReadInv, AnswerStable
  <1> QED
    BY <1>1, Invariance, PTL

\* Under the same conditions the answer a transaction accepts, which ecx_inframe tells by the
\* index only, is its own or that of a transaction that left a frame under way.
THEOREM ForeignAnswersAreLate == Spec => []ForeignOnlyIfLate
  <1>1. IndInv => ForeignOnlyIfLate
    BY DEF IndInv, QuietInv, ReadInv, ForeignOnlyIfLate
  <1> QED
    BY <1>1, Invariance, PTL

\* Under the same conditions an index is lost only to a frame that ecx_inframe stored, for a
\* transaction that left it under way, after the index was freed.
THEOREM IndexesLostOnlyToLateStores == Spec => []LostOnlyToLateStore
  <1>1. ASSUME IndInv PROVE LostOnlyToLateStore
    <2> SUFFICES ASSUME Undisturbed, NEW i \in Idx,
                        \A t \in Threads : Owns(t) => idx[t] # i, rxbufstat[i] # "EMPTY"
                 PROVE rxbufstat[i] = "RCVD" /\ rxbuf[i].txn \in late
      BY DEF LostOnlyToLateStore
    <2>1. rxbufstat[i] = "RCVD"
      BY <1>1 DEF IndInv, BaseInv, FreeInv
    <2>2. Accounted(rxbuf[i].txn, i)
      BY <1>1, <2>1 DEF IndInv, QuietInv, FlowInv
    <2> QED
      BY <2>1, <2>2 DEF Accounted
  <1> QED
    BY <1>1, Invariance, PTL

=============================================================================
