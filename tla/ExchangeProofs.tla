--------------------------- MODULE ExchangeProofs ---------------------------
(***************************************************************************)
(* Proofs about the exchange of data with the slaves: mailbox messages     *)
(* (module Mailbox), for any number of requests, of messages of the        *)
(* slave's own and of lost frames; and process data (module ProcessData),  *)
(* for any group whose segments cover its addresses, and any number of     *)
(* slaves, buffers, cycles and frames lost or late.                        *)
(*                                                                         *)
(* The invariant of the mailbox has four parts: which counters are in use  *)
(* (CounterInv); how far the repeat handshake has come (HandshakeInv);     *)
(* that the messages on the way to the master, the one read last and lost, *)
(* the one in the mailbox and those in the queue, follow each other        *)
(* without a gap (OrderInv); and that they hold one reply at most, that of *)
(* the request (FreshInv).                                                 *)
(*                                                                         *)
(* The invariant of the process data follows a cycle: where the send loop  *)
(* is (JobInv), where the datagrams' data go (PlaceInv, CountInv,          *)
(* CoverInv), which indexes they have (IndexInv) and what the frames under *)
(* way with these are (WireInv); and what the receive loop has counted and *)
(* copied so far (FirstInv, WkcInv, OutputsInv), in terms of the slaves    *)
(* that read and write in the datagrams pulled.                            *)
(***************************************************************************)
EXTENDS Mailbox, ProcessData, SequenceTheorems, FiniteSetTheorems, TLAPS

-----------------------------------------------------------------------------
(* The mailbox                                                             *)

\* The states of ecx_mbxreceive; whose message the master receives there.
Receiving == pc \in {"poll", "read", "repeat", "ack", "available"}
Draining == stage = "drain" /\ Receiving
Awaiting == stage = "reply" /\ pc # "idle"

\* The requests that have a counter.
Issued == IF Draining THEN request - 1 ELSE request

\* Counters c and d of requests that are n apart.
Apart(c, d, n) == \E k \in Int : d - c = n - 7 * k

StageInv ==
    /\ pc \in {"empty", "write"} => stage = "drain"
    /\ pc # "idle" => request >= 1

\* The counters in use: that of the last request, of the one in the mailbox, and of the one taken last.
CounterInv ==
    /\ \A k \in 1 .. Len(taken) : taken[k] <= Issued
    /\ \A j, k \in 1 .. Len(taken) : j < k => taken[j] < taken[k]
    /\ Apart(slavecnt, mbx_cnt, Issued - LastTaken)
    /\ Issued = LastTaken => mbx_cnt = slavecnt
    /\ Issued >= 1 => mbx_cnt >= 1
    /\ LastTaken >= 1 => slavecnt >= 1
    /\ in # EmptyIn =>
        /\ in.n >= 1 /\ in.cnt >= 1
        /\ LastTaken <= in.n /\ in.n <= Issued
        /\ Apart(in.cnt, mbx_cnt, Issued - in.n)
        /\ Issued = in.n => mbx_cnt = in.cnt
    /\ pc = "write" \/ Awaiting => in = EmptyIn \/ in.n = request
    /\ Awaiting => LastTaken = request \/ in.n = request \/ request - LastTaken >= 7

\* The call has run out of time, or will have when it looks at the timer.
Doomed == late \/ (pc = "available" /\ expired)

\* How far the repeat handshake is: when the slave has acknowledged, the message is in its mailbox.
Repeated == lastread = NoMsg \/ out = lastread
HandshakeInv ==
    /\ pc \notin {"ack", "available"} => repeat = ack
    /\ pc = "read" => SMstat.repeat = repeat
    /\ pc = "repeat" => SMstat.repeat # repeat
    /\ pc = "ack" /\ repeat # SMstat.repeat => repeat = ack
    /\ pc = "ack" /\ ack = SMstat.repeat => repeat = ack /\ Repeated
    /\ pc = "available" => repeat = ack /\ Repeated

IsAside(m) == m.kind = "aside"
IsReply(m) == m.kind = "reply"

\* The message read last was lost on its way to the master.
Missed == lastread = Aside(handled + 1)

\* Aside n need not be waited for by one that comes later.
Known(n) == n <= handled \/ lastread = Aside(n)

OrderInv ==
    /\ handled <= asides
    /\ IsAside(lastread) => lastread.n \in {handled, handled + 1} /\ lastread.n <= asides
    /\ Missed => pc \in {"repeat", "ack", "available"} \/ (pc = "read" /\ out = lastread)
    /\ IsAside(out) =>
        /\ handled <= out.n /\ out.n <= asides
        /\ IsAside(lastread) => lastread.n <= out.n
        /\ Known(out.n - 1)
    /\ \A k \in 1 .. Len(queue) : IsAside(queue[k]) =>
        /\ handled <= queue[k].n /\ queue[k].n <= asides
        /\ IsAside(lastread) => lastread.n <= queue[k].n
        /\ IsAside(out) => out.n <= queue[k].n
        /\ \A j \in 1 .. k : IsAside(queue[j]) => queue[j].n <= queue[k].n
        /\ \/ Known(queue[k].n - 1)
           \/ out = Aside(queue[k].n - 1)
           \/ \E j \in 1 .. k : queue[j] = Aside(queue[k].n - 1)
    /\ \/ Known(asides)
       \/ out = Aside(asides)
       \/ \E k \in 1 .. Len(queue) : queue[k] = Aside(asides)

\* No reply is in the mailbox or in the queue.
NoReplies == ~IsReply(out) /\ \A k \in 1 .. Len(queue) : ~IsReply(queue[k])

FreshInv ==
    /\ ~Awaiting /\ pc # "write" => NoReplies /\ (in = EmptyIn \/ in.cnt = slavecnt)
    /\ IsReply(out) => out.n = request /\ \A k \in 1 .. Len(queue) : ~IsReply(queue[k])
    /\ \A k \in 1 .. Len(queue) : IsReply(queue[k]) =>
        /\ queue[k].n = request
        /\ \A j \in 1 .. Len(queue) : IsReply(queue[j]) => j = k
    /\ ~NoReplies => LastTaken = request
    /\ IsReply(lastread) => lastread.n <= request
    /\ lastread = Reply(request) =>
        /\ LastTaken = request
        /\ \A k \in 1 .. Len(queue) : ~IsReply(queue[k])
        /\ stage = "reply"
        /\ pc \in {"repeat", "ack", "available", "idle"} \/ (pc = "read" /\ out = lastread)
        /\ IsReply(out) => pc \in {"available", "read"} \/ (pc = "ack" /\ ack = SMstat.repeat)
    /\ pc \in {"repeat", "ack", "available"} => IsAside(lastread) \/ lastread = Reply(request)
    /\ pc = "read" => out # NoMsg \/ IsAside(lastread)

MailboxInv ==
    /\ TypeOK /\ StageInv /\ CounterInv
    /\ ~Doomed => HandshakeInv /\ OrderInv
    /\ ~Doomed /\ ~lostread => FreshInv
    /\ ReplyFresh

-----------------------------------------------------------------------------
(* Messages, counters, steps                                               *)

\* What a message can be.
LEMMA MessageKinds ==
  ASSUME NEW m \in Messages
  PROVE  /\ \/ m = NoMsg /\ ~IsReply(m) /\ ~IsAside(m)
            \/ IsReply(m) /\ ~IsAside(m) /\ m.n \in 1 .. MaxRequests /\ m = Reply(m.n) /\ m # NoMsg
            \/ IsAside(m) /\ ~IsReply(m) /\ m.n \in 1 .. MaxAsides /\ m = Aside(m.n) /\ m # NoMsg
  BY DEF Messages, NoMsg, Reply, Aside, IsReply, IsAside

\* The fields of the two kinds of message.
LEMMA MessageFields ==
  ASSUME NEW n
  PROVE  /\ IsAside(Aside(n)) /\ ~IsReply(Aside(n)) /\ Aside(n).n = n /\ Aside(n) # NoMsg
         /\ IsReply(Reply(n)) /\ ~IsAside(Reply(n)) /\ Reply(n).n = n /\ Reply(n) # NoMsg
         /\ n \in 1 .. MaxRequests => Reply(n) \in Messages
         /\ n \in 1 .. MaxAsides => Aside(n) \in Messages
         /\ NoMsg \in Messages /\ ~IsAside(NoMsg) /\ ~IsReply(NoMsg)
  BY DEF Messages, NoMsg, Reply, Aside, IsReply, IsAside

\* The next counter is that of one request more (ec_nextmbxcnt).
LEMMA ApartNext ==
  ASSUME NEW c \in 0 .. 7, mbx_cnt \in 0 .. 7, NEW n \in Int, Apart(c, mbx_cnt, n)
  PROVE  Apart(c, NextMbxCnt, n + 1) /\ NextMbxCnt \in 1 .. 7
  <1>1. PICK k \in Int : mbx_cnt - c = n - 7 * k
    BY DEF Apart
  <1>4. NextMbxCnt \in 1 .. 7
    BY DEF NextMbxCnt
  <1>2. CASE mbx_cnt >= 7
    <2>1. NextMbxCnt - c = (n + 1) - 7 * (k + 1) /\ k + 1 \in Int
      BY <1>1, <1>2 DEF NextMbxCnt
    <2>2. \E j \in Int : NextMbxCnt - c = (n + 1) - 7 * j
      BY <2>1, Zenon
    <2> QED
      BY <1>4, <2>2 DEF Apart
  <1>3. CASE ~(mbx_cnt >= 7)
    <2>1. NextMbxCnt - c = (n + 1) - 7 * k
      BY <1>1, <1>3 DEF NextMbxCnt
    <2>2. \E j \in Int : NextMbxCnt - c = (n + 1) - 7 * j
      BY <2>1, Zenon
    <2> QED
      BY <1>4, <2>2 DEF Apart
  <1> QED
    BY <1>2, <1>3, <1>4

\* Distances add up.
LEMMA ApartBetween ==
  ASSUME NEW b \in 0 .. 7, NEW c \in 0 .. 7, NEW d \in 0 .. 7, NEW m \in Int, NEW n \in Int,
         Apart(b, d, n), Apart(c, d, m)
  PROVE  Apart(b, c, n - m)
  <1>1. PICK j \in Int : d - b = n - 7 * j
    BY DEF Apart
  <1>2. PICK k \in Int : d - c = m - 7 * k
    BY DEF Apart
  <1>3. c - b = (n - m) - 7 * (j - k) /\ j - k \in Int
    BY <1>1, <1>2
  <1> QED
    BY <1>3 DEF Apart

\* The same counter for the same request, and again only seven requests later.
LEMMA ApartSame ==
  ASSUME NEW c \in 1 .. 7, NEW d \in 1 .. 7
  PROVE  /\ Apart(c, d, 0) => c = d
         /\ \A n \in Nat : Apart(c, d, n) /\ c = d => n = 0 \/ n >= 7
  BY DEF Apart

\* An access that was answered has reached the slave.
LEMMA ExchangesSent ==
  ASSUME NEW x \in Exchanges, x.ok
  PROVE  x.sent
  <1>1. x = Answered \/ x = [sent |-> TRUE, ok |-> FALSE] \/ x = [sent |-> FALSE, ok |-> FALSE]
    BY DEF Exchanges
  <1>2. CASE x = Answered
    BY <1>2 DEF Answered
  <1>3. CASE x = [sent |-> TRUE, ok |-> FALSE]
    BY <1>3
  <1>4. CASE x = [sent |-> FALSE, ok |-> FALSE]
    BY <1>4
  <1> QED
    BY <1>1, <1>2, <1>3, <1>4

\* How a call of ecx_mbxreceive ends.
LEMMA ReceivedStep ==
  ASSUME TypeOK, NEW w \in {-1, 0, 1}, NEW m \in Messages, Received(w, m)
  PROVE  /\ \/ stage = "drain" /\ pc' = "empty" /\ mbx_cnt' = NextMbxCnt /\ reply' = reply
            \/ stage = "reply" /\ pc' = "idle" /\ mbx_cnt' = mbx_cnt /\ reply' = m
         /\ wkc' = w /\ mbx_cnt' \in 0 .. 7 /\ {expired', late'} \subseteq BOOLEAN
         /\ late' <=> (late \/ (w <= 0 /\ (stage = "reply" \/ pc # "poll")))
  <1>1. NextMbxCnt \in 0 .. 7
    BY DEF TypeOK, NextMbxCnt
  <1>2. late' <=> (late \/ (w <= 0 /\ (stage = "reply" \/ pc # "poll")))
    BY Zenon DEF Received
  <1>3. late' \in BOOLEAN
    BY Zenon DEF Received
  <1> QED
    BY <1>1, <1>2, <1>3 DEF Received, Send, TypeOK

\* The end of a loop of ecx_mbxreceive: once more, or the end of the call.
LEMMA AgainStep ==
  ASSUME TypeOK, NEW w \in {-1, 0}, AgainOr(w)
  PROVE  \/ expired /\ Received(w, NoMsg)
         \/ ~expired /\ pc' = "read" /\ UNCHANGED <<expired, mbx_cnt, wkc, reply, late>>
  BY DEF AgainOr

\* What the steps of ecx_mbxreceive leave alone, and where they lead.
LEMMA ReceiveSteps ==
  ASSUME TypeOK, PollFull \/ ReadMailbox \/ RequestRepeat \/ WaitAck \/ WaitAvailable
  PROVE  /\ Receiving
         /\ UNCHANGED <<stage, request, in, slavecnt, taken, queue, asides, ack>>
         /\ \/ Receiving' /\ UNCHANGED mbx_cnt
            \/ stage = "drain" /\ pc' = "empty" /\ mbx_cnt' = NextMbxCnt
            \/ stage = "reply" /\ pc' = "idle" /\ UNCHANGED mbx_cnt
         /\ mbx_cnt' \in 0 .. 7 /\ {expired', late'} \subseteq BOOLEAN
         /\ wkc' \in {-1, 0, 1} /\ reply' \in {reply, out, NoMsg}
  <1> USE DEF slave, Receiving
  <1>a. NoMsg \in Messages /\ out \in Messages /\ {expired, late} \subseteq BOOLEAN /\ mbx_cnt \in 0 .. 7
        /\ wkc \in {-1, 0, 1}
    BY MessageFields DEF TypeOK
  <1>1. CASE PollFull
    BY <1>1, <1>a, ReceivedStep DEF PollFull
  <1>2. CASE ReadMailbox
    <2>1. PICK x \in Exchanges : ReadMailbox!2!(x)
      BY <1>2 DEF ReadMailbox
    <2> QED
      BY <1>2, <1>a, <2>1, ReceivedStep, AgainStep DEF ReadMailbox
  <1>3. CASE RequestRepeat
    BY <1>3, <1>a DEF RequestRepeat
  <1>4. CASE WaitAck
    BY <1>4, <1>a DEF WaitAck
  <1>5. CASE WaitAvailable
    BY <1>5, <1>a, ReceivedStep, AgainStep DEF WaitAvailable
  <1> QED
    BY <1>1, <1>2, <1>3, <1>4, <1>5

\* Likewise of ecx_mbxsend.
LEMMA SendSteps ==
  ASSUME TypeOK, PollEmpty \/ WriteMailbox
  PROVE  /\ UNCHANGED <<request, mbx_cnt, out, slave, lostread, SMstat, reply, handled>>
         /\ \/ pc' = "write" /\ pc \in {"empty", "write"} /\ UNCHANGED <<stage, expired, wkc, late>>
               /\ (pc = "empty" => in.n = 0)
            \/ pc' = "empty" /\ pc = "empty" /\ UNCHANGED <<stage, expired, wkc, late>>
            \/ pc' = "poll" /\ pc = "write" /\ in.n = 0 /\ stage' = "reply" /\ wkc' = 1 /\ ~expired'
               /\ late' = late /\ in' = [cnt |-> mbx_cnt, n |-> request]
            \/ pc' = "idle" /\ wkc' \in {-1, 0} /\ late' /\ UNCHANGED <<stage, expired>>
         /\ \/ UNCHANGED in
            \/ pc = "write" /\ in.n = 0 /\ in' = [cnt |-> mbx_cnt, n |-> request]
         /\ {expired', late'} \subseteq BOOLEAN
  <1>1. ASSUME NEW w \in {-1, 0, 1}, Sent(w)
        PROVE  /\ wkc' = w
               /\ \/ w = 1 /\ pc' = "poll" /\ stage' = "reply" /\ expired' = FALSE /\ late' = late
                  \/ w < 1 /\ pc' = "idle" /\ UNCHANGED <<stage, expired>> /\ late' = TRUE
    <2>1. w = 1 => late' = (late \/ FALSE)
      BY <1>1, 1 > 0, ~(1 <= 0) DEF Sent
    <2>2. w = 1 => late' = late
      BY <2>1 DEF TypeOK
    <2>3. ASSUME w < 1 PROVE late' = TRUE
      <3>1. w <= 0 /\ late' = (late \/ w <= 0)
        BY <1>1, <2>3 DEF Sent
      <3> QED
        BY <3>1, Zenon
    <2>4. CASE w = 1
      <3>1. w > 0
        BY <2>4
      <3> QED
        BY <1>1, <2>2, <2>4, <3>1 DEF Sent
    <2>5. CASE w < 1
      <3>1. ~(w > 0)
        BY <2>5
      <3> QED
        BY <1>1, <2>3, <2>5, <3>1 DEF Sent
    <2>6. w = 1 \/ w < 1
      OBVIOUS
    <2> QED
      BY <2>4, <2>5, <2>6, Zenon
  <1>2. {expired, late} \subseteq BOOLEAN
    BY DEF TypeOK
  <1>3. CASE PollEmpty
    <2>1. PICK x \in Exchanges : PollEmpty!2!(x)
      BY <1>3 DEF PollEmpty
    <2>2. CASE x.ok /\ in.n = 0
      BY <1>2, <1>3, <2>1, <2>2 DEF PollEmpty, slave
    <2>3. CASE ~(x.ok /\ in.n = 0) /\ expired
      <3>1. Sent(0)
        BY <2>1, <2>3
      <3> QED
        BY <1>1, <1>2, <1>3, <3>1 DEF PollEmpty, slave
    <2>4. CASE ~(x.ok /\ in.n = 0) /\ ~expired
      BY <1>2, <1>3, <2>1, <2>4 DEF PollEmpty, slave
    <2> QED
      BY <2>2, <2>3, <2>4, Zenon
  <1>4. CASE WriteMailbox
    <2>1. PICK x \in Exchanges : WriteMailbox!2!(x)
      BY <1>4 DEF WriteMailbox
    <2>2. in' = in \/ (x.sent /\ in.n = 0 /\ in' = [cnt |-> mbx_cnt, n |-> request])
      BY <2>1
    <2>3. CASE x.ok /\ in.n = 0
      <3>1. Sent(1) /\ in' = [cnt |-> mbx_cnt, n |-> request]
        BY <2>1, <2>3, ExchangesSent
      <3> QED
        BY <1>1, <1>2, <1>4, <2>3, <3>1 DEF WriteMailbox, slave
    <2>4. CASE Sent(0) \/ Sent(-1)
      <3>1. PICK w \in {-1, 0} : Sent(w)
        BY <2>4
      <3>2. w \in {-1, 0, 1} /\ w # 1
        OBVIOUS
      <3> QED
        BY <1>1, <1>2, <1>4, <2>2, <3>1, <3>2 DEF WriteMailbox, slave
    <2>5. CASE UNCHANGED <<pc, stage, expired, wkc, late>>
      BY <1>2, <1>4, <2>2, <2>5 DEF WriteMailbox, slave
    <2> QED
      BY <2>1, <2>3, <2>4, <2>5
  <1> QED
    BY <1>3, <1>4

\* Every step keeps the types.
LEMMA TypeStep ==
  ASSUME TypeOK, StageInv, CounterInv, [Next]_vars
  PROVE  TypeOK'
  <1> USE MailboxAssumption, MessageFields DEF TypeOK
  <1>1. CASE Begin
    BY <1>1 DEF Begin, slave
  <1>2. CASE PollEmpty \/ WriteMailbox
    <2>1. UNCHANGED <<request, mbx_cnt, out, slave, lostread, SMstat, reply, handled>>
      BY <1>2, SendSteps
    <2>2. /\ pc' \in {"idle", "empty", "write", "poll"} /\ stage' \in {"drain", "reply"} /\ wkc' \in {-1, 0, 1}
          /\ {expired', late'} \subseteq BOOLEAN
      BY <1>2, SendSteps
    <2>3. in' \in [cnt : 0 .. 7, n : 0 .. MaxRequests]
      <3>1. in' = in \/ in' = [cnt |-> mbx_cnt, n |-> request]
        BY <1>2, SendSteps
      <3>2. in \in [cnt : 0 .. 7, n : 0 .. MaxRequests] /\ mbx_cnt \in 0 .. 7 /\ request \in 0 .. MaxRequests
        OBVIOUS
      <3> HIDE MailboxAssumption, MessageFields DEF TypeOK
      <3> QED
        BY <3>1, <3>2
    <2> QED
      BY <2>1, <2>2, <2>3 DEF slave
  <1>3. CASE PollFull \/ ReadMailbox \/ RequestRepeat \/ WaitAck \/ WaitAvailable
    <2>1. SMstat' \in [full : BOOLEAN, repeat : BOOLEAN] /\ repeat' \in BOOLEAN
      <3>1. /\ ReadStatus \in [full : BOOLEAN, repeat : BOOLEAN]
            /\ Cleared \in [full : BOOLEAN, repeat : BOOLEAN]
            /\ [SMstat EXCEPT !.repeat = ~@] \in [full : BOOLEAN, repeat : BOOLEAN]
        BY DEF ReadStatus, Cleared
      <3>2. SMstat' \in {SMstat, ReadStatus, Cleared, [SMstat EXCEPT !.repeat = ~@]}
        BY <1>3 DEF PollFull, ReadMailbox, RequestRepeat, WaitAck, WaitAvailable
      <3>3. repeat' \in {repeat, SMstat.repeat}
        BY <1>3 DEF PollFull, ReadMailbox, RequestRepeat, WaitAck, WaitAvailable, slave
      <3> QED
        BY <3>1, <3>2, <3>3
    <2>2. pc' \in {"idle", "empty", "write", "poll", "read", "repeat", "ack", "available"}
      BY <1>3, ReceiveSteps DEF Receiving
    <2>3. {out', lastread'} \subseteq Messages /\ handled' \in 0 .. MaxAsides /\ lostread' \in BOOLEAN
      <3>1. CASE ReadMailbox
        <4>1. PICK x \in Exchanges : ReadMailbox!2!(x)
          BY <3>1 DEF ReadMailbox
        <4>2. lostread' \in BOOLEAN
          BY <4>1, Zenon
        <4>3. {out', lastread'} \subseteq Messages
          BY <4>1
        <4>4. handled' \in 0 .. MaxAsides
          BY <4>1, MessageKinds DEF IsAside
        <4> QED
          BY <4>2, <4>3, <4>4
      <3>2. CASE ~ReadMailbox
        BY <1>3, <3>2 DEF PollFull, RequestRepeat, WaitAck, WaitAvailable, slave
      <3> QED
        BY <3>1, <3>2
    <2> QED
      BY <1>3, <2>1, <2>2, <2>3, ReceiveSteps
  <1>4. CASE Expire
    BY <1>4 DEF Expire, slave
  <1>5. CASE SlaveTake
    <2>1. in.n \in 1 .. MaxRequests
      BY <1>5 DEF SlaveTake, CounterInv
    <2>2. Append(taken, in.n) \in Seq(1 .. MaxRequests)
          /\ Append(queue, Reply(in.n)) \in Seq(Messages \ {NoMsg})
      BY <2>1
    <2>3. EmptyIn \in [cnt : 0 .. 7, n : 0 .. MaxRequests] /\ in.cnt \in 0 .. 7
      BY DEF EmptyIn
    <2> QED
      BY <1>5, <2>2, <2>3 DEF SlaveTake, master
  <1>6. CASE SlaveAside
    <2>1. asides' \in 1 .. MaxAsides
      BY <1>6 DEF SlaveAside
    <2> QED
      BY <1>6, <2>1 DEF SlaveAside, master
  <1>7. CASE SlavePost
    <2>1. Head(queue) \in Messages \ {NoMsg} /\ Tail(queue) \in Seq(Messages \ {NoMsg})
      BY <1>7, HeadTailProperties DEF SlavePost
    <2> QED
      BY <1>7, <2>1 DEF SlavePost, master
  <1>8. CASE SlaveRepeat
    <2>1. CASE out = NoMsg \/ lastread = NoMsg
      BY <1>8, <2>1 DEF SlaveRepeat, master
    <2>2. CASE out # NoMsg /\ lastread # NoMsg
      <3>1. <<out>> \in Seq(Messages \ {NoMsg})
        BY <2>2
      <3>2. <<out>> \o queue \in Seq(Messages \ {NoMsg})
        BY <3>1, ConcatProperties
      <3> QED
        BY <1>8, <2>2, <3>2 DEF SlaveRepeat, master
    <2> QED
      BY <2>1, <2>2
  <1>9. CASE UNCHANGED vars
    BY <1>9 DEF vars, slave
  <1> QED
    BY <1>1, <1>2, <1>3, <1>4, <1>5, <1>6, <1>7, <1>8, <1>9 DEF Next, Master

-----------------------------------------------------------------------------
(* Counters                                                                *)

\* A request is written in the first part of its transaction.
LEMMA StageStep ==
  ASSUME TypeOK, StageInv, [Next]_vars
  PROVE  StageInv'
  <1> USE DEF TypeOK, StageInv
  <1>1. CASE Begin
    BY <1>1 DEF Begin
  <1>2. CASE PollEmpty \/ WriteMailbox
    BY <1>2, SendSteps
  <1>3. CASE PollFull \/ ReadMailbox \/ RequestRepeat \/ WaitAck \/ WaitAvailable
    <2>1. request' = request
      BY <1>3 DEF PollFull, ReadMailbox, RequestRepeat, WaitAck, WaitAvailable
    <2> QED
      BY <1>3, <2>1, ReceiveSteps DEF Receiving
  <1>4. CASE Expire
    BY <1>4 DEF Expire
  <1>5. CASE SlaveTake \/ SlaveAside \/ SlavePost \/ SlaveRepeat
    BY <1>5 DEF SlaveTake, SlaveAside, SlavePost, SlaveRepeat, master
  <1>6. CASE UNCHANGED vars
    BY <1>6 DEF vars
  <1> QED
    BY <1>1, <1>2, <1>3, <1>4, <1>5, <1>6 DEF Next, Master

\* The request taken last is the highest.
LEMMA LastIsTaken ==
  ASSUME TypeOK, StageInv, CounterInv
  PROVE  /\ LastTaken \in Nat /\ LastTaken <= Issued /\ Issued \in Nat
         /\ Issued <= request /\ (~Draining => Issued = request)
         /\ \A k \in 1 .. Len(taken) : taken[k] <= LastTaken
  <1>1. Len(taken) \in Nat /\ \A k \in 1 .. Len(taken) : taken[k] \in 1 .. MaxRequests
    BY LenProperties, ElementOfSeq DEF TypeOK
  <1>2. Issued \in Nat /\ Issued <= request /\ (~Draining => Issued = request)
    BY DEF Issued, Draining, Receiving, TypeOK, StageInv
  <1>3. CASE taken = <<>>
    <2>1. LastTaken = 0 /\ Len(taken) = 0
      BY <1>3 DEF LastTaken
    <2> QED
      BY <1>2, <2>1
  <1>4. CASE taken # <<>>
    <2>1. LastTaken = taken[Len(taken)] /\ Len(taken) \in 1 .. Len(taken)
      BY <1>1, <1>4, EmptySeq DEF LastTaken, TypeOK
    <2>2. request \in Nat /\ \A k \in 1 .. Len(taken) : taken[k] \in Nat
      BY <1>1, MailboxAssumption DEF TypeOK
    <2>3. \A k \in 1 .. Len(taken) : taken[k] <= Issued
      BY DEF CounterInv
    <2>4. \A k \in 1 .. Len(taken) : taken[k] <= LastTaken
      <3> SUFFICES ASSUME NEW k \in 1 .. Len(taken), k < Len(taken) PROVE taken[k] <= LastTaken
        BY <1>1, <2>1, <2>2
      <3>1. taken[k] < taken[Len(taken)]
        BY <2>1 DEF CounterInv
      <3> QED
        BY <2>1, <2>2, <3>1
    <2> QED
      BY <1>2, <2>1, <2>2, <2>3, <2>4
  <1> QED
    BY <1>3, <1>4

\* The request in the mailbox has the counter of the one taken last only when it is that one, or when
\* the counters have come round.
LEMMA TakenCounter ==
  ASSUME TypeOK, StageInv, CounterInv, in # EmptyIn
  PROVE  /\ in.n = LastTaken => in.cnt = slavecnt
         /\ in.cnt = slavecnt => in.n = LastTaken \/ in.n - LastTaken >= 7
  <1>1. /\ LastTaken \in Nat /\ LastTaken <= in.n /\ Issued \in Nat /\ in.n \in Nat
        /\ mbx_cnt \in 0 .. 7 /\ slavecnt \in 0 .. 7 /\ in.cnt \in 1 .. 7
    BY LastIsTaken, MailboxAssumption DEF TypeOK, CounterInv
  <1>2. Apart(slavecnt, in.cnt, (Issued - LastTaken) - (Issued - in.n))
    <2>1. Issued - LastTaken \in Int /\ Issued - in.n \in Int /\ in.cnt \in 0 .. 7
      BY <1>1
    <2> QED
      BY <1>1, <2>1, ApartBetween DEF CounterInv
  <1>3. (Issued - LastTaken) - (Issued - in.n) = in.n - LastTaken /\ in.n - LastTaken \in Nat
    BY <1>1
  <1>4. Apart(slavecnt, in.cnt, in.n - LastTaken)
    BY <1>2, <1>3
  <1>5. ASSUME in.n = LastTaken PROVE in.cnt = slavecnt
    <2>1. in.n - LastTaken = 0 /\ slavecnt \in 1 .. 7
      BY <1>1, <1>5 DEF CounterInv
    <2>2. Apart(slavecnt, in.cnt, 0)
      BY <1>4, <2>1
    <2> QED
      BY <1>1, <2>1, <2>2, ApartSame
  <1>6. ASSUME in.cnt = slavecnt PROVE in.n = LastTaken \/ in.n - LastTaken >= 7
    <2>1. slavecnt \in 1 .. 7
      BY <1>1, <1>6
    <2>2. in.n - LastTaken = 0 \/ in.n - LastTaken >= 7
      BY <1>1, <1>3, <1>4, <1>6, <2>1, ApartSame
    <2> QED
      BY <1>1, <2>2
  <1> QED
    BY <1>5, <1>6

\* While nothing is issued, written or taken, the counters stay.
LEMMA CounterSame ==
  ASSUME CounterInv, UNCHANGED <<mbx_cnt, slavecnt, taken, in>>, Issued' = Issued,
         (pc = "write" \/ Awaiting)' => in = EmptyIn \/ in.n = request',
         Awaiting' => Awaiting /\ request' = request
  PROVE  CounterInv'
  BY DEF CounterInv, LastTaken, Apart

\* Every step keeps the counters of the requests in order.
LEMMA CounterStep ==
  ASSUME TypeOK, StageInv, CounterInv, [Next]_vars
  PROVE  CounterInv'
  <1> USE DEF Draining, Receiving, Awaiting
  <1>a. /\ LastTaken \in Nat /\ LastTaken <= Issued /\ Issued \in Nat
        /\ request \in Nat /\ mbx_cnt \in 0 .. 7 /\ slavecnt \in 0 .. 7
        /\ in \in [cnt : 0 .. 7, n : 0 .. MaxRequests] /\ in.n \in Nat /\ in.cnt \in 0 .. 7
    BY LastIsTaken, MailboxAssumption DEF TypeOK
  <1>d. Len(taken) \in Nat /\ \A k \in 1 .. Len(taken) : taken[k] \in Nat
    <2>1. Len(taken) \in Nat /\ \A k \in 1 .. Len(taken) : taken[k] \in 1 .. MaxRequests
      BY LenProperties, ElementOfSeq DEF TypeOK
    <2> QED
      BY <2>1, MailboxAssumption
  <1>1. CASE Begin
    <2>1. Issued' = Issued /\ pc' = "poll" /\ stage' = "drain"
      BY <1>1, <1>a DEF Begin, Issued
    <2> QED
      BY <1>1, <2>1, CounterSame DEF Begin, slave
  <1>2. CASE PollEmpty \/ WriteMailbox
    <2>1. UNCHANGED <<request, mbx_cnt, slavecnt, taken>> /\ pc \in {"empty", "write"}
      BY <1>2, SendSteps DEF PollEmpty, WriteMailbox, slave
    <2>2. Issued' = Issued /\ Issued = request /\ stage = "drain"
      BY <1>2, <2>1, SendSteps DEF Issued, StageInv
    <2>3. CASE in' = in /\ pc' # "poll"
      <3>1. pc' = "write" => pc = "write" \/ in.n = 0
        BY <1>2, SendSteps
      <3>2. in.n = 0 => in = EmptyIn
        BY <1>a DEF CounterInv
      <3>3. pc' \in {"write", "empty", "idle"}
        BY <1>2, <2>3, SendSteps
      <3>4. pc' = "write" => in = EmptyIn \/ in.n = request'
        BY <2>1, <3>1, <3>2 DEF CounterInv
      <3> QED
        BY <2>1, <2>2, <2>3, <3>3, <3>4, CounterSame, SendSteps, <1>2
    <2>4. CASE pc = "write" /\ in.n = 0 /\ in' = [cnt |-> mbx_cnt, n |-> request]
      <3>1. in'.n = request /\ in'.cnt = mbx_cnt /\ request >= 1
        BY <2>1, <2>4 DEF StageInv
      <3>2. Apart(mbx_cnt, mbx_cnt, 0)
        <4>1. mbx_cnt - mbx_cnt = 0 - 7 * 0
          BY <1>a
        <4> QED
          BY <4>1 DEF Apart
      <3>3. Issued - in'.n = 0 /\ LastTaken' = LastTaken
        BY <1>a, <2>1, <2>2, <3>1 DEF LastTaken
      <3>4. Apart(slavecnt, mbx_cnt, Issued - LastTaken)' /\ Apart(in.cnt, mbx_cnt, Issued - in.n)'
        BY <2>1, <2>2, <3>1, <3>2, <3>3 DEF CounterInv, Apart
      <3> QED
        BY <1>a, <2>1, <2>2, <3>1, <3>3, <3>4 DEF CounterInv
    <2> QED
      BY <1>2, <2>3, <2>4, SendSteps
  <1>3. CASE PollFull \/ ReadMailbox \/ RequestRepeat \/ WaitAck \/ WaitAvailable
    <2>1. UNCHANGED <<stage, request, in, slavecnt, taken>> /\ Receiving
      BY <1>3, ReceiveSteps DEF PollFull, ReadMailbox, RequestRepeat, WaitAck, WaitAvailable
    <2>2. CASE Receiving' /\ UNCHANGED mbx_cnt
      <3>1. Issued' = Issued
        BY <2>1, <2>2 DEF Issued
      <3> QED
        BY <2>1, <2>2, <3>1, CounterSame DEF CounterInv
    <2>3. CASE stage = "drain" /\ pc' = "empty" /\ mbx_cnt' = NextMbxCnt
      <3>1. Issued' = Issued + 1 /\ LastTaken' = LastTaken
        BY <1>a, <2>1, <2>3 DEF Issued, LastTaken
      <3>2. Apart(slavecnt, NextMbxCnt, (Issued - LastTaken) + 1) /\ NextMbxCnt \in 1 .. 7
        BY <1>a, ApartNext DEF CounterInv
      <3>3. in # EmptyIn => Apart(in.cnt, NextMbxCnt, (Issued - in.n) + 1)
        BY <1>a, ApartNext DEF CounterInv
      <3>4. (Issued - LastTaken) + 1 = Issued' - LastTaken' /\ (Issued - in.n) + 1 = Issued' - in.n
        BY <1>a, <3>1
      <3>5. Apart(slavecnt', mbx_cnt', Issued' - LastTaken')
        BY <2>1, <2>3, <3>2, <3>4
      <3>6. in # EmptyIn => Apart(in.cnt, mbx_cnt', Issued' - in.n)
        BY <2>3, <3>3, <3>4
      <3>7. /\ Apart(slavecnt, mbx_cnt, Issued - LastTaken)'
            /\ (in # EmptyIn => Apart(in.cnt, mbx_cnt, Issued - in.n))'
        BY <2>1, <3>5, <3>6 DEF Apart
      <3>8. ~(pc = "write" \/ Awaiting)' /\ ~Awaiting'
        BY <2>1, <2>3
      <3>9. \A k \in 1 .. Len(taken) : taken[k] <= Issued'
        BY <1>a, <1>d, <3>1, LastIsTaken
      <3> QED
        BY <1>a, <2>1, <2>3, <3>1, <3>2, <3>7, <3>8, <3>9 DEF CounterInv
    <2>4. CASE stage = "reply" /\ pc' = "idle" /\ UNCHANGED mbx_cnt
      <3>1. Issued' = Issued
        BY <2>1, <2>4 DEF Issued
      <3> QED
        BY <2>1, <2>4, <3>1, CounterSame
    <2> QED
      BY <1>3, <2>2, <2>3, <2>4, ReceiveSteps
  <1>4. CASE Expire
    BY <1>4, CounterSame DEF Expire, Issued, slave, CounterInv
  <1>5. CASE SlaveTake
    <2>1. UNCHANGED <<pc, stage, request, mbx_cnt>> /\ in # EmptyIn /\ in' = EmptyIn
      BY <1>5 DEF SlaveTake, master
    <2>2. Issued' = Issued
      BY <2>1 DEF Issued
    <2>3. CASE in.cnt = slavecnt
      <3>1. UNCHANGED <<slavecnt, taken>> /\ LastTaken' = LastTaken
        BY <1>5, <2>3 DEF SlaveTake, LastTaken
      <3>3. in.n = LastTaken \/ in.n - LastTaken >= 7
        BY <2>1, <2>3, TakenCounter
      <3>4. Awaiting => LastTaken = request \/ request - LastTaken >= 7
        BY <1>a, <3>3 DEF CounterInv
      <3>5. Apart(slavecnt, mbx_cnt, Issued - LastTaken)'
        BY <2>1, <2>2, <3>1 DEF CounterInv, Apart
      <3> QED
        BY <2>1, <2>2, <3>1, <3>4, <3>5 DEF CounterInv
    <2>4. CASE in.cnt # slavecnt
      <3>1. taken' = Append(taken, in.n) /\ slavecnt' = in.cnt /\ in.n > LastTaken
        BY <1>5, <1>a, <2>1, <2>4, TakenCounter DEF SlaveTake, CounterInv
      <3>2. /\ in.n \in 1 .. MaxRequests /\ Len(taken) \in Nat
            /\ \A k \in 1 .. Len(taken) : taken[k] \in Nat
        BY <1>a, <1>d, <2>1, MailboxAssumption DEF CounterInv
      <3>3. /\ Len(taken') = Len(taken) + 1 /\ taken' # <<>> /\ taken'[Len(taken) + 1] = in.n
            /\ \A k \in 1 .. Len(taken) : taken'[k] = taken[k]
        BY <3>1, <3>2, AppendProperties DEF TypeOK
      <3>4. LastTaken' = in.n
        BY <3>3 DEF LastTaken
      <3>5. \A k \in 1 .. Len(taken') : taken'[k] <= Issued
        BY <1>a, <2>1, <3>1, <3>2, <3>3 DEF CounterInv
      <3>6. \A j, k \in 1 .. Len(taken') : j < k => taken'[j] < taken'[k]
        <4>1. ASSUME NEW j \in 1 .. Len(taken'), NEW k \in 1 .. Len(taken'), j < k
              PROVE  taken'[j] < taken'[k]
          <5>1. j \in 1 .. Len(taken) /\ taken'[j] = taken[j] /\ taken[j] <= LastTaken
            BY <3>2, <3>3, <4>1, LastIsTaken
          <5>2. CASE k = Len(taken) + 1
            BY <1>a, <3>1, <3>2, <3>3, <5>1, <5>2
          <5>3. CASE k # Len(taken) + 1
            BY <3>2, <3>3, <4>1, <5>1, <5>3 DEF CounterInv
          <5> QED
            BY <5>2, <5>3
        <4> QED
          BY <4>1
      <3>7. Apart(in.cnt, mbx_cnt, Issued - in.n) /\ (Issued = in.n => mbx_cnt = in.cnt) /\ in.cnt >= 1
        BY <2>1 DEF CounterInv
      <3>8. Apart(slavecnt, mbx_cnt, Issued - LastTaken)'
        BY <2>1, <2>2, <3>1, <3>4, <3>7 DEF Apart
      <3>9. Awaiting => in.n = request
        BY <2>1 DEF CounterInv
      <3> QED
        BY <1>a, <2>1, <2>2, <3>1, <3>3, <3>4, <3>5, <3>6, <3>7, <3>8, <3>9 DEF CounterInv
    <2> QED
      BY <2>3, <2>4
  <1>6. CASE SlaveAside \/ SlavePost \/ SlaveRepeat
    BY <1>6, CounterSame DEF SlaveAside, SlavePost, SlaveRepeat, master, Issued, CounterInv
  <1>7. CASE UNCHANGED vars
    BY <1>7, CounterSame DEF vars, slave, Issued, CounterInv
  <1> QED
    BY <1>1, <1>2, <1>3, <1>4, <1>5, <1>6, <1>7 DEF Next, Master

-----------------------------------------------------------------------------
(* The repeat handshake                                                    *)

\* The receive steps while the call has time, and what they read.
LEMMA ReadCases ==
  ASSUME TypeOK, ReadMailbox
  PROVE  /\ pc = "read" /\ UNCHANGED <<repeat, ack, queue, asides>>
         /\ \/ /\ out # NoMsg /\ out' = NoMsg /\ lastread' = out /\ (lostread => lostread')
               /\ \/ IsReply(out) /\ Received(1, out) /\ UNCHANGED <<handled, SMstat>>
                  \/ IsAside(out) /\ AgainOr(0) /\ handled' = out.n /\ UNCHANGED SMstat
                  \/ pc' = "repeat" /\ SMstat'.repeat # SMstat.repeat
                     /\ UNCHANGED <<expired, mbx_cnt, wkc, reply, handled, late>>
            \/ /\ UNCHANGED <<out, lastread>> /\ (out = NoMsg \/ lostread') /\ (lostread => lostread')
               /\ pc' = "repeat" /\ SMstat'.repeat # SMstat.repeat
               /\ UNCHANGED <<expired, mbx_cnt, wkc, reply, handled, late>>
  <1>1. PICK x \in Exchanges : ReadMailbox!2!(x)
    BY DEF ReadMailbox
  <1>2. pc = "read" /\ UNCHANGED <<repeat, ack, queue, asides>>
    BY DEF ReadMailbox
  <1>3. [SMstat EXCEPT !.repeat = ~@].repeat # SMstat.repeat
    BY DEF TypeOK
  <1>4. /\ lostread => lostread'
        /\ ~x.sent => lostread'
    BY <1>1, Zenon
  <1>5. CASE x.sent /\ out # NoMsg
    <2>1. out' = NoMsg /\ lastread' = out
      BY <1>1, <1>5
    <2>2. CASE x.ok /\ out.kind = "reply"
      BY <1>1, <1>2, <1>4, <1>5, <2>1, <2>2 DEF IsReply
    <2>3. CASE x.ok /\ out.kind = "aside"
      BY <1>1, <1>2, <1>4, <1>5, <2>1, <2>3 DEF IsAside
    <2>4. CASE ~(x.ok /\ out.kind = "reply") /\ ~(x.ok /\ out.kind = "aside")
      BY <1>1, <1>2, <1>3, <1>4, <1>5, <2>1, <2>4
    <2> QED
      BY <2>2, <2>3, <2>4
  <1>6. CASE ~(x.sent /\ out # NoMsg)
    <2>1. ~(x.ok /\ out.kind = "reply") /\ ~(x.ok /\ out.kind = "aside")
      BY <1>6, ExchangesSent, MessageFields DEF IsReply, IsAside
    <2>2. UNCHANGED <<out, lastread>> /\ (out = NoMsg \/ lostread')
      BY <1>1, <1>4, <1>6
    <2> QED
      BY <1>1, <1>2, <1>3, <1>4, <2>1, <2>2
  <1> QED
    BY <1>5, <1>6

\* The wait for the repeated message, while the call has time.
LEMMA AvailableCases ==
  ASSUME TypeOK, WaitAvailable, ~Doomed
  PROVE  /\ pc = "available"
         /\ UNCHANGED <<repeat, ack, queue, asides, out, lastread, handled, lostread>>
         /\ UNCHANGED <<expired, mbx_cnt, wkc, reply, late>>
         /\ \/ pc' = "read" /\ out # NoMsg /\ SMstat' = ReadStatus
            \/ pc' = "available"
  <1>1. PICK x \in Exchanges : WaitAvailable!2!(x)
    BY DEF WaitAvailable
  <1>2. ~expired /\ pc = "available"
    BY DEF Doomed, WaitAvailable
  <1>3. CASE x.ok /\ out # NoMsg
    BY <1>1, <1>2, <1>3 DEF WaitAvailable, AgainOr, slave
  <1>4. CASE ~(x.ok /\ out # NoMsg)
    BY <1>1, <1>2, <1>4 DEF WaitAvailable, slave
  <1> QED
    BY <1>3, <1>4

\* The wait for the acknowledge.
LEMMA AckCases ==
  ASSUME TypeOK, WaitAck
  PROVE  /\ pc = "ack"
         /\ UNCHANGED <<repeat, ack, queue, asides, out, lastread, handled, lostread, SMstat>>
         /\ UNCHANGED <<expired, mbx_cnt, wkc, reply, late>>
         /\ \/ pc' = "ack"
            \/ pc' = "available" /\ (ack = SMstat.repeat \/ expired)
  BY DEF WaitAck, slave

\* The repeat request.
LEMMA RequestCases ==
  ASSUME TypeOK, RequestRepeat
  PROVE  /\ pc = "repeat" /\ UNCHANGED <<ack, queue, asides, out, lastread, handled, lostread, SMstat>>
         /\ UNCHANGED <<expired, mbx_cnt, wkc, reply, late>>
         /\ pc' = "ack" /\ repeat' \in {repeat, SMstat.repeat}
  BY DEF RequestRepeat, slave

\* The poll for a full mailbox.
LEMMA PollCases ==
  ASSUME TypeOK, PollFull
  PROVE  /\ pc = "poll" /\ UNCHANGED <<repeat, ack, queue, asides, out, lastread, handled, lostread>>
         /\ \/ pc' = "read" /\ out # NoMsg /\ SMstat' = ReadStatus
               /\ UNCHANGED <<expired, mbx_cnt, wkc, reply, late>>
            \/ Received(-1, NoMsg)
            \/ pc' = "poll" /\ UNCHANGED <<expired, mbx_cnt, wkc, reply, late>>
  <1>1. PICK x \in Exchanges : PollFull!2!(x)
    BY DEF PollFull
  <1>2. pc = "poll" /\ UNCHANGED <<repeat, ack, queue, asides, out, lastread, handled, lostread>>
    BY DEF PollFull, slave
  <1>3. CASE SMstat'.full
    <2>1. x.ok /\ SMstat' = ReadStatus /\ out # NoMsg
      BY <1>1, <1>3 DEF ReadStatus, Cleared
    <2> QED
      BY <1>1, <1>2, <1>3, <2>1
  <1>4. CASE ~SMstat'.full
    BY <1>1, <1>2, <1>4
  <1> QED
    BY <1>3, <1>4

\* A call that has no time left stays without.
LEMMA DoomedStays ==
  ASSUME TypeOK, Doomed, [Next]_vars
  PROVE  Doomed'
  <1> USE DEF Doomed
  <1>1. CASE Begin \/ Expire
    BY <1>1 DEF Begin, Expire
  <1>2. CASE PollEmpty \/ WriteMailbox
    BY <1>2, SendSteps
  <1>3. CASE PollFull
    BY <1>3, PollCases, ReceivedStep, MessageFields
  <1>4. CASE ReadMailbox
    BY <1>4, ReadCases, ReceivedStep, AgainStep, MessageFields DEF TypeOK
  <1>5. CASE RequestRepeat \/ WaitAck
    BY <1>5, RequestCases, AckCases
  <1>6. CASE WaitAvailable
    <2>1. PICK x \in Exchanges : WaitAvailable!2!(x)
      BY <1>6 DEF WaitAvailable
    <2>2. CASE expired
      <3>1. Received(-1, NoMsg) /\ pc = "available"
        BY <1>6, <2>1, <2>2, AgainStep DEF WaitAvailable
      <3> QED
        BY <3>1, ReceivedStep, MessageFields
    <2>3. CASE ~expired
      <3>1. UNCHANGED late
        BY <1>6, <2>1, <2>3 DEF WaitAvailable, AgainOr
      <3> QED
        BY <2>3, <3>1
    <2> QED
      BY <2>2, <2>3
  <1>7. CASE SlaveTake \/ SlaveAside \/ SlavePost \/ SlaveRepeat \/ UNCHANGED vars
    BY <1>7 DEF SlaveTake, SlaveAside, SlavePost, SlaveRepeat, master, vars
  <1> QED
    BY <1>1, <1>2, <1>3, <1>4, <1>5, <1>6, <1>7 DEF Next, Master

\* Every step keeps the handshake, while the call has time.
LEMMA HandshakeStep ==
  ASSUME TypeOK, ~Doomed, ~Doomed', HandshakeInv, [Next]_vars
  PROVE  HandshakeInv'
  <1> USE DEF HandshakeInv, Repeated
  <1>a. ~late /\ ~late' /\ (pc = "available" => ~expired) /\ (pc' = "available" => ~expired')
    BY DEF Doomed
  <1>b. {repeat, ack, SMstat.repeat} \subseteq BOOLEAN
    BY DEF TypeOK
  <1>1. CASE Begin
    BY <1>1 DEF Begin, slave
  <1>2. CASE PollEmpty \/ WriteMailbox
    <2>1. UNCHANGED <<repeat, ack>> /\ pc' \notin {"read", "repeat", "ack", "available"}
      BY <1>2, SendSteps DEF slave
    <2>2. pc \notin {"ack", "available"}
      BY <1>2 DEF PollEmpty, WriteMailbox
    <2> QED
      BY <2>1, <2>2
  <1>3. CASE PollFull
    BY <1>3, PollCases, ReceivedStep, MessageFields DEF ReadStatus
  <1>4. CASE ReadMailbox
    <2>1. SMstat'.repeat \in BOOLEAN
      BY <1>4, <1>b DEF ReadMailbox, TypeOK
    <2> QED
      BY <1>4, <1>b, <2>1, ReadCases, ReceivedStep, AgainStep, MessageFields DEF TypeOK
  <1>5. CASE RequestRepeat
    BY <1>5, <1>b, RequestCases
  <1>6. CASE WaitAck
    BY <1>6, <1>a, AckCases
  <1>7. CASE WaitAvailable
    BY <1>7, AvailableCases DEF ReadStatus
  <1>8. CASE Expire
    BY <1>8 DEF Expire, slave
  <1>9. CASE SlaveTake \/ SlaveAside \/ UNCHANGED vars
    BY <1>9 DEF SlaveTake, SlaveAside, master, vars, slave
  <1>10. CASE SlavePost
    BY <1>10, <1>a DEF SlavePost, master
  <1>11. CASE SlaveRepeat
    BY <1>11, <1>a, <1>b DEF SlaveRepeat, master
  <1> QED
    BY <1>1, <1>2, <1>3, <1>4, <1>5, <1>6, <1>7, <1>8, <1>9, <1>10, <1>11 DEF Next, Master

-----------------------------------------------------------------------------
(* Messages in order                                                       *)

\* The elements of the queue are messages.
LEMMA QueueElements ==
  ASSUME TypeOK
  PROVE  /\ Len(queue) \in Nat
         /\ \A k \in 1 .. Len(queue) : queue[k] \in Messages /\ queue[k] # NoMsg
  <1>1. \A k \in 1 .. Len(queue) : queue[k] \in Messages \ {NoMsg}
    BY ElementOfSeq DEF TypeOK
  <1> QED
    BY <1>1, LenProperties DEF TypeOK

\* An aside is the one of its number.
LEMMA AsideIs ==
  ASSUME NEW m \in Messages, NEW n, (IsAside(m) /\ m.n = n) \/ m = Aside(n)
  PROVE  IsAside(m) /\ m.n = n /\ m = Aside(n) /\ m # NoMsg /\ ~IsReply(m)
  BY MessageKinds, MessageFields

\* What the master has at hand of the messages on the way, for their order.
LEMMA OrderTypes ==
  ASSUME TypeOK
  PROVE  /\ handled \in Nat /\ asides \in Nat
         /\ IsAside(out) => out.n \in Nat /\ out = Aside(out.n)
         /\ IsAside(lastread) => lastread.n \in Nat /\ lastread = Aside(lastread.n)
         /\ \A n : lastread = Aside(n) => IsAside(lastread) /\ lastread.n = n
         /\ \A n : out = Aside(n) => IsAside(out) /\ out.n = n
         /\ \A k \in 1 .. Len(queue) : IsAside(queue[k]) => queue[k].n \in Nat /\ queue[k] = Aside(queue[k].n)
         /\ \A k \in 1 .. Len(queue) : \A n : queue[k] = Aside(n) => IsAside(queue[k]) /\ queue[k].n = n
  BY QueueElements, MessageKinds, MessageFields, MailboxAssumption DEF TypeOK

\* The order does not depend on where the call is, as long as no message was lost.
LEMMA OrderSame ==
  ASSUME OrderInv, UNCHANGED <<lastread, out, queue, handled, asides>>,
         Missed => pc' \in {"repeat", "ack", "available"} \/ (pc' = "read" /\ out = lastread)
  PROVE  OrderInv'
  BY DEF OrderInv, Known, Missed

\* Every step keeps the order of the messages, while the call has time.
LEMMA OrderStep ==
  ASSUME TypeOK, StageInv, CounterInv, ~Doomed, ~Doomed', HandshakeInv, OrderInv, [Next]_vars
  PROVE  OrderInv' /\ handled' <= handled + 1
  <1>a. /\ handled \in Nat /\ asides \in Nat /\ handled <= asides
        /\ ~late /\ ~late' /\ (pc = "available" => ~expired) /\ (pc' = "available" => ~expired')
    BY OrderTypes DEF Doomed, OrderInv
  <1>b. ASSUME UNCHANGED <<handled, asides>>, OrderInv' PROVE OrderInv' /\ handled' <= handled + 1
    BY <1>a, <1>b
  <1>c. Missed => lastread # NoMsg
    BY MessageFields DEF Missed
  <1>1. CASE Begin \/ Expire
    BY <1>1, <1>b, OrderSame DEF Begin, Expire, slave, OrderInv
  <1>2. CASE PollEmpty \/ WriteMailbox
    <2>1. ~Missed
      BY <1>2 DEF PollEmpty, WriteMailbox, OrderInv
    <2> QED
      BY <1>2, <1>b, <2>1, SendSteps, OrderSame DEF slave
  <1>3. CASE PollFull
    <2>1. ~Missed
      BY <1>3 DEF PollFull, OrderInv
    <2> QED
      BY <1>3, <1>b, <2>1, PollCases, OrderSame
  <1>4. CASE ReadMailbox
    <2>1. pc = "read" /\ UNCHANGED <<queue, asides>>
      BY <1>4, ReadCases
    <2>2. CASE UNCHANGED <<out, lastread, handled>> /\ pc' = "repeat"
      BY <1>b, <2>1, <2>2, OrderSame
    <2>3. CASE out # NoMsg /\ out' = NoMsg /\ lastread' = out /\ IsReply(out) /\ UNCHANGED handled
      <3>1. ~IsAside(lastread') /\ ~Missed' /\ ~IsAside(out') /\ ~Missed
        BY <2>1, <2>3, MessageFields, MessageKinds DEF TypeOK, Missed, OrderInv
      <3>2. \A n \in Nat : lastread = Aside(n) => n <= handled
        BY <1>a, <3>1, OrderTypes DEF OrderInv, Missed
      <3> QED
        BY <1>a, <2>1, <2>3, <3>1, <3>2, OrderTypes DEF OrderInv, Known
    <2>4. CASE /\ out # NoMsg /\ out' = NoMsg /\ lastread' = out /\ IsAside(out)
               /\ handled' = out.n \/ (UNCHANGED handled /\ pc' = "repeat")
      <3>1. out.n \in {handled, handled + 1}
        BY <1>a, <2>1, <2>4, OrderTypes DEF OrderInv, Known, Missed
      <3>2. handled' \in Nat /\ handled <= handled' /\ handled' <= out.n /\ handled' <= handled + 1
            /\ out.n <= handled' + 1 /\ handled' <= asides
        BY <1>a, <2>4, <3>1, OrderTypes DEF OrderInv
      <3>3. Missed' => pc' = "repeat"
        BY <2>4, OrderTypes DEF Missed
      <3>4. \A n \in Int : Known(n) \/ out = Aside(n) => Known(n)'
        <4>1. ASSUME NEW n \in Int, lastread = Aside(n) PROVE Known(n)'
          BY <1>a, <2>1, <2>4, <3>2, <4>1, OrderTypes DEF OrderInv, Known, Missed
        <4> QED
          BY <1>a, <2>4, <3>2, <4>1 DEF Known
      <3>5. lastread'.n = out.n /\ IsAside(lastread') /\ ~IsAside(out') /\ out.n <= asides
        BY <2>4, MessageFields DEF IsAside, OrderInv
      <3>6. /\ IsAside(lastread') => lastread'.n \in {handled', handled' + 1} /\ lastread'.n <= asides'
            /\ Missed' => pc' \in {"repeat", "ack", "available"} \/ (pc' = "read" /\ out' = lastread')
            /\ ~IsAside(out')
        BY <1>a, <2>1, <3>1, <3>2, <3>3, <3>5, OrderTypes
      <3>7. ASSUME NEW k \in 1 .. Len(queue'), IsAside(queue'[k])
            PROVE  /\ handled' <= queue'[k].n /\ queue'[k].n <= asides' /\ lastread'.n <= queue'[k].n
                   /\ \A j \in 1 .. k : IsAside(queue'[j]) => queue'[j].n <= queue'[k].n
                   /\ \/ Known(queue[k].n - 1)'
                      \/ \E j \in 1 .. k : queue'[j] = Aside(queue'[k].n - 1)
        <4>1. queue' = queue /\ asides' = asides /\ queue[k].n - 1 \in Int /\ queue[k].n \in Nat
              /\ out.n <= queue[k].n
          BY <2>1, <2>4, <3>7, OrderTypes DEF OrderInv
        <4>2. handled' <= queue'[k].n /\ queue'[k].n <= asides' /\ lastread'.n <= queue'[k].n
          <5>1. out.n \in Nat
            BY <2>4, OrderTypes
          <5> QED
            BY <1>a, <3>2, <3>5, <3>7, <4>1, <5>1 DEF OrderInv
        <4>3. \A j \in 1 .. k : IsAside(queue'[j]) => queue'[j].n <= queue'[k].n
          BY <3>7, <4>1 DEF OrderInv
        <4>4. Known(queue[k].n - 1)' \/ \E j \in 1 .. k : queue[j] = Aside(queue[k].n - 1)
          <5>1. \/ Known(queue[k].n - 1) \/ out = Aside(queue[k].n - 1)
                \/ \E j \in 1 .. k : queue[j] = Aside(queue[k].n - 1)
            BY <3>7, <4>1 DEF OrderInv
          <5>2. ASSUME Known(queue[k].n - 1) \/ out = Aside(queue[k].n - 1)
                PROVE  queue[k].n - 1 <= handled' \/ lastread' = Aside(queue[k].n - 1)
            BY <3>4, <4>1, <5>2 DEF Known
          <5>3. (queue[k].n - 1 <= handled' \/ lastread' = Aside(queue[k].n - 1)) => Known(queue[k].n - 1)'
            BY <4>1 DEF Known
          <5> QED
            BY <5>1, <5>2, <5>3
        <4> QED
          BY <4>1, <4>2, <4>3, <4>4
      <3>8. Known(asides)' \/ \E k \in 1 .. Len(queue') : queue'[k] = Aside(asides')
        BY <1>a, <2>1, <3>4 DEF OrderInv, Known
      <3>9. OrderInv'
        BY <2>1, <3>2, <3>6, <3>7, <3>8 DEF OrderInv
      <3> QED
        BY <2>1, <3>2, <3>9
    <2> QED
      BY <1>4, <2>2, <2>3, <2>4, ReadCases, MessageKinds DEF TypeOK
  <1>5. CASE RequestRepeat
    BY <1>5, <1>b, RequestCases, OrderSame
  <1>6. CASE WaitAck
    BY <1>6, <1>b, AckCases, OrderSame
  <1>7. CASE WaitAvailable
    <2>1. Missed => out = lastread
      BY <1>7, <1>c DEF WaitAvailable, HandshakeInv, Repeated
    <2> QED
      BY <1>7, <1>b, <2>1, AvailableCases, OrderSame
  <1>8. CASE SlaveTake
    <2>1. UNCHANGED <<pc, out, lastread, handled, asides>>
      BY <1>8 DEF SlaveTake, master
    <2>2. CASE queue' = queue
      BY <1>b, <2>1, <2>2, OrderSame DEF OrderInv
    <2>3. CASE queue' = Append(queue, Reply(in.n)) /\ in.n \in 1 .. MaxRequests
      <3>1. /\ Len(queue') = Len(queue) + 1 /\ Len(queue) \in Nat
            /\ ~IsAside(queue'[Len(queue) + 1])
            /\ \A k \in 1 .. Len(queue) : queue'[k] = queue[k]
        BY <2>3, MessageFields, AppendProperties, QueueElements DEF TypeOK
      <3>2. OrderInv'
        <4>1. ASSUME NEW k \in 1 .. Len(queue'), IsAside(queue'[k])
              PROVE  k \in 1 .. Len(queue) /\ \A j \in 1 .. k : queue'[j] = queue[j]
          BY <3>1, <4>1
        <4> QED
          BY <2>1, <3>1, <4>1 DEF OrderInv, Known, Missed
      <3> QED
        BY <1>b, <2>1, <3>2
    <2>4. in.n \in 1 .. MaxRequests
      BY <1>8, MailboxAssumption DEF SlaveTake, CounterInv, TypeOK
    <2> QED
      BY <1>8, <2>2, <2>3, <2>4 DEF SlaveTake
  <1>9. CASE SlaveAside
    <2>1. UNCHANGED <<pc, out, lastread, handled>> /\ asides' = asides + 1 /\ asides' \in 1 .. MaxAsides
          /\ queue' = Append(queue, Aside(asides'))
      BY <1>9, <1>a, MailboxAssumption DEF SlaveAside, master
    <2>2. Aside(asides') \in Messages \ {NoMsg} /\ IsAside(Aside(asides')) /\ Aside(asides').n = asides'
      BY <2>1, MessageFields
    <2>3. /\ Len(queue') = Len(queue) + 1 /\ Len(queue) \in Nat
          /\ queue'[Len(queue) + 1] = Aside(asides')
          /\ \A k \in 1 .. Len(queue) : queue'[k] = queue[k]
      BY <2>1, <2>2, AppendProperties, QueueElements DEF TypeOK
    <2>4. /\ IsAside(lastread') => lastread'.n \in {handled', handled' + 1} /\ lastread'.n <= asides'
          /\ Missed' => pc' \in {"repeat", "ack", "available"} \/ (pc' = "read" /\ out' = lastread')
          /\ IsAside(out') =>
               /\ handled' <= out'.n /\ out'.n <= asides'
               /\ IsAside(lastread') => lastread'.n <= out'.n
               /\ Known(out.n - 1)'
      BY <1>a, <2>1, OrderTypes DEF OrderInv, Known, Missed
    <2>5. ASSUME NEW k \in 1 .. Len(queue'), IsAside(queue'[k])
          PROVE  /\ handled' <= queue'[k].n /\ queue'[k].n <= asides'
                 /\ IsAside(lastread') => lastread'.n <= queue'[k].n
                 /\ IsAside(out') => out'.n <= queue'[k].n
                 /\ \A j \in 1 .. k : IsAside(queue'[j]) => queue'[j].n <= queue'[k].n
                 /\ \/ Known(queue[k].n - 1)'
                    \/ out' = Aside(queue'[k].n - 1)
                    \/ \E j \in 1 .. k : queue'[j] = Aside(queue'[k].n - 1)
      <3>1. CASE k \in 1 .. Len(queue)
        <4>1. \A j \in 1 .. k : queue'[j] = queue[j]
          BY <2>3, <3>1
        <4>2. queue[k].n \in Nat /\ IsAside(queue[k]) /\ queue[k].n <= asides
          BY <2>5, <3>1, <4>1, OrderTypes DEF OrderInv
        <4> QED
          BY <1>a, <2>1, <3>1, <4>1, <4>2 DEF OrderInv, Known
      <3>2. CASE k = Len(queue) + 1
        <4>1. queue'[k] = Aside(asides + 1) /\ queue'[k].n = asides + 1 /\ queue'[k].n - 1 = asides
          BY <1>a, <2>1, <2>2, <2>3, <3>2
        <4>2. \A j \in 1 .. k : IsAside(queue'[j]) => queue'[j].n <= asides + 1
          <5>1. ASSUME NEW j \in 1 .. k, IsAside(queue'[j]), j # k PROVE queue'[j].n <= asides + 1
            <6>1. j \in 1 .. Len(queue) /\ queue'[j] = queue[j]
              BY <2>3, <3>2, <5>1
            <6>2. queue[j].n <= asides /\ queue[j].n \in Nat
              BY <5>1, <6>1, OrderTypes DEF OrderInv
            <6> QED
              BY <1>a, <6>1, <6>2
          <5> QED
            BY <1>a, <4>1, <5>1
        <4>3. \/ Known(asides)
              \/ out = Aside(asides)
              \/ \E j \in 1 .. k : queue'[j] = Aside(asides)
          BY <2>3, <3>2 DEF OrderInv
        <4>4. /\ IsAside(lastread) => lastread.n <= asides
              /\ IsAside(out) => out.n <= asides
          BY DEF OrderInv
        <4>5. /\ IsAside(lastread) => lastread.n <= asides + 1
              /\ IsAside(out) => out.n <= asides + 1
          BY <1>a, <4>4, OrderTypes
        <4>6. handled' <= queue'[k].n /\ queue'[k].n <= asides'
          BY <1>a, <2>1, <4>1
        <4>7. \/ Known(queue[k].n - 1)'
              \/ out' = Aside(queue'[k].n - 1)
              \/ \E j \in 1 .. k : queue'[j] = Aside(queue'[k].n - 1)
          BY <2>1, <4>1, <4>3 DEF Known
        <4> QED
          BY <2>1, <4>1, <4>2, <4>5, <4>6, <4>7
      <3> QED
        BY <2>3, <3>1, <3>2
    <2>6. \E k \in 1 .. Len(queue') : queue'[k] = Aside(asides')
      BY <2>3
    <2>7. OrderInv'
      <3>1. handled' <= asides'
        BY <1>a, <2>1, OrderTypes DEF OrderInv
      <3>2. \/ Known(asides)'
            \/ out' = Aside(asides')
            \/ \E k \in 1 .. Len(queue') : queue'[k] = Aside(asides')
        BY <2>6
      <3> QED
        BY <2>4, <2>5, <3>1, <3>2 DEF OrderInv
    <2> QED
      BY <1>a, <2>1, <2>7
  <1>10. CASE SlavePost
    <2>1. UNCHANGED <<pc, lastread, handled, asides>> /\ out = NoMsg /\ queue # <<>> /\ repeat = ack
          /\ out' = queue[1] /\ queue' = Tail(queue)
      BY <1>10 DEF SlavePost, master
    <2>2. /\ Len(queue') = Len(queue) - 1 /\ Len(queue) \in Nat /\ 1 \in 1 .. Len(queue)
          /\ \A k \in 1 .. Len(queue') : queue'[k] = queue[k + 1] /\ k + 1 \in 1 .. Len(queue)
      BY <2>1, HeadTailProperties, EmptySeq, QueueElements DEF TypeOK
    <2>3. \A n : Known(n)' <=> Known(n)
      BY <2>1 DEF Known
    <2>4. Missed' => pc' \in {"repeat", "ack", "available"} \/ (pc' = "read" /\ out' = lastread')
      BY <2>1, <1>c DEF Missed, OrderInv
    <2>5. ASSUME IsAside(out')
          PROVE  /\ handled' <= out'.n /\ out'.n <= asides'
                 /\ IsAside(lastread') => lastread'.n <= out'.n
                 /\ Known(out'.n - 1)
      <3>1. queue[1].n \in Nat /\ ~\E j \in 1 .. 1 : queue[j] = Aside(queue[1].n - 1)
        BY <2>1, <2>2, <2>5, OrderTypes
      <3>2. out # Aside(queue[1].n - 1)
        BY <2>1, MessageFields
      <3> QED
        BY <2>1, <2>2, <2>5, <3>1, <3>2 DEF OrderInv
    <2>6. ASSUME NEW k \in 1 .. Len(queue'), IsAside(queue'[k])
          PROVE  /\ handled' <= queue'[k].n /\ queue'[k].n <= asides'
                 /\ IsAside(lastread') => lastread'.n <= queue'[k].n
                 /\ IsAside(out') => out'.n <= queue'[k].n
                 /\ \A j \in 1 .. k : IsAside(queue'[j]) => queue'[j].n <= queue'[k].n
                 /\ \/ Known(queue'[k].n - 1)
                    \/ out' = Aside(queue'[k].n - 1)
                    \/ \E j \in 1 .. k : queue'[j] = Aside(queue'[k].n - 1)
      <3>1. queue'[k] = queue[k + 1] /\ k + 1 \in 1 .. Len(queue) /\ queue[k + 1].n \in Nat
        BY <2>2, <2>6, OrderTypes
      <3>2. 1 \in 1 .. (k + 1) /\ \A j \in 1 .. k : j + 1 \in 1 .. (k + 1) /\ queue'[j] = queue[j + 1]
        BY <2>2
      <3>3. ASSUME NEW j \in 1 .. (k + 1), queue[j] = Aside(queue[k + 1].n - 1)
            PROVE  out' = Aside(queue'[k].n - 1) \/ \E l \in 1 .. k : queue'[l] = Aside(queue'[k].n - 1)
        <4>1. j # k + 1
          BY <3>1, <3>3, OrderTypes
        <4>2. CASE j = 1
          BY <2>1, <3>1, <3>3, <4>2
        <4>3. CASE j # 1
          <5>1. j - 1 \in 1 .. k /\ queue'[j - 1] = queue[j]
            BY <2>2, <4>1, <4>3
          <5> QED
            BY <3>1, <3>3, <5>1
        <4> QED
          BY <4>2, <4>3
      <3>4. out # Aside(queue[k + 1].n - 1)
        BY <2>1, MessageFields
      <3> QED
        BY <2>1, <2>6, <3>1, <3>2, <3>3, <3>4 DEF OrderInv
    <2>7. Known(asides) \/ out' = Aside(asides) \/ \E k \in 1 .. Len(queue') : queue'[k] = Aside(asides)
      <3>1. ASSUME NEW k \in 1 .. Len(queue), queue[k] = Aside(asides), k # 1
            PROVE  \E l \in 1 .. Len(queue') : queue'[l] = Aside(asides)
        <4>1. k - 1 \in 1 .. Len(queue') /\ queue'[k - 1] = queue[k]
          BY <2>2, <3>1
        <4> QED
          BY <3>1, <4>1
      <3>2. out # Aside(asides)
        BY <2>1, MessageFields
      <3> QED
        BY <2>1, <3>1, <3>2 DEF OrderInv
    <2>8. OrderInv'
      BY <2>1, <2>3, <2>4, <2>5, <2>6, <2>7 DEF OrderInv
    <2> QED
      BY <1>b, <2>1, <2>8
  <1>11. CASE SlaveRepeat
    <2>1. UNCHANGED <<pc, lastread, handled, asides>> /\ repeat # ack
      BY <1>11 DEF SlaveRepeat, master
    <2>2. pc = "ack"
      BY <2>1 DEF HandshakeInv
    <2>3. CASE lastread = NoMsg
      <3>1. UNCHANGED <<out, queue>>
        BY <1>11, <2>3 DEF SlaveRepeat
      <3> QED
        BY <1>b, <2>1, <2>2, <3>1, OrderSame
    <2>4. CASE lastread # NoMsg
      <3>1. out' = lastread
        BY <1>11, <2>4 DEF SlaveRepeat
      <3>2. \A n : Known(n)' <=> Known(n)
        BY <2>1 DEF Known
      <3>3. CASE out = NoMsg
        <4>1. queue' = queue
          BY <1>11, <2>4, <3>3 DEF SlaveRepeat
        <4>2. \A n : out # Aside(n)
          BY <3>3, MessageFields
        <4>3. OrderInv'
          BY <1>a, <2>1, <2>2, <3>1, <3>2, <4>1, <4>2, OrderTypes DEF OrderInv, Known, Missed
        <4> QED
          BY <1>b, <2>1, <4>3
      <3>4. CASE out # NoMsg
        <4>1. queue' = <<out>> \o queue /\ <<out>> \in Seq(Messages \ {NoMsg})
          BY <1>11, <2>4, <3>4 DEF SlaveRepeat, TypeOK
        <4>2. /\ Len(queue') = Len(queue) + 1 /\ Len(queue) \in Nat /\ queue'[1] = out
              /\ \A k \in 1 .. Len(queue) : queue'[k + 1] = queue[k] /\ k + 1 \in 1 .. Len(queue')
          BY <4>1, ConcatProperties, QueueElements DEF TypeOK
        <4>3. IsAside(out') => /\ handled' <= out'.n /\ out'.n <= asides'
                               /\ lastread'.n <= out'.n /\ Known(out'.n - 1)
          BY <1>a, <2>1, <3>1, OrderTypes DEF OrderInv, Known
        <4>4. ASSUME NEW k \in 1 .. Len(queue'), IsAside(queue'[k])
              PROVE  /\ handled' <= queue'[k].n /\ queue'[k].n <= asides'
                     /\ IsAside(lastread') => lastread'.n <= queue'[k].n
                     /\ IsAside(out') => out'.n <= queue'[k].n
                     /\ \A j \in 1 .. k : IsAside(queue'[j]) => queue'[j].n <= queue'[k].n
                     /\ \/ Known(queue'[k].n - 1)
                        \/ \E j \in 1 .. k : queue'[j] = Aside(queue'[k].n - 1)
          <5>1. CASE k = 1
            BY <1>a, <2>1, <3>1, <4>2, <4>4, <5>1, OrderTypes DEF OrderInv
          <5>2. CASE k # 1
            <6>1. k - 1 \in 1 .. Len(queue) /\ queue'[k] = queue[k - 1] /\ queue[k - 1].n \in Nat
              BY <4>2, <4>4, <5>2, OrderTypes
            <6>2. \A j \in 1 .. k : IF j = 1 THEN queue'[j] = out
                                    ELSE j - 1 \in 1 .. (k - 1) /\ queue'[j] = queue[j - 1]
              <7>1. \A j \in 1 .. k : j \in 1 .. Len(queue') /\ (j = 1 \/ j - 1 \in 1 .. (k - 1))
                BY <4>2, <4>4, <6>1
              <7> QED
                BY <4>2, <7>1
            <6>3. \A j \in 1 .. (k - 1) : j + 1 \in 1 .. k /\ queue'[j + 1] = queue[j]
              BY <4>2, <6>1
            <6>4. 1 \in 1 .. k /\ queue'[1] = out
              BY <4>2
            <6>5. Known(queue'[k].n - 1) \/ \E j \in 1 .. k : queue'[j] = Aside(queue'[k].n - 1)
              BY <4>4, <6>1, <6>3, <6>4 DEF OrderInv
            <6>6. /\ handled' <= queue'[k].n /\ queue'[k].n <= asides'
                  /\ IsAside(lastread') => lastread'.n <= queue'[k].n
                  /\ IsAside(out') => out'.n <= queue'[k].n
              BY <2>1, <3>1, <4>4, <6>1 DEF OrderInv
            <6>7. ASSUME NEW j \in 1 .. k, IsAside(queue'[j]) PROVE queue'[j].n <= queue'[k].n
              <7>1. CASE j = 1
                BY <4>4, <6>1, <6>7, <6>4, <7>1 DEF OrderInv
              <7>2. CASE j # 1
                BY <4>4, <6>1, <6>2, <6>7, <7>2 DEF OrderInv
              <7> QED
                BY <7>1, <7>2
            <6> QED
              BY <6>5, <6>6, <6>7
          <5> QED
            BY <5>1, <5>2
        <4>5. Known(asides) \/ \E k \in 1 .. Len(queue') : queue'[k] = Aside(asides)
          <5>1. 1 \in 1 .. Len(queue')
            BY <4>2
          <5> QED
            BY <4>2, <5>1 DEF OrderInv
        <4>6. OrderInv'
          BY <2>1, <2>2, <3>1, <3>2, <4>3, <4>4, <4>5 DEF OrderInv, Missed
        <4> QED
          BY <1>b, <2>1, <4>6
      <3> QED
        BY <3>3, <3>4
    <2> QED
      BY <2>3, <2>4
  <1>12. CASE UNCHANGED vars
    BY <1>12, <1>b, OrderSame DEF vars, slave, OrderInv
  <1> QED
    BY <1>1, <1>2, <1>3, <1>4, <1>5, <1>6, <1>7, <1>8, <1>9, <1>10, <1>11, <1>12 DEF Next, Master

-----------------------------------------------------------------------------
(* The reply                                                               *)

\* A reply that was sent belongs to a request that was taken.
LEMMA ReplyIs ==
  ASSUME NEW m \in Messages, NEW n, m = Reply(n)
  PROVE  IsReply(m) /\ m.n = n /\ m # NoMsg /\ ~IsAside(m)
  BY MessageFields

\* The parts of the state the replies depend on.
LEMMA FreshSame ==
  ASSUME FreshInv, UNCHANGED <<request, stage, in, slavecnt, taken, out, queue, lastread>>,
         (~Awaiting /\ pc # "write")' =>
            (~Awaiting /\ pc # "write") \/ (NoReplies /\ (in = EmptyIn \/ in.cnt = slavecnt)),
         lastread = Reply(request) =>
            /\ pc' \in {"repeat", "ack", "available", "idle"} \/ (pc' = "read" /\ out = lastread)
            /\ IsReply(out) => pc' \in {"available", "read"} \/ (pc' = "ack" /\ ack' = SMstat'.repeat),
         pc' \in {"repeat", "ack", "available"} => IsAside(lastread) \/ lastread = Reply(request),
         pc' = "read" => out # NoMsg \/ IsAside(lastread)
  PROVE  FreshInv'
  BY DEF FreshInv, NoReplies, LastTaken

\* Every step keeps the replies on the way to those of the request, while the call has time and no
\* read was lost before it reached the slave.
LEMMA FreshStep ==
  ASSUME TypeOK, StageInv, CounterInv, ~Doomed, ~Doomed', ~lostread, ~lostread', HandshakeInv, FreshInv,
         [Next]_vars
  PROVE  FreshInv'
  <1> USE DEF Awaiting
  <1>a. ~late /\ ~late' /\ (pc = "available" => ~expired) /\ (pc' = "available" => ~expired')
    BY DEF Doomed
  <1>b. /\ request \in Nat /\ LastTaken \in Nat /\ in.n \in Nat /\ stage \in {"drain", "reply"}
        /\ out \in Messages /\ lastread \in Messages /\ (IsReply(lastread) => lastread.n \in Nat)
    BY LastIsTaken, MailboxAssumption, MessageKinds DEF TypeOK
  <1>1. CASE Begin
    <2>1. lastread # Reply(request + 1)
      BY <1>b, MessageFields DEF FreshInv
    <2>2. NoReplies /\ (in = EmptyIn \/ in.cnt = slavecnt)
      BY <1>1 DEF FreshInv, Begin
    <2> QED
      BY <1>1, <1>b, <2>1, <2>2 DEF Begin, FreshInv, NoReplies, slave
  <1>2. CASE PollEmpty \/ WriteMailbox
    <2>1. UNCHANGED <<request, slavecnt, taken, out, queue, lastread>>
      BY <1>2, SendSteps DEF slave
    <2>2. pc \in {"empty", "write"} /\ lastread # Reply(request) /\ stage = "drain"
      BY <1>2 DEF PollEmpty, WriteMailbox, FreshInv, StageInv
    <2>3. pc' \in {"write", "empty", "poll"}
      BY <1>2, <1>a, SendSteps
    <2>4. (~Awaiting /\ pc # "write")' => pc = "empty" /\ in' = in
      BY <1>2, <1>a, SendSteps
    <2>5. NoReplies' <=> NoReplies
      BY <2>1 DEF NoReplies
    <2>6. LastTaken' = LastTaken
      BY <2>1 DEF LastTaken
    <2> QED
      BY <2>1, <2>2, <2>3, <2>4, <2>5, <2>6 DEF FreshInv
  <1>3. CASE PollFull
    <2>1. UNCHANGED <<request, stage, in, slavecnt, taken, out, queue, lastread>> /\ pc = "poll"
      BY <1>3, ReceiveSteps DEF PollFull, slave
    <2>2. lastread # Reply(request)
      BY <2>1 DEF FreshInv
    <2>3. \/ pc' = "read" /\ out # NoMsg
          \/ pc' = "poll"
          \/ stage = "drain" /\ pc' = "empty"
      BY <1>3, <1>a, PollCases, ReceivedStep, MessageFields DEF TypeOK
    <2> QED
      BY <2>1, <2>2, <2>3, FreshSame
  <1>4. CASE ReadMailbox
    <2>1. UNCHANGED <<request, stage, in, slavecnt, taken, queue>> /\ pc = "read"
      BY <1>4, ReceiveSteps DEF ReadMailbox
    <2>2. CASE UNCHANGED <<out, lastread>> /\ out = NoMsg /\ pc' = "repeat"
      <3>1. IsAside(lastread) /\ lastread # Reply(request)
        BY <1>b, <2>1, <2>2, MessageFields DEF FreshInv
      <3> QED
        BY <2>1, <2>2, <3>1, FreshSame
    <2>3. CASE out # NoMsg /\ out' = NoMsg /\ lastread' = out /\ IsReply(out) /\ Received(1, out)
      <3>1. Awaiting /\ stage = "reply" /\ pc' = "idle"
        BY <1>b, <2>1, <2>3, ReceivedStep DEF FreshInv, NoReplies
      <3>2. out.n = request /\ NoReplies' /\ LastTaken = request /\ LastTaken' = LastTaken /\ ~IsReply(out')
        BY <2>1, <2>3, MessageFields DEF FreshInv, NoReplies, LastTaken
      <3>3. in = EmptyIn \/ in.cnt = slavecnt
        BY <3>1, <3>2, TakenCounter DEF CounterInv
      <3> QED
        BY <1>b, <2>1, <2>3, <3>1, <3>2, <3>3 DEF FreshInv, NoReplies
    <2>4. CASE /\ out # NoMsg /\ out' = NoMsg /\ lastread' = out
               /\ (IsAside(out) /\ pc' \in {"read", "empty"}) \/ pc' = "repeat"
      <3>1. CASE IsAside(out)
        <4>1. IsAside(lastread') /\ ~IsReply(lastread') /\ lastread' # Reply(request) /\ ~IsReply(out')
          BY <2>4, <3>1, MessageFields, MessageKinds, <1>b
        <4>2. NoReplies' <=> NoReplies
          BY <2>1, <2>4, <3>1, <4>1, MessageKinds, <1>b DEF NoReplies
        <4>3. LastTaken' = LastTaken
          BY <2>1 DEF LastTaken
        <4> QED
          BY <2>1, <2>4, <4>1, <4>2, <4>3 DEF FreshInv
      <3>2. CASE IsReply(out)
        <4>1. out = Reply(request) /\ Awaiting /\ LastTaken = request /\ pc' = "repeat"
              /\ \A k \in 1 .. Len(queue) : ~IsReply(queue[k])
          BY <1>b, <2>1, <2>4, <3>2, MessageKinds DEF FreshInv, NoReplies
        <4>2. NoReplies' /\ ~IsReply(out') /\ LastTaken' = LastTaken /\ lastread'.n = request
          BY <2>1, <2>4, <4>1, MessageFields DEF NoReplies, LastTaken
        <4> QED
          BY <1>b, <2>1, <2>4, <4>1, <4>2 DEF FreshInv, NoReplies
      <3> QED
        BY <1>b, <2>4, <3>1, <3>2, MessageKinds
    <2> QED
      BY <1>4, <1>a, <1>b, <2>1, <2>2, <2>3, <2>4, ReadCases, AgainStep, ReceivedStep,
         MessageFields DEF TypeOK
  <1>5. CASE RequestRepeat
    <2>1. /\ UNCHANGED <<request, stage, in, slavecnt, taken, out, queue, lastread>>
          /\ pc = "repeat" /\ pc' = "ack"
      BY <1>5 DEF RequestRepeat
    <2>2. lastread = Reply(request) => ~IsReply(out)
      BY <2>1 DEF FreshInv
    <2> QED
      BY <2>1, <2>2, FreshSame DEF FreshInv
  <1>6. CASE WaitAck
    <2>1. /\ UNCHANGED <<request, stage, in, slavecnt, taken, out, queue, lastread, ack, SMstat>>
          /\ pc = "ack"
          /\ pc' \in {"ack", "available"}
      BY <1>6 DEF WaitAck, slave
    <2> QED
      BY <2>1, FreshSame DEF FreshInv
  <1>7. CASE WaitAvailable
    <2>1. UNCHANGED <<request, stage, in, slavecnt, taken, out, queue, lastread>> /\ pc = "available"
      BY <1>7 DEF WaitAvailable, slave
    <2>2. pc' = "available" \/ (pc' = "read" /\ out # NoMsg)
      BY <1>7, AvailableCases
    <2>3. lastread = Reply(request) => out = lastread
      BY <2>1, <1>b, MessageFields DEF HandshakeInv, Repeated
    <2> QED
      BY <2>1, <2>2, <2>3, FreshSame DEF FreshInv
  <1>8. CASE Expire \/ UNCHANGED vars
    BY <1>8, FreshSame DEF Expire, vars, slave, FreshInv
  <1>9. CASE SlaveTake
    <2>1. UNCHANGED <<pc, stage, request, out, lastread, ack, SMstat>> /\ in' = EmptyIn /\ in # EmptyIn
      BY <1>9 DEF SlaveTake, master
    <2>2. CASE UNCHANGED <<slavecnt, taken, queue>>
      BY <2>1, <2>2 DEF FreshInv, NoReplies, LastTaken
    <2>3. CASE in.cnt # slavecnt
      <3>1. queue' = Append(queue, Reply(in.n)) /\ taken' = Append(taken, in.n) /\ slavecnt' = in.cnt
        BY <1>9, <2>3 DEF SlaveTake
      <3>2. Awaiting \/ pc = "write"
        BY <2>1, <2>3 DEF FreshInv
      <3>3. in.n = request /\ in.n \in 1 .. MaxRequests
        BY <2>1, <3>2, MailboxAssumption DEF CounterInv, TypeOK
      <3>4. LastTaken # request
        BY <2>1, <2>3, <3>3, TakenCounter
      <3>5. /\ Len(queue') = Len(queue) + 1 /\ Len(queue) \in Nat /\ queue'[Len(queue) + 1] = Reply(request)
            /\ \A k \in 1 .. Len(queue) : queue'[k] = queue[k]
        BY <3>1, <3>3, MessageFields, AppendProperties, QueueElements DEF TypeOK
      <3>6. LastTaken' = request
        <4>1. taken' # <<>> /\ taken'[Len(taken')] = in.n
          BY <3>1, <3>3, AppendProperties, LenProperties DEF TypeOK
        <4> QED
          BY <3>3, <4>1 DEF LastTaken
      <3>7. NoReplies /\ lastread # Reply(request)
        BY <3>4 DEF FreshInv
      <3>8. \A k \in 1 .. Len(queue') : IsReply(queue'[k]) => k = Len(queue) + 1 /\ queue'[k].n = request
        BY <3>5, <3>7, MessageFields DEF NoReplies
      <3> QED
        BY <2>1, <3>2, <3>6, <3>7, <3>8 DEF FreshInv, NoReplies
    <2> QED
      BY <1>9, <2>2, <2>3 DEF SlaveTake
  <1>10. CASE SlaveAside
    <2>1. UNCHANGED <<pc, stage, request, out, lastread, ack, SMstat, in, slavecnt, taken>>
          /\ queue' = Append(queue, Aside(asides')) /\ asides' \in 1 .. MaxAsides
      BY <1>10, MailboxAssumption DEF SlaveAside, master, TypeOK
    <2>2. /\ Len(queue') = Len(queue) + 1 /\ Len(queue) \in Nat /\ ~IsReply(queue'[Len(queue) + 1])
          /\ \A k \in 1 .. Len(queue) : queue'[k] = queue[k]
      BY <2>1, MessageFields, AppendProperties, QueueElements DEF TypeOK
    <2>3. \A k \in 1 .. Len(queue') : IsReply(queue'[k]) => k \in 1 .. Len(queue) /\ queue'[k] = queue[k]
      BY <2>2
    <2>4. (NoReplies' <=> NoReplies) /\ LastTaken' = LastTaken
      BY <2>1, <2>2, <2>3 DEF NoReplies, LastTaken
    <2> QED
      BY <2>1, <2>3, <2>4 DEF FreshInv
  <1>11. CASE SlavePost
    <2>1. UNCHANGED <<pc, lastread, stage, request, in, slavecnt, taken, ack, SMstat>> /\ out = NoMsg
          /\ queue # <<>> /\ out' = queue[1] /\ queue' = Tail(queue)
      BY <1>11 DEF SlavePost, master
    <2>2. /\ Len(queue') = Len(queue) - 1 /\ Len(queue) \in Nat /\ 1 \in 1 .. Len(queue)
          /\ \A k \in 1 .. Len(queue') : queue'[k] = queue[k + 1] /\ k + 1 \in 1 .. Len(queue) /\ k + 1 # 1
      BY <2>1, HeadTailProperties, EmptySeq, QueueElements DEF TypeOK
    <2>3. out' # NoMsg /\ ~IsReply(out)
      BY <2>1, <2>2, QueueElements, MessageFields
    <2>4. LastTaken' = LastTaken /\ (NoReplies => NoReplies')
      BY <2>1, <2>2 DEF LastTaken, NoReplies
    <2>5. IsReply(out') => out'.n = request /\ \A k \in 1 .. Len(queue') : ~IsReply(queue'[k])
      BY <2>1, <2>2 DEF FreshInv
    <2>6. \A k \in 1 .. Len(queue') : IsReply(queue'[k]) =>
            /\ queue'[k].n = request
            /\ \A j \in 1 .. Len(queue') : IsReply(queue'[j]) => j = k
      <3>1. \A k \in 1 .. Len(queue) : IsReply(queue[k]) =>
              /\ queue[k].n = request
              /\ \A j \in 1 .. Len(queue) : IsReply(queue[j]) => j = k
        BY DEF FreshInv
      <3>2. ASSUME NEW j \in 1 .. Len(queue'), NEW k \in 1 .. Len(queue'), IsReply(queue'[j]),
                   IsReply(queue'[k])
            PROVE  j = k
        <4>1. j + 1 = k + 1
          BY <3>1, <3>2, <2>2
        <4> QED
          BY <4>1
      <3> QED
        BY <2>2, <3>1, <3>2
    <2>7. lastread = Reply(request) => ~IsReply(out') /\ \A k \in 1 .. Len(queue') : ~IsReply(queue'[k])
      BY <2>1, <2>2 DEF FreshInv
    <2>8. ~(pc = "read" /\ out = lastread /\ lastread = Reply(request))
      BY <2>1, MessageFields
    <2> QED
      BY <2>1, <2>3, <2>4, <2>5, <2>6, <2>7, <2>8 DEF FreshInv
  <1>12. CASE SlaveRepeat
    <2>1. /\ UNCHANGED <<pc, lastread, stage, request, in, slavecnt, taken, SMstat>>
          /\ repeat # ack /\ ack' = repeat
      BY <1>12 DEF SlaveRepeat, master
    <2>2. pc = "ack" /\ ack' = SMstat.repeat /\ ack # SMstat.repeat
      BY <2>1 DEF HandshakeInv
    <2>3. IsAside(lastread) \/ lastread = Reply(request)
      BY <2>2 DEF FreshInv
    <2>4. out' = lastread /\ lastread # NoMsg
      BY <1>12, <2>3, MessageFields DEF SlaveRepeat
    <2>5. lastread = Reply(request) => ~IsReply(out) /\ Awaiting
      BY <2>2 DEF FreshInv
    <2>6. LastTaken' = LastTaken
      BY <2>1 DEF LastTaken
    <2>7. CASE out = NoMsg
      <3>1. queue' = queue
        BY <1>12, <2>4, <2>7 DEF SlaveRepeat
      <3> QED
        BY <1>b, <2>1, <2>2, <2>3, <2>4, <2>5, <2>6, <2>7, <3>1, MessageKinds,
           MessageFields DEF FreshInv, NoReplies
    <2>8. CASE out # NoMsg
      <3>1. queue' = <<out>> \o queue /\ <<out>> \in Seq(Messages \ {NoMsg})
        BY <1>12, <2>4, <2>8 DEF SlaveRepeat, TypeOK
      <3>2. /\ Len(queue') = Len(queue) + 1 /\ Len(queue) \in Nat /\ queue'[1] = out
            /\ \A k \in 1 .. Len(queue') : k = 1 \/ (k - 1 \in 1 .. Len(queue) /\ queue'[k] = queue[k - 1])
        BY <3>1, ConcatProperties, QueueElements DEF TypeOK
      <3>3. \A k \in 1 .. Len(queue') : IsReply(queue'[k]) =>
              /\ queue'[k].n = request
              /\ \A j \in 1 .. Len(queue') : IsReply(queue'[j]) => j = k
        <4>1. \A k \in 1 .. Len(queue) : IsReply(queue[k]) =>
                /\ queue[k].n = request
                /\ \A j \in 1 .. Len(queue) : IsReply(queue[j]) => j = k
          BY DEF FreshInv
        <4>2. \A k \in 1 .. Len(queue') : IsReply(queue'[k]) => queue'[k].n = request
          BY <3>2, <4>1 DEF FreshInv
        <4>3. ASSUME IsReply(out), NEW k \in 1 .. Len(queue'), IsReply(queue'[k]) PROVE k = 1
          <5>1. \A j \in 1 .. Len(queue) : ~IsReply(queue[j])
            BY <4>3 DEF FreshInv
          <5> QED
            BY <5>1, <4>3, <3>2
        <4>4. ASSUME ~IsReply(out), NEW j \in 1 .. Len(queue'), NEW k \in 1 .. Len(queue'),
                     IsReply(queue'[j]), IsReply(queue'[k])
              PROVE  j = k
          <5>1. j - 1 \in 1 .. Len(queue) /\ IsReply(queue[j - 1]) /\ k - 1 \in 1 .. Len(queue)
                    /\ IsReply(queue[k - 1])
            BY <4>4, <3>2
          <5>2. j - 1 = k - 1
            BY <5>1, <4>1
          <5> QED
            BY <5>2
        <4> QED
          BY <4>2, <4>3, <4>4
      <3>4. lastread = Reply(request) => \A k \in 1 .. Len(queue') : ~IsReply(queue'[k])
        BY <2>5, <3>2 DEF FreshInv
      <3>5. NoReplies /\ IsAside(lastread) => NoReplies'
        BY <1>b, <2>4, <3>2, MessageKinds DEF NoReplies
      <3>6. ~NoReplies' => ~NoReplies \/ lastread = Reply(request)
        BY <2>3, <3>5
      <3> QED
        BY <1>b, <2>1, <2>2, <2>3, <2>4, <2>5, <2>6, <3>3, <3>4, <3>5, <3>6, MessageKinds,
           MessageFields DEF FreshInv
    <2> QED
      BY <2>7, <2>8
  <1> QED
    BY <1>1, <1>2, <1>3, <1>4, <1>5, <1>6, <1>7, <1>8, <1>9, <1>10, <1>11, <1>12 DEF Next, Master

-----------------------------------------------------------------------------
(* The invariant and the properties                                        *)

\* What a call returns is the reply of its request, unless it or one before it gave up, or a read was
\* lost.
LEMMA ReplyStep ==
  ASSUME TypeOK, ReplyFresh, ~Doomed /\ ~lostread => FreshInv, ~Doomed' => ~Doomed,
         ~lostread' => ~lostread,
         [Next]_vars
  PROVE  ReplyFresh'
  <1> SUFFICES ASSUME pc' = "idle", wkc' > 0, reply' # NoMsg, ~late', ~lostread'
               PROVE  reply'.n = request'
    BY DEF ReplyFresh
  <1>a. ~Doomed' /\ FreshInv
    BY DEF Doomed
  <1>1. CASE Begin \/ Expire
    BY <1>1 DEF Begin, Expire
  <1>2. CASE PollEmpty \/ WriteMailbox
    BY <1>2, SendSteps
  <1>3. CASE PollFull
    BY <1>3, PollCases, ReceivedStep, MessageFields
  <1>4. CASE ReadMailbox
    <2>1. request' = request
      BY <1>4 DEF ReadMailbox
    <2>2. IsReply(out) /\ Received(1, out)
      BY <1>4, ReadCases, AgainStep, ReceivedStep, MessageFields DEF TypeOK
    <2>3. reply' = out
      BY <2>2, ReceivedStep DEF TypeOK
    <2> QED
      BY <1>a, <2>1, <2>2, <2>3 DEF FreshInv
  <1>5. CASE RequestRepeat \/ WaitAck
    BY <1>5, RequestCases, AckCases
  <1>6. CASE WaitAvailable
    BY <1>a, <1>6, AvailableCases
  <1>7. CASE SlaveTake \/ SlaveAside \/ SlavePost \/ SlaveRepeat \/ UNCHANGED vars
    <2>1. UNCHANGED <<pc, wkc, reply, request, late, lostread>>
      BY <1>7 DEF SlaveTake, SlaveAside, SlavePost, SlaveRepeat, master, vars
    <2> QED
      BY <2>1 DEF ReplyFresh
  <1> QED
    BY <1>1, <1>2, <1>3, <1>4, <1>5, <1>6, <1>7 DEF Next, Master

\* That a read was lost is not forgotten.
LEMMA LostreadStays ==
  ASSUME TypeOK, lostread, [Next]_vars
  PROVE  lostread'
  <1>1. CASE Begin \/ Expire
    BY <1>1 DEF Begin, Expire
  <1>2. CASE PollEmpty \/ WriteMailbox
    BY <1>2, SendSteps
  <1>3. CASE PollFull
    BY <1>3, PollCases
  <1>4. CASE ReadMailbox
    BY <1>4, ReadCases
  <1>5. CASE RequestRepeat \/ WaitAck \/ WaitAvailable
    BY <1>5 DEF RequestRepeat, WaitAck, WaitAvailable
  <1>6. CASE SlaveTake \/ SlaveAside \/ SlavePost \/ SlaveRepeat \/ UNCHANGED vars
    BY <1>6 DEF SlaveTake, SlaveAside, SlavePost, SlaveRepeat, master, vars
  <1> QED
    BY <1>1, <1>2, <1>3, <1>4, <1>5, <1>6 DEF Next, Master

\* Only a read of the mailbox hands a message of the slave's own on, and it does not end the call's wait.
LEMMA HandledStep ==
  ASSUME TypeOK, [Next]_vars, handled' # handled
  PROVE  pc' # "available"
  <1>1. CASE ReadMailbox
    BY <1>1, ReadCases, AgainStep, ReceivedStep, MessageFields DEF TypeOK
  <1>2. CASE ~ReadMailbox
    BY <1>2, SendSteps, PollCases, RequestCases, AckCases
       DEF Next, Master, Begin, Expire, WaitAvailable, SlaveTake, SlaveAside, SlavePost, SlaveRepeat,
           master, vars
  <1> QED
    BY <1>1, <1>2

\* Every step keeps the invariant.
LEMMA MailboxStep == MailboxInv /\ [Next]_vars => MailboxInv'
  <1> SUFFICES ASSUME MailboxInv, [Next]_vars PROVE MailboxInv'
    OBVIOUS
  <1>a. TypeOK /\ StageInv /\ CounterInv
    BY DEF MailboxInv
  <1>1. TypeOK' /\ StageInv' /\ CounterInv'
    BY <1>a, TypeStep, StageStep, CounterStep
  <1>2. ~Doomed' => ~Doomed
    BY <1>a, DoomedStays
  <1>3. ~lostread' => ~lostread
    BY <1>a, LostreadStays
  <1>4. ASSUME ~Doomed' PROVE HandshakeInv' /\ OrderInv'
    BY <1>a, <1>2, <1>4, HandshakeStep, OrderStep DEF MailboxInv
  <1>5. ASSUME ~Doomed', ~lostread' PROVE FreshInv'
    BY <1>a, <1>2, <1>3, <1>5, FreshStep DEF MailboxInv
  <1>6. ReplyFresh'
    BY <1>a, <1>2, <1>3, ReplyStep DEF MailboxInv
  <1> QED
    BY <1>1, <1>4, <1>5, <1>6 DEF MailboxInv

\* The initial states satisfy it.
LEMMA MailboxInit == Init => MailboxInv
  <1> SUFFICES ASSUME Init PROVE MailboxInv
    OBVIOUS
  <1> USE MailboxAssumption DEF Init
  <1>1. TypeOK
    <2>1. taken \in Seq(1 .. MaxRequests) /\ queue \in Seq(Messages \ {NoMsg})
      BY EmptySeq
    <2>2. in \in [cnt : 0 .. 7, n : 0 .. MaxRequests] /\ SMstat \in [full : BOOLEAN, repeat : BOOLEAN]
      OBVIOUS
    <2>3. request \in 0 .. MaxRequests /\ mbx_cnt \in 0 .. 7 /\ slavecnt \in 0 .. 7 /\ wkc \in {-1, 0, 1}
      OBVIOUS
    <2>4. {handled, asides} \subseteq 0 .. MaxAsides
      OBVIOUS
    <2>7. {expired, repeat, ack, lostread, late} \subseteq BOOLEAN
      BY Zenon
    <2>5. {out, reply, lastread} \subseteq Messages
      BY DEF Messages
    <2>6. pc \in {"idle", "empty", "write", "poll", "read", "repeat", "ack", "available"}
          /\ stage \in {"drain", "reply"}
      OBVIOUS
    <2> QED
      BY <2>1, <2>2, <2>3, <2>4, <2>5, <2>6, <2>7 DEF TypeOK
  <1>2. StageInv
    BY DEF StageInv
  <1>3. CounterInv
    <2>1. Issued = 0 /\ LastTaken = 0 /\ Len(taken) = 0 /\ in = EmptyIn /\ ~Awaiting
      BY DEF Issued, Draining, Receiving, LastTaken, EmptyIn, Awaiting
    <2>2. slavecnt = mbx_cnt /\ mbx_cnt - slavecnt = 0 - 7 * 0
      OBVIOUS
    <2>3. Apart(slavecnt, mbx_cnt, 0)
      BY <2>2 DEF Apart
    <2> QED
      BY <2>1, <2>2, <2>3 DEF CounterInv
  <1>4. HandshakeInv
    BY DEF HandshakeInv
  <1>5. OrderInv
    BY MessageFields DEF OrderInv, Missed, Known
  <1>6. FreshInv
    BY MessageFields DEF FreshInv, NoReplies, Awaiting, EmptyIn
  <1>7. ReplyFresh
    BY DEF ReplyFresh
  <1> QED
    BY <1>1, <1>2, <1>3, <1>4, <1>5, <1>6, <1>7 DEF MailboxInv

\* The inductive invariant holds in every reachable state.
THEOREM Invariance == Spec => []MailboxInv
  BY MailboxInit, MailboxStep, PTL DEF Spec

\* Every variable keeps its type; the mailbox counter stays in the three bits of the header
\* (ec_nextmbxcnt).
THEOREM TypeCorrect == Spec => []TypeOK
  <1>1. MailboxInv => TypeOK
    BY DEF MailboxInv
  <1> QED
    BY <1>1, Invariance, PTL

\* When ecx_mbxsend has returned a positive working counter the slave takes the request exactly once,
\* however often the write was repeated, unless the counters have come round.
THEOREM RequestsAreTakenOnce == Spec => []RequestTakenOnce
  <1>1. MailboxInv => RequestTakenOnce
    <2> SUFFICES ASSUME MailboxInv, stage = "reply", pc # "idle"
                 PROVE  LET times == Cardinality({k \in DOMAIN taken : taken[k] = request})
                                       + (IF in.n = request /\ in.cnt # slavecnt THEN 1 ELSE 0)
                        IN times = 1 \/ (times = 0 /\ request - LastTaken >= 7)
      BY DEF RequestTakenOnce
    <2> DEFINE Times == {k \in DOMAIN taken : taken[k] = request}
    <2>a. TypeOK /\ StageInv /\ CounterInv
      BY DEF MailboxInv
    <2>1. /\ request >= 1 /\ request \in Nat /\ LastTaken \in Nat /\ in.n \in Nat /\ Awaiting
          /\ Len(taken) \in Nat /\ DOMAIN taken = 1 .. Len(taken)
          /\ \A k \in 1 .. Len(taken) : taken[k] \in Nat /\ taken[k] <= LastTaken
      <3>1. /\ Len(taken) \in Nat /\ DOMAIN taken = 1 .. Len(taken)
            /\ \A k \in 1 .. Len(taken) : taken[k] \in Nat
        <4>1. taken \in Seq(1 .. MaxRequests) /\ MaxRequests \in Nat
          BY <2>a, MailboxAssumption DEF TypeOK
        <4> QED
          BY <4>1, LenProperties, ElementOfSeq
      <3>2. request >= 1 /\ request \in Nat /\ in.n \in Nat /\ Awaiting
        BY <2>a, MailboxAssumption DEF TypeOK, StageInv, Awaiting
      <3> QED
        BY <2>a, <3>1, <3>2, LastIsTaken
    <2>2. LastTaken <= request
      BY <2>a, <2>1, LastIsTaken
    <2>3. in.n = request => in # EmptyIn
      BY <2>1 DEF EmptyIn
    <2>4. CASE LastTaken = request
      <3>1. taken # <<>> /\ taken[Len(taken)] = request /\ Len(taken) \in 1 .. Len(taken)
        BY <2>a, <2>1, <2>4, EmptySeq DEF LastTaken, TypeOK
      <3>2. \A k \in 1 .. Len(taken) : taken[k] = request => k = Len(taken)
        <4> SUFFICES ASSUME NEW m \in 1 .. Len(taken), taken[m] = request, m # Len(taken) PROVE FALSE
          OBVIOUS
        <4>1. Len(taken) \in Nat
          BY <2>1
        <4>2. m < Len(taken)
          BY <4>1
        <4>3. taken[m] < taken[Len(taken)]
          BY <2>a, <3>1, <4>2 DEF CounterInv
        <4>4. request \in Nat
          BY <2>1
        <4> QED
          BY <3>1, <4>3, <4>4
      <3>3. Times = {Len(taken)}
        BY <2>1, <3>1, <3>2
      <3>4. Cardinality(Times) = 1
        BY <3>3, FS_Singleton
      <3>5. in.n = request => in.cnt = slavecnt
        BY <2>a, <2>3, <2>4, TakenCounter
      <3> QED
        BY <3>4, <3>5
    <2>5. CASE LastTaken # request
      <3>1. Times = {}
        BY <2>1, <2>2, <2>5
      <3>2. Cardinality(Times) = 0
        BY <3>1, FS_EmptySet
      <3>3. (in.n = request /\ in.cnt # slavecnt) \/ request - LastTaken >= 7
        BY <2>a, <2>1, <2>3, <2>5, TakenCounter DEF CounterInv
      <3> QED
        BY <3>2, <3>3
    <2> QED
      BY <2>4, <2>5
  <1> QED
    BY <1>1, Invariance, PTL

\* The reply that is returned is that of the request, and no message of the slave is skipped, unless a
\* call ran out of time or (for the reply) a read was lost before it reached the slave.
THEOREM RepliesKeepOrder == Spec => RepliesInOrder
  <1>1. ASSUME MailboxInv, MailboxInv', [Next]_vars
        PROVE  ReplyFresh' /\ (handled' > handled + 1 => late')
    <2>1. ReplyFresh'
      BY <1>1 DEF MailboxInv
    <2>2. ASSUME ~late', handled' # handled PROVE handled' <= handled + 1
      <3>1. ~Doomed' /\ ~Doomed
        BY <1>1, <2>2, HandledStep, DoomedStays DEF Doomed, MailboxInv
      <3> QED
        BY <1>1, <3>1, OrderStep DEF MailboxInv
    <2>3. handled \in Nat /\ handled' \in Nat
      BY <1>1, MailboxAssumption DEF MailboxInv, TypeOK
    <2> QED
      BY <2>1, <2>2, <2>3
  <1>2. MailboxInv /\ MailboxInv' /\ [Next]_vars => [ReplyFresh' /\ (handled' > handled + 1 => late')]_vars
    BY <1>1
  <1> QED
    BY <1>2, Invariance, PTL DEF Spec, RepliesInOrder

-----------------------------------------------------------------------------
(* The process data: the inductive invariant                               *)

Sending == phase \in {"LRD", "LWR", "LRW"}
St(k) == SegmentStart(group, k)
Entries == idxstack.entries
Top == Len(Entries)
EndOf(e) == e.data + e.length

\* In an overlapping map the answers are placed behind the outputs.
Off == IF group.overlap THEN group.Obytes ELSE 0

\* The datagram of an entry of the index stack: its command, its address, and the slaves that read and
\* write in it.
CmdOf(e) == IF ~group.blockLRW THEN "LRW" ELSE IF e.data < group.Obytes THEN "LWR" ELSE "LRD"
AdrOf(e) == e.data - Off
ReadersOf(e) == {s \in Slaves : Reads(CmdOf(e), s, AdrOf(e), e.length)}
WritersOf(e) == {s \in Slaves : Writes(CmdOf(e), s, AdrOf(e), e.length)}

\* How long ago index i was given out, counted in indexes, when the last one was l.
Behind(i, l) == IF i <= l THEN l - i ELSE l - i + EC_MAXBUF

Values(c) == {Junk, Old} \cup {OutputOf(k) : k \in 1 .. c} \cup {InputOf(k) : k \in 1 .. c}
EntryType == [idx : Idx, data : Nat, length : Nat]
JobType == [adr : Nat, length : Nat, data : Nat, segment : Nat, first : BOOLEAN]
FrameOK(f) ==
    /\ f.idx \in Idx /\ f.dc \in BOOLEAN /\ f.cmd \in {"LRD", "LWR", "LRW"}
    /\ f.len \in Nat /\ f.cycle \in 1 .. cycle /\ f.wkc \in Nat
    /\ f.data \in [0 .. f.len - 1 -> Values(cycle)]

TypeInv ==
    /\ WellMapped(group)
    /\ phase \in {"app", "LRD", "LWR", "LRW", "receive"}
    /\ cycle \in 0 .. MaxCycles
    /\ phase # "app" => cycle > 0
    /\ image \in [0 .. IOmapSize(group) - 1 -> Values(cycle)]
    /\ job \in JobType
    /\ idxstack \in [entries : Seq(EntryType), pulled : Nat]
    /\ idxstack.pulled <= Top /\ Top <= EC_MAXBUF
    /\ phase # "receive" => idxstack.pulled = 0
    /\ phase = "app" => Entries = <<>>
    /\ rxbufstat \in [Idx -> {"EMPTY", "TX"}]
    /\ lastidx \in Idx
    /\ \A f \in wire : FrameOK(f)
    /\ DCl \in Nat
    /\ DCtime \in {Junk} \cup 0 .. cycle
    /\ received \in [first : BOOLEAN, wkc : Nat, valid : BOOLEAN]
    /\ delivered \in [Slaves -> Int]
    /\ result \in Int /\ result >= EC_NOFRAME

\* Where the send loop is.
JobInv ==
    /\ phase = "LRW" =>
          /\ ~group.blockLRW
          /\ job.segment < group.nsegments /\ job.adr = St(job.segment)
          /\ job.data = job.adr /\ job.length = Extent(group) - job.adr
    /\ phase = "LRD" =>
          /\ group.blockLRW /\ group.Ibytes > 0
          /\ group.Isegment <= job.segment /\ job.segment < group.nsegments
          /\ job.adr = (IF job.segment = group.Isegment THEN group.Obytes ELSE St(job.segment))
          /\ job.data = job.adr /\ job.length = IOmapSize(group) - job.adr
    /\ phase = "LWR" =>
          /\ group.blockLRW
          /\ job.segment < group.nsegments /\ job.adr = St(job.segment)
          /\ job.data = job.adr /\ job.length = group.Obytes - job.adr /\ job.length > 0
    /\ Sending => (job.first <=> group.hasdc /\ Top = 0)

\* Where the data of the entries are: one behind the other, LRD before LWR.
PlaceOK(e) ==
    CASE phase = "LRW" -> Off <= e.data /\ EndOf(e) <= Off + job.adr
      [] phase = "LRD" -> group.Obytes <= e.data /\ EndOf(e) <= job.adr
      [] phase = "LWR" -> IF e.data < group.Obytes THEN EndOf(e) <= job.adr ELSE EndOf(e) <= IOmapSize(group)
      [] OTHER -> IF ~group.blockLRW THEN Off <= e.data /\ EndOf(e) <= Off + Extent(group)
                  ELSE EndOf(e) <= IF e.data < group.Obytes THEN group.Obytes ELSE IOmapSize(group)

\* A datagram lies in one segment: one that reads has all inputs of it, one that only writes starts
\* with it.
InSegment(e) ==
    \E i \in 0 .. group.nsegments - 1 :
        /\ St(i) <= AdrOf(e) /\ AdrOf(e) + e.length <= St(i + 1)
        /\ CmdOf(e) = "LWR" => AdrOf(e) = St(i)
        /\ CmdOf(e) # "LWR" =>
              /\ AdrOf(e) + e.length = St(i + 1)
              /\ AdrOf(e) = St(i) \/ (group.blockLRW /\ AdrOf(e) = group.Obytes)

PlaceInv ==
    /\ \A k \in 1 .. Top : \A e \in {Entries[k]} : PlaceOK(e) /\ InSegment(e)
    /\ \A j, k \in 1 .. Top : j < k =>
          EndOf(Entries[j]) <= Entries[k].data \/ EndOf(Entries[k]) <= Entries[j].data

\* The indexes in use are those of the entries that have not been pulled, and the entries have
\* consecutive ones until there are no more.
IndexInv ==
    /\ \A i \in Idx : rxbufstat[i] = "TX" <=> \E k \in idxstack.pulled + 1 .. Top : Entries[k].idx = i
    /\ \A j, k \in 1 .. Top : j # k => Entries[j].idx # Entries[k].idx
    /\ Top < EC_MAXBUF \/ Datagrams <= EC_MAXBUF =>
          \A k \in 1 .. Top : Behind(Entries[k].idx, lastidx) = Top - k
    /\ Top = EC_MAXBUF /\ Sending => \A i \in Idx : rxbufstat[i] = "TX"

\* LRD datagrams of a cycle.
Reading == IF group.Ibytes > 0 THEN group.nsegments - group.Isegment ELSE 0

\* Every datagram has an entry.
CountInv ==
    Datagrams <= EC_MAXBUF =>
        /\ phase = "LRW" => Top = job.segment
        /\ phase = "LRD" => Top = job.segment - group.Isegment
        /\ phase = "LWR" => Top <= Reading + job.segment
        /\ Top <= Datagrams

\* The entries so far cover the inputs up to where the send loop is.
CoverInv ==
    Datagrams <= EC_MAXBUF /\ phase # "app" =>
        \A b \in (IF phase = "LRW" THEN Off .. Off + job.adr - 1
                  ELSE IF phase = "LRD" THEN group.Obytes .. job.adr - 1 ELSE Inputs) :
            \E k \in 1 .. Top : Entries[k].data <= b /\ b < EndOf(Entries[k])

\* The loop of the receiver.
FirstInv ==
    /\ group.hasdc /\ Top > 0 => DCl = Entries[1].length
    /\ phase = "receive" /\ idxstack.pulled = 0 => received = [NoReceive EXCEPT !.first = group.hasdc]
    /\ received.first => group.hasdc /\ ~received.valid /\ received.wkc = 0

\* A frame of this cycle is that of an entry.
Match(f, e) ==
    /\ f.len = e.length
    /\ f.cmd = CmdOf(e)
    /\ f.cmd # "LWR" => \A i \in 0 .. f.len - 1 : e.data + i \in Outputs => f.data[i] = OutputOf(cycle)
    /\ \E readers \in SUBSET ReadersOf(e), writers \in SUBSET WritersOf(e) :
          /\ f.wkc * Twice(f) = Cardinality(readers) + 2 * Cardinality(writers)
          /\ \A s \in writers : delivered[s] = cycle
          /\ \A s \in readers : \A b \in BytesIn(group.inputs[s], AdrOf(e), e.length) :
                f.data[b - AdrOf(e)] = InputOf(cycle)

Lag(f) == cycle - f.cycle

\* While the indexes do not come round, the index of a frame tells what it is.
WireInv ==
    Rotates => \A f \in wire :
        /\ Lag(f) <= MaxLag
        /\ phase = "app" => Behind(f.idx, lastidx) < Lag(f) * Datagrams + Datagrams
        /\ phase # "app" /\ f.cycle < cycle =>
              Top <= Behind(f.idx, lastidx) /\ Behind(f.idx, lastidx) < Top + Lag(f) * Datagrams
        /\ phase # "app" /\ f.cycle = cycle =>
              \E k \in 1 .. Top : \E e \in {Entries[k]} :
                  e.idx = f.idx /\ Match(f, e) /\ (f.dc <=> group.hasdc /\ k = 1)

\* What was read so far was read as what it is.
Genuine == Rotates /\ (FirstGenuine \/ (phase = "receive" /\ received.first))

\* The outputs are those of this cycle.
OutputsInv ==
    phase \in {"LRD", "LWR", "LRW"} \/ (cycle > 0 /\ Genuine) => \A b \in Outputs : image[b] = OutputOf(cycle)

Wrote(p) == {s \in Slaves : \E k \in 1 .. p : \E e \in {Entries[k]} : s \in WritersOf(e)}
Read(p) == {s \in Slaves : \E k \in 1 .. p : \E e \in {Entries[k]} : s \in ReadersOf(e)}

\* The counters so far are at most those of the entries pulled, and if they are as high, the entries
\* brought their inputs.
WkcInv ==
    phase = "receive" /\ Genuine =>
        /\ received.wkc <= 2 * Cardinality(Wrote(idxstack.pulled)) + Cardinality(Read(idxstack.pulled))
        /\ received.wkc = 2 * Cardinality(Wrote(idxstack.pulled)) + Cardinality(Read(idxstack.pulled)) =>
              /\ \A s \in Wrote(idxstack.pulled) : delivered[s] = cycle
              /\ \A k \in 1 .. idxstack.pulled : \A e \in {Entries[k]} : \A s \in ReadersOf(e) :
                    \A b \in BytesIn(group.inputs[s], AdrOf(e), e.length) :
                        image[Off + b] = InputOf(cycle)

ResultInv == WkcVouches /\ (Rotates /\ FirstGenuine /\ phase = "app" => result <= ExpectedWKC)

CycInv ==
    /\ TypeInv /\ JobInv /\ PlaceInv /\ IndexInv /\ CountInv /\ CoverInv /\ FirstInv
    /\ WireInv /\ OutputsInv /\ WkcInv /\ ResultInv

-----------------------------------------------------------------------------
(* The indexes                                                             *)

\* The rest of a division, for less than twice the divisor.
LEMMA SmallRest ==
    ASSUME NEW n \in Nat \ {0}, NEW a \in Nat, a < 2 * n
    PROVE  a % n = IF a < n THEN a ELSE a - n
    OBVIOUS

\* The index after the one given out last.
Succ == IF lastidx + 1 < EC_MAXBUF THEN lastidx + 1 ELSE 0

\* ecx_getindex finds the next index when it is free, or when none is.
LEMMA NewIndexIs ==
    ASSUME TypeInv, rxbufstat[Succ] = "EMPTY" \/ \A i \in Idx : rxbufstat[i] = "TX"
    PROVE  NewIndex = Succ /\ Succ \in Idx
<1> DEFINE After(k) == (lastidx + 1 + k) % EC_MAXBUF
<1>1. EC_MAXBUF \in Nat \ {0} /\ lastidx \in 0 .. EC_MAXBUF - 1
  BY ProcessDataAssumption DEF TypeInv, Idx
<1>2. After(0) = Succ /\ Succ \in Idx
  BY <1>1, SmallRest DEF Succ, Idx
<1>3. 0 \in Idx
  BY <1>1 DEF Idx
<1>4. CASE rxbufstat[Succ] = "EMPTY"
  <2> DEFINE P(k) == rxbufstat[After(k)] = "EMPTY" /\ \A j \in 0 .. k - 1 : rxbufstat[After(j)] # "EMPTY"
  <2> DEFINE K == CHOOSE k \in Idx : P(k)
  <2>1. P(0)
    BY <1>2, <1>4
  <2>2. K \in Idx /\ P(K)
    BY <2>1, <1>3
  <2>3. K = 0
    <3>1. K \in Nat /\ (K # 0 => 0 \in 0 .. K - 1)
      BY <2>2, <1>1 DEF Idx
    <3> QED BY <3>1, <2>2, <1>2, <1>4
  <2>4. \E k \in Idx : rxbufstat[After(k)] = "EMPTY"
    BY <1>2, <1>3, <1>4
  <2>5. NewIndex = After(K)
    BY <2>4 DEF NewIndex
  <2> QED BY <2>3, <2>5, <1>2
<1>5. CASE \A i \in Idx : rxbufstat[i] = "TX"
  <2>1. \A k \in Idx : After(k) \in Idx
    BY <1>1, SmallRest DEF Idx
  <2>2. ~ \E k \in Idx : rxbufstat[After(k)] = "EMPTY"
    BY <2>1, <1>5
  <2>3. NewIndex = After(0)
    BY <2>2 DEF NewIndex
  <2> QED BY <2>3, <1>2
<1> QED BY <1>4, <1>5

\* The numbers of a group.
LEMMA GroupFacts ==
    ASSUME WellMapped(group)
    PROVE  /\ group.Obytes \in Nat /\ group.Ibytes \in Nat /\ group.nsegments \in Nat \ {0}
           /\ IOmapSize(group) = group.Obytes + group.Ibytes
           /\ group.overlap \in BOOLEAN /\ group.blockLRW \in BOOLEAN /\ group.hasdc \in BOOLEAN
           /\ group.blockLRW => ~group.overlap
           /\ Extent(group) \in Nat /\ Off \in Nat
           /\ ~group.overlap => Extent(group) = group.Obytes + group.Ibytes /\ Off = 0
           /\ group.overlap => Extent(group) >= group.Obytes /\ Extent(group) >= group.Ibytes
                  /\ Off = group.Obytes
           /\ Datagrams \in Nat /\ Datagrams >= group.nsegments
           /\ group.blockLRW => Datagrams = group.nsegments + 1
  BY DEF WellMapped, Tiled, IOmapSize, Extent, Off, Datagrams

\* The group is one of those the mapping functions leave.
LEMMA GroupMapped ==
    ASSUME TypeInv
    PROVE  WellMapped(group)
  BY DEF TypeInv

\* The addresses of the segments.
LEMMA SegmentFacts ==
    ASSUME WellMapped(group)
    PROVE  /\ St(0) = 0 /\ St(group.nsegments) = Extent(group)
           /\ \A k \in 0 .. group.nsegments : St(k) \in Nat /\ St(k) <= Extent(group)
           /\ \A k \in 0 .. group.nsegments - 1 :
                 group.IOsegment[k] \in Nat /\ St(k + 1) = St(k) + group.IOsegment[k]
           /\ \A j, k \in 0 .. group.nsegments : j <= k => St(j) <= St(k)
           /\ ~group.overlap =>
                 /\ group.Isegment \in 0 .. group.nsegments - 1
                 /\ group.Ioffset \in Nat
                 /\ St(group.Isegment) + group.Ioffset = group.Obytes
                 /\ group.Obytes <= St(group.Isegment + 1)
<1>1. Tiled(group) /\ group.nsegments \in Nat \ {0}
  BY DEF WellMapped, Tiled
<1>2. /\ St(0) = 0 /\ St(group.nsegments) = Extent(group)
      /\ \A k \in 0 .. group.nsegments - 1 :
            group.IOsegment[k] \in Nat /\ St(k + 1) = St(k) + group.IOsegment[k]
      /\ \A j, k \in 0 .. group.nsegments : St(j) \in Nat /\ (j <= k => St(j) <= St(k))
  BY <1>1 DEF Tiled, St
<1>3. ~group.overlap =>
          /\ group.Isegment \in 0 .. group.nsegments - 1
          /\ group.Ioffset \in 0 .. group.IOsegment[group.Isegment]
          /\ St(group.Isegment) + group.Ioffset = group.Obytes
  BY <1>1 DEF Tiled, St
<1>4. \A k \in 0 .. group.nsegments : St(k) <= Extent(group)
  BY <1>1, <1>2
<1>5. ~group.overlap => group.Ioffset \in Nat /\ group.Obytes <= St(group.Isegment + 1)
  <2> SUFFICES ASSUME ~group.overlap PROVE group.Ioffset \in Nat /\ group.Obytes <= St(group.Isegment + 1)
    OBVIOUS
  <2>1. group.Isegment \in 0 .. group.nsegments - 1 /\ group.IOsegment[group.Isegment] \in Nat
    BY <1>1, <1>2, <1>3
  <2> QED BY <2>1, <1>1, <1>2, <1>3
<1> QED BY <1>2, <1>3, <1>4, <1>5

\* How long ago an index was given out tells which it is.
LEMMA BehindFacts ==
    ASSUME TypeInv
    PROVE  /\ \A i \in Idx : Behind(i, lastidx) \in Idx
           /\ \A i, j \in Idx : Behind(i, lastidx) = Behind(j, lastidx) => i = j
           /\ \A i \in Idx : Behind(i, lastidx) = EC_MAXBUF - 1 <=> i = Succ
           /\ \A i \in Idx : Behind(i, Succ) = IF i = Succ THEN 0 ELSE Behind(i, lastidx) + 1
           /\ Succ \in Idx
<1>1. EC_MAXBUF \in Nat \ {0} /\ lastidx \in 0 .. EC_MAXBUF - 1
  BY ProcessDataAssumption DEF TypeInv, Idx
<1> QED BY <1>1 DEF Behind, Succ, Idx

\* As long as the indexes do not come round, they suffice for the datagrams of a cycle and of those
\* before it that may have frames under way.
LEMMA RotatesFacts ==
    ASSUME TypeInv, Rotates
    PROVE  /\ Datagrams <= EC_MAXBUF
           /\ \A l \in Nat : /\ l * Datagrams \in Nat
                             /\ (l + 1) * Datagrams = l * Datagrams + Datagrams
                             /\ l <= MaxLag => l * Datagrams + Datagrams <= EC_MAXBUF
<1>1. Datagrams \in Nat /\ EC_MAXBUF \in Nat /\ MaxLag \in Nat
  BY GroupFacts, ProcessDataAssumption, GroupMapped
<1> DEFINE D == Datagrams
<1> HIDE DEF D
<1>2. D \in Nat /\ D * (MaxLag + 1) <= EC_MAXBUF
  BY <1>1 DEF Rotates, D
<1>3. D * (MaxLag + 1) = MaxLag * D + D
  BY <1>1, <1>2
<1>4. \A l \in Nat : l * D \in Nat /\ (l + 1) * D = l * D + D
  BY <1>2
<1>5. \A l \in Nat : l <= MaxLag => l * D <= MaxLag * D
  BY <1>1, <1>2
<1>6. MaxLag * D \in Nat
  BY <1>1, <1>4
<1>7. D <= EC_MAXBUF /\ \A l \in Nat : l <= MaxLag => l * D + D <= EC_MAXBUF
  <2>1. MaxLag * D + D <= EC_MAXBUF
    BY <1>2, <1>3
  <2>2. D <= EC_MAXBUF
    BY <2>1, <1>1, <1>2, <1>6
  <2>3. ASSUME NEW l \in Nat, l <= MaxLag PROVE l * D + D <= EC_MAXBUF
    <3> DEFINE x == l * D
               y == MaxLag * D
    <3>1. x \in Nat /\ y \in Nat /\ x <= y /\ y + D <= EC_MAXBUF
      BY <2>1, <2>3, <1>4, <1>5, <1>6
    <3> HIDE DEF x, y
    <3>2. x + D <= EC_MAXBUF
      BY <3>1, <1>1, <1>2
    <3> QED BY <3>2 DEF x
  <2> QED BY <2>2, <2>3
<1> QED BY <1>4, <1>7 DEF D

-----------------------------------------------------------------------------
(* Sending                                                                 *)

\* What the three senders have in common: a datagram is sent and its entry pushed.
NewEntry(len, place) == [idx |-> NewIndex, data |-> place, length |-> len]
Sends(cmd, len, place) ==
    /\ Sending /\ phase' \in {"LRD", "LWR", "LRW", "receive"}
    /\ Transmit(cmd, len, place)
    /\ UNCHANGED <<group, cycle, image, DCtime, result>>
    /\ len \in Nat /\ place = Off + job.adr /\ job.data = job.adr
    /\ cmd = CmdOf(NewEntry(len, place))
    /\ Datagrams <= EC_MAXBUF => Top < Datagrams

\* The index of a datagram is new unless there are none left.
LEMMA SendIndex ==
    ASSUME TypeInv, IndexInv, Sending
    PROVE  /\ NewIndex = Succ /\ NewIndex \in Idx
           /\ Top < EC_MAXBUF => \A k \in 1 .. Top : Entries[k].idx # NewIndex
<1>1. EC_MAXBUF \in Nat \ {0} /\ Top \in Nat /\ Top <= EC_MAXBUF /\ idxstack.pulled = 0
  BY ProcessDataAssumption DEF TypeInv, Sending, Top
<1>2. \A k \in 1 .. Top : Entries[k] \in EntryType
  BY ElementOfSeq DEF TypeInv, Top, Entries
<1>3. Succ \in Idx
  BY BehindFacts
<1>4. CASE Top < EC_MAXBUF
  <2>1. ASSUME NEW k \in 1 .. Top PROVE Entries[k].idx # Succ
    <3>1. Behind(Entries[k].idx, lastidx) = Top - k
      BY <1>4 DEF IndexInv
    <3>2. Entries[k].idx \in Idx
      BY <1>2 DEF EntryType
    <3>3. Top - k # EC_MAXBUF - 1
      BY <1>1, <1>4
    <3>4. Behind(Entries[k].idx, lastidx) # EC_MAXBUF - 1
      BY <3>1, <3>3
    <3> QED BY <3>2, <3>4, BehindFacts
  <2>2. rxbufstat[Succ] # "TX"
    BY <2>1, <1>1, <1>3 DEF IndexInv
  <2>3. rxbufstat[Succ] = "EMPTY"
    BY <2>2, <1>3 DEF TypeInv
  <2> QED BY <2>1, <2>3, NewIndexIs
<1>5. CASE Top = EC_MAXBUF
  <2>1. \A i \in Idx : rxbufstat[i] = "TX"
    BY <1>5 DEF IndexInv
  <2> QED BY <2>1, <1>1, <1>5, NewIndexIs
<1> QED BY <1>1, <1>4, <1>5

\* The entry of a datagram is pushed unless there are too many.
LEMMA SendStack ==
    ASSUME TypeInv, IndexInv, NEW cmd, NEW len, NEW place, Sends(cmd, len, place)
    PROVE  /\ idxstack' \in [entries : Seq(EntryType), pulled : Nat]
           /\ idxstack'.pulled = 0
           /\ \A k \in 1 .. Top : Entries'[k] = Entries[k]
           /\ Top < EC_MAXBUF => Top' = Top + 1 /\ Entries'[Top + 1] = NewEntry(len, place)
           /\ Top = EC_MAXBUF => Top' = Top /\ idxstack' = idxstack
           /\ Top \in Nat /\ Top <= EC_MAXBUF /\ Top' \in Nat /\ Top' <= EC_MAXBUF /\ Top' > 0
           /\ NewEntry(len, place) \in EntryType
<1>1. EC_MAXBUF \in Nat \ {0} /\ Top \in Nat /\ Top <= EC_MAXBUF
  BY ProcessDataAssumption DEF TypeInv, Top, Entries
<1>2. idxstack \in [entries : Seq(EntryType), pulled : Nat] /\ idxstack.pulled = 0
  BY DEF TypeInv, Sends, Sending
<1> DEFINE e == NewEntry(len, place)
<1>3. e \in EntryType
  <2>1. place \in Nat /\ len \in Nat
    <3>1. job.adr \in Nat /\ Off \in Nat
      BY GroupMapped, GroupFacts DEF TypeInv, JobType
    <3> QED BY <3>1 DEF Sends
  <2> QED BY <2>1, SendIndex DEF NewEntry, EntryType, Sends
<1>4. idxstack' = Pushed(e)
  BY DEF Sends, Transmit, NewEntry
<1> HIDE DEF e
<1>5. CASE Top < EC_MAXBUF
  <2>1. idxstack' = [idxstack EXCEPT !.entries = Append(@, e)]
    BY <1>4, <1>5 DEF Pushed, Top, Entries
  <2>2. idxstack'.entries = Append(idxstack.entries, e) /\ idxstack'.pulled = 0
        /\ idxstack' \in [entries : Seq(EntryType), pulled : Nat]
    <3>1. PICK q : q = Append(idxstack.entries, e)
      OBVIOUS
    <3>2. q \in Seq(EntryType)
      BY <1>2, <1>3, <3>1, AppendProperties
    <3>3. idxstack' = [idxstack EXCEPT !.entries = q]
      BY <2>1, <3>1
    <3>4. idxstack'.entries = q /\ idxstack'.pulled = 0 /\ idxstack' \in [entries : Seq(EntryType), pulled : Nat]
      BY <1>2, <3>2, <3>3
    <3> QED BY <3>1, <3>4
  <2>3. /\ Len(idxstack'.entries) = Top + 1
        /\ \A k \in 1 .. Top : idxstack'.entries[k] = idxstack.entries[k]
        /\ idxstack'.entries[Top + 1] = e
    BY <1>2, <1>3, <2>2, AppendProperties DEF Top, Entries
  <2> QED BY <1>1, <1>3, <1>5, <2>2, <2>3 DEF Top, Entries, e
<1>6. CASE Top = EC_MAXBUF
  <2>1. idxstack' = idxstack
    BY <1>4, <1>6 DEF Pushed, Top, Entries
  <2> QED BY <1>1, <1>2, <1>3, <1>6, <2>1 DEF Top, Entries, e
<1> QED BY <1>1, <1>5, <1>6

\* Each datagram takes the index after that of the last one, and the indexes in use stay those of the entries.
LEMMA SendKeepsIndex ==
    ASSUME TypeInv, IndexInv, NEW cmd, NEW len, NEW place, Sends(cmd, len, place)
    PROVE  /\ \A i \in Idx : rxbufstat'[i] = "TX" <=> \E k \in idxstack'.pulled + 1 .. Top' : Entries'[k].idx = i
           /\ \A j, k \in 1 .. Top' : j # k => Entries'[j].idx # Entries'[k].idx
           /\ Top' < EC_MAXBUF \/ Datagrams <= EC_MAXBUF
                  => \A k \in 1 .. Top' : Behind(Entries'[k].idx, lastidx') = Top' - k
           /\ Top' = EC_MAXBUF => \A i \in Idx : rxbufstat'[i] = "TX"
           /\ rxbufstat' \in [Idx -> {"EMPTY", "TX"}]
           /\ lastidx' = Succ
<1>1. EC_MAXBUF \in Nat \ {0} /\ Top \in Nat /\ Top <= EC_MAXBUF /\ idxstack.pulled = 0
          /\ idxstack'.pulled = 0
  BY ProcessDataAssumption, SendStack DEF TypeInv, Sends, Sending
<1>2. \A k \in 1 .. Top : Entries[k].idx \in Idx
  <2>1. \A k \in 1 .. Top : Entries[k] \in EntryType
    BY ElementOfSeq DEF TypeInv, Top, Entries
  <2> QED BY <2>1 DEF EntryType
<1>3. NewIndex = Succ /\ Succ \in Idx /\ (Top < EC_MAXBUF => \A k \in 1 .. Top : Entries[k].idx # Succ)
  BY SendIndex DEF Sends
<1>4. lastidx' = Succ /\ rxbufstat' = [rxbufstat EXCEPT ![Succ] = "TX"]
  BY <1>3 DEF Sends, Transmit
<1>5. rxbufstat \in [Idx -> {"EMPTY", "TX"}]
  BY DEF TypeInv
<1>6. /\ rxbufstat' \in [Idx -> {"EMPTY", "TX"}]
      /\ \A i \in Idx : rxbufstat'[i] = "TX" <=> rxbufstat[i] = "TX" \/ i = Succ
  BY <1>3, <1>4, <1>5
<1>7. CASE Top < EC_MAXBUF
  <2>1. Top' = Top + 1 /\ Entries'[Top + 1].idx = Succ /\ \A k \in 1 .. Top : Entries'[k] = Entries[k]
    <3>1. Top' = Top + 1 /\ Entries'[Top + 1] = NewEntry(len, place)
              /\ \A k \in 1 .. Top : Entries'[k] = Entries[k]
      BY <1>7, SendStack
    <3> QED BY <3>1, <1>3 DEF NewEntry
  <2>2. \A k \in 1 .. Top : Entries'[k].idx = Entries[k].idx /\ Entries'[k].idx # Succ
    BY <1>3, <1>7, <2>1
  <2>3. \A j \in 1 .. Top' : j \in 1 .. Top \/ j = Top + 1
    BY <1>1, <2>1
  <2>4. \A k \in 1 .. Top' : Behind(Entries'[k].idx, lastidx') = Top' - k
    <3> SUFFICES ASSUME NEW k \in 1 .. Top' PROVE Behind(Entries'[k].idx, lastidx') = Top' - k
      OBVIOUS
    <3>1. CASE k = Top + 1
      <4>1. Behind(Succ, lastidx') = 0
        BY <1>3, <1>4, BehindFacts
      <4> QED BY <3>1, <4>1, <2>1, <1>1
    <3>2. CASE k \in 1 .. Top
      <4> DEFINE i == Entries[k].idx
      <4>1. i \in Idx /\ i # Succ /\ Entries'[k].idx = i
        BY <3>2, <2>2, <1>2
      <4>2. Behind(i, lastidx) = Top - k
        BY <1>7, <3>2 DEF IndexInv
      <4> HIDE DEF i
      <4>3. Behind(i, lastidx') = Behind(i, lastidx) + 1
        BY <4>1, <1>4, BehindFacts
      <4> QED BY <4>1, <4>2, <4>3, <2>1, <3>2, <1>1
    <3> QED BY <3>1, <3>2, <2>3
  <2>5. \A i \in Idx : rxbufstat'[i] = "TX" <=> \E k \in idxstack'.pulled + 1 .. Top' : Entries'[k].idx = i
    <3> SUFFICES ASSUME NEW i \in Idx
                 PROVE  rxbufstat'[i] = "TX" <=> \E k \in 1 .. Top' : Entries'[k].idx = i
      BY <1>1
    <3>1. rxbufstat[i] = "TX" <=> \E k \in 1 .. Top : Entries[k].idx = i
      BY <1>1 DEF IndexInv
    <3>2. (\E k \in 1 .. Top' : Entries'[k].idx = i) <=> (\E k \in 1 .. Top : Entries[k].idx = i) \/ i = Succ
      BY <1>1, <2>1, <2>2, <2>3
    <3> QED BY <3>1, <3>2, <1>6
  <2>6. \A j, k \in 1 .. Top' : j # k => Entries'[j].idx # Entries'[k].idx
    BY <2>1, <2>2, <2>3 DEF IndexInv
  <2>7. ASSUME Top' = EC_MAXBUF, NEW i \in Idx PROVE rxbufstat'[i] = "TX"
    <3> DEFINE b == IF i = Succ THEN 0 ELSE Behind(i, lastidx) + 1
    <3>1. Behind(i, lastidx) \in Idx /\ (Behind(i, lastidx) = EC_MAXBUF - 1 <=> i = Succ)
      BY BehindFacts
    <3>2. b \in 0 .. EC_MAXBUF - 1
      BY <3>1, <1>1 DEF Idx
    <3>3. EC_MAXBUF - b \in 1 .. Top'
      BY <3>2, <2>7, <1>1
    <3> DEFINE k == EC_MAXBUF - b
    <3>4. Behind(Entries'[k].idx, lastidx') = b
      BY <2>4, <2>7, <3>2, <3>3, <1>1
    <3>5. Entries'[k].idx \in Idx
      BY <3>3, <2>1, <2>3, <1>2, <1>3
    <3>6. Entries'[k].idx = i
      <4> DEFINE j == Entries'[k].idx
      <4>1. j \in Idx /\ Behind(j, lastidx') = b
        BY <3>4, <3>5
      <4> HIDE DEF j
      <4>2. Behind(j, lastidx') = IF j = Succ THEN 0 ELSE Behind(j, lastidx) + 1
        BY <4>1, <1>4, BehindFacts
      <4>3. Behind(j, lastidx) \in Nat /\ Behind(i, lastidx) \in Nat
        BY <4>1, BehindFacts DEF Idx
      <4>4. j = i
        BY <4>1, <4>2, <4>3, BehindFacts
      <4> QED BY <4>4 DEF j
    <3> QED BY <2>5, <3>3, <3>6, <1>1
  <2> QED BY <1>4, <1>6, <2>4, <2>5, <2>6, <2>7
<1>8. CASE Top = EC_MAXBUF
  <2>1. Top' = Top /\ idxstack' = idxstack
    BY <1>8, SendStack
  <2>2. ~(Datagrams <= EC_MAXBUF)
    <3>1. Datagrams \in Nat
      BY GroupFacts, GroupMapped
    <3> QED BY <3>1, <1>1, <1>8 DEF Sends
  <2>3. \A i \in Idx : rxbufstat[i] = "TX"
    BY <1>8 DEF IndexInv, Sends
  <2>4. \A k : Entries'[k] = Entries[k]
    BY <2>1 DEF Entries
  <2>5. \A i \in Idx : \E k \in 1 .. Top : Entries[k].idx = i
    BY <2>3, <1>1 DEF IndexInv
  <2>6. \A j, k \in 1 .. Top : j # k => Entries[j].idx # Entries[k].idx
    BY DEF IndexInv
  <2> QED BY <1>1, <1>4, <1>6, <1>8, <2>1, <2>2, <2>3, <2>4, <2>5, <2>6
<1> QED BY <1>1, <1>7, <1>8

\* What depends on the group only.
LEMMA GroupSame ==
    ASSUME group' = group
    PROVE  /\ Slaves' = Slaves /\ Outputs' = Outputs /\ Inputs' = Inputs /\ Off' = Off
           /\ Datagrams' = Datagrams /\ Rotates' = Rotates /\ ExpectedWKC' = ExpectedWKC
           /\ OneLength' = OneLength
           /\ \A k : St(k)' = St(k)
           /\ \A e : /\ CmdOf(e)' = CmdOf(e) /\ AdrOf(e)' = AdrOf(e) /\ InSegment(e)' = InSegment(e)
                     /\ ReadersOf(e)' = ReadersOf(e) /\ WritersOf(e)' = WritersOf(e)
<1>1. /\ Slaves' = Slaves /\ Outputs' = Outputs /\ Inputs' = Inputs /\ Off' = Off
      /\ Datagrams' = Datagrams /\ ExpectedWKC' = ExpectedWKC /\ OneLength' = OneLength
      /\ \A k : St(k)' = St(k)
  BY DEF Slaves, Outputs, Inputs, Off, Datagrams, ExpectedWKC, OneLength, St
<1>2. Rotates' = Rotates
  BY <1>1 DEF Rotates
<1>3. \A e : CmdOf(e)' = CmdOf(e) /\ AdrOf(e)' = AdrOf(e)
  BY <1>1 DEF CmdOf, AdrOf
<1>4. \A e : InSegment(e)' = InSegment(e)
  BY <1>1, <1>3 DEF InSegment
<1>5. \A c, s, a, l : Reads(c, s, a, l)' = Reads(c, s, a, l) /\ Writes(c, s, a, l)' = Writes(c, s, a, l)
  BY DEF Reads, Writes
<1>6. ASSUME NEW e PROVE ReadersOf(e)' = ReadersOf(e) /\ WritersOf(e)' = WritersOf(e)
  <2>1. ReadersOf(e)' = {s \in Slaves' : Reads(CmdOf(e), s, AdrOf(e), e.length)'}
    BY <1>3 DEF ReadersOf, Reads
  <2>2. WritersOf(e)' = {s \in Slaves' : Writes(CmdOf(e), s, AdrOf(e), e.length)'}
    BY <1>3 DEF WritersOf, Writes
  <2> QED BY <2>1, <2>2, <1>1, <1>3 DEF ReadersOf, WritersOf, Reads, Writes
<1> QED BY <1>1, <1>2, <1>3, <1>4, <1>6

\* The FMMUs of outputs are among the outputs, those of inputs behind them.
LEMMA MappedBytes ==
    ASSUME WellMapped(group), NEW s \in Slaves, NEW adr \in Nat, NEW len \in Nat
    PROVE  /\ BytesIn(group.outputs[s], adr, len) \subseteq Outputs
           /\ BytesIn(group.inputs[s], adr, len) \subseteq Nat
           /\ ~group.overlap => \A b \in BytesIn(group.inputs[s], adr, len) : b >= group.Obytes
           /\ group.overlap => \A b \in BytesIn(group.inputs[s], adr, len) : b < group.Ibytes
<1>1. /\ InOneSegment(group, group.outputs[s]) /\ InOneSegment(group, group.inputs[s])
      /\ \A j \in DOMAIN group.outputs[s] : group.outputs[s][j].start + group.outputs[s][j].length <= group.Obytes
      /\ ~group.overlap => \A j \in DOMAIN group.inputs[s] : group.Obytes <= group.inputs[s][j].start
      /\ group.overlap => \A j \in DOMAIN group.inputs[s] : group.inputs[s][j].start + group.inputs[s][j].length <= group.Ibytes
  BY DEF WellMapped, SlavesMapped, Slaves
<1>2. group.Obytes \in Nat /\ group.Ibytes \in Nat
  BY GroupFacts
<1>3. /\ \A j \in DOMAIN group.outputs[s] : group.outputs[s][j].start \in Nat
             /\ group.outputs[s][j].length \in Nat
      /\ \A j \in DOMAIN group.inputs[s] : group.inputs[s][j].start \in Nat
             /\ group.inputs[s][j].length \in Nat
  BY <1>1 DEF InOneSegment
<1>4. BytesIn(group.outputs[s], adr, len) \subseteq Outputs
  BY <1>1, <1>2, <1>3 DEF BytesIn, Outputs
<1>5. /\ BytesIn(group.inputs[s], adr, len) \subseteq Nat
      /\ ~group.overlap => \A b \in BytesIn(group.inputs[s], adr, len) : b >= group.Obytes
      /\ group.overlap => \A b \in BytesIn(group.inputs[s], adr, len) : b < group.Ibytes
  BY <1>1, <1>2, <1>3 DEF BytesIn
<1> QED BY <1>4, <1>5

\* Sets of slaves can be counted.
LEMMA SlavesFinite ==
    ASSUME WellMapped(group), NEW S, S \subseteq Slaves
    PROVE  IsFiniteSet(S) /\ Cardinality(S) \in Nat
<1>1. IsFiniteSet(Slaves)
  BY DEF WellMapped, SlavesMapped, Slaves
<1> QED BY <1>1, FS_Subset, FS_CardinalityType

\* The frame of a datagram is the one of its entry, and the outputs it delivers are those of the cycle.
LEMMA SendFrame ==
    ASSUME TypeInv, OutputsInv, NEW cmd, NEW len, NEW place, Sends(cmd, len, place), NewIndex \in Idx,
           NEW e, e = NewEntry(len, place)
    PROVE  \E f : /\ wire' = wire \cup {f}
                  /\ FrameOK(f)'
                  /\ f.idx = NewIndex /\ f.cycle = cycle /\ f.dc = job.first
                  /\ Match(f, e)'
                  /\ \A s \in Slaves : delivered[s] = cycle => delivered'[s] = cycle
                  /\ delivered' \in [Slaves -> Int]
<1>1. PICK alive \in Alive :
          /\ wire' = wire \cup {Returned(NewIndex, cmd, len, alive)}
          /\ delivered' = [s \in Slaves |->
                IF s \in alive /\ Writes(cmd, s, job.adr, len)
                  THEN IF GoodOutputs(s, job.adr, len, job.data) THEN cycle ELSE Junk
                  ELSE delivered[s]]
  BY DEF Sends, Transmit
<1> DEFINE R == {s \in alive : Reads(cmd, s, job.adr, len)}
           W == {s \in alive : Writes(cmd, s, job.adr, len)}
           D == [k \in 0 .. len - 1 |->
                     IF \E s \in R : job.adr + k \in BytesIn(group.inputs[s], job.adr, len)
                       THEN InputOf(cycle)
                       ELSE IF job.data + k \in DOMAIN image THEN image[job.data + k] ELSE Junk]
<1>0. PICK f : f = Returned(NewIndex, cmd, len, alive)
  OBVIOUS
<1>2. /\ f.idx = NewIndex /\ f.dc = job.first /\ f.cmd = cmd /\ f.len = len /\ f.cycle = cycle
      /\ f.wkc = Cardinality(R) + Cardinality(W) * (IF cmd = "LRW" THEN 2 ELSE 1)
      /\ f.data = D
  BY <1>0 DEF Returned
<1>3. /\ job.adr \in Nat /\ job.data = job.adr /\ len \in Nat /\ job.first \in BOOLEAN
             /\ place = Off + job.adr
      /\ cycle \in Nat /\ cycle > 0 /\ cycle \in 1 .. cycle /\ cycle' = cycle /\ group' = group
             /\ image' = image
  BY ProcessDataAssumption DEF TypeInv, JobType, Sends, Sending
<1>4. Off \in Nat /\ AdrOf(e) = job.adr /\ CmdOf(e) = cmd /\ e.length = len /\ e.data = place
      /\ cmd \in {"LRD", "LWR", "LRW"}
  <2>1. Off \in Nat /\ CmdOf(e) = cmd /\ e.length = len /\ e.data = place
    BY GroupFacts DEF NewEntry, Sends, TypeInv
  <2> QED BY <2>1, <1>3 DEF AdrOf, CmdOf
<1>5. alive \subseteq Slaves /\ R \subseteq ReadersOf(e) /\ W \subseteq WritersOf(e)
  <2>1. alive \subseteq Slaves
    BY DEF Alive
  <2> QED BY <2>1, <1>4 DEF ReadersOf, WritersOf
<1>6. Cardinality(R) \in Nat /\ Cardinality(W) \in Nat
  BY <1>5, SlavesFinite, GroupMapped
<1>7. D \in [0 .. len - 1 -> Values(cycle)]
  <2>1. InputOf(cycle) \in Values(cycle) /\ Junk \in Values(cycle)
    BY <1>3 DEF Values
  <2>2. \A b \in DOMAIN image : image[b] \in Values(cycle)
    BY DEF TypeInv
  <2> QED BY <2>1, <2>2
<1>8. FrameOK(f)'
  <2>1. f.wkc \in Nat
    BY <1>2, <1>6
  <2> HIDE DEF D
  <2> QED BY <1>2, <1>3, <1>4, <1>7, <2>1 DEF FrameOK, Values
<1>9. \A b \in Outputs : image[b] = OutputOf(cycle)
  BY DEF OutputsInv, Sends, Sending
<1>10. ASSUME NEW s \in Slaves PROVE GoodOutputs(s, job.adr, len, job.data)
  BY <1>3, <1>9, MappedBytes, GroupMapped DEF GoodOutputs
<1>11. /\ \A s \in Slaves : delivered[s] = cycle => delivered'[s] = cycle
       /\ \A s \in W : delivered'[s] = cycle
       /\ delivered' \in [Slaves -> Int]
  <2>1. delivered' = [s \in Slaves |-> IF s \in W THEN cycle ELSE delivered[s]]
    BY <1>1, <1>10, <1>5
  <2>2. delivered \in [Slaves -> Int]
    BY DEF TypeInv
  <2>3. W \subseteq Slaves /\ cycle \in Int
    BY <1>3, <1>5
  <2> HIDE DEF W
  <2> QED BY <2>1, <2>2, <2>3
<1>12. cmd # "LWR" => \A i \in 0 .. len - 1 : place + i \in Outputs => f.data[i] = OutputOf(cycle)
  <2> SUFFICES ASSUME cmd # "LWR", NEW i \in 0 .. len - 1, place + i \in Outputs
               PROVE  f.data[i] = OutputOf(cycle)
    OBVIOUS
  <2>1. place + i < group.Obytes /\ place \in Nat /\ i \in Nat /\ group.Obytes \in Nat
    <3>1. place \in Nat /\ i \in Nat /\ group.Obytes \in Nat
      <4>1. group.Obytes \in Nat
        BY GroupFacts, GroupMapped
      <4>2. place \in Nat
        BY <1>3, <1>4
      <4> QED BY <4>1, <4>2
    <3> QED BY <3>1 DEF Outputs
  <2>2. ~group.blockLRW /\ ~group.overlap /\ place = job.adr
    <3>1. group.overlap => Off = group.Obytes
      BY GroupFacts, GroupMapped
    <3>2. ~group.overlap => Off = 0
      BY GroupFacts, GroupMapped
    <3>3. ~group.overlap
      BY <3>1, <2>1, <1>3
    <3>4. ~group.blockLRW
      BY <2>1, <1>4 DEF CmdOf
    <3> QED BY <3>2, <3>3, <3>4, <1>3
  <2>3. \A s \in R : job.adr + i \notin BytesIn(group.inputs[s], job.adr, len)
    <3> SUFFICES ASSUME NEW s \in R, job.adr + i \in BytesIn(group.inputs[s], job.adr, len) PROVE FALSE
      OBVIOUS
    <3>1. s \in Slaves
      BY <1>5
    <3>2. job.adr + i >= group.Obytes
      BY <3>1, <2>2, <1>3, MappedBytes, GroupMapped
    <3> QED BY <3>2, <2>1, <2>2, <1>3
  <2>4. job.data + i \in DOMAIN image
    <3>1. DOMAIN image = 0 .. IOmapSize(group) - 1 /\ group.Ibytes \in Nat
              /\ IOmapSize(group) = group.Obytes + group.Ibytes
      BY GroupFacts, GroupMapped DEF TypeInv
    <3> QED BY <3>1, <2>1, <2>2, <1>3
  <2>5. f.data[i] = image[job.data + i]
    <3> HIDE DEF R
    <3> QED BY <2>3, <2>4, <1>2
  <2> QED BY <2>5, <2>2, <1>3, <1>9
<1>13. \A s \in R : \A b \in BytesIn(group.inputs[s], job.adr, len) : f.data[b - job.adr] = InputOf(cycle)
  <2> SUFFICES ASSUME NEW s \in R, NEW b \in BytesIn(group.inputs[s], job.adr, len)
               PROVE  f.data[b - job.adr] = InputOf(cycle)
    OBVIOUS
  <2>1. b \in job.adr .. job.adr + len - 1
    BY DEF BytesIn
  <2>2. b - job.adr \in 0 .. len - 1 /\ job.adr + (b - job.adr) = b
    BY <2>1, <1>3
  <2> HIDE DEF R
  <2> QED BY <2>2, <1>2
<1>14. f.wkc * Twice(f) = Cardinality(R) + 2 * Cardinality(W)
  <2>1. cmd = "LWR" => R = {}
    BY DEF Reads
  <2>2. cmd = "LRD" => W = {}
    BY DEF Writes
  <2>3. Cardinality({}) = 0
    BY FS_EmptySet
  <2> DEFINE r == Cardinality(R)
             w == Cardinality(W)
  <2>4. /\ r \in Nat /\ w \in Nat
        /\ cmd = "LWR" => r = 0
        /\ cmd = "LRD" => w = 0
    BY <2>1, <2>2, <2>3, <1>6
  <2>5. f.wkc = r + w * (IF cmd = "LRW" THEN 2 ELSE 1) /\ Twice(f) = IF cmd = "LWR" THEN 2 ELSE 1
    BY <1>2 DEF Twice
  <2> HIDE DEF r, w, R, W
  <2>6. f.wkc * Twice(f) = r + 2 * w
    BY <2>4, <2>5, <1>4
  <2> QED BY <2>6 DEF r, w
<1>15. Match(f, e)'
  <2> HIDE DEF R, W
  <2>1. f.len = e.length /\ f.cmd = CmdOf(e)
    BY <1>2, <1>4
  <2>2. f.cmd # "LWR" => \A i \in 0 .. f.len - 1 : e.data + i \in Outputs => f.data[i] = OutputOf(cycle)
    BY <1>2, <1>4, <1>12
  <2>3. /\ R \in SUBSET ReadersOf(e) /\ W \in SUBSET WritersOf(e)
        /\ f.wkc * Twice(f) = Cardinality(R) + 2 * Cardinality(W)
        /\ \A s \in W : delivered'[s] = cycle
        /\ \A s \in R : \A b \in BytesIn(group.inputs[s], AdrOf(e), e.length) :
              f.data[b - AdrOf(e)] = InputOf(cycle)
    BY <1>4, <1>5, <1>11, <1>13, <1>14
  <2>4. \E readers \in SUBSET ReadersOf(e), writers \in SUBSET WritersOf(e) :
          /\ f.wkc * Twice(f) = Cardinality(readers) + 2 * Cardinality(writers)
          /\ \A s \in writers : delivered'[s] = cycle
          /\ \A s \in readers : \A b \in BytesIn(group.inputs[s], AdrOf(e), e.length) :
                f.data[b - AdrOf(e)] = InputOf(cycle)
    BY <2>3
  <2> QED BY <1>3, <2>1, <2>2, <2>4, GroupSame DEF Match
<1> QED BY <1>0, <1>1, <1>2, <1>8, <1>11, <1>15

\* The frames under way keep telling what they are.
LEMMA SendWire ==
    ASSUME TypeInv, IndexInv, JobInv, OutputsInv, WireInv,
           NEW cmd, NEW len, NEW place, Sends(cmd, len, place)
    PROVE  WireInv' /\ (\A f \in wire' : FrameOK(f)') /\ delivered' \in [Slaves -> Int]
<1>1. NewIndex = Succ /\ Succ \in Idx /\ lastidx' = Succ
  BY SendIndex, BehindFacts, SendKeepsIndex DEF Sends
<1> DEFINE e == NewEntry(len, place)
<1>2. PICK d : d = NewEntry(len, place)
  OBVIOUS
<1>3. PICK n : /\ wire' = wire \cup {n}
               /\ FrameOK(n)'
               /\ n.idx = Succ /\ n.cycle = cycle /\ n.dc = job.first
               /\ Match(n, d)'
               /\ \A s \in Slaves : delivered[s] = cycle => delivered'[s] = cycle
               /\ delivered' \in [Slaves -> Int]
  BY <1>1, <1>2, SendFrame
<1>4. group' = group /\ cycle' = cycle /\ phase \in {"LRD", "LWR", "LRW"} /\ phase # "app" /\ phase' # "app"
  BY DEF Sends, Sending
<1>5. Slaves' = Slaves /\ Outputs' = Outputs /\ Rotates' = Rotates /\ Datagrams' = Datagrams
      /\ \A x : CmdOf(x)' = CmdOf(x) /\ AdrOf(x)' = AdrOf(x) /\ ReadersOf(x)' = ReadersOf(x)
             /\ WritersOf(x)' = WritersOf(x)
  BY <1>4, GroupSame
<1>6. \A f \in wire : FrameOK(f)'
  <2>1. \A f \in wire : FrameOK(f)
    BY DEF TypeInv
  <2> QED BY <2>1, <1>4 DEF FrameOK, Values
<1>7. ASSUME Rotates PROVE WireInv'
  <2>1. Datagrams <= EC_MAXBUF /\ Datagrams \in Nat /\ Top < Datagrams
    BY <1>7, RotatesFacts, GroupFacts DEF Sends, TypeInv
  <2>2. Top \in Nat /\ Top < EC_MAXBUF /\ EC_MAXBUF \in Nat
    BY <2>1, SendStack, ProcessDataAssumption
  <2>3. Top' = Top + 1 /\ Entries'[Top + 1] = d /\ \A k \in 1 .. Top : Entries'[k] = Entries[k]
    BY <1>2, <2>2, SendStack
  <2>4. ASSUME NEW f \in wire
        PROVE  /\ Lag(f)' = Lag(f) /\ Lag(f) <= MaxLag
               /\ f.cycle < cycle => Top' <= Behind(f.idx, lastidx')
                      /\ Behind(f.idx, lastidx') < Top' + Lag(f) * Datagrams
               /\ f.cycle = cycle =>
                     \E k \in 1 .. Top' : \E x \in {Entries'[k]} :
                         x.idx = f.idx /\ Match(f, x)' /\ (f.dc <=> group.hasdc /\ k = 1)
    <3>1. /\ Lag(f) <= MaxLag
          /\ f.cycle < cycle => Top <= Behind(f.idx, lastidx)
                 /\ Behind(f.idx, lastidx) < Top + Lag(f) * Datagrams
          /\ f.cycle = cycle =>
                \E k \in 1 .. Top : \E x \in {Entries[k]} :
                    x.idx = f.idx /\ Match(f, x) /\ (f.dc <=> group.hasdc /\ k = 1)
      BY <1>4, <1>7 DEF WireInv
    <3>2. Lag(f)' = Lag(f)
      BY <1>4 DEF Lag
    <3>3. f.idx \in Idx /\ f.cycle \in 1 .. cycle /\ cycle \in Nat
      BY DEF TypeInv, FrameOK
    <3>4. ASSUME f.cycle < cycle
          PROVE  Top' <= Behind(f.idx, lastidx') /\ Behind(f.idx, lastidx') < Top' + Lag(f) * Datagrams
      <4>1. Lag(f) \in Nat
        BY <3>3 DEF Lag
      <4>2. Lag(f) * Datagrams \in Nat /\ Lag(f) * Datagrams + Datagrams <= EC_MAXBUF
        BY <4>1, <3>1, <1>7, RotatesFacts
      <4> DEFINE x == Lag(f) * Datagrams
                 y == Behind(f.idx, lastidx)
      <4>3. x \in Nat /\ x + Datagrams <= EC_MAXBUF /\ Top <= y /\ y < Top + x
        BY <4>2, <3>1, <3>4
      <4>4. y \in Nat
        BY <3>3, BehindFacts DEF Idx
      <4> HIDE DEF x
      <4>5. y # EC_MAXBUF - 1
        <5> HIDE DEF y
        <5> QED BY <4>3, <4>4, <2>1, <2>2
      <4>6. Behind(f.idx, Succ) = y + 1
        BY <4>5, <3>3, BehindFacts
      <4>7. Top + 1 <= y + 1 /\ y + 1 < Top + 1 + x
        <5> HIDE DEF y
        <5> QED BY <4>3, <4>4, <2>2
      <4> QED BY <4>6, <4>7, <1>1, <2>3 DEF x
    <3>5. ASSUME f.cycle = cycle
          PROVE  \E k \in 1 .. Top' : \E x \in {Entries'[k]} :
                         x.idx = f.idx /\ Match(f, x)' /\ (f.dc <=> group.hasdc /\ k = 1)
      <4>1. PICK k \in 1 .. Top : \E x \in {Entries[k]} :
                    x.idx = f.idx /\ Match(f, x) /\ (f.dc <=> group.hasdc /\ k = 1)
        BY <3>1, <3>5
      <4>2. PICK x \in {Entries[k]} : x.idx = f.idx /\ Match(f, x) /\ (f.dc <=> group.hasdc /\ k = 1)
        BY <4>1
      <4>3. k \in 1 .. Top' /\ x \in {Entries'[k]}
        BY <4>1, <4>2, <2>2, <2>3
      <4>4. Match(f, x)'
        <5>1. PICK readers \in SUBSET ReadersOf(x), writers \in SUBSET WritersOf(x) :
                /\ f.wkc * Twice(f) = Cardinality(readers) + 2 * Cardinality(writers)
                /\ \A s \in writers : delivered[s] = cycle
                /\ \A s \in readers : \A b \in BytesIn(group.inputs[s], AdrOf(x), x.length) :
                      f.data[b - AdrOf(x)] = InputOf(cycle)
          BY <4>2 DEF Match
        <5>2. \A s \in writers : delivered'[s] = cycle'
          BY <5>1, <1>3, <1>4 DEF WritersOf
        <5>3. /\ readers \in SUBSET ReadersOf(x)' /\ writers \in SUBSET WritersOf(x)'
              /\ \A s \in readers : \A b \in BytesIn(group'.inputs[s], AdrOf(x)', x.length) :
                      f.data[b - AdrOf(x)'] = InputOf(cycle')
          BY <5>1, <1>4, <1>5
        <5>4. /\ f.len = x.length /\ f.cmd = CmdOf(x)'
              /\ f.cmd # "LWR" => \A i \in 0 .. f.len - 1 : x.data + i \in Outputs'
                     => f.data[i] = OutputOf(cycle')
          BY <4>2, <1>4, <1>5 DEF Match
        <5>5. \E r \in SUBSET ReadersOf(x)', w \in SUBSET WritersOf(x)' :
                /\ f.wkc * Twice(f) = Cardinality(r) + 2 * Cardinality(w)
                /\ \A s \in w : delivered'[s] = cycle'
                /\ \A s \in r : \A b \in BytesIn(group'.inputs[s], AdrOf(x)', x.length) :
                      f.data[b - AdrOf(x)'] = InputOf(cycle')
          BY <5>1, <5>2, <5>3
        <5> QED BY <5>4, <5>5 DEF Match
      <4> QED BY <4>2, <4>3, <4>4
    <3> QED BY <3>1, <3>2, <3>4, <3>5
  <2>5. /\ Lag(n)' = 0 /\ MaxLag \in Nat
        /\ \E k \in 1 .. Top' : \E x \in {Entries'[k]} :
                         x.idx = n.idx /\ Match(n, x)' /\ (n.dc <=> group.hasdc /\ k = 1)
    <3>1. Lag(n)' = 0 /\ MaxLag \in Nat
      BY <1>3, <1>4, ProcessDataAssumption DEF Lag, TypeInv
    <3>2. d.idx = n.idx
      BY <1>1, <1>2, <1>3 DEF NewEntry
    <3>3. n.dc <=> group.hasdc /\ Top = 0
      BY <1>3 DEF JobInv, Sends
    <3>4. Top + 1 \in 1 .. Top' /\ d \in {Entries'[Top + 1]} /\ (n.dc <=> group.hasdc /\ Top + 1 = 1)
      BY <2>2, <2>3, <3>3
    <3> QED BY <3>1, <3>2, <3>4, <1>3
  <2>6. \A f \in wire' :
        /\ Lag(f)' <= MaxLag
        /\ f.cycle < cycle' => Top' <= Behind(f.idx, lastidx')
               /\ Behind(f.idx, lastidx') < Top' + Lag(f)' * Datagrams'
        /\ f.cycle = cycle' =>
              \E k \in 1 .. Top' : \E x \in {Entries'[k]} :
                  x.idx = f.idx /\ Match(f, x)' /\ (f.dc <=> group'.hasdc /\ k = 1)
    <3> SUFFICES ASSUME NEW f \in wire'
                 PROVE  /\ Lag(f)' <= MaxLag
                        /\ f.cycle < cycle' => Top' <= Behind(f.idx, lastidx')
                               /\ Behind(f.idx, lastidx') < Top' + Lag(f)' * Datagrams'
                        /\ f.cycle = cycle' =>
                              \E k \in 1 .. Top' : \E x \in {Entries'[k]} :
                                  x.idx = f.idx /\ Match(f, x)' /\ (f.dc <=> group'.hasdc /\ k = 1)
      OBVIOUS
    <3>1. CASE f \in wire
      BY <3>1, <2>4, <1>4, <1>5
    <3>2. CASE f = n
      <4>1. ~(n.cycle < cycle')
        BY <1>3, <1>4 DEF TypeInv
      <4> QED BY <3>2, <4>1, <2>5, <1>4
    <3> QED BY <3>1, <3>2, <1>3
  <2> QED BY <2>6, <1>4, <1>5 DEF WireInv
<1>8. WireInv'
  <2>1. CASE ~Rotates
    BY <2>1, <1>5 DEF WireInv
  <2> QED BY <2>1, <1>7
<1> QED BY <1>3, <1>6, <1>8

\* What a sender leaves behind whatever its command.
LEMMA SendRestKept ==
    ASSUME CycInv, NEW cmd, NEW len, NEW place, Sends(cmd, len, place), BeginReceive(phase'), job' \in JobType
    PROVE  TypeInv' /\ IndexInv' /\ FirstInv' /\ WireInv' /\ OutputsInv' /\ WkcInv' /\ ResultInv'
<1> USE DEF CycInv
<1>1. group' = group /\ cycle' = cycle /\ image' = image /\ DCtime' = DCtime /\ result' = result
      /\ phase \in {"LRD", "LWR", "LRW"} /\ phase' \in {"LRD", "LWR", "LRW", "receive"}
  BY DEF Sends, Sending
<1>2. Slaves' = Slaves /\ Outputs' = Outputs /\ Rotates' = Rotates /\ Datagrams' = Datagrams
      /\ WellMapped(group)' /\ IOmapSize(group)' = IOmapSize(group)
  BY <1>1, GroupSame DEF TypeInv
<1>3. received' = IF phase' = "receive" THEN [NoReceive EXCEPT !.first = group.hasdc] ELSE received
  BY DEF BeginReceive
<1>4. group.hasdc \in BOOLEAN /\ received \in [first : BOOLEAN, wkc : Nat, valid : BOOLEAN]
  BY GroupFacts, GroupMapped DEF TypeInv
<1>5. /\ [NoReceive EXCEPT !.first = group.hasdc] \in [first : BOOLEAN, wkc : Nat, valid : BOOLEAN]
      /\ [NoReceive EXCEPT !.first = group.hasdc].first = group.hasdc
      /\ [NoReceive EXCEPT !.first = group.hasdc].wkc = 0
      /\ [NoReceive EXCEPT !.first = group.hasdc].valid = FALSE
  <2>1. NoReceive \in [first : BOOLEAN, wkc : Nat, valid : BOOLEAN] /\ NoReceive.wkc = 0
            /\ NoReceive.valid = FALSE
    BY DEF NoReceive
  <2> QED BY <2>1, <1>4
<1>6. IndexInv'
  BY <1>1, <1>2, SendKeepsIndex DEF IndexInv, Behind, Sending
<1>7. WireInv' /\ (\A f \in wire' : FrameOK(f)') /\ delivered' \in [Slaves -> Int]
  BY SendWire
<1>8. DCl' = (IF job.first THEN len ELSE DCl) /\ len \in Nat /\ DCl \in Nat
  BY DEF Sends, Transmit, TypeInv
<1>9. TypeInv'
  <2>1. /\ idxstack' \in [entries : Seq(EntryType), pulled : Nat]
        /\ idxstack'.pulled = 0 /\ Top' \in Nat /\ Top' <= EC_MAXBUF
    BY SendStack
  <2>2. rxbufstat' \in [Idx -> {"EMPTY", "TX"}] /\ lastidx' \in Idx
    BY SendKeepsIndex, BehindFacts
  <2>3. received' \in [first : BOOLEAN, wkc : Nat, valid : BOOLEAN]
    BY <1>3, <1>4, <1>5
  <2>4. /\ cycle \in 0 .. MaxCycles /\ cycle > 0 /\ image \in [0 .. IOmapSize(group) - 1 -> Values(cycle)]
        /\ DCtime \in {Junk} \cup 0 .. cycle /\ result \in Int /\ result >= EC_NOFRAME
    BY <1>1 DEF TypeInv
  <2>5. DCl' \in Nat
    BY <1>8
  <2>6. image' \in [0 .. IOmapSize(group)' - 1 -> Values(cycle')]
    BY <2>4, <1>1, <1>2
  <2>7. cycle' \in 0 .. MaxCycles /\ cycle' > 0 /\ DCtime' \in {Junk} \cup 0 .. cycle'
            /\ result' \in Int /\ result' >= EC_NOFRAME
    BY <2>4, <1>1
  <2>8. idxstack'.pulled <= Top'
    BY <2>1
  <2>9. phase' # "app" /\ phase' \in {"app", "LRD", "LWR", "LRW", "receive"}
    BY <1>1
  <2> QED BY <2>1, <2>2, <2>3, <2>5, <2>6, <2>7, <2>8, <2>9, <1>2, <1>7 DEF TypeInv, Values
<1>10. FirstInv'
  <2>1. job.first <=> group.hasdc /\ Top = 0
    BY DEF JobInv, Sends
  <2>2. /\ \A k \in 1 .. Top : Entries'[k] = Entries[k]
        /\ Top < EC_MAXBUF => Top' = Top + 1 /\ Entries'[Top + 1].length = len
        /\ Top = EC_MAXBUF => Top' = Top
        /\ Top \in Nat /\ Top <= EC_MAXBUF /\ Top' \in Nat
    <3>1. NewEntry(len, place).length = len
      BY DEF NewEntry
    <3> QED BY <3>1, SendStack
  <2>3. EC_MAXBUF \in Nat \ {0}
    BY ProcessDataAssumption
  <2>4. group.hasdc => DCl' = Entries'[1].length
    <3>1. CASE Top = 0
      BY <3>1, <2>1, <2>2, <2>3, <1>8
    <3>2. CASE Top # 0
      BY <3>2, <2>1, <2>2, <1>8 DEF FirstInv
    <3> QED BY <3>1, <3>2
  <2>5. received'.first => group.hasdc /\ ~received'.valid /\ received'.wkc = 0
    BY <1>3, <1>5 DEF FirstInv
  <2>6. phase' = "receive" => received' = [NoReceive EXCEPT !.first = group.hasdc]
    BY <1>3
  <2> QED BY <2>4, <2>5, <2>6, <1>1 DEF FirstInv
<1>11. OutputsInv'
  <2>1. \A b \in Outputs : image[b] = OutputOf(cycle)
    BY <1>1 DEF OutputsInv
  <2> QED BY <2>1, <1>1, <1>2 DEF OutputsInv
<1>12. WkcInv'
  <2> SUFFICES ASSUME phase' = "receive"
               PROVE  /\ received'.wkc <= 2 * Cardinality(Wrote(idxstack.pulled))' + Cardinality(Read(idxstack.pulled))'
                      /\ \A s \in Wrote(idxstack.pulled)' : delivered'[s] = cycle'
                      /\ idxstack'.pulled = 0
    BY DEF WkcInv
  <2>1. idxstack'.pulled = 0
    BY SendStack
  <2>2. Wrote(idxstack.pulled)' = {} /\ Read(idxstack.pulled)' = {}
    BY <2>1 DEF Wrote, Read
  <2>3. Cardinality(Wrote(idxstack.pulled))' = 0 /\ Cardinality(Read(idxstack.pulled))' = 0
    BY <2>2, FS_EmptySet
  <2>4. received'.wkc = 0
    BY <1>3, <1>5
  <2> QED BY <2>1, <2>2, <2>3, <2>4
<1>13. ResultInv'
  BY <1>1 DEF ResultInv, WkcVouches, CycleDone
<1> QED BY <1>6, <1>7, <1>9, <1>10, <1>11, <1>12, <1>13

\* The place of the new entry is not that of another one.
LEMMA SendPlaces ==
    ASSUME TypeInv, IndexInv, PlaceInv, NEW cmd, NEW len, NEW place, Sends(cmd, len, place),
           \A k \in 1 .. Top : \A e \in {Entries[k]} : PlaceOK(e)'
               /\ (EndOf(e) <= place \/ place + len <= e.data),
           \A n : n = NewEntry(len, place) => PlaceOK(n)' /\ InSegment(n)
    PROVE  PlaceInv'
<1>1. PICK n : n = NewEntry(len, place)
  OBVIOUS
<1>2. /\ \A k \in 1 .. Top : Entries'[k] = Entries[k]
      /\ Top < EC_MAXBUF => Top' = Top + 1 /\ Entries'[Top + 1] = n
      /\ Top = EC_MAXBUF => Top' = Top
      /\ Top \in Nat /\ Top <= EC_MAXBUF
  BY <1>1, SendStack
<1>3. EC_MAXBUF \in Nat
  BY ProcessDataAssumption
<1>4. \A e : InSegment(e)' = InSegment(e)
  BY GroupSame DEF Sends
<1>5. n.data = place /\ n.length = len
  BY <1>1 DEF NewEntry
<1>6. \A k \in 1 .. Top' : k \in 1 .. Top \/ (k = Top + 1 /\ Entries'[k] = n)
  BY <1>2, <1>3
<1>7. \A k \in 1 .. Top' : \A e \in {Entries'[k]} : PlaceOK(e)' /\ InSegment(e)'
  <2> SUFFICES ASSUME NEW k \in 1 .. Top', NEW e, e = Entries'[k]
               PROVE  PlaceOK(e)' /\ InSegment(e)'
    OBVIOUS
  <2>1. CASE k \in 1 .. Top
    <3>1. e = Entries[k]
      BY <2>1, <1>2
    <3>2. InSegment(e)
      BY <2>1, <3>1 DEF PlaceInv
    <3> QED BY <2>1, <3>1, <3>2, <1>4
  <2>2. CASE e = n
    BY <2>2, <1>1, <1>4
  <2> QED BY <2>1, <2>2, <1>6
<1>8. \A j, k \in 1 .. Top' :
         j < k => Entries'[j].data + Entries'[j].length <= Entries'[k].data
             \/ Entries'[k].data + Entries'[k].length <= Entries'[j].data
  <2> SUFFICES ASSUME NEW j \in 1 .. Top', NEW k \in 1 .. Top', j < k
               PROVE  Entries'[j].data + Entries'[j].length <= Entries'[k].data
                          \/ Entries'[k].data + Entries'[k].length <= Entries'[j].data
    OBVIOUS
  <2>1. j \in 1 .. Top
    BY <1>6, <1>2
  <2>2. Entries'[j] = Entries[j]
    BY <2>1, <1>2
  <2>3. CASE k \in 1 .. Top
    <3>1. Entries'[k] = Entries[k]
      BY <2>3, <1>2
    <3> QED BY <2>1, <2>2, <2>3, <3>1 DEF PlaceInv, EndOf
  <2>4. CASE Entries'[k] = n
    BY <2>1, <2>2, <2>4, <1>5 DEF EndOf
  <2> QED BY <2>3, <2>4, <1>6
<1> QED BY <1>7, <1>8 DEF PlaceInv, EndOf

\* The entries cover what they covered and the place of the new one.
LEMMA SendCovers ==
    ASSUME TypeInv, IndexInv, NEW cmd, NEW len, NEW place, Sends(cmd, len, place), Datagrams <= EC_MAXBUF,
           NEW b \in Int,
           (\E k \in 1 .. Top : Entries[k].data <= b /\ b < EndOf(Entries[k]))
               \/ (place <= b /\ b < place + len)
    PROVE  \E k \in 1 .. Top' : Entries'[k].data <= b /\ b < Entries'[k].data + Entries'[k].length
<1>1. Datagrams \in Nat /\ EC_MAXBUF \in Nat
  BY GroupFacts, ProcessDataAssumption, GroupMapped
<1>2. Top < EC_MAXBUF /\ Top \in Nat
  BY <1>1, SendStack DEF Sends
<1>3. PICK n : n = NewEntry(len, place)
  OBVIOUS
<1>4. Top' = Top + 1 /\ Entries'[Top + 1] = n /\ \A k \in 1 .. Top : Entries'[k] = Entries[k]
  BY <1>2, <1>3, SendStack
<1>5. n.data = place /\ n.length = len
  BY <1>3 DEF NewEntry
<1> QED BY <1>2, <1>4, <1>5 DEF EndOf

\* The send loop for outputs and inputs together keeps the invariant.
LEMMA SendLRWKept ==
    ASSUME CycInv, SendLRW
    PROVE  CycInv'
<1> USE DEF CycInv
<1> DEFINE i == job.segment
           len == group.IOsegment[i]
           place == job.data + (IF group.overlap THEN group.Obytes ELSE 0)
<1>0. /\ group.Obytes \in Nat /\ group.Ibytes \in Nat /\ group.nsegments \in Nat
             /\ Extent(group) \in Nat /\ Off \in Nat
      /\ group.overlap => Off = group.Obytes /\ Extent(group) >= group.Ibytes
      /\ ~group.overlap => Off = 0 /\ Extent(group) = group.Obytes + group.Ibytes
  BY GroupFacts, GroupMapped
<1>1. /\ phase = "LRW" /\ ~group.blockLRW /\ i \in Nat /\ i < group.nsegments
             /\ i + 1 \in 0 .. group.nsegments
      /\ job.adr = St(i) /\ job.data = job.adr /\ job.length = Extent(group) - job.adr
      /\ group' = group
  <2>1. job.segment \in Nat /\ group.nsegments \in Nat
    BY GroupFacts DEF TypeInv, JobType
  <2> QED BY <2>1 DEF SendLRW, JobInv, SendRest
<1>2. St(i) \in Nat /\ len \in Nat /\ St(i + 1) = St(i) + len /\ St(i + 1) \in Nat
          /\ St(i + 1) <= Extent(group)
      /\ St(group.nsegments) = Extent(group) /\ Extent(group) \in Nat
  <2>1. i \in 0 .. group.nsegments - 1 /\ i \in 0 .. group.nsegments
    BY <1>1, GroupFacts, GroupMapped
  <2> HIDE DEF i
  <2> QED BY <2>1, <1>1, SegmentFacts, GroupFacts, GroupMapped
<1>3. place = Off + job.adr /\ Off \in Nat
  BY <1>1, <1>2, GroupFacts, GroupMapped DEF Off
<1>4. Transmit("LRW", len, place) /\ Advance(len, "receive") /\ BeginReceive(phase')
  BY DEF SendLRW
<1>5. \/ /\ phase' = "LRW" /\ i + 1 < group.nsegments /\ St(i + 1) # Extent(group)
         /\ job' = [adr |-> St(i + 1), length |-> Extent(group) - St(i + 1), data |-> St(i + 1),
                segment |-> i + 1, first |-> FALSE]
      \/ phase' = "receive" /\ job' = NoJob /\ St(i + 1) = Extent(group)
  <2> DEFINE j == [adr |-> job.adr + len, length |-> job.length - len, data |-> job.data + len,
                   segment |-> i + 1, first |-> FALSE]
  <2>1. /\ j.length # 0 /\ j.segment < group.nsegments => phase' = phase /\ job' = j
        /\ ~(j.length # 0 /\ j.segment < group.nsegments) => phase' = "receive" /\ job' = NoJob
    BY <1>4 DEF Advance
  <2>2. j = [adr |-> St(i + 1), length |-> Extent(group) - St(i + 1), data |-> St(i + 1),
            segment |-> i + 1, first |-> FALSE]
    <3>1. job.adr + len = St(i + 1) /\ job.length - len = Extent(group) - St(i + 1)
              /\ job.data + len = St(i + 1)
      <4> HIDE DEF len, i
      <4> QED BY <1>1, <1>2
    <3> QED BY <3>1
  <2>3. j.length = Extent(group) - St(i + 1) /\ j.segment = i + 1
    BY <2>2
  <2> HIDE DEF j, i
  <2>4. CASE j.length # 0 /\ j.segment < group.nsegments
    BY <2>1, <2>2, <2>3, <2>4, <1>1, <1>2
  <2>5. CASE ~(j.length # 0 /\ j.segment < group.nsegments)
    <3>1. i + 1 = group.nsegments \/ St(i + 1) = Extent(group)
      <4>1. Extent(group) - St(i + 1) = 0 \/ ~(i + 1 < group.nsegments)
        BY <2>3, <2>5
      <4> QED BY <4>1, <1>0, <1>1, <1>2
    <3> QED BY <2>1, <2>5, <3>1, <1>2
  <2> QED BY <2>4, <2>5
<1>6. \A n : n = NewEntry(len, place) =>
         n.data = Off + job.adr /\ n.length = len /\ CmdOf(n) = "LRW" /\ AdrOf(n) = job.adr
  <2>1. \A n : n = NewEntry(len, place) => n.data = Off + job.adr /\ n.length = len
    BY <1>3 DEF NewEntry
  <2> QED BY <2>1, <1>1, <1>2, <1>3 DEF CmdOf, AdrOf
<1>7. Sends("LRW", len, place)
  <2>1. UNCHANGED <<group, cycle, image, DCtime, result>> /\ Sending
            /\ phase' \in {"LRD", "LWR", "LRW", "receive"}
    BY <1>1, <1>5 DEF SendLRW, SendRest, Sending
  <2>2. Datagrams <= EC_MAXBUF => Top < Datagrams
    <3>1. Datagrams \in Nat /\ Datagrams >= group.nsegments /\ group.nsegments \in Nat
      BY GroupFacts, GroupMapped
    <3> QED BY <3>1, <1>1 DEF CountInv
  <2>3. CmdOf(NewEntry(len, place)) = "LRW"
    BY <1>6
  <2> QED BY <2>1, <2>2, <2>3, <1>1, <1>2, <1>3, <1>4 DEF Sends
<1>8. /\ \A k \in 1 .. Top : Entries'[k] = Entries[k]
      /\ Top < EC_MAXBUF => Top' = Top + 1
      /\ Top \in Nat /\ Top <= EC_MAXBUF /\ Top' \in Nat /\ Top' > 0
  BY <1>7, SendStack
<1>9. job' \in JobType
  <2>1. St(i + 1) \in Nat /\ Extent(group) - St(i + 1) \in Nat /\ i + 1 \in Nat
    BY <1>1, <1>2
  <2>2. NoJob \in JobType
    BY DEF NoJob, JobType
  <2> HIDE DEF i
  <2>3. [adr |-> St(i + 1), length |-> Extent(group) - St(i + 1), data |-> St(i + 1), segment |-> i + 1,
            first |-> FALSE] \in JobType
    BY <2>1 DEF JobType
  <2> QED BY <2>2, <2>3, <1>5
<1>10. JobInv'
  <2>1. CASE phase' = "LRW"
    BY <2>1, <1>1, <1>2, <1>5, <1>8 DEF JobInv, Sending, St
  <2>2. CASE phase' = "receive"
    BY <2>2 DEF JobInv, Sending
  <2> QED BY <2>1, <2>2, <1>5
<1>11. PlaceInv'
  <2>1. \A e : PlaceOK(e)' <=> IF phase' = "LRW" THEN Off <= e.data /\ EndOf(e) <= Off + job'.adr
                               ELSE Off <= e.data /\ EndOf(e) <= Off + Extent(group)
    <3>1. Off' = Off /\ \A e : EndOf(e)' = EndOf(e)
      BY <1>1, GroupSame DEF EndOf
    <3> QED BY <3>1, <1>1, <1>5 DEF PlaceOK
  <2>2. \A k \in 1 .. Top : \A e \in {Entries[k]} : e.data \in Nat /\ e.length \in Nat /\ Off <= e.data
            /\ EndOf(e) <= Off + job.adr
    <3>1. \A k \in 1 .. Top : Entries[k] \in EntryType
      BY ElementOfSeq DEF TypeInv, Top, Entries
    <3> QED BY <3>1, <1>1 DEF PlaceInv, PlaceOK, EntryType
  <2>3. job.adr \in Nat /\ job.adr + len \in Nat /\ job.adr + len = St(i + 1)
            /\ job.adr + len <= Extent(group)
        /\ (phase' = "LRW" => job'.adr = job.adr + len)
        /\ (phase' = "receive" => job.adr + len = Extent(group))
    BY <1>1, <1>2, <1>5
  <2>4. ASSUME NEW e, Off <= e.data, e.data \in Nat, e.length \in Nat, EndOf(e) <= Off + job.adr + len
        PROVE  PlaceOK(e)'
    <3>1. EndOf(e) \in Nat
      BY <2>4 DEF EndOf
    <3>2. CASE phase' = "LRW"
      <4>1. Off + job'.adr = Off + job.adr + len
        BY <3>2, <2>3, <1>2, <1>3
      <4> QED BY <3>2, <4>1, <2>1, <2>4
    <3>3. CASE phase' = "receive"
      <4>1. Off + Extent(group) = Off + job.adr + len
        BY <3>3, <2>3, <1>2, <1>3
      <4> QED BY <3>3, <4>1, <2>1, <2>4
    <3> QED BY <3>2, <3>3, <1>5
  <2>5. \A k \in 1 .. Top : \A e \in {Entries[k]} : PlaceOK(e)' /\ EndOf(e) <= place
    <3> SUFFICES ASSUME NEW k \in 1 .. Top, NEW e \in {Entries[k]} PROVE PlaceOK(e)' /\ EndOf(e) <= place
      OBVIOUS
    <3>1. e.data \in Nat /\ e.length \in Nat /\ Off <= e.data /\ EndOf(e) <= Off + job.adr
      BY <2>2
    <3>2. EndOf(e) \in Nat
      BY <3>1 DEF EndOf
    <3>3. EndOf(e) <= Off + job.adr + len
      BY <3>1, <3>2, <2>3, <1>2, <1>3
    <3> QED BY <3>1, <3>3, <2>4, <1>3
  <2>6. ASSUME NEW n, n = NewEntry(len, place) PROVE PlaceOK(n)' /\ InSegment(n)
    <3>1. n.data = Off + job.adr /\ n.length = len /\ AdrOf(n) = job.adr /\ CmdOf(n) = "LRW"
      BY <2>6, <1>6
    <3>2. PlaceOK(n)'
      <4>1. n.data \in Nat /\ n.length \in Nat /\ Off <= n.data /\ EndOf(n) <= Off + job.adr + len
        BY <3>1, <2>3, <1>2, <1>3 DEF EndOf
      <4> QED BY <4>1, <2>4
    <3>3. i \in 0 .. group.nsegments - 1 /\ St(i) <= AdrOf(n) /\ AdrOf(n) + n.length <= St(i + 1)
              /\ AdrOf(n) + n.length = St(i + 1) /\ AdrOf(n) = St(i)
      <4> HIDE DEF i, len
      <4> QED BY <3>1, <2>3, <1>0, <1>1, <1>2
    <3>4. InSegment(n)
      <4> HIDE DEF i
      <4> QED BY <3>1, <3>3 DEF InSegment
    <3> QED BY <3>2, <3>4
  <2> QED BY <2>5, <2>6, <1>7, SendPlaces
<1>12. CountInv'
  <2>1. Datagrams' = Datagrams /\ Datagrams \in Nat /\ EC_MAXBUF \in Nat
    BY <1>1, GroupSame, GroupFacts, ProcessDataAssumption, GroupMapped
  <2>2. ASSUME Datagrams <= EC_MAXBUF PROVE Top' = i + 1 /\ Top' <= Datagrams
    <3>1. Top < Datagrams /\ Top = i
      BY <2>2, <1>1, <1>7 DEF CountInv, Sends
    <3> QED BY <2>1, <2>2, <3>1, <1>8
  <2>3. phase' = "LRW" => job'.segment = i + 1
    BY <1>5
  <2> QED BY <2>1, <2>2, <2>3, <1>5 DEF CountInv
<1>13. CoverInv'
  <2>1. Datagrams' = Datagrams /\ Off' = Off /\ Inputs' = Inputs
    BY <1>1, GroupSame
  <2>2. ASSUME Datagrams <= EC_MAXBUF, NEW b \in Off .. Off + St(i + 1) - 1
        PROVE  \E k \in 1 .. Top' : Entries'[k].data <= b /\ b < Entries'[k].data + Entries'[k].length
    <3>1. b \in Int /\ (b \in Off .. Off + job.adr - 1 \/ (place <= b /\ b < place + len))
      BY <2>2, <1>1, <1>2, <1>3
    <3>2. b \in Off .. Off + job.adr - 1 => \E k \in 1 .. Top : Entries[k].data <= b /\ b < EndOf(Entries[k])
      BY <2>2, <1>1 DEF CoverInv
    <3> QED BY <2>2, <3>1, <3>2, <1>7, SendCovers
  <2>3. phase' = "receive" => Inputs \subseteq Off .. Off + St(i + 1) - 1
    <3> SUFFICES ASSUME St(i + 1) = Extent(group), NEW b \in Inputs PROVE b \in Off .. Off + St(i + 1) - 1
      BY <1>5
    <3>1. b \in group.Obytes .. group.Obytes + group.Ibytes - 1
      BY GroupFacts, GroupMapped DEF Inputs
    <3>2. group.Obytes \in Nat /\ group.Ibytes \in Nat /\ group.overlap \in BOOLEAN
      BY GroupFacts, GroupMapped
    <3>3. CASE group.overlap
      BY <3>1, <3>2, <3>3, <1>0, <1>2
    <3>4. CASE ~group.overlap
      BY <3>1, <3>2, <3>4, <1>0, <1>2
    <3> QED BY <3>2, <3>3, <3>4
  <2>4. phase' = "LRW" => job'.adr = St(i + 1)
    BY <1>5
  <2> QED BY <2>1, <2>2, <2>3, <2>4, <1>5 DEF CoverInv, EndOf
<1> QED BY <1>4, <1>7, <1>9, <1>10, <1>11, <1>12, <1>13, SendRestKept

\* The send loop for the inputs, of groups that may not use LRW, keeps the invariant.
LEMMA SendLRDKept ==
    ASSUME CycInv, SendLRD
    PROVE  CycInv'
<1> USE DEF CycInv
<1> DEFINE i == job.segment
           len == group.IOsegment[i] - (IF i = group.Isegment THEN group.Ioffset ELSE 0)
           next == IF group.Obytes > 0 THEN "LWR" ELSE "receive"
           place == job.data
<1>0. /\ group.Obytes \in Nat /\ group.Ibytes \in Nat /\ group.nsegments \in Nat /\ Off \in Nat
      /\ ~group.overlap => Off = 0 /\ Extent(group) = group.Obytes + group.Ibytes
      /\ IOmapSize(group) = group.Obytes + group.Ibytes
      /\ group.blockLRW => ~group.overlap
  BY GroupFacts, GroupMapped
<1>1. /\ phase = "LRD" /\ group.blockLRW /\ group.Ibytes > 0 /\ i \in Nat /\ i < group.nsegments
             /\ i + 1 \in 0 .. group.nsegments
      /\ group.Isegment <= i
      /\ job.adr = (IF i = group.Isegment THEN group.Obytes ELSE St(i))
      /\ job.data = job.adr /\ job.length = IOmapSize(group) - job.adr
      /\ group' = group /\ Off = 0 /\ ~group.overlap
      /\ Extent(group) = IOmapSize(group)
  <2>1. job.segment \in Nat
    BY DEF TypeInv, JobType
  <2>2. SendLRD /\ JobInv
    OBVIOUS
  <2>3. phase = "LRD" /\ group' = group
    BY <2>2 DEF SendLRD, SendRest
  <2> QED BY <1>0, <2>1, <2>2, <2>3 DEF JobInv
<1>2. /\ job.adr \in Nat /\ len \in Nat /\ St(i + 1) = job.adr + len /\ St(i + 1) \in Nat
             /\ St(i + 1) <= IOmapSize(group)
      /\ St(i) <= job.adr /\ group.Obytes <= job.adr
      /\ St(group.nsegments) = IOmapSize(group)
      /\ group.Isegment \in Nat
  <2>1. i \in 0 .. group.nsegments - 1 /\ i \in 0 .. group.nsegments
    BY <1>0, <1>1
  <2>2. /\ St(i) \in Nat /\ St(i + 1) \in Nat /\ St(i + 1) <= IOmapSize(group)
               /\ St(group.nsegments) = IOmapSize(group)
        /\ group.IOsegment[i] \in Nat /\ St(i + 1) = St(i) + group.IOsegment[i]
    <3> HIDE DEF i
    <3> QED BY <2>1, <1>1, SegmentFacts, GroupMapped
  <2>3. /\ group.Isegment \in 0 .. group.nsegments - 1 /\ group.Ioffset \in Nat
        /\ St(group.Isegment) + group.Ioffset = group.Obytes /\ group.Obytes <= St(group.Isegment + 1)
    BY <1>1, SegmentFacts, GroupMapped
  <2>4. CASE i = group.Isegment
    BY <2>2, <2>3, <2>4, <1>0, <1>1
  <2>5. CASE i # group.Isegment
    <3>1. group.Isegment + 1 <= i /\ group.Isegment + 1 \in 0 .. group.nsegments /\ group.Isegment \in Nat
      BY <2>1, <2>3, <2>5, <1>0, <1>1
    <3>2. St(group.Isegment + 1) <= St(i) /\ St(group.Isegment + 1) \in Nat
      <4> HIDE DEF i
      <4> QED BY <3>1, <2>1, SegmentFacts, GroupMapped
    <3> QED BY <3>1, <3>2, <2>2, <2>3, <2>5, <1>0, <1>1
  <2> QED BY <2>4, <2>5
<1>3. place = Off + job.adr
  BY <1>1, <1>2
<1>4. Transmit("LRD", len, place) /\ Advance(len, next) /\ BeginReceive(phase')
  BY DEF SendLRD
<1>5. \/ /\ phase' = "LRD" /\ i + 1 < group.nsegments /\ St(i + 1) # IOmapSize(group)
         /\ job' = [adr |-> St(i + 1), length |-> IOmapSize(group) - St(i + 1), data |-> St(i + 1),
                segment |-> i + 1, first |-> FALSE]
      \/ St(i + 1) = IOmapSize(group) /\ phase' = "LWR" /\ group.Obytes > 0 /\ job' = LWRJob(FALSE)
      \/ St(i + 1) = IOmapSize(group) /\ phase' = "receive" /\ job' = NoJob
  <2> DEFINE j == [adr |-> job.adr + len, length |-> job.length - len, data |-> job.data + len,
                   segment |-> i + 1, first |-> FALSE]
  <2>1. /\ j.length # 0 /\ j.segment < group.nsegments => phase' = phase /\ job' = j
        /\ ~(j.length # 0 /\ j.segment < group.nsegments) => phase' = next
               /\ job' = IF next = "LWR" THEN LWRJob(FALSE) ELSE NoJob
    BY <1>4 DEF Advance
  <2>2. j = [adr |-> St(i + 1), length |-> IOmapSize(group) - St(i + 1), data |-> St(i + 1),
            segment |-> i + 1, first |-> FALSE]
    <3>1. job.adr + len = St(i + 1) /\ job.length - len = IOmapSize(group) - St(i + 1)
              /\ job.data + len = St(i + 1)
      <4> HIDE DEF len, i
      <4> QED BY <1>0, <1>1, <1>2
    <3> QED BY <3>1
  <2>3. j.length = IOmapSize(group) - St(i + 1) /\ j.segment = i + 1
    BY <2>2
  <2>4. CASE j.length # 0 /\ j.segment < group.nsegments
    <3> HIDE DEF j, i
    <3> QED BY <2>1, <2>2, <2>3, <2>4, <1>0, <1>1, <1>2
  <2>5. CASE ~(j.length # 0 /\ j.segment < group.nsegments)
    <3> HIDE DEF j
    <3>1. St(i + 1) = IOmapSize(group)
      <4>1. IOmapSize(group) - St(i + 1) = 0 \/ ~(i + 1 < group.nsegments)
        BY <2>3, <2>5
      <4> QED BY <4>1, <1>0, <1>1, <1>2
    <3> QED BY <2>1, <2>5, <3>1
  <2> QED BY <2>4, <2>5
<1>6. \A n : n = NewEntry(len, place) =>
         n.data = job.adr /\ n.length = len /\ CmdOf(n) = "LRD" /\ AdrOf(n) = job.adr
  <2>1. \A n : n = NewEntry(len, place) => n.data = job.adr /\ n.length = len
    BY <1>1 DEF NewEntry
  <2>2. \A n : n = NewEntry(len, place) => CmdOf(n) = "LRD"
    BY <2>1, <1>0, <1>1, <1>2 DEF CmdOf
  <2> HIDE DEF len
  <2> QED BY <2>1, <2>2, <1>0, <1>1, <1>2 DEF AdrOf
<1>7. Sends("LRD", len, place)
  <2>1. UNCHANGED <<group, cycle, image, DCtime, result>> /\ Sending
            /\ phase' \in {"LRD", "LWR", "LRW", "receive"}
    BY <1>1, <1>5 DEF SendLRD, SendRest, Sending
  <2>2. Datagrams <= EC_MAXBUF => Top < Datagrams
    <3>1. Datagrams \in Nat /\ Datagrams >= group.nsegments
      BY GroupFacts, GroupMapped
    <3>2. Datagrams <= EC_MAXBUF => Top = i - group.Isegment
      BY <1>1 DEF CountInv
    <3> HIDE DEF i
    <3> QED BY <3>1, <3>2, <1>0, <1>1, <1>2
  <2>3. CmdOf(NewEntry(len, place)) = "LRD"
    BY <1>6
  <2> HIDE DEF len
  <2> QED BY <2>1, <2>2, <2>3, <1>1, <1>2, <1>3, <1>4 DEF Sends
<1> HIDE DEF len
<1>8. /\ \A k \in 1 .. Top : Entries'[k] = Entries[k]
      /\ Top < EC_MAXBUF => Top' = Top + 1
      /\ Top \in Nat /\ Top <= EC_MAXBUF /\ Top' \in Nat /\ Top' > 0
  BY <1>7, SendStack
<1>9. job' \in JobType
  <2>1. St(i + 1) \in Nat /\ IOmapSize(group) - St(i + 1) \in Nat /\ i + 1 \in Nat
    BY <1>0, <1>1, <1>2
  <2>2. NoJob \in JobType /\ LWRJob(FALSE) \in JobType
    BY <1>0 DEF NoJob, LWRJob, JobType
  <2> HIDE DEF i
  <2>3. [adr |-> St(i + 1), length |-> IOmapSize(group) - St(i + 1), data |-> St(i + 1), segment |-> i + 1,
            first |-> FALSE] \in JobType
    BY <2>1 DEF JobType
  <2> QED BY <2>2, <2>3, <1>5
<1>10. JobInv'
  <2>1. CASE phase' = "LRD"
    <3>1. group.Isegment < i + 1
      <4> HIDE DEF i
      <4> QED BY <1>1, <1>2
    <3>2. /\ job'.segment = i + 1 /\ job'.adr = SegmentStart(group, i + 1) /\ job'.data = job'.adr
          /\ job'.length = IOmapSize(group) - job'.adr /\ ~job'.first
      BY <2>1, <1>5 DEF St
    <3>3. job'.segment < group.nsegments /\ job'.segment # group.Isegment /\ group.Isegment <= job'.segment
      BY <2>1, <3>1, <3>2, <1>1, <1>2, <1>5
    <3> HIDE DEF i
    <3> QED BY <2>1, <3>2, <3>3, <1>1, <1>8 DEF JobInv, Sending, St
  <2>2. CASE phase' = "receive"
    BY <2>2 DEF JobInv, Sending
  <2>3. CASE phase' = "LWR"
    <3>1. job' = LWRJob(FALSE) /\ group.Obytes > 0
      BY <2>3, <1>5
    <3>2. /\ job'.segment = 0 /\ job'.adr = 0 /\ job'.data = 0 /\ job'.length = group.Obytes /\ ~job'.first
      BY <3>1 DEF LWRJob
    <3>3. SegmentStart(group, 0) = 0 /\ 0 < group.nsegments /\ group.Obytes - 0 = group.Obytes
      BY <1>0, <1>1, SegmentFacts, GroupMapped DEF St
    <3>4. group' = group /\ group.blockLRW /\ Top' # 0
      BY <1>1, <1>8
    <3> QED BY <2>3, <3>1, <3>2, <3>3, <3>4 DEF JobInv, Sending, St
  <2> QED BY <2>1, <2>2, <2>3, <1>5
<1>11. PlaceInv'
  <2>1. \A e : PlaceOK(e)' <=> IF phase' = "LRD" THEN group.Obytes <= e.data /\ EndOf(e) <= job'.adr
                               ELSE EndOf(e) <= IF e.data < group.Obytes THEN
                                                  IF phase' = "LWR" THEN job'.adr ELSE group.Obytes
                                                ELSE IOmapSize(group)
    <3>1. IOmapSize(group)' = IOmapSize(group) /\ \A e : EndOf(e)' = EndOf(e)
      BY <1>1 DEF EndOf
    <3> QED BY <3>1, <1>1, <1>5 DEF PlaceOK
  <2>2. \A k \in 1 .. Top : \A e \in {Entries[k]} : e.data \in Nat /\ e.length \in Nat
            /\ group.Obytes <= e.data /\ EndOf(e) <= job.adr
    <3>1. \A k \in 1 .. Top : Entries[k] \in EntryType
      BY ElementOfSeq DEF TypeInv, Top, Entries
    <3> QED BY <3>1, <1>1 DEF PlaceInv, PlaceOK, EntryType
  <2>3. /\ (phase' = "LRD" => job'.adr = job.adr + len)
        /\ (phase' # "LRD" => job.adr + len = IOmapSize(group))
    <3>1. phase' = "LRD" => job'.adr = St(i + 1)
      BY <1>5
    <3>2. phase' # "LRD" => St(i + 1) = IOmapSize(group)
      BY <1>5
    <3> QED BY <3>1, <3>2, <1>2
  <2>4. ASSUME NEW e, group.Obytes <= e.data, e.data \in Nat, e.length \in Nat, EndOf(e) <= job.adr + len
        PROVE  PlaceOK(e)'
    <3>1. ~(e.data < group.Obytes)
      BY <2>4, <1>0
    <3> QED BY <2>1, <2>3, <2>4, <3>1, <1>5
  <2>5. \A k \in 1 .. Top : \A e \in {Entries[k]} : PlaceOK(e)' /\ EndOf(e) <= place
    <3> SUFFICES ASSUME NEW k \in 1 .. Top, NEW e \in {Entries[k]} PROVE PlaceOK(e)' /\ EndOf(e) <= place
      OBVIOUS
    <3>1. e.data \in Nat /\ e.length \in Nat /\ group.Obytes <= e.data /\ EndOf(e) <= job.adr
      BY <2>2
    <3>2. EndOf(e) \in Nat
      BY <3>1 DEF EndOf
    <3>3. EndOf(e) <= job.adr + len
      BY <3>1, <3>2, <1>2
    <3> QED BY <3>1, <3>3, <2>4, <1>1
  <2>6. ASSUME NEW n, n = NewEntry(len, place) PROVE PlaceOK(n)' /\ InSegment(n)
    <3>1. n.data = job.adr /\ n.length = len /\ AdrOf(n) = job.adr /\ CmdOf(n) = "LRD"
      BY <2>6, <1>6
    <3>2. PlaceOK(n)'
      <4>1. n.data \in Nat /\ n.length \in Nat /\ group.Obytes <= n.data /\ EndOf(n) <= job.adr + len
        BY <3>1, <1>2 DEF EndOf
      <4> QED BY <4>1, <2>4
    <3>3. /\ i \in 0 .. group.nsegments - 1 /\ St(i) <= AdrOf(n) /\ AdrOf(n) + n.length <= St(i + 1)
                 /\ AdrOf(n) + n.length = St(i + 1)
          /\ AdrOf(n) = St(i) \/ (group.blockLRW /\ AdrOf(n) = group.Obytes)
      <4> HIDE DEF i
      <4> QED BY <3>1, <1>0, <1>1, <1>2
    <3>4. InSegment(n)
      <4> HIDE DEF i
      <4> QED BY <3>1, <3>3 DEF InSegment
    <3> QED BY <3>2, <3>4
  <2> QED BY <2>5, <2>6, <1>7, SendPlaces
<1>12. CountInv'
  <2>1. Datagrams' = Datagrams /\ Datagrams \in Nat /\ EC_MAXBUF \in Nat
    BY <1>1, GroupSame, GroupFacts, ProcessDataAssumption, GroupMapped
  <2>2. ASSUME Datagrams <= EC_MAXBUF PROVE Top' = i + 1 - group.Isegment /\ Top' <= Datagrams
    <3>1. Top < Datagrams /\ Top = i - group.Isegment
      BY <2>2, <1>1, <1>7 DEF CountInv, Sends
    <3> HIDE DEF i
    <3> QED BY <2>1, <2>2, <3>1, <1>1, <1>2, <1>8
  <2>3. phase' = "LRD" => job'.segment = i + 1
    BY <1>5
  <2>4. Datagrams <= EC_MAXBUF /\ phase' = "LWR" => Top' <= Reading' + job'.segment
    <3> SUFFICES ASSUME Datagrams <= EC_MAXBUF, phase' = "LWR" PROVE Top' <= Reading' + job'.segment
      OBVIOUS
    <3>1. job'.segment = 0
      BY <1>5 DEF LWRJob
    <3>2. Reading' = group.nsegments - group.Isegment
      BY <1>0, <1>1 DEF Reading
    <3>3. Top' = i + 1 - group.Isegment
      BY <2>2
    <3> HIDE DEF i
    <3> QED BY <3>1, <3>2, <3>3, <1>0, <1>1, <1>2
  <2>5. phase' # "LRW"
    BY <1>5
  <2>6. phase' = "LRD" /\ Datagrams <= EC_MAXBUF => Top' = job'.segment - group'.Isegment
    BY <2>2, <2>3, <1>1, <1>2
  <2> QED BY <2>1, <2>2, <2>4, <2>5, <2>6 DEF CountInv
<1>13. CoverInv'
  <2>1. Datagrams' = Datagrams /\ Off' = Off /\ Inputs' = Inputs
    BY <1>1, GroupSame
  <2>2. ASSUME Datagrams <= EC_MAXBUF, NEW b \in group.Obytes .. St(i + 1) - 1
        PROVE  \E k \in 1 .. Top' : Entries'[k].data <= b /\ b < Entries'[k].data + Entries'[k].length
    <3>1. b \in Int /\ (b \in group.Obytes .. job.adr - 1 \/ (place <= b /\ b < place + len))
      <4> HIDE DEF i
      <4> QED BY <2>2, <1>0, <1>1, <1>2
    <3>2. b \in group.Obytes .. job.adr - 1 => \E k \in 1 .. Top : Entries[k].data <= b
              /\ b < EndOf(Entries[k])
      BY <2>2, <1>1 DEF CoverInv
    <3> QED BY <2>2, <3>1, <3>2, <1>7, SendCovers
  <2>3. phase' # "LRD" => Inputs = group.Obytes .. St(i + 1) - 1
    BY <1>5 DEF Inputs
  <2>4. phase' = "LRD" => job'.adr = St(i + 1)
    BY <1>5
  <2> QED BY <2>1, <2>2, <2>3, <2>4, <1>1, <1>5 DEF CoverInv, EndOf
<1> QED BY <1>4, <1>7, <1>9, <1>10, <1>11, <1>12, <1>13, SendRestKept

\* The send loop for the outputs of such groups keeps the invariant.
LEMMA SendLWRKept ==
    ASSUME CycInv, SendLWR
    PROVE  CycInv'
<1> USE DEF CycInv
<1> DEFINE i == job.segment
           seg == group.IOsegment[i]
           len == IF job.length - seg < 0 THEN job.length ELSE seg
           place == job.data
           end == job.adr + len
<1>0. /\ group.Obytes \in Nat /\ group.Ibytes \in Nat /\ group.nsegments \in Nat /\ Off \in Nat
      /\ ~group.overlap => Off = 0 /\ Extent(group) = group.Obytes + group.Ibytes
      /\ IOmapSize(group) = group.Obytes + group.Ibytes
      /\ group.blockLRW => ~group.overlap
      /\ Datagrams \in Nat
      /\ group.blockLRW => Datagrams = group.nsegments + 1
  BY GroupFacts, GroupMapped
<1>1. /\ phase = "LWR" /\ group.blockLRW /\ i \in Nat /\ i < group.nsegments /\ i + 1 \in 0 .. group.nsegments
      /\ job.adr = St(i)
      /\ job.data = job.adr /\ job.length = group.Obytes - job.adr /\ job.length > 0
      /\ group' = group /\ Off = 0 /\ ~group.overlap
      /\ Extent(group) = IOmapSize(group)
  <2>1. job.segment \in Nat
    BY DEF TypeInv, JobType
  <2>2. SendLWR /\ JobInv
    OBVIOUS
  <2>3. phase = "LWR" /\ group' = group
    BY <2>2 DEF SendLWR, SendRest
  <2> QED BY <1>0, <2>1, <2>2, <2>3 DEF JobInv
<1>2. /\ job.adr \in Nat /\ job.adr < group.Obytes /\ seg \in Nat /\ St(i + 1) = job.adr + seg
             /\ St(i + 1) \in Nat
      /\ St(i + 1) <= IOmapSize(group) /\ St(group.nsegments) = IOmapSize(group)
      /\ group.Isegment \in Nat /\ group.Isegment < group.nsegments /\ i <= group.Isegment
  <2>1. i \in 0 .. group.nsegments - 1 /\ i \in 0 .. group.nsegments
    BY <1>0, <1>1
  <2>2. /\ St(i) \in Nat /\ St(i + 1) \in Nat /\ St(i + 1) <= IOmapSize(group)
               /\ St(group.nsegments) = IOmapSize(group)
        /\ seg \in Nat /\ St(i + 1) = St(i) + seg
    <3> HIDE DEF i
    <3> QED BY <2>1, <1>1, SegmentFacts, GroupMapped
  <2>3. group.Isegment \in 0 .. group.nsegments - 1 /\ group.Obytes <= St(group.Isegment + 1)
    BY <1>1, SegmentFacts, GroupMapped
  <2>4. job.adr < group.Obytes
    BY <2>2, <1>0, <1>1
  <2>5. i <= group.Isegment
    <3> SUFFICES ASSUME ~(i <= group.Isegment) PROVE FALSE
      OBVIOUS
    <3>1. group.Isegment + 1 <= i /\ group.Isegment + 1 \in 0 .. group.nsegments
      BY <2>1, <2>3, <1>0, <1>1
    <3>2. St(group.Isegment + 1) <= St(i) /\ St(group.Isegment + 1) \in Nat
      <4> HIDE DEF i
      <4> QED BY <3>1, <2>1, SegmentFacts, GroupMapped
    <3> QED BY <3>2, <2>2, <2>3, <2>4, <1>0, <1>1
  <2> HIDE DEF i, seg
  <2> QED BY <2>2, <2>3, <2>4, <2>5, <1>0, <1>1
<1>3. /\ len \in Nat /\ end \in Nat /\ end <= group.Obytes /\ end <= St(i + 1)
      /\ end = group.Obytes \/ end = St(i + 1)
      /\ job.length - len = group.Obytes - end
  <2> HIDE DEF i, seg
  <2> QED BY <1>0, <1>1, <1>2
<1>4. Transmit("LWR", len, place) /\ Advance(len, "receive") /\ BeginReceive(phase')
  BY DEF SendLWR
<1> HIDE DEF len
<1>5. \/ /\ phase' = "LWR" /\ i + 1 < group.nsegments /\ end # group.Obytes /\ end = St(i + 1)
         /\ job' = [adr |-> end, length |-> group.Obytes - end, data |-> end, segment |-> i + 1,
                first |-> FALSE]
      \/ end = group.Obytes /\ phase' = "receive" /\ job' = NoJob
  <2> DEFINE j == [adr |-> end, length |-> job.length - len, data |-> job.data + len,
                   segment |-> i + 1, first |-> FALSE]
  <2>1. /\ j.length # 0 /\ j.segment < group.nsegments => phase' = phase /\ job' = j
        /\ ~(j.length # 0 /\ j.segment < group.nsegments) => phase' = "receive" /\ job' = NoJob
    BY <1>4 DEF Advance
  <2>2. j = [adr |-> end, length |-> group.Obytes - end, data |-> end, segment |-> i + 1, first |-> FALSE]
    <3>1. job.length - len = group.Obytes - end /\ job.data + len = end
      BY <1>1, <1>3
    <3> QED BY <3>1
  <2>3. j.length = group.Obytes - end /\ j.segment = i + 1
    BY <2>2
  <2>4. CASE j.length # 0 /\ j.segment < group.nsegments
    <3> HIDE DEF j, i, end, seg
    <3> QED BY <2>1, <2>2, <2>3, <2>4, <1>0, <1>1, <1>3
  <2>5. CASE ~(j.length # 0 /\ j.segment < group.nsegments)
    <3> HIDE DEF j
    <3>1. end = group.Obytes
      <4>1. group.Obytes - end = 0 \/ ~(i + 1 < group.nsegments)
        BY <2>3, <2>5
      <4> HIDE DEF end, seg
      <4>2. CASE group.Obytes - end = 0
        BY <4>2, <1>0, <1>3
      <4>3. CASE i + 1 = group.nsegments
        <5>1. St(i + 1) = IOmapSize(group)
          BY <4>3, <1>2
        <5> QED BY <5>1, <1>0, <1>3
      <4> QED BY <4>1, <4>2, <4>3, <1>0, <1>1
    <3> QED BY <2>1, <2>5, <3>1
  <2> QED BY <2>4, <2>5
<1>6. \A n : n = NewEntry(len, place) =>
         n.data = job.adr /\ n.length = len /\ CmdOf(n) = "LWR" /\ n.data < group.Obytes /\ AdrOf(n) = job.adr
  <2>1. \A n : n = NewEntry(len, place) => n.data = job.adr /\ n.length = len
    BY <1>1 DEF NewEntry
  <2> QED BY <2>1, <1>0, <1>1, <1>2 DEF CmdOf, AdrOf
<1>7. Sends("LWR", len, place)
  <2>1. UNCHANGED <<group, cycle, image, DCtime, result>> /\ Sending
            /\ phase' \in {"LRD", "LWR", "LRW", "receive"}
    BY <1>1, <1>5 DEF SendLWR, SendRest, Sending
  <2>2. Datagrams <= EC_MAXBUF => Top < Datagrams
    <3> SUFFICES ASSUME Datagrams <= EC_MAXBUF PROVE Top < Datagrams
      OBVIOUS
    <3>1. Top <= Reading + i
      BY <1>1 DEF CountInv
    <3>2. Reading \in Nat /\ Reading + i < Datagrams /\ Top \in Nat
      <4>1. Reading = 0 \/ Reading = group.nsegments - group.Isegment
        BY DEF Reading
      <4>2. Top \in Nat
        BY DEF TypeInv, Top, Entries
      <4> HIDE DEF i
      <4> QED BY <4>1, <4>2, <1>0, <1>1, <1>2
    <3> HIDE DEF i
    <3> QED BY <3>1, <3>2, <1>0, <1>1
  <2>3. CmdOf(NewEntry(len, place)) = "LWR"
    BY <1>6
  <2>4. place = Off + job.adr
    BY <1>1, <1>2
  <2> QED BY <2>1, <2>2, <2>3, <2>4, <1>1, <1>3, <1>4 DEF Sends
<1>8. /\ \A k \in 1 .. Top : Entries'[k] = Entries[k]
      /\ Top < EC_MAXBUF => Top' = Top + 1
      /\ Top \in Nat /\ Top <= EC_MAXBUF /\ Top' \in Nat /\ Top' > 0
  BY <1>7, SendStack
<1>9. job' \in JobType
  <2>1. group.Obytes - end \in Nat /\ i + 1 \in Nat /\ end \in Nat
    BY <1>0, <1>1, <1>3
  <2>2. NoJob \in JobType
    BY DEF NoJob, JobType
  <2> HIDE DEF i, end
  <2>3. [adr |-> end, length |-> group.Obytes - end, data |-> end, segment |-> i + 1,
            first |-> FALSE] \in JobType
    BY <2>1 DEF JobType
  <2> QED BY <2>2, <2>3, <1>5
<1>10. JobInv'
  <2>1. CASE phase' = "LWR"
    <3>1. /\ job'.segment = i + 1 /\ job'.adr = SegmentStart(group, i + 1) /\ job'.data = job'.adr
          /\ job'.length = group.Obytes - job'.adr /\ ~job'.first
      BY <2>1, <1>5 DEF St
    <3>2. job'.segment < group.nsegments /\ job'.length > 0
      <4>1. job'.segment = i + 1 /\ i + 1 < group.nsegments /\ end # group.Obytes
                /\ job'.length = group.Obytes - end
        BY <2>1, <1>5
      <4>2. group.Obytes - end > 0
        <5> HIDE DEF end, i, seg
        <5> QED BY <4>1, <1>0, <1>3
      <4> QED BY <4>1, <4>2
    <3> HIDE DEF i
    <3>4. group' = group /\ group.blockLRW /\ Top' # 0
      BY <1>1, <1>8
    <3> QED BY <2>1, <3>1, <3>2, <3>4 DEF JobInv, Sending, St
  <2>2. CASE phase' = "receive"
    BY <2>2 DEF JobInv, Sending
  <2> QED BY <2>1, <2>2, <1>5
<1>11. PlaceInv'
  <2>1. \A e : PlaceOK(e)' <=> EndOf(e) <= IF e.data < group.Obytes THEN IF phase' = "LWR" THEN job'.adr ELSE group.Obytes
                                           ELSE IOmapSize(group)
    <3>1. IOmapSize(group)' = IOmapSize(group) /\ \A e : EndOf(e)' = EndOf(e)
      BY <1>1 DEF EndOf
    <3> QED BY <3>1, <1>1, <1>5 DEF PlaceOK
  <2>2. \A k \in 1 .. Top : \A e \in {Entries[k]} :
           e.data \in Nat /\ e.length \in Nat /\ EndOf(e) <= IF e.data < group.Obytes THEN job.adr ELSE IOmapSize(group)
    <3>1. \A k \in 1 .. Top : Entries[k] \in EntryType
      BY ElementOfSeq DEF TypeInv, Top, Entries
    <3> QED BY <3>1, <1>1 DEF PlaceInv, PlaceOK, EntryType
  <2>3. (IF phase' = "LWR" THEN job'.adr ELSE group.Obytes) = end
    <3>1. phase' = "LWR" => job'.adr = end
      BY <1>5
    <3>2. phase' # "LWR" => end = group.Obytes
      BY <1>5
    <3> QED BY <3>1, <3>2
  <2>4. ASSUME NEW e, e.data \in Nat, e.length \in Nat,
               EndOf(e) <= IF e.data < group.Obytes THEN end ELSE IOmapSize(group)
        PROVE  PlaceOK(e)'
    BY <2>1, <2>3, <2>4
  <2>5. \A k \in 1 .. Top : \A e \in {Entries[k]} : PlaceOK(e)'
            /\ (EndOf(e) <= place \/ place + len <= e.data)
    <3> SUFFICES ASSUME NEW k \in 1 .. Top, NEW e \in {Entries[k]}
                 PROVE  PlaceOK(e)' /\ (EndOf(e) <= place \/ place + len <= e.data)
      OBVIOUS
    <3>1. e.data \in Nat /\ e.length \in Nat /\ EndOf(e) <= IF e.data < group.Obytes THEN job.adr ELSE IOmapSize(group)
      BY <2>2
    <3>2. EndOf(e) \in Nat
      BY <3>1 DEF EndOf
    <3>3. job.adr <= end
      BY <1>2, <1>3
    <3>4. PlaceOK(e)'
      <4> HIDE DEF end
      <4>1. CASE e.data < group.Obytes
        <5>1. EndOf(e) <= end
          BY <4>1, <3>1, <3>2, <3>3, <1>2, <1>3
        <5> QED BY <4>1, <5>1, <3>1, <2>4
      <4>2. CASE ~(e.data < group.Obytes)
        BY <4>2, <3>1, <2>4
      <4> QED BY <4>1, <4>2
    <3>5. EndOf(e) <= place \/ end <= e.data
      <4> HIDE DEF end
      <4>1. CASE e.data < group.Obytes
        BY <4>1, <3>1, <1>1
      <4>2. CASE ~(e.data < group.Obytes)
        BY <4>2, <3>1, <1>0, <1>3
      <4> QED BY <4>1, <4>2
    <3> QED BY <3>4, <3>5, <1>1
  <2>6. ASSUME NEW n, n = NewEntry(len, place) PROVE PlaceOK(n)' /\ InSegment(n)
    <3>1. n.data = job.adr /\ n.length = len /\ n.data < group.Obytes /\ CmdOf(n) = "LWR"
              /\ AdrOf(n) = job.adr
      BY <2>6, <1>6
    <3>2. n.data \in Nat /\ n.length \in Nat /\ EndOf(n) = end
      BY <3>1, <1>2, <1>3 DEF EndOf
    <3>3. EndOf(n) <= end
      BY <3>2, <1>3
    <3>4. i \in 0 .. group.nsegments - 1 /\ AdrOf(n) = St(i) /\ St(i) <= AdrOf(n)
              /\ AdrOf(n) + n.length <= St(i + 1)
      <4> HIDE DEF i, seg
      <4> QED BY <3>1, <1>0, <1>1, <1>2, <1>3
    <3>5. InSegment(n)
      <4> HIDE DEF i
      <4> QED BY <3>1, <3>4 DEF InSegment
    <3> HIDE DEF end
    <3> QED BY <3>1, <3>2, <3>3, <3>5, <2>4
  <2> QED BY <2>5, <2>6, <1>7, SendPlaces
<1>12. CountInv'
  <2>1. Datagrams' = Datagrams /\ EC_MAXBUF \in Nat /\ Reading' = Reading
    BY <1>1, GroupSame, ProcessDataAssumption DEF Reading
  <2>2. ASSUME Datagrams <= EC_MAXBUF PROVE Top' <= Reading + (i + 1) /\ Top' <= Datagrams
    <3>1. Top < Datagrams /\ Top <= Reading + i
      BY <2>2, <1>1, <1>7 DEF CountInv, Sends
    <3>2. Reading \in Nat
      <4> HIDE DEF i
      <4> QED BY <1>0, <1>1, <1>2 DEF Reading
    <3>3. Top' = Top + 1
      BY <2>1, <2>2, <3>1, <1>0, <1>8
    <3> HIDE DEF i
    <3> QED BY <3>1, <3>2, <3>3, <1>0, <1>1, <1>8
  <2>3. phase' = "LWR" => job'.segment = i + 1
    BY <1>5
  <2>4. phase' # "LRW" /\ phase' # "LRD"
    BY <1>5
  <2> HIDE DEF i
  <2> QED BY <2>1, <2>2, <2>3, <2>4 DEF CountInv
<1>13. CoverInv'
  <2>1. Datagrams' = Datagrams /\ Off' = Off /\ Inputs' = Inputs
    BY <1>1, GroupSame
  <2>2. ASSUME Datagrams <= EC_MAXBUF, NEW b \in Inputs
        PROVE  \E k \in 1 .. Top' : Entries'[k].data <= b /\ b < Entries'[k].data + Entries'[k].length
    <3>1. b \in Int
      BY <1>0 DEF Inputs
    <3>2. \E k \in 1 .. Top : Entries[k].data <= b /\ b < EndOf(Entries[k])
      BY <2>2, <1>1 DEF CoverInv
    <3> QED BY <2>2, <3>1, <3>2, <1>7, SendCovers
  <2>4. phase' # "LRW" /\ phase' # "LRD"
    BY <1>5
  <2> QED BY <2>1, <2>2, <2>4 DEF CoverInv, EndOf
<1> QED BY <1>4, <1>7, <1>9, <1>10, <1>11, <1>12, <1>13, SendRestKept

-----------------------------------------------------------------------------
(* The start                                                               *)

\* A stack without entries, and a receiver that has pulled none.
LEMMA NothingPulled ==
    ASSUME idxstack.pulled = 0
    PROVE  /\ Wrote(idxstack.pulled) = {} /\ Read(idxstack.pulled) = {}
           /\ Cardinality(Wrote(idxstack.pulled)) = 0 /\ Cardinality(Read(idxstack.pulled)) = 0
<1>1. Wrote(idxstack.pulled) = {} /\ Read(idxstack.pulled) = {}
  BY DEF Wrote, Read
<1> QED BY <1>1, FS_EmptySet

\* The invariant holds before the first cycle.
LEMMA CyclicInitHolds ==
    ASSUME GroupsMapped, CyclicInit
    PROVE  CycInv
<1> USE DEF CyclicInit
<1>1. WellMapped(group)
  BY DEF GroupsMapped
<1>2. EC_MAXBUF \in Nat \ {0} /\ MaxCycles \in Nat
  BY ProcessDataAssumption
<1>3. Entries = <<>> /\ Top = 0 /\ idxstack.pulled = 0 /\ phase = "app" /\ cycle = 0 /\ wire = {}
  BY DEF Entries, Top
<1>4. TypeInv
  <2>1. image \in [0 .. IOmapSize(group) - 1 -> Values(cycle)]
    BY DEF Values
  <2>2. job \in JobType
    BY DEF NoJob, JobType
  <2>3. idxstack \in [entries : Seq(EntryType), pulled : Nat]
    OBVIOUS
  <2>4. rxbufstat \in [Idx -> {"EMPTY", "TX"}] /\ lastidx \in Idx
    BY <1>2 DEF Idx
  <2>5. received \in [first : BOOLEAN, wkc : Nat, valid : BOOLEAN]
    BY DEF NoReceive
  <2>6. delivered \in [Slaves -> Int] /\ result \in Int /\ result >= EC_NOFRAME /\ DCl \in Nat
            /\ DCtime \in 0 .. cycle
    BY DEF EC_NOFRAME
  <2> QED BY <1>1, <1>2, <1>3, <2>1, <2>2, <2>3, <2>4, <2>5, <2>6 DEF TypeInv
<1>5. JobInv
  BY DEF JobInv, Sending
<1>6. PlaceInv
  BY <1>3 DEF PlaceInv
<1>7. IndexInv
  BY <1>2, <1>3 DEF IndexInv
<1>8. CountInv
  BY <1>1, <1>3, GroupFacts DEF CountInv
<1>9. CoverInv
  BY DEF CoverInv
<1>10. FirstInv
  BY <1>3 DEF FirstInv, NoReceive
<1>11. WireInv
  BY DEF WireInv
<1>12. OutputsInv
  BY DEF OutputsInv
<1>13. WkcInv
  BY DEF WkcInv
<1>14. ResultInv
  <2>1. ExpectedWKC \in Nat
    BY <1>1 DEF WellMapped, SlavesMapped, ExpectedWKC
  <2> QED BY <2>1 DEF ResultInv, WkcVouches, CycleDone, EC_NOFRAME
<1> QED BY <1>4, <1>5, <1>6, <1>7, <1>8, <1>9, <1>10, <1>11, <1>12, <1>13, <1>14 DEF CycInv

\* The application's writing of the outputs and the start of the exchange keep the invariant.
LEMMA StartCycleKept ==
    ASSUME CycInv, StartCycle
    PROVE  CycInv'
<1> USE DEF CycInv
<1>0. /\ group.Obytes \in Nat /\ group.Ibytes \in Nat /\ group.nsegments \in Nat \ {0} /\ Off \in Nat
      /\ IOmapSize(group) = group.Obytes + group.Ibytes
      /\ group.blockLRW \in BOOLEAN /\ group.hasdc \in BOOLEAN
      /\ group.blockLRW => ~group.overlap
      /\ Datagrams \in Nat /\ Extent(group) \in Nat
  BY GroupFacts, GroupMapped
<1>1. /\ phase = "app" /\ cycle' = cycle + 1 /\ cycle < MaxCycles
      /\ image' = [b \in DOMAIN image |-> IF b \in Outputs THEN OutputOf(cycle + 1) ELSE image[b]]
      /\ wire' = {f \in wire : f.cycle + MaxLag >= cycle + 1}
      /\ BeginReceive(phase')
      /\ group' = group /\ idxstack' = idxstack /\ rxbufstat' = rxbufstat /\ lastidx' = lastidx
      /\ delivered' = delivered /\ DCl' = DCl /\ DCtime' = DCtime /\ result' = result
  BY DEF StartCycle
<1>2. \/ phase' = "receive" /\ job' = NoJob /\ IOmapSize(group) = 0
      \/ phase' = "LRW" /\ job' = LRWJob /\ ~group.blockLRW
      \/ phase' = "LRD" /\ job' = LRDJob /\ group.blockLRW /\ group.Ibytes > 0
      \/ phase' = "LWR" /\ job' = LWRJob(group.hasdc) /\ group.blockLRW /\ group.Ibytes = 0
             /\ group.Obytes > 0
  <2>1. CASE IOmapSize(group) = 0
    BY <2>1 DEF StartCycle
  <2>2. CASE IOmapSize(group) # 0
    <3>1. IOmapSize(group) > 0
      BY <2>2, <1>0
    <3>2. CASE ~group.blockLRW
      BY <3>1, <3>2, <2>2 DEF StartCycle
    <3>3. CASE group.blockLRW /\ group.Ibytes > 0
      BY <3>1, <3>3, <2>2 DEF StartCycle
    <3>4. CASE group.blockLRW /\ ~(group.Ibytes > 0)
      <4>1. phase' = "LWR" /\ job' = LWRJob(group.hasdc)
        BY <3>1, <3>4, <2>2 DEF StartCycle
      <4>2. group.Ibytes = 0 /\ group.Obytes > 0
        BY <3>1, <3>4, <1>0
      <4> QED BY <4>1, <4>2, <3>4
    <3> QED BY <3>2, <3>3, <3>4, <1>0
  <2> QED BY <2>1, <2>2
<1>3. /\ Slaves' = Slaves /\ Outputs' = Outputs /\ Inputs' = Inputs /\ Off' = Off /\ Rotates' = Rotates
             /\ Datagrams' = Datagrams
      /\ WellMapped(group)' /\ IOmapSize(group)' = IOmapSize(group)
  BY <1>1, GroupSame DEF TypeInv
<1>4. /\ Entries = <<>> /\ Entries' = <<>> /\ Top = 0 /\ Top' = 0 /\ idxstack.pulled = 0
             /\ idxstack'.pulled = 0
      /\ EC_MAXBUF \in Nat \ {0} /\ MaxCycles \in Nat /\ MaxLag \in Nat /\ cycle \in 0 .. MaxCycles
  <2>1. Entries = <<>> /\ idxstack.pulled = 0 /\ cycle \in 0 .. MaxCycles
    BY <1>1 DEF TypeInv
  <2> QED BY <2>1, <1>1, ProcessDataAssumption DEF Entries, Top
<1>5. \A v : v \in Values(cycle) => v \in Values(cycle')
  BY <1>1, <1>4 DEF Values
<1>6. OutputOf(cycle') \in Values(cycle')
  BY <1>1, <1>4 DEF Values
<1>7. phase' \in {"LRD", "LWR", "LRW", "receive"} /\ phase' # "app"
  BY <1>2
<1>8. received' = (IF phase' = "receive" THEN [NoReceive EXCEPT !.first = group.hasdc] ELSE received)
      /\ received \in [first : BOOLEAN, wkc : Nat, valid : BOOLEAN]
      /\ [NoReceive EXCEPT !.first = group.hasdc] \in [first : BOOLEAN, wkc : Nat, valid : BOOLEAN]
      /\ [NoReceive EXCEPT !.first = group.hasdc].first = group.hasdc
      /\ [NoReceive EXCEPT !.first = group.hasdc].wkc = 0
      /\ [NoReceive EXCEPT !.first = group.hasdc].valid = FALSE
  <2>1. NoReceive \in [first : BOOLEAN, wkc : Nat, valid : BOOLEAN] /\ NoReceive.wkc = 0
            /\ NoReceive.valid = FALSE
    BY DEF NoReceive
  <2> QED BY <2>1, <1>0, <1>1 DEF BeginReceive, TypeInv
<1>9. /\ SegmentStart(group, 0) = 0 /\ 0 < group.nsegments
      /\ group.blockLRW => group.Isegment \in 0 .. group.nsegments - 1
  BY <1>0, SegmentFacts, GroupMapped DEF St
<1>10. job' \in JobType
  <2>1. NoJob \in JobType /\ LRWJob \in JobType /\ LWRJob(group.hasdc) \in JobType
    BY <1>0 DEF NoJob, LRWJob, LWRJob, JobType
  <2>2. group.blockLRW => LRDJob \in JobType
    BY <1>0, <1>9 DEF LRDJob, JobType
  <2> QED BY <2>1, <2>2, <1>2
<1>11. TypeInv'
  <2>1. image' \in [0 .. IOmapSize(group)' - 1 -> Values(cycle')]
    <3>1. image \in [0 .. IOmapSize(group) - 1 -> Values(cycle)]
      BY DEF TypeInv
    <3> QED BY <3>1, <1>1, <1>3, <1>5, <1>6
  <2>2. \A f \in wire' : FrameOK(f)'
    <3> SUFFICES ASSUME NEW f \in wire' PROVE FrameOK(f)'
      OBVIOUS
    <3>1. FrameOK(f)
      BY <1>1 DEF TypeInv
    <3>2. f.cycle \in 1 .. cycle' /\ f.data \in [0 .. f.len - 1 -> Values(cycle')]
      BY <3>1, <1>1, <1>4, <1>5 DEF FrameOK
    <3> QED BY <3>1, <3>2 DEF FrameOK, Values
  <2>3. cycle' \in 0 .. MaxCycles /\ cycle' > 0 /\ DCtime' \in {Junk} \cup 0 .. cycle'
    BY <1>1, <1>4 DEF TypeInv
  <2>4. received' \in [first : BOOLEAN, wkc : Nat, valid : BOOLEAN]
    BY <1>8
  <2>5. /\ idxstack' \in [entries : Seq(EntryType), pulled : Nat] /\ idxstack'.pulled <= Top'
               /\ Top' <= EC_MAXBUF
        /\ rxbufstat' \in [Idx -> {"EMPTY", "TX"}] /\ lastidx' \in Idx
        /\ DCl' \in Nat /\ delivered' \in [Slaves' -> Int] /\ result' \in Int /\ result' >= EC_NOFRAME
    BY <1>1, <1>3, <1>4 DEF TypeInv
  <2> QED BY <1>3, <1>4, <1>7, <1>10, <2>1, <2>2, <2>3, <2>4, <2>5 DEF TypeInv, Values
<1>12. JobInv'
  <2>1. CASE phase' = "LRW"
    BY <2>1, <1>0, <1>1, <1>2, <1>4, <1>9 DEF JobInv, Sending, LRWJob, St
  <2>2. CASE phase' = "LRD"
    BY <2>2, <1>0, <1>1, <1>2, <1>4, <1>9 DEF JobInv, Sending, LRDJob, St
  <2>3. CASE phase' = "LWR"
    BY <2>3, <1>0, <1>1, <1>2, <1>4, <1>9 DEF JobInv, Sending, LWRJob, St
  <2>4. CASE phase' = "receive"
    BY <2>4 DEF JobInv, Sending
  <2> QED BY <2>1, <2>2, <2>3, <2>4, <1>2
<1>13. PlaceInv'
  BY <1>4 DEF PlaceInv
<1>14. IndexInv'
  <2>1. \A x \in Idx : rxbufstat[x] # "TX"
    BY <1>4 DEF IndexInv
  <2> QED BY <2>1, <1>1, <1>4 DEF IndexInv
<1>15. CountInv'
  <2>1. phase' = "LWR" => Reading' = 0
    BY <1>1, <1>2 DEF Reading
  <2>2. phase' = "LRW" => job'.segment = 0
    BY <1>2 DEF LRWJob
  <2>3. phase' = "LRD" => job'.segment = group.Isegment /\ job'.segment - group'.Isegment = 0
    BY <1>1, <1>2, <1>9 DEF LRDJob
  <2>4. phase' = "LWR" => job'.segment = 0
    BY <1>2 DEF LWRJob
  <2> QED BY <2>1, <2>2, <2>3, <2>4, <1>0, <1>3, <1>4 DEF CountInv
<1>16. CoverInv'
  <2>1. phase' = "LRW" => job'.adr = 0
    BY <1>2 DEF LRWJob
  <2>2. phase' = "LRD" => job'.adr = group'.Obytes
    BY <1>1, <1>2 DEF LRDJob
  <2>3. phase' \in {"LWR", "receive"} => Inputs = {}
    BY <1>0, <1>2 DEF Inputs
  <2>4. Off' \in Nat /\ group'.Obytes \in Nat /\ Off' .. Off' + 0 - 1 = {}
            /\ group'.Obytes .. group'.Obytes - 1 = {}
    BY <1>0, <1>1, <1>3
  <2> QED BY <2>1, <2>2, <2>3, <2>4, <1>3, <1>7 DEF CoverInv
<1>17. FirstInv'
  BY <1>1, <1>4, <1>8 DEF FirstInv
<1>18. WireInv'
  <2> SUFFICES ASSUME Rotates, NEW f \in wire'
               PROVE  /\ Lag(f)' <= MaxLag
                      /\ f.cycle < cycle' => Top' <= Behind(f.idx, lastidx')
                             /\ Behind(f.idx, lastidx') < Top' + Lag(f)' * Datagrams'
                      /\ f.cycle # cycle'
    BY <1>3, <1>7 DEF WireInv
  <2>1. f \in wire /\ f.cycle + MaxLag >= cycle + 1
    BY <1>1
  <2>2. f.idx \in Idx /\ f.cycle \in 1 .. cycle
    BY <2>1 DEF TypeInv, FrameOK
  <2>3. Behind(f.idx, lastidx) < Lag(f) * Datagrams + Datagrams
    BY <2>1, <1>1 DEF WireInv
  <2>4. Lag(f) \in Nat /\ Lag(f)' = Lag(f) + 1 /\ Lag(f)' <= MaxLag /\ f.cycle # cycle'
    BY <2>1, <2>2, <1>1, <1>4 DEF Lag
  <2>5. (Lag(f) + 1) * Datagrams = Lag(f) * Datagrams + Datagrams /\ Lag(f) * Datagrams \in Nat
    BY <2>4, RotatesFacts
  <2>6. Behind(f.idx, lastidx) \in Nat
    BY <2>2, BehindFacts DEF Idx
  <2>7. Behind(f.idx, lastidx') < 0 + Lag(f)' * Datagrams'
    <3> DEFINE x == Lag(f) * Datagrams + Datagrams
    <3>1. Lag(f)' * Datagrams' = x /\ x \in Nat
      BY <2>4, <2>5, <1>0, <1>3
    <3>2. Behind(f.idx, lastidx') < x
      BY <2>3, <1>1
    <3> HIDE DEF x
    <3> QED BY <3>1, <3>2
  <2> QED BY <2>4, <2>6, <2>7, <1>1, <1>4
<1>19. OutputsInv'
  <2>1. ASSUME NEW b \in Outputs PROVE image'[b] = OutputOf(cycle')
    <3>1. b \in DOMAIN image
      BY <1>0 DEF Outputs, TypeInv
    <3> QED BY <3>1, <1>1
  <2> QED BY <2>1, <1>3 DEF OutputsInv
<1>20. WkcInv'
  <2> SUFFICES ASSUME phase' = "receive"
               PROVE  /\ received'.wkc <= 2 * Cardinality(Wrote(idxstack.pulled))' + Cardinality(Read(idxstack.pulled))'
                      /\ \A s \in Wrote(idxstack.pulled)' : delivered'[s] = cycle'
                      /\ idxstack'.pulled = 0
    BY DEF WkcInv
  <2>1. Wrote(idxstack.pulled)' = {} /\ Read(idxstack.pulled)' = {}
    BY <1>4 DEF Wrote, Read
  <2>2. Cardinality(Wrote(idxstack.pulled))' = 0 /\ Cardinality(Read(idxstack.pulled))' = 0
    BY <2>1, FS_EmptySet
  <2>3. received'.wkc = 0
    BY <1>8
  <2> QED BY <2>1, <2>2, <2>3, <1>4
<1>21. ResultInv'
  BY <1>7 DEF ResultInv, WkcVouches, CycleDone
<1> QED BY <1>11, <1>12, <1>13, <1>14, <1>15, <1>16, <1>17, <1>18, <1>19, <1>20, <1>21

-----------------------------------------------------------------------------
(* Receiving                                                               *)

\* The entries of the index stack.
LEMMA EntryFacts ==
    ASSUME TypeInv
    PROVE  /\ Top \in Nat /\ Top <= EC_MAXBUF /\ idxstack.pulled \in Nat /\ idxstack.pulled <= Top
           /\ \A k \in 1 .. Top : /\ Entries[k].idx \in Idx /\ Entries[k].data \in Nat
                                         /\ Entries[k].length \in Nat
<1>1. \A k \in 1 .. Top : Entries[k] \in EntryType
  BY ElementOfSeq DEF TypeInv, Top, Entries
<1>2. Top \in Nat /\ Top <= EC_MAXBUF /\ idxstack.pulled \in Nat /\ idxstack.pulled <= Top
  BY DEF TypeInv, Top, Entries
<1> QED BY <1>1, <1>2 DEF EntryType

\* Two segments share no address.
LEMMA SegmentsApart ==
    ASSUME WellMapped(group), NEW i \in 0 .. group.nsegments - 1, NEW j \in 0 .. group.nsegments - 1,
           NEW b \in Int,
           St(i) <= b, b < St(i + 1), St(j) <= b, b < St(j + 1)
    PROVE  i = j
<1>1. /\ i + 1 \in 0 .. group.nsegments /\ j + 1 \in 0 .. group.nsegments
      /\ i \in 0 .. group.nsegments /\ j \in 0 .. group.nsegments
  BY GroupFacts
<1>2. \A x, y \in 0 .. group.nsegments : St(x) \in Nat /\ St(y) \in Nat /\ (x <= y => St(x) <= St(y))
  BY SegmentFacts
<1>3. i + 1 <= j => FALSE
  BY <1>1, <1>2
<1>4. j + 1 <= i => FALSE
  BY <1>1, <1>2
<1> QED BY <1>3, <1>4

\* The bytes that a slave has in a datagram lie in the segment of the datagram, as do all others it
\* has for that command.
LEMMA BytesOfSegment ==
    ASSUME WellMapped(group), NEW s \in Slaves, NEW e, e.data \in Nat, e.length \in Nat, AdrOf(e) \in Nat,
           InSegment(e),
           NEW fmmus \in {group.outputs[s], group.inputs[s]},
           BytesIn(fmmus, AdrOf(e), e.length) # {}
    PROVE  \E i \in 0 .. group.nsegments - 1 :
              /\ St(i) <= AdrOf(e) /\ AdrOf(e) + e.length <= St(i + 1) /\ e.length > 0
              /\ CmdOf(e) = "LWR" => AdrOf(e) = St(i)
              /\ CmdOf(e) # "LWR" =>
                    /\ AdrOf(e) + e.length = St(i + 1)
                    /\ AdrOf(e) = St(i) \/ (group.blockLRW /\ AdrOf(e) = group.Obytes)
              /\ \A j \in DOMAIN fmmus : /\ fmmus[j].start \in Nat /\ fmmus[j].length \in Nat
                                         /\ St(i) <= fmmus[j].start
                                                /\ fmmus[j].start + fmmus[j].length <= St(i + 1)
<1>1. PICK i \in 0 .. group.nsegments - 1 :
        /\ St(i) <= AdrOf(e) /\ AdrOf(e) + e.length <= St(i + 1)
        /\ CmdOf(e) = "LWR" => AdrOf(e) = St(i)
        /\ CmdOf(e) # "LWR" =>
              /\ AdrOf(e) + e.length = St(i + 1)
              /\ AdrOf(e) = St(i) \/ (group.blockLRW /\ AdrOf(e) = group.Obytes)
  BY DEF InSegment
<1>2. InOneSegment(group, fmmus)
  BY DEF WellMapped, SlavesMapped, Slaves
<1>3. PICK m \in 0 .. group.nsegments - 1 : \A j \in DOMAIN fmmus :
        /\ fmmus[j].start \in Nat /\ fmmus[j].length \in Nat
        /\ St(m) <= fmmus[j].start
        /\ fmmus[j].start + fmmus[j].length <= St(m + 1)
  BY <1>2 DEF InOneSegment, St
<1>4. PICK b \in AdrOf(e) .. AdrOf(e) + e.length - 1 : \E k \in DOMAIN fmmus : fmmus[k].start <= b
               /\ b < fmmus[k].start + fmmus[k].length
  BY DEF BytesIn
<1>5. PICK k \in DOMAIN fmmus : fmmus[k].start <= b /\ b < fmmus[k].start + fmmus[k].length
  BY <1>4
<1>6. /\ i \in 0 .. group.nsegments /\ m \in 0 .. group.nsegments
      /\ i + 1 \in 0 .. group.nsegments /\ m + 1 \in 0 .. group.nsegments
  BY GroupFacts
<1>7. St(i) \in Nat /\ St(i + 1) \in Nat /\ St(m) \in Nat /\ St(m + 1) \in Nat
  BY <1>6, SegmentFacts
<1>8. St(m) <= b /\ b < St(m + 1) /\ b \in Int
  BY <1>3, <1>4, <1>5, <1>7
<1>9. St(i) <= b /\ b < St(i + 1) /\ e.length > 0
  BY <1>1, <1>4, <1>7, <1>8
<1>10. i = m
  BY <1>8, <1>9, SegmentsApart
<1> QED BY <1>1, <1>3, <1>9, <1>10

\* A slave reads in one datagram of a cycle, and writes in one.
LEMMA OneDatagram ==
    ASSUME TypeInv, PlaceInv, NEW s \in Slaves, NEW j \in 1 .. Top, NEW k \in 1 .. Top, j < k,
           NEW d, d = Entries[j], NEW e, e = Entries[k]
    PROVE  ~(s \in ReadersOf(d) /\ s \in ReadersOf(e)) /\ ~(s \in WritersOf(d) /\ s \in WritersOf(e))
<1>1. WellMapped(group) /\ Off \in Nat /\ group.Obytes \in Nat /\ (group.blockLRW => ~group.overlap)
  BY GroupFacts, GroupMapped
<1>2. d.data \in Nat /\ d.length \in Nat /\ e.data \in Nat /\ e.length \in Nat
  BY EntryFacts
<1>3. InSegment(d) /\ InSegment(e) /\ (EndOf(d) <= e.data \/ EndOf(e) <= d.data)
  BY DEF PlaceInv
<1>4. AdrOf(d) \in Int /\ AdrOf(e) \in Int /\ (AdrOf(d) + d.length <= AdrOf(e)
          \/ AdrOf(e) + e.length <= AdrOf(d))
  BY <1>1, <1>2, <1>3 DEF AdrOf, EndOf
<1>5. AdrOf(d) \in Nat /\ AdrOf(e) \in Nat
  <2>1. \A i \in 0 .. group.nsegments - 1 : St(i) \in Nat
    <3>1. \A i \in 0 .. group.nsegments - 1 : i \in 0 .. group.nsegments
      BY <1>1, GroupFacts
    <3> QED BY <1>1, <3>1, SegmentFacts
  <2> QED BY <1>3, <1>4, <2>1 DEF InSegment
<1>6. ASSUME NEW fmmus \in {group.outputs[s], group.inputs[s]},
             BytesIn(fmmus, AdrOf(d), d.length) # {}, BytesIn(fmmus, AdrOf(e), e.length) # {},
             CmdOf(d) = "LWR" <=> CmdOf(e) = "LWR"
      PROVE  FALSE
  <2>1. PICK i \in 0 .. group.nsegments - 1 :
              /\ St(i) <= AdrOf(d) /\ AdrOf(d) + d.length <= St(i + 1) /\ d.length > 0
              /\ CmdOf(d) = "LWR" => AdrOf(d) = St(i)
              /\ CmdOf(d) # "LWR" => AdrOf(d) + d.length = St(i + 1)
              /\ \A x \in DOMAIN fmmus : /\ fmmus[x].start \in Nat /\ fmmus[x].length \in Nat
                                         /\ St(i) <= fmmus[x].start
                                                /\ fmmus[x].start + fmmus[x].length <= St(i + 1)
    BY <1>1, <1>2, <1>3, <1>5, <1>6, BytesOfSegment
  <2>2. PICK m \in 0 .. group.nsegments - 1 :
              /\ St(m) <= AdrOf(e) /\ AdrOf(e) + e.length <= St(m + 1) /\ e.length > 0
              /\ CmdOf(e) = "LWR" => AdrOf(e) = St(m)
              /\ CmdOf(e) # "LWR" => AdrOf(e) + e.length = St(m + 1)
    BY <1>1, <1>2, <1>3, <1>5, <1>6, BytesOfSegment
  <2>3. PICK b \in AdrOf(e) .. AdrOf(e) + e.length - 1 : \E x \in DOMAIN fmmus : fmmus[x].start <= b
                 /\ b < fmmus[x].start + fmmus[x].length
    BY <1>6 DEF BytesIn
  <2>4. /\ i \in 0 .. group.nsegments /\ m \in 0 .. group.nsegments
        /\ i + 1 \in 0 .. group.nsegments /\ m + 1 \in 0 .. group.nsegments
    BY <1>1, GroupFacts
  <2>5. St(i) \in Nat /\ St(i + 1) \in Nat /\ St(m) \in Nat /\ St(m + 1) \in Nat
    BY <1>1, <2>4, SegmentFacts
  <2>6. St(i) <= b /\ b < St(i + 1) /\ b \in Int
    BY <1>5, <2>1, <2>3, <2>5
  <2>7. St(m) <= b /\ b < St(m + 1)
    BY <1>2, <1>5, <2>2, <2>3, <2>5
  <2>8. i = m
    BY <1>1, <2>6, <2>7, SegmentsApart
  <2>9. CASE CmdOf(d) = "LWR"
    BY <1>2, <1>4, <1>6, <2>1, <2>2, <2>5, <2>8, <2>9
  <2>10. CASE CmdOf(d) # "LWR"
    BY <1>2, <1>4, <1>6, <2>1, <2>2, <2>5, <2>8, <2>10
  <2> QED BY <2>9, <2>10
<1>7. ~(s \in ReadersOf(d) /\ s \in ReadersOf(e))
  BY <1>6 DEF ReadersOf, Reads
<1>8. ~(s \in WritersOf(d) /\ s \in WritersOf(e))
  <2> SUFFICES ASSUME s \in WritersOf(d), s \in WritersOf(e) PROVE FALSE
    OBVIOUS
  <2>1. CmdOf(d) # "LRD" /\ CmdOf(e) # "LRD"
    BY DEF WritersOf, Writes
  <2>2. CmdOf(d) = "LWR" <=> CmdOf(e) = "LWR"
    BY <2>1 DEF CmdOf
  <2> QED BY <2>2, <1>6 DEF WritersOf, Writes
<1> QED BY <1>7, <1>8

\* What pulling an entry does, whether its frame came or not.
Pulls ==
    /\ Pulling
    /\ rxbufstat' = [rxbufstat EXCEPT ![Entry.idx] = "EMPTY"]
    /\ idxstack' = [idxstack EXCEPT !.pulled = @ + 1]
    /\ UNCHANGED <<group, phase, cycle, job, lastidx, delivered, DCl, result>>
    /\ wire' \subseteq wire

\* Pulling an entry leaves the entries and what they are of alone.
LEMMA PullFacts ==
    ASSUME TypeInv, Pulls
    PROVE  /\ phase = "receive" /\ phase' = "receive"
           /\ idxstack.pulled + 1 \in 1 .. Top /\ Entry = Entries[idxstack.pulled + 1]
           /\ Entries' = Entries /\ Top' = Top /\ idxstack'.pulled = idxstack.pulled + 1
           /\ Slaves' = Slaves /\ Outputs' = Outputs /\ Inputs' = Inputs /\ Off' = Off
           /\ Datagrams' = Datagrams /\ Rotates' = Rotates /\ OneLength' = OneLength
           /\ \A e : /\ CmdOf(e)' = CmdOf(e) /\ AdrOf(e)' = AdrOf(e) /\ InSegment(e)' = InSegment(e)
                     /\ ReadersOf(e)' = ReadersOf(e) /\ WritersOf(e)' = WritersOf(e)
           /\ \A f, e : Match(f, e) => Match(f, e)'
<1>1. phase = "receive" /\ phase' = "receive" /\ group' = group /\ delivered' = delivered /\ cycle' = cycle
  BY DEF Pulls, Pulling
<1>2. Top \in Nat /\ idxstack.pulled \in Nat /\ idxstack.pulled < Top /\ Entry = Entries[idxstack.pulled + 1]
  BY EntryFacts DEF Pulls, Pulling, Entry, Top, Entries
<1>3. idxstack'.entries = idxstack.entries /\ idxstack'.pulled = idxstack.pulled + 1
  BY DEF Pulls, TypeInv
<1>4. Entries' = Entries /\ Top' = Top
  BY <1>3 DEF Entries, Top
<1>5. /\ Slaves' = Slaves /\ Outputs' = Outputs /\ Inputs' = Inputs /\ Off' = Off
      /\ Datagrams' = Datagrams /\ Rotates' = Rotates /\ OneLength' = OneLength
      /\ \A e : /\ CmdOf(e)' = CmdOf(e) /\ AdrOf(e)' = AdrOf(e) /\ InSegment(e)' = InSegment(e)
                /\ ReadersOf(e)' = ReadersOf(e) /\ WritersOf(e)' = WritersOf(e)
  BY <1>1, GroupSame
<1>6. \A f, e : Match(f, e) => Match(f, e)'
  BY <1>1, <1>5 DEF Match
<1> QED BY <1>1, <1>2, <1>3, <1>4, <1>5, <1>6

\* Pulling an entry returns its index; the parts of the invariant that are not about what was read hold on.
LEMMA PullRestKept ==
    ASSUME CycInv, Pulls
    PROVE  IndexInv' /\ JobInv' /\ PlaceInv' /\ CountInv' /\ CoverInv' /\ WireInv' /\ ResultInv'
<1> USE DEF CycInv
<1> DEFINE p == idxstack.pulled
<1>1. /\ phase = "receive" /\ phase' = "receive" /\ group' = group /\ cycle' = cycle /\ lastidx' = lastidx
      /\ Entries' = Entries /\ Top' = Top /\ idxstack'.pulled = p + 1 /\ wire' \subseteq wire
      /\ p + 1 \in 1 .. Top /\ Entry = Entries[p + 1] /\ Top \in Nat /\ p \in Nat
  BY PullFacts, EntryFacts DEF Pulls
<1>2. IndexInv'
  <2> DEFINE i0 == Entries[p + 1].idx
  <2>1. i0 \in Idx
    BY <1>1, EntryFacts
  <2>2. rxbufstat' = [rxbufstat EXCEPT ![i0] = "EMPTY"] /\ rxbufstat \in [Idx -> {"EMPTY", "TX"}]
    BY <1>1 DEF Pulls, TypeInv
  <2>3. \A i \in Idx : rxbufstat'[i] = "TX" <=> rxbufstat[i] = "TX" /\ i # i0
    BY <2>1, <2>2
  <2>4. \A j, k \in 1 .. Top : j # k => Entries[j].idx # Entries[k].idx
    BY DEF IndexInv
  <2>5. \A i \in Idx : rxbufstat'[i] = "TX" <=> \E k \in p + 1 + 1 .. Top : Entries[k].idx = i
    <3> SUFFICES ASSUME NEW i \in Idx
                 PROVE  rxbufstat'[i] = "TX" <=> \E k \in p + 1 + 1 .. Top : Entries[k].idx = i
      OBVIOUS
    <3>1. rxbufstat[i] = "TX" <=> \E k \in p + 1 .. Top : Entries[k].idx = i
      BY DEF IndexInv
    <3>2. \A k \in p + 1 .. Top : k = p + 1 \/ k \in p + 1 + 1 .. Top
      BY <1>1
    <3>3. \A k \in p + 1 + 1 .. Top : k \in p + 1 .. Top /\ k \in 1 .. Top /\ k # p + 1
      BY <1>1
    <3> HIDE DEF p
    <3>4. (\E k \in p + 1 + 1 .. Top : Entries[k].idx = i) => i # i0
              /\ \E k \in p + 1 .. Top : Entries[k].idx = i
      BY <1>1, <2>4, <3>3
    <3>5. i # i0 /\ (\E k \in p + 1 .. Top : Entries[k].idx = i)
              => \E k \in p + 1 + 1 .. Top : Entries[k].idx = i
      BY <3>2
    <3> QED BY <3>1, <3>4, <3>5, <2>3
  <2>6. Top < EC_MAXBUF \/ Datagrams <= EC_MAXBUF
            => \A k \in 1 .. Top : Behind(Entries[k].idx, lastidx) = Top - k
    BY DEF IndexInv
  <2>7. Datagrams' = Datagrams
    BY PullFacts
  <2> QED BY <1>1, <2>4, <2>5, <2>6, <2>7 DEF IndexInv, Sending, Behind
<1>3. JobInv'
  BY <1>1 DEF JobInv, Sending
<1>4. PlaceInv'
  <2>1. \A e : PlaceOK(e) => PlaceOK(e)'
    <3>1. Off' = Off
      BY PullFacts
    <3> QED BY <1>1, <3>1 DEF PlaceOK, EndOf
  <2>2. \A e : InSegment(e)' = InSegment(e)
    BY PullFacts
  <2>3. \A k \in 1 .. Top : \A e \in {Entries[k]} : PlaceOK(e)' /\ InSegment(e)'
    BY <2>1, <2>2 DEF PlaceInv
  <2> QED BY <1>1, <2>3 DEF PlaceInv, EndOf
<1>5. CountInv'
  <2>1. Datagrams' = Datagrams
    BY PullFacts
  <2> QED BY <1>1, <2>1 DEF CountInv
<1>6. CoverInv'
  <2>1. Datagrams' = Datagrams /\ Inputs' = Inputs
    BY PullFacts
  <2> QED BY <1>1, <2>1 DEF CoverInv, EndOf
<1>7. WireInv'
  <2> SUFFICES ASSUME Rotates, NEW f \in wire'
               PROVE  /\ Lag(f)' <= MaxLag
                      /\ f.cycle < cycle => Top <= Behind(f.idx, lastidx)
                             /\ Behind(f.idx, lastidx) < Top + Lag(f)' * Datagrams
                      /\ f.cycle = cycle =>
                            \E k \in 1 .. Top : \E e \in {Entries[k]} :
                                e.idx = f.idx /\ Match(f, e)' /\ (f.dc <=> group.hasdc /\ k = 1)
    <3>1. Rotates' = Rotates /\ Datagrams' = Datagrams
      BY PullFacts
    <3> QED BY <1>1, <3>1 DEF WireInv
  <2>1. f \in wire /\ Lag(f)' = Lag(f)
    BY <1>1 DEF Lag
  <2>2. /\ Lag(f) <= MaxLag
        /\ f.cycle < cycle => Top <= Behind(f.idx, lastidx)
               /\ Behind(f.idx, lastidx) < Top + Lag(f) * Datagrams
        /\ f.cycle = cycle =>
              \E k \in 1 .. Top : \E e \in {Entries[k]} :
                  e.idx = f.idx /\ Match(f, e) /\ (f.dc <=> group.hasdc /\ k = 1)
    BY <1>1, <2>1 DEF WireInv
  <2> QED BY <2>1, <2>2, PullFacts
<1>8. ResultInv'
  BY <1>1 DEF ResultInv, WkcVouches, CycleDone
<1> QED BY <1>2, <1>3, <1>4, <1>5, <1>6, <1>7, <1>8

\* While the indexes do not come round, a frame with the index of an entry is that of the entry.
LEMMA FrameIsEntrys ==
    ASSUME CycInv, Rotates, phase = "receive", NEW k \in 1 .. Top, NEW e, e = Entries[k], NEW f \in wire,
           f.idx = e.idx
    PROVE  f.cycle = cycle /\ Match(f, e) /\ (f.dc <=> group.hasdc /\ k = 1)
<1> USE DEF CycInv
<1>1. f.cycle \in 1 .. cycle /\ cycle \in Nat
  BY DEF TypeInv, FrameOK
<1>2. Behind(e.idx, lastidx) = Top - k
  BY RotatesFacts DEF IndexInv
<1>3. ~(Top <= Behind(e.idx, lastidx))
  BY <1>2, EntryFacts
<1>4. f.cycle = cycle
  BY <1>1, <1>3 DEF WireInv
<1>5. PICK j \in 1 .. Top : \E d \in {Entries[j]} : d.idx = f.idx /\ Match(f, d)
               /\ (f.dc <=> group.hasdc /\ j = 1)
  BY <1>4 DEF WireInv
<1>6. j = k
  BY <1>5 DEF IndexInv
<1> QED BY <1>4, <1>5, <1>6

\* The slaves that write and read in the entries pulled, with one more.
LEMMA PullCounts ==
    ASSUME CycInv, Pulls, NEW e, e = Entry
    PROVE  /\ Wrote(idxstack.pulled)' = Wrote(idxstack.pulled) \cup WritersOf(e)
           /\ Read(idxstack.pulled)' = Read(idxstack.pulled) \cup ReadersOf(e)
           /\ Cardinality(Wrote(idxstack.pulled))' = Cardinality(Wrote(idxstack.pulled)) + Cardinality(WritersOf(e))
           /\ Cardinality(Read(idxstack.pulled))' = Cardinality(Read(idxstack.pulled)) + Cardinality(ReadersOf(e))
           /\ Cardinality(Wrote(idxstack.pulled)) \in Nat /\ Cardinality(Read(idxstack.pulled)) \in Nat
           /\ Cardinality(WritersOf(e)) \in Nat /\ Cardinality(ReadersOf(e)) \in Nat
<1> USE DEF CycInv
<1> DEFINE p == idxstack.pulled
           w == Wrote(p)
           r == Read(p)
<1>1. /\ p \in Nat /\ p + 1 \in 1 .. Top /\ Top \in Nat /\ Entries' = Entries /\ idxstack'.pulled = p + 1
      /\ e = Entries[p + 1] /\ Slaves' = Slaves
      /\ \A d : ReadersOf(d)' = ReadersOf(d) /\ WritersOf(d)' = WritersOf(d)
  BY PullFacts, EntryFacts
<1>2. \A k \in 1 .. p + 1 : k \in 1 .. p \/ k = p + 1
  BY <1>1
<1>3. 1 .. p \subseteq 1 .. p + 1 /\ p + 1 \in 1 .. p + 1
  BY <1>1
<1>4. WritersOf(e) \subseteq Slaves /\ ReadersOf(e) \subseteq Slaves /\ w \subseteq Slaves
          /\ r \subseteq Slaves
  BY DEF WritersOf, ReadersOf, Wrote, Read
<1>5. Wrote(idxstack.pulled)' = {s \in Slaves : \E k \in 1 .. p + 1 : \E d \in {Entries[k]} : s \in WritersOf(d)}
  BY <1>1 DEF Wrote
<1>6. Read(idxstack.pulled)' = {s \in Slaves : \E k \in 1 .. p + 1 : \E d \in {Entries[k]} : s \in ReadersOf(d)}
  BY <1>1 DEF Read
<1>7. Wrote(idxstack.pulled)' = w \cup WritersOf(e)
  BY <1>1, <1>2, <1>3, <1>4, <1>5 DEF Wrote
<1>8. Read(idxstack.pulled)' = r \cup ReadersOf(e)
  BY <1>1, <1>2, <1>3, <1>4, <1>6 DEF Read
<1>9. w \cap WritersOf(e) = {} /\ r \cap ReadersOf(e) = {}
  <2> SUFFICES ASSUME NEW s \in Slaves, (s \in w /\ s \in WritersOf(e))
                   \/ (s \in r /\ s \in ReadersOf(e)) PROVE FALSE
    BY <1>4
  <2>1. ASSUME NEW k \in 1 .. p, NEW d, d = Entries[k]
        PROVE  ~(s \in ReadersOf(d) /\ s \in ReadersOf(e)) /\ ~(s \in WritersOf(d) /\ s \in WritersOf(e))
    <3>1. k \in 1 .. Top /\ k < p + 1
      BY <1>1
    <3> QED BY <2>1, <3>1, <1>1, OneDatagram
  <2> QED BY <2>1 DEF Wrote, Read
<1>10. \A S : S \subseteq Slaves => IsFiniteSet(S) /\ Cardinality(S) \in Nat
  BY SlavesFinite, GroupMapped
<1>11. \A S, T : S \subseteq Slaves /\ T \subseteq Slaves /\ S \cap T = {}
           => Cardinality(S \cup T) = Cardinality(S) + Cardinality(T)
  <2> SUFFICES ASSUME NEW S, NEW T, S \subseteq Slaves, T \subseteq Slaves, S \cap T = {}
               PROVE  Cardinality(S \cup T) = Cardinality(S) + Cardinality(T)
    OBVIOUS
  <2>1. IsFiniteSet(S) /\ IsFiniteSet(T) /\ Cardinality(S) \in Nat /\ Cardinality(T) \in Nat
    BY <1>10
  <2>2. Cardinality(S \cup T) = Cardinality(S) + Cardinality(T) - Cardinality(S \cap T)
    BY <2>1, FS_Union
  <2>3. Cardinality(S \cap T) = 0
    BY FS_EmptySet
  <2> QED BY <2>1, <2>2, <2>3
<1>12. Cardinality(Wrote(idxstack.pulled))' = Cardinality(w \cup WritersOf(e))
  BY <1>7
<1>13. Cardinality(Read(idxstack.pulled))' = Cardinality(r \cup ReadersOf(e))
  BY <1>8
<1> QED BY <1>4, <1>7, <1>8, <1>9, <1>10, <1>11, <1>12, <1>13

\* Where an entry places an input that a slave reads in it.
LEMMA PlaceOfInput ==
    ASSUME CycInv, NEW k \in 1 .. Top, NEW e, e = Entries[k], NEW s \in ReadersOf(e),
           NEW b \in BytesIn(group.inputs[s], AdrOf(e), e.length), NEW x, x = Off + b
    PROVE  /\ e.data <= x /\ x < EndOf(e) /\ x - e.data = b - AdrOf(e)
           /\ x \in DOMAIN image /\ x \in Int
           /\ CmdOf(e) # "LWR"
<1> USE DEF CycInv
<1>1. /\ Off \in Nat /\ group.Obytes \in Nat /\ group.Ibytes \in Nat
             /\ IOmapSize(group) = group.Obytes + group.Ibytes
      /\ group.overlap \in BOOLEAN
      /\ group.overlap => Off = group.Obytes
      /\ ~group.overlap => Off = 0 /\ Extent(group) = group.Obytes + group.Ibytes
  BY GroupFacts, GroupMapped
<1>2. e.data \in Nat /\ e.length \in Nat /\ s \in Slaves /\ CmdOf(e) # "LWR"
  BY EntryFacts DEF ReadersOf, Reads
<1>3. b \in AdrOf(e) .. AdrOf(e) + e.length - 1
  BY DEF BytesIn
<1>4. AdrOf(e) = e.data - Off /\ AdrOf(e) \in Int
  BY <1>1, <1>2 DEF AdrOf
<1>5. e.data <= Off + b /\ Off + b < e.data + e.length /\ Off + b - e.data = b - AdrOf(e) /\ b \in Int
      /\ b - AdrOf(e) \in 0 .. e.length - 1
  BY <1>1, <1>2, <1>3, <1>4
<1>6. InSegment(e)
  BY DEF PlaceInv
<1>7. AdrOf(e) \in Nat /\ AdrOf(e) + e.length <= Extent(group)
  <2>1. PICK i \in 0 .. group.nsegments - 1 : St(i) <= AdrOf(e) /\ AdrOf(e) + e.length <= St(i + 1)
    BY <1>6 DEF InSegment
  <2>2. i \in 0 .. group.nsegments /\ i + 1 \in 0 .. group.nsegments
    BY GroupFacts, GroupMapped
  <2>3. St(i) \in Nat /\ St(i + 1) \in Nat /\ St(i + 1) <= Extent(group) /\ Extent(group) \in Nat
    BY <2>2, SegmentFacts, GroupFacts, GroupMapped
  <2> QED BY <2>1, <2>3, <1>2, <1>4
<1>8. group.overlap => b < group.Ibytes
  BY <1>2, <1>7, MappedBytes, GroupMapped
<1>9. b \in Nat /\ b < AdrOf(e) + e.length
  BY <1>2, <1>3, <1>5, <1>7
<1>10. x \in DOMAIN image
  <2>1. DOMAIN image = 0 .. IOmapSize(group) - 1
    BY DEF TypeInv
  <2>2. x < group.Obytes + group.Ibytes /\ x \in Nat
    <3>1. CASE group.overlap
      <4>1. Off = group.Obytes /\ b < group.Ibytes
        BY <3>1, <1>1, <1>8
      <4> QED BY <4>1, <1>1, <1>9
    <3>2. CASE ~group.overlap
      <4>1. Off = 0 /\ AdrOf(e) + e.length <= group.Obytes + group.Ibytes
        BY <3>2, <1>1, <1>7
      <4>2. b < group.Obytes + group.Ibytes
        BY <4>1, <1>1, <1>2, <1>7, <1>9
      <4> QED BY <4>1, <4>2, <1>1, <1>9
    <3> QED BY <3>1, <3>2, <1>1
  <2>3. x < IOmapSize(group) /\ IOmapSize(group) \in Nat
    BY <2>2, <1>1
  <2> QED BY <2>1, <2>2, <2>3
<1>11. x \in Int /\ e.data <= x /\ x < e.data + e.length /\ x - e.data = b - AdrOf(e)
  BY <1>1, <1>2, <1>5
<1> QED BY <1>2, <1>10, <1>11 DEF EndOf

\* A frame that is taken for what it is adds what it counts.
LEMMA TakeFrame ==
    ASSUME CycInv, Pulls, Rotates, Genuine, NEW e, e = Entry, NEW f \in wire, f.idx = e.idx,
           image' = (IF f.cmd = "LWR" THEN image ELSE Copied(e.data, e.length, f)),
           received'.wkc = received.wkc + f.wkc * Twice(f)
    PROVE  /\ \A b \in Outputs : image'[b] = OutputOf(cycle)
           /\ WkcInv'
<1> USE DEF CycInv
<1> DEFINE p == idxstack.pulled
<1>1. /\ p \in Nat /\ p + 1 \in 1 .. Top /\ Top \in Nat /\ Entries' = Entries /\ idxstack'.pulled = p + 1
      /\ e = Entries[p + 1] /\ phase = "receive" /\ group' = group /\ cycle' = cycle
             /\ delivered' = delivered /\ Off' = Off
      /\ Slaves' = Slaves
      /\ \A d : ReadersOf(d)' = ReadersOf(d) /\ WritersOf(d)' = WritersOf(d) /\ AdrOf(d)' = AdrOf(d)
  BY PullFacts, EntryFacts DEF Pulls
<1>2. f.cycle = cycle /\ Match(f, e)
  BY <1>1, FrameIsEntrys
<1>3. /\ f.len = e.length /\ f.cmd = CmdOf(e)
      /\ f.cmd # "LWR" => \A i \in 0 .. f.len - 1 : e.data + i \in Outputs => f.data[i] = OutputOf(cycle)
  BY <1>2 DEF Match
<1>4. PICK readers \in SUBSET ReadersOf(e), writers \in SUBSET WritersOf(e) :
          /\ f.wkc * Twice(f) = Cardinality(readers) + 2 * Cardinality(writers)
          /\ \A s \in writers : delivered[s] = cycle
          /\ \A s \in readers : \A b \in BytesIn(group.inputs[s], AdrOf(e), e.length) :
                f.data[b - AdrOf(e)] = InputOf(cycle)
  BY <1>2 DEF Match
<1>5. e.data \in Nat /\ e.length \in Nat
  BY <1>1, EntryFacts
<1>6. ASSUME NEW b \in DOMAIN image, b \in Int, ~(e.data <= b /\ b < EndOf(e)) PROVE image'[b] = image[b]
  BY <1>5, <1>6 DEF Copied, EndOf
<1>7. ASSUME NEW b \in DOMAIN image, b \in Int, e.data <= b, b < EndOf(e),
             f.cmd # "LWR" PROVE image'[b] = f.data[b - e.data]
  BY <1>3, <1>5, <1>7 DEF Copied, EndOf
<1>8. ASSUME NEW b \in Outputs PROVE image'[b] = OutputOf(cycle)
  <2>1. b \in DOMAIN image /\ b \in Int /\ b \in Nat
    <3>1. DOMAIN image = 0 .. IOmapSize(group) - 1 /\ IOmapSize(group) = group.Obytes + group.Ibytes
          /\ group.Obytes \in Nat /\ group.Ibytes \in Nat
      BY GroupFacts, GroupMapped DEF TypeInv
    <3> QED BY <3>1 DEF Outputs
  <2>2. image[b] = OutputOf(cycle)
    <3>1. cycle > 0
      BY <1>1 DEF TypeInv
    <3> QED BY <3>1, <1>8 DEF OutputsInv
  <2>3. CASE e.data <= b /\ b < EndOf(e) /\ f.cmd # "LWR"
    <3>1. image'[b] = f.data[b - e.data]
      BY <2>1, <2>3, <1>7
    <3>2. b - e.data \in 0 .. f.len - 1 /\ e.data + (b - e.data) = b
      BY <2>1, <2>3, <1>3, <1>5 DEF EndOf
    <3> QED BY <2>3, <3>1, <3>2, <1>3, <1>8
  <2>4. CASE ~(e.data <= b /\ b < EndOf(e))
    BY <2>1, <2>2, <2>4, <1>6
  <2>5. CASE f.cmd = "LWR"
    BY <2>2, <2>5
  <2> QED BY <2>3, <2>4, <2>5
<1> DEFINE w == Cardinality(Wrote(p))
           r == Cardinality(Read(p))
           we == Cardinality(WritersOf(e))
           re == Cardinality(ReadersOf(e))
           wf == Cardinality(writers)
           rf == Cardinality(readers)
<1>9. /\ w \in Nat /\ r \in Nat /\ we \in Nat /\ re \in Nat
      /\ Cardinality(Wrote(idxstack.pulled))' = w + we /\ Cardinality(Read(idxstack.pulled))' = r + re
      /\ Wrote(idxstack.pulled)' = Wrote(p) \cup WritersOf(e)
  BY PullCounts
<1>10. IsFiniteSet(WritersOf(e)) /\ IsFiniteSet(ReadersOf(e))
  BY SlavesFinite, GroupMapped DEF WritersOf, ReadersOf
<1>11. wf \in Nat /\ rf \in Nat /\ wf <= we /\ rf <= re
       /\ (wf = we => writers = WritersOf(e)) /\ (rf = re => readers = ReadersOf(e))
  <2>1. writers \subseteq WritersOf(e) /\ readers \subseteq ReadersOf(e)
    BY <1>4
  <2>2. IsFiniteSet(writers) /\ wf <= we /\ (we = wf => writers = WritersOf(e))
    BY <2>1, <1>10, FS_Subset
  <2>3. IsFiniteSet(readers) /\ rf <= re /\ (re = rf => readers = ReadersOf(e))
    BY <2>1, <1>10, FS_Subset
  <2> QED BY <2>2, <2>3, FS_CardinalityType
<1>12. /\ received.wkc \in Nat /\ received.wkc <= 2 * w + r
       /\ received.wkc = 2 * w + r =>
              /\ \A s \in Wrote(p) : delivered[s] = cycle
              /\ \A k \in 1 .. p : \A d \in {Entries[k]} : \A s \in ReadersOf(d) :
                    \A b \in BytesIn(group.inputs[s], AdrOf(d), d.length) : image[Off + b] = InputOf(cycle)
  BY <1>1 DEF WkcInv, TypeInv
<1>13. received'.wkc = received.wkc + rf + 2 * wf
  <2>1. f.wkc * Twice(f) = rf + 2 * wf
    BY <1>4
  <2> HIDE DEF rf, wf
  <2> QED BY <2>1, <1>11, <1>12
<1>14. received'.wkc <= 2 * (w + we) + (r + re)
  <2> HIDE DEF w, r, we, re, wf, rf
  <2> QED BY <1>9, <1>11, <1>12, <1>13
<1>15. ASSUME received'.wkc = 2 * (w + we) + (r + re)
       PROVE  /\ \A s \in Wrote(p) \cup WritersOf(e) : delivered[s] = cycle
              /\ \A k \in 1 .. p + 1 : \A d \in {Entries[k]} : \A s \in ReadersOf(d) :
                    \A b \in BytesIn(group.inputs[s], AdrOf(d), d.length) : image'[Off + b] = InputOf(cycle)
  <2>1. received.wkc = 2 * w + r /\ wf = we /\ rf = re
    <3> HIDE DEF w, r, we, re, wf, rf
    <3> QED BY <1>9, <1>11, <1>12, <1>13, <1>15
  <2>2. writers = WritersOf(e) /\ readers = ReadersOf(e)
    BY <2>1, <1>11
  <2>3. \A s \in Wrote(p) \cup WritersOf(e) : delivered[s] = cycle
    BY <2>1, <2>2, <1>4, <1>12
  <2>4. ASSUME NEW k \in 1 .. p + 1, NEW d, d = Entries[k], NEW s \in ReadersOf(d),
               NEW b \in BytesIn(group.inputs[s], AdrOf(d), d.length)
        PROVE  image'[Off + b] = InputOf(cycle)
    <3>1. k \in 1 .. Top
      BY <1>1
    <3>2. PICK x : x = Off + b
      OBVIOUS
    <3>3. /\ d.data <= x /\ x < EndOf(d) /\ x - d.data = b - AdrOf(d)
          /\ x \in DOMAIN image /\ x \in Int /\ CmdOf(d) # "LWR"
      BY <2>4, <3>1, <3>2, PlaceOfInput
    <3>4. CASE k = p + 1
      <4>1. d = e /\ f.cmd # "LWR"
        BY <2>4, <3>3, <3>4, <1>1, <1>3
      <4>2. image'[x] = f.data[b - AdrOf(e)]
        <5>1. image'[x] = f.data[x - e.data]
          BY <4>1, <3>3, <1>7
        <5> QED BY <4>1, <5>1, <3>3
      <4>3. f.data[b - AdrOf(e)] = InputOf(cycle)
        BY <4>1, <2>2, <2>4, <1>4
      <4>4. image'[x] = InputOf(cycle)
        BY <4>2, <4>3
      <4> QED BY <4>4, <3>2
    <3>5. CASE k \in 1 .. p
      <4>1. image[x] = InputOf(cycle)
        <5>1. image[Off + b] = InputOf(cycle)
          BY <2>1, <2>4, <3>5, <1>12
        <5> QED BY <5>1, <3>2
      <4>2. EndOf(d) <= e.data \/ EndOf(e) <= d.data
        <5>1. k < p + 1
          BY <3>5, <1>1
        <5> QED BY <5>1, <2>4, <3>1, <1>1 DEF PlaceInv
      <4>3. ~(e.data <= x /\ x < EndOf(e))
        <5>1. d.data \in Nat /\ d.length \in Nat
          BY <2>4, <3>1, EntryFacts
        <5> QED BY <4>2, <5>1, <3>3, <1>5 DEF EndOf
      <4>4. image'[x] = InputOf(cycle)
        BY <4>1, <4>3, <3>3, <1>6
      <4> QED BY <4>4, <3>2
    <3>6. k = p + 1 \/ k \in 1 .. p
      BY <1>1
    <3> QED BY <3>4, <3>5, <3>6
  <2> QED BY <2>3, <2>4
<1>16. WkcInv'
  <2> HIDE DEF w, r, we, re
  <2> QED BY <1>1, <1>9, <1>14, <1>15 DEF WkcInv
<1> QED BY <1>8, <1>16

\* Pulling an entry leaves the state well typed, if what was read is.
LEMMA PullTypes ==
    ASSUME CycInv, Pulls, image' \in [0 .. IOmapSize(group) - 1 -> Values(cycle)],
           DCtime' \in {Junk} \cup 0 .. cycle, received' \in [first : BOOLEAN, wkc : Nat, valid : BOOLEAN]
    PROVE  TypeInv'
<1> USE DEF CycInv
<1>1. /\ phase = "receive" /\ phase' = "receive" /\ group' = group /\ cycle' = cycle /\ lastidx' = lastidx
      /\ Entries' = Entries /\ Top' = Top /\ idxstack'.pulled = idxstack.pulled + 1 /\ wire' \subseteq wire
      /\ idxstack.pulled + 1 \in 1 .. Top /\ Top \in Nat /\ idxstack.pulled \in Nat /\ Slaves' = Slaves
      /\ job' = job /\ delivered' = delivered /\ DCl' = DCl /\ result' = result
  BY PullFacts, EntryFacts DEF Pulls
<1>2. idxstack' \in [entries : Seq(EntryType), pulled : Nat] /\ rxbufstat' \in [Idx -> {"EMPTY", "TX"}]
  <2>1. idxstack \in [entries : Seq(EntryType), pulled : Nat] /\ rxbufstat \in [Idx -> {"EMPTY", "TX"}]
    BY DEF TypeInv
  <2>2. idxstack' = [idxstack EXCEPT !.pulled = @ + 1]
    BY DEF Pulls
  <2>3. idxstack' \in [entries : Seq(EntryType), pulled : Nat]
    BY <2>1, <2>2
  <2> QED BY <2>1, <2>3 DEF Pulls
<1>3. \A f \in wire' : FrameOK(f)'
  <2>1. \A f \in wire : FrameOK(f)
    BY DEF TypeInv
  <2> QED BY <2>1, <1>1 DEF FrameOK, Values
<1>4. WellMapped(group)' /\ IOmapSize(group)' = IOmapSize(group)
  BY <1>1 DEF TypeInv
<1>5. idxstack'.pulled <= Top'
  BY <1>1
<1>6. /\ cycle' \in 0 .. MaxCycles /\ cycle' > 0 /\ job' \in JobType /\ Top' <= EC_MAXBUF /\ lastidx' \in Idx
      /\ DCl' \in Nat /\ delivered' \in [Slaves' -> Int] /\ result' \in Int /\ result' >= EC_NOFRAME
  BY <1>1 DEF TypeInv
<1>7. DCtime' \in {Junk} \cup 0 .. cycle' /\ phase' \in {"app", "LRD", "LWR", "LRW", "receive"}
          /\ phase' # "app"
  BY <1>1
<1>8. image' \in [0 .. IOmapSize(group)' - 1 -> Values(cycle')]
  BY <1>1, <1>4
<1> QED BY <1>1, <1>2, <1>3, <1>4, <1>5, <1>6, <1>7, <1>8 DEF TypeInv, Values

\* Copying a frame to the image leaves it well typed.
LEMMA CopiedType ==
    ASSUME TypeInv, NEW f \in wire, NEW place \in Nat, NEW n \in Nat
    PROVE  Copied(place, n, f) \in [0 .. IOmapSize(group) - 1 -> Values(cycle)]
<1>1. image \in [0 .. IOmapSize(group) - 1 -> Values(cycle)]
  BY DEF TypeInv
<1>2. f.len \in Nat /\ f.data \in [0 .. f.len - 1 -> Values(cycle)]
  BY DEF TypeInv, FrameOK
<1>3. Junk \in Values(cycle)
  BY DEF Values
<1>4. \A b \in 0 .. IOmapSize(group) - 1 : ~(b < place) /\ b - place < f.len => b - place \in 0 .. f.len - 1
  BY <1>2
<1> QED BY <1>1, <1>2, <1>3, <1>4 DEF Copied

\* The receiver's counter does not grow when no frame comes.
LEMMA ReceiveTimeOutKept ==
    ASSUME CycInv, ReceiveTimeOut
    PROVE  CycInv'
<1> USE DEF CycInv
<1>1. Pulls /\ image' = image /\ received' = received /\ DCtime' = DCtime
  BY DEF ReceiveTimeOut, NextFrame, Pulls
<1> DEFINE p == idxstack.pulled
<1>2. /\ p \in Nat /\ p + 1 \in 1 .. Top /\ Top \in Nat /\ Entries' = Entries /\ Top' = Top
             /\ idxstack'.pulled = p + 1
      /\ Entry = Entries[p + 1] /\ phase = "receive" /\ phase' = "receive" /\ group' = group
             /\ cycle' = cycle /\ delivered' = delivered
      /\ Off' = Off /\ Outputs' = Outputs /\ Rotates' = Rotates /\ OneLength' = OneLength /\ DCl' = DCl
      /\ \A d : ReadersOf(d)' = ReadersOf(d) /\ WritersOf(d)' = WritersOf(d) /\ AdrOf(d)' = AdrOf(d)
  BY <1>1, PullFacts, EntryFacts DEF Pulls
<1>3. TypeInv'
  BY <1>1, PullTypes DEF TypeInv
<1>4. FirstInv'
  BY <1>1, <1>2 DEF FirstInv
<1>5. Genuine' => Genuine
  BY <1>1, <1>2 DEF Genuine, FirstGenuine
<1>6. OutputsInv'
  BY <1>1, <1>2, <1>5 DEF OutputsInv
<1>7. WkcInv'
  <2> SUFFICES ASSUME Genuine PROVE WkcInv'
    BY <1>5 DEF WkcInv
  <2> DEFINE w == Cardinality(Wrote(p))
             r == Cardinality(Read(p))
  <2>1. PICK e : e = Entry
    OBVIOUS
  <2> DEFINE we == Cardinality(WritersOf(e))
             re == Cardinality(ReadersOf(e))
  <2>2. /\ w \in Nat /\ r \in Nat /\ we \in Nat /\ re \in Nat
        /\ Cardinality(Wrote(idxstack.pulled))' = w + we /\ Cardinality(Read(idxstack.pulled))' = r + re
        /\ Wrote(idxstack.pulled)' = Wrote(p) \cup WritersOf(e)
    BY <1>1, <2>1, PullCounts
  <2>3. /\ received.wkc \in Nat /\ received.wkc <= 2 * w + r
        /\ received.wkc = 2 * w + r =>
              /\ \A s \in Wrote(p) : delivered[s] = cycle
              /\ \A k \in 1 .. p : \A d \in {Entries[k]} : \A s \in ReadersOf(d) :
                    \A b \in BytesIn(group.inputs[s], AdrOf(d), d.length) : image[Off + b] = InputOf(cycle)
    BY <1>2 DEF WkcInv, TypeInv
  <2>4. received.wkc <= 2 * (w + we) + (r + re)
    <3> HIDE DEF w, r, we, re
    <3> QED BY <2>2, <2>3
  <2>5. ASSUME received.wkc = 2 * (w + we) + (r + re)
        PROVE  /\ \A s \in Wrote(p) \cup WritersOf(e) : delivered[s] = cycle
               /\ \A k \in 1 .. p + 1 : \A d \in {Entries[k]} : \A s \in ReadersOf(d) :
                     \A b \in BytesIn(group.inputs[s], AdrOf(d), d.length) : image[Off + b] = InputOf(cycle)
    <3>1. received.wkc = 2 * w + r /\ we = 0 /\ re = 0
      <4> HIDE DEF w, r, we, re
      <4> QED BY <2>2, <2>3, <2>5
    <3>2. WritersOf(e) = {} /\ ReadersOf(e) = {}
      <4>1. IsFiniteSet(WritersOf(e)) /\ IsFiniteSet(ReadersOf(e))
        BY SlavesFinite, GroupMapped DEF WritersOf, ReadersOf
      <4> QED BY <3>1, <4>1, FS_EmptySet
    <3>3. \A k \in 1 .. p + 1 : k \in 1 .. p \/ k = p + 1
      BY <1>2
    <3> QED BY <3>1, <3>2, <3>3, <1>2, <2>1, <2>3
  <2> HIDE DEF w, r, we, re
  <2> QED BY <1>1, <1>2, <2>2, <2>4, <2>5 DEF WkcInv
<1> QED BY <1>1, <1>3, <1>4, <1>6, <1>7, PullRestKept

\* If the datagrams of a cycle all have one length, it is that of the first.
LEMMA OneLengthIs ==
    ASSUME CycInv, OneLength, NEW k \in 1 .. Top
    PROVE  Entries[k].length = group.IOsegment[0]
<1> USE DEF CycInv
<1>1. PICK e : e = Entries[k]
  OBVIOUS
<1>2. InSegment(e) /\ CmdOf(e) = "LRW" /\ ~group.blockLRW
  BY <1>1 DEF PlaceInv, OneLength, CmdOf
<1>3. PICK i \in 0 .. group.nsegments - 1 : AdrOf(e) + e.length = St(i + 1) /\ AdrOf(e) = St(i)
  BY <1>2 DEF InSegment
<1>4. St(i) \in Nat /\ group.IOsegment[i] \in Nat /\ St(i + 1) = St(i) + group.IOsegment[i]
          /\ group.IOsegment[i] = group.IOsegment[0]
  <2>1. i \in 0 .. group.nsegments
    BY GroupFacts, GroupMapped
  <2> QED BY <2>1, SegmentFacts, GroupMapped DEF OneLength
<1>5. e.length \in Nat
  BY <1>1, EntryFacts
<1>6. e.length = group.IOsegment[i]
  <2> DEFINE a == St(i)
             l == group.IOsegment[i]
             n == e.length
  <2>1. a \in Nat /\ l \in Nat /\ n \in Nat /\ a + n = a + l
    BY <1>3, <1>4, <1>5
  <2> HIDE DEF a, l, n
  <2>2. n = l
    BY <2>1
  <2> QED BY <2>2 DEF n, l
<1> QED BY <1>1, <1>4, <1>6

\* What is taken for the frame with the clock datagram is counted and copied as what it is, or Genuine is
\* false.
LEMMA ReceiveFirstKept ==
    ASSUME CycInv, ReceiveFirst
    PROVE  CycInv'
<1> USE DEF CycInv
<1>1. PICK f \in wire :
        /\ f.idx = Entry.idx
        /\ wire' = wire \ {f}
        /\ image' = IF f.cmd = "LWR" THEN image ELSE Copied(Entry.data, DCl, f)
        /\ \E w \in CountersAt(f) :
              received' = [first |-> FALSE, wkc |-> w * Twice(f), valid |-> TRUE]
        /\ DCtime' = IF f.dc /\ f.len = DCl THEN f.cycle ELSE Junk
        /\ NextFrame(Entry.idx, TRUE)
  BY DEF ReceiveFirst
<1>2. PICK w \in CountersAt(f) : received' = [first |-> FALSE, wkc |-> w * Twice(f), valid |-> TRUE]
  BY <1>1
<1>3. Pulls /\ received.first
  BY <1>1 DEF ReceiveFirst, NextFrame, Pulls
<1> DEFINE p == idxstack.pulled
<1>4. /\ p \in Nat /\ p + 1 \in 1 .. Top /\ Top \in Nat /\ Entries' = Entries /\ Top' = Top
             /\ idxstack'.pulled = p + 1
      /\ Entry = Entries[p + 1] /\ phase = "receive" /\ phase' = "receive" /\ group' = group /\ cycle' = cycle
      /\ Outputs' = Outputs /\ Rotates' = Rotates /\ OneLength' = OneLength /\ DCl' = DCl
  BY <1>3, PullFacts, EntryFacts DEF Pulls
<1>5. PICK e : e = Entry
  OBVIOUS
<1>6. e = Entries[p + 1] /\ e.data \in Nat /\ e.length \in Nat
  BY <1>4, <1>5, EntryFacts
<1>7. group.hasdc /\ received.wkc = 0 /\ received'.first = FALSE /\ received'.wkc = w * Twice(f)
  BY <1>2, <1>3 DEF FirstInv
<1>8. f.cycle \in 1 .. cycle /\ f.wkc \in Nat /\ cycle \in Nat /\ Twice(f) \in Nat
  BY DEF TypeInv, FrameOK, Twice
<1>9. TypeInv'
  <2>1. image' \in [0 .. IOmapSize(group) - 1 -> Values(cycle)]
    <3>1. Copied(e.data, DCl, f) \in [0 .. IOmapSize(group) - 1 -> Values(cycle)]
      BY <1>6, CopiedType DEF TypeInv
    <3>2. image \in [0 .. IOmapSize(group) - 1 -> Values(cycle)]
      BY DEF TypeInv
    <3> QED BY <3>1, <3>2, <1>1, <1>5
  <2>2. DCtime' \in {Junk} \cup 0 .. cycle
    BY <1>1, <1>8
  <2>3. received' \in [first : BOOLEAN, wkc : Nat, valid : BOOLEAN]
    <3>1. group.outputsWKC \in Nat /\ group.inputsWKC \in Nat
      BY DEF TypeInv, WellMapped, SlavesMapped
    <3>2. w \in Nat
      BY <3>1, <1>2, <1>8 DEF CountersAt
    <3>3. w * Twice(f) \in Nat
      BY <3>2, <1>8 DEF Twice
    <3> QED BY <3>3, <1>2
  <2> QED BY <2>1, <2>2, <2>3, <1>3, PullTypes
<1>10. FirstInv'
  BY <1>4, <1>7 DEF FirstInv
<1>11. ASSUME Genuine' PROVE (\A b \in Outputs : image'[b] = OutputOf(cycle)) /\ WkcInv'
  <2>1. Rotates /\ (DCtime' # Junk \/ OneLength)
    BY <1>4, <1>7, <1>11 DEF Genuine, FirstGenuine
  <2>2. Genuine
    BY <2>1, <1>3, <1>4 DEF Genuine
  <2>3. Match(f, e)
    BY <1>1, <1>4, <1>5, <1>6, <2>1, FrameIsEntrys
  <2>4. f.len = e.length
    BY <2>3 DEF Match
  <2>5. DCl = e.length
    <3>1. CASE DCtime' # Junk
      BY <3>1, <2>4, <1>1
    <3>2. CASE OneLength
      <4>1. DCl = Entries[1].length /\ 1 \in 1 .. Top
        BY <1>4, <1>7 DEF FirstInv
      <4> QED BY <4>1, <3>2, <1>4, <1>6, OneLengthIs
    <3> QED BY <3>1, <3>2, <2>1
  <2>6. w = f.wkc
    BY <2>4, <2>5, <1>2 DEF CountersAt
  <2>7. received'.wkc = received.wkc + f.wkc * Twice(f)
    <3>1. f.wkc * Twice(f) \in Nat
      BY <1>8 DEF Twice
    <3> QED BY <3>1, <2>6, <1>7
  <2>8. image' = (IF f.cmd = "LWR" THEN image ELSE Copied(e.data, e.length, f))
    BY <2>5, <1>1, <1>5
  <2> QED BY <2>1, <2>2, <2>7, <2>8, <1>1, <1>3, <1>5, TakeFrame
<1>12. OutputsInv'
  BY <1>4, <1>11 DEF OutputsInv
<1>13. WkcInv'
  BY <1>11 DEF WkcInv
<1> QED BY <1>3, <1>9, <1>10, <1>12, <1>13, PullRestKept

\* Any other frame that comes is that of the entry pulled.
LEMMA ReceiveFrameKept ==
    ASSUME CycInv, ReceiveFrame
    PROVE  CycInv'
<1> USE DEF CycInv
<1>1. PICK f \in wire :
        /\ f.idx = Entry.idx
        /\ wire' = wire \ {f}
        /\ image' = IF f.cmd = "LWR" THEN image ELSE Copied(Entry.data, Entry.length, f)
        /\ \E w \in LastCounters(f) :
              received' = [received EXCEPT !.wkc = @ + w * Twice(f), !.valid = TRUE]
        /\ NextFrame(Entry.idx, TRUE)
  BY DEF ReceiveFrame
<1>2. PICK w \in LastCounters(f) : received' = [received EXCEPT !.wkc = @ + w * Twice(f), !.valid = TRUE]
  BY <1>1
<1>3. Pulls /\ ~received.first /\ DCtime' = DCtime
  BY <1>1 DEF ReceiveFrame, NextFrame, Pulls
<1> DEFINE p == idxstack.pulled
<1>4. /\ p \in Nat /\ p + 1 \in 1 .. Top /\ Top \in Nat /\ Entries' = Entries /\ Top' = Top
             /\ idxstack'.pulled = p + 1
      /\ Entry = Entries[p + 1] /\ phase = "receive" /\ phase' = "receive" /\ group' = group /\ cycle' = cycle
      /\ Outputs' = Outputs /\ Rotates' = Rotates /\ OneLength' = OneLength /\ DCl' = DCl
  BY <1>3, PullFacts, EntryFacts DEF Pulls
<1>5. PICK e : e = Entry
  OBVIOUS
<1>6. e = Entries[p + 1] /\ e.data \in Nat /\ e.length \in Nat
  BY <1>4, <1>5, EntryFacts
<1>7. received \in [first : BOOLEAN, wkc : Nat, valid : BOOLEAN]
  BY DEF TypeInv
<1>8. f.wkc \in Nat /\ Twice(f) \in Nat /\ w \in Nat
  BY <1>2 DEF TypeInv, FrameOK, Twice, LastCounters
<1>9. w * Twice(f) \in Nat
  BY <1>8 DEF Twice
<1>10. /\ received' \in [first : BOOLEAN, wkc : Nat, valid : BOOLEAN]
       /\ received'.wkc = received.wkc + w * Twice(f) /\ received'.first = received.first
  <2> DEFINE a == w * Twice(f)
  <2>1. a \in Nat /\ received' = [received EXCEPT !.wkc = @ + a, !.valid = TRUE]
    BY <1>2, <1>9
  <2> HIDE DEF a
  <2>2. received' \in [first : BOOLEAN, wkc : Nat, valid : BOOLEAN]
    <3>1. received.wkc \in Nat /\ received.wkc + a \in Nat
      BY <2>1, <1>7
    <3>2. received' = [received EXCEPT !.wkc = received.wkc + a, !.valid = TRUE]
      BY <2>1
    <3> DEFINE n == received.wkc + a
    <3> HIDE DEF n
    <3>3. n \in Nat /\ received' = [received EXCEPT !.wkc = n, !.valid = TRUE]
      BY <3>1, <3>2 DEF n
    <3> QED BY <3>3, <1>7
  <2>3. received'.wkc = received.wkc + a
    BY <2>1, <1>7
  <2>4. received'.first = received.first
    BY <2>1, <1>7
  <2> QED BY <2>2, <2>3, <2>4 DEF a
<1>11. TypeInv'
  <2>1. image' \in [0 .. IOmapSize(group) - 1 -> Values(cycle)]
    <3>1. Copied(e.data, e.length, f) \in [0 .. IOmapSize(group) - 1 -> Values(cycle)]
      BY <1>6, CopiedType
    <3>2. image \in [0 .. IOmapSize(group) - 1 -> Values(cycle)]
      BY DEF TypeInv
    <3> QED BY <3>1, <3>2, <1>1, <1>5
  <2>2. DCtime' \in {Junk} \cup 0 .. cycle
    BY <1>3 DEF TypeInv
  <2> QED BY <2>1, <2>2, <1>3, <1>10, PullTypes
<1>12. FirstInv'
  BY <1>3, <1>4, <1>10 DEF FirstInv
<1>13. ASSUME Genuine' PROVE (\A b \in Outputs : image'[b] = OutputOf(cycle)) /\ WkcInv'
  <2>1. Rotates /\ Genuine
    BY <1>3, <1>4, <1>10, <1>13 DEF Genuine, FirstGenuine
  <2>2. f.dc <=> group.hasdc /\ p + 1 = 1
    BY <1>1, <1>4, <1>5, <1>6, <2>1, FrameIsEntrys
  <2>3. ~f.dc
    <3> SUFFICES ASSUME f.dc PROVE FALSE
      OBVIOUS
    <3>1. group.hasdc /\ p = 0
      BY <2>2, <1>4
    <3>2. received = [NoReceive EXCEPT !.first = group.hasdc]
      BY <3>1, <1>4 DEF FirstInv
    <3>3. NoReceive \in [first : BOOLEAN, wkc : Nat, valid : BOOLEAN]
      BY DEF NoReceive
    <3>4. received.first = group.hasdc
      BY <3>2, <3>3
    <3> QED BY <3>1, <3>4, <1>3
  <2>4. w = f.wkc
    BY <2>3, <1>2 DEF LastCounters
  <2>5. received'.wkc = received.wkc + f.wkc * Twice(f)
    BY <2>4, <1>10
  <2>6. image' = (IF f.cmd = "LWR" THEN image ELSE Copied(e.data, e.length, f))
    BY <1>1, <1>5
  <2> QED BY <2>1, <2>5, <2>6, <1>1, <1>3, <1>5, TakeFrame
<1>14. OutputsInv'
  BY <1>4, <1>13 DEF OutputsInv
<1>15. WkcInv'
  BY <1>13 DEF WkcInv
<1> QED BY <1>3, <1>11, <1>12, <1>14, <1>15, PullRestKept

\* The counters of all datagrams are at most the expected one, and if they reach it, no slave and no
\* byte is missing.
LEMMA CountersVouch ==
    ASSUME CycInv, phase = "receive", Genuine, idxstack.pulled = Top
    PROVE  received.wkc <= ExpectedWKC /\ (received.wkc = ExpectedWKC => AllNew)
<1> USE DEF CycInv
<1> DEFINE HasOut == {s \in Slaves : group.outputs[s] # <<>>}
           HasIn == {s \in Slaves : group.inputs[s] # <<>>}
           wrote == Wrote(idxstack.pulled)
           read == Read(idxstack.pulled)
           w == Cardinality(wrote)
           r == Cardinality(read)
           ho == Cardinality(HasOut)
           hi == Cardinality(HasIn)
<1>1. /\ group.outputsWKC \in Nat /\ ho <= group.outputsWKC
      /\ group.inputsWKC \in Nat /\ hi <= group.inputsWKC
  BY DEF TypeInv, WellMapped, SlavesMapped, Slaves
<1>2. \A S : S \subseteq Slaves => IsFiniteSet(S) /\ Cardinality(S) \in Nat
  BY SlavesFinite, GroupMapped
<1>3. \A adr, len : BytesIn(<<>>, adr, len) = {}
  BY DEF BytesIn
<1>4. wrote \subseteq HasOut /\ read \subseteq HasIn
  <2>1. \A e : WritersOf(e) \subseteq HasOut /\ ReadersOf(e) \subseteq HasIn
    BY <1>3 DEF WritersOf, ReadersOf, Writes, Reads
  <2> QED BY <2>1 DEF Wrote, Read
<1>5. HasOut \subseteq Slaves /\ HasIn \subseteq Slaves
  OBVIOUS
<1>6. /\ w \in Nat /\ r \in Nat /\ ho \in Nat /\ hi \in Nat /\ w <= ho /\ r <= hi
      /\ (ho = w => HasOut = wrote) /\ (hi = r => HasIn = read)
  <2>1. IsFiniteSet(HasOut) /\ IsFiniteSet(HasIn) /\ ho \in Nat /\ hi \in Nat
    BY <1>2, <1>5
  <2>2. IsFiniteSet(wrote) /\ w <= ho /\ (ho = w => HasOut = wrote)
    BY <1>4, <2>1, FS_Subset
  <2>3. IsFiniteSet(read) /\ r <= hi /\ (hi = r => HasIn = read)
    BY <1>4, <2>1, FS_Subset
  <2> QED BY <2>1, <2>2, <2>3, FS_CardinalityType
<1>7. /\ received.wkc \in Nat /\ received.wkc <= 2 * w + r
      /\ received.wkc = 2 * w + r =>
            /\ \A s \in wrote : delivered[s] = cycle
            /\ \A k \in 1 .. Top : \A e \in {Entries[k]} : \A s \in ReadersOf(e) :
                  \A b \in BytesIn(group.inputs[s], AdrOf(e), e.length) : image[Off + b] = InputOf(cycle)
  BY DEF WkcInv, TypeInv
<1>8. received.wkc <= ExpectedWKC
  <2> HIDE DEF w, r, ho, hi
  <2> QED BY <1>1, <1>6, <1>7 DEF ExpectedWKC
<1>9. ASSUME received.wkc = ExpectedWKC PROVE AllNew
  <2>1. received.wkc = 2 * w + r /\ ho = w /\ hi = r
    <3> HIDE DEF w, r, ho, hi
    <3> QED BY <1>1, <1>6, <1>7, <1>9 DEF ExpectedWKC
  <2>2. HasOut = wrote /\ HasIn = read
    BY <2>1, <1>6
  <2>3. ASSUME NEW s \in Slaves, group.outputs[s] # <<>> PROVE delivered[s] = cycle
    BY <2>1, <2>2, <2>3, <1>7
  <2>4. ASSUME NEW s \in Slaves, NEW b \in BytesIn(group.inputs[s], 0, Extent(group))
        PROVE  image[Off + b] = InputOf(cycle)
    <3>1. s \in read
      BY <2>2, <2>4, <1>3
    <3>2. PICK k \in 1 .. Top : \E e \in {Entries[k]} : s \in ReadersOf(e)
      BY <3>1 DEF Read
    <3>3. PICK e \in {Entries[k]} : s \in ReadersOf(e)
      BY <3>2
    <3>4. e.data \in Nat /\ e.length \in Nat /\ InSegment(e) /\ WellMapped(group) /\ Off \in Nat
      BY <3>2, <3>3, EntryFacts, GroupFacts DEF PlaceInv, TypeInv
    <3>5. CmdOf(e) # "LWR" /\ BytesIn(group.inputs[s], AdrOf(e), e.length) # {}
      BY <3>3 DEF ReadersOf, Reads
    <3>6. AdrOf(e) \in Nat
      <4>1. AdrOf(e) \in Int
        BY <3>4 DEF AdrOf
      <4>2. \A i \in 0 .. group.nsegments - 1 : St(i) \in Nat
        <5>1. \A i \in 0 .. group.nsegments - 1 : i \in 0 .. group.nsegments
          BY <3>4, GroupFacts
        <5> QED BY <3>4, <5>1, SegmentFacts
      <4> QED BY <3>4, <4>1, <4>2 DEF InSegment
    <3>7. PICK i \in 0 .. group.nsegments - 1 :
            /\ AdrOf(e) + e.length = St(i + 1)
            /\ AdrOf(e) = St(i) \/ (group.blockLRW /\ AdrOf(e) = group.Obytes)
            /\ \A j \in DOMAIN group.inputs[s] :
                  /\ group.inputs[s][j].start \in Nat /\ group.inputs[s][j].length \in Nat
                  /\ St(i) <= group.inputs[s][j].start
                         /\ group.inputs[s][j].start + group.inputs[s][j].length <= St(i + 1)
      BY <3>4, <3>5, <3>6, <2>4, BytesOfSegment
    <3>8. PICK j \in DOMAIN group.inputs[s] : group.inputs[s][j].start <= b
                   /\ b < group.inputs[s][j].start + group.inputs[s][j].length
      BY <2>4 DEF BytesIn
    <3>9. b \in 0 .. 0 + Extent(group) - 1
      BY <2>4 DEF BytesIn
    <3>10. b \in Nat /\ Extent(group) \in Nat
      BY <3>4, <3>9, GroupFacts
    <3>11. St(i) \in Nat /\ St(i + 1) \in Nat
      <4>1. i \in 0 .. group.nsegments /\ i + 1 \in 0 .. group.nsegments
        BY <3>4, GroupFacts
      <4> QED BY <3>4, <4>1, SegmentFacts
    <3>12. St(i) <= b /\ b < AdrOf(e) + e.length
      BY <3>7, <3>8, <3>10, <3>11
    <3>13. AdrOf(e) <= b
      <4>1. CASE AdrOf(e) = St(i)
        BY <4>1, <3>12
      <4>2. CASE group.blockLRW /\ AdrOf(e) = group.Obytes
        <5>1. ~group.overlap /\ group.Obytes \in Nat
          BY <4>2, <3>4, GroupFacts
        <5>2. b \in BytesIn(group.inputs[s], 0, Extent(group)) /\ 0 \in Nat
          BY <2>4
        <5>3. b >= group.Obytes
          BY <5>1, <5>2, <3>4, <3>10, MappedBytes
        <5> QED BY <4>2, <5>1, <5>3, <3>10
      <4> QED BY <4>1, <4>2, <3>7
    <3>14. b \in BytesIn(group.inputs[s], AdrOf(e), e.length)
      BY <3>4, <3>6, <3>8, <3>10, <3>12, <3>13 DEF BytesIn
    <3> QED BY <3>2, <3>3, <3>14, <2>1, <1>7
  <2>5. \A b : (IF group.overlap THEN group.Obytes + b ELSE b) = (IF group.overlap THEN Off + b ELSE b)
    BY GroupFacts, GroupMapped
  <2>6. ASSUME NEW s \in Slaves, NEW b \in BytesIn(group.inputs[s], 0, Extent(group))
        PROVE  image[IF group.overlap THEN group.Obytes + b ELSE b] = InputOf(cycle)
    <3>1. Off = (IF group.overlap THEN group.Obytes ELSE 0)
      BY DEF Off
    <3>2. image[Off + b] = InputOf(cycle)
      BY <2>4, <2>6
    <3>3. CASE group.overlap
      BY <3>1, <3>2, <3>3
    <3>4. CASE ~group.overlap
      <4>1. b \in 0 .. 0 + Extent(group) - 1 /\ Extent(group) \in Nat
        BY <2>6, GroupFacts, GroupMapped DEF BytesIn
      <4>2. PICK x : x = Off + b
        OBVIOUS
      <4>3. x = b
        BY <3>1, <3>4, <4>1, <4>2
      <4>4. image[x] = InputOf(cycle)
        BY <3>2, <4>2
      <4> QED BY <3>4, <4>3, <4>4
    <3> QED BY <3>3, <3>4
  <2> QED BY <2>3, <2>6 DEF AllNew
<1> QED BY <1>8, <1>9

\* The counter that is returned is that of all entries.
LEMMA ReceiveDoneKept ==
    ASSUME CycInv, ReceiveDone
    PROVE  CycInv'
<1> USE DEF CycInv
<1>1. /\ phase = "receive" /\ phase' = "app" /\ idxstack' = [entries |-> <<>>, pulled |-> 0]
      /\ result' = IF received.valid THEN received.wkc ELSE EC_NOFRAME
      /\ received' = NoReceive
      /\ group' = group /\ cycle' = cycle /\ image' = image /\ job' = job /\ rxbufstat' = rxbufstat
             /\ lastidx' = lastidx
      /\ wire' = wire /\ delivered' = delivered /\ DCl' = DCl /\ DCtime' = DCtime
  BY DEF ReceiveDone
<1>2. /\ idxstack.pulled = Top /\ Top \in Nat /\ Top <= EC_MAXBUF /\ EC_MAXBUF \in Nat \ {0}
      /\ Entries' = <<>> /\ Top' = 0 /\ idxstack'.pulled = 0
  <2>1. ~(idxstack.pulled < Top)
    BY <1>1 DEF ReceiveDone, Pulling, Top, Entries
  <2> QED BY <2>1, <1>1, EntryFacts, ProcessDataAssumption DEF Entries, Top
<1>3. /\ Slaves' = Slaves /\ Outputs' = Outputs /\ Inputs' = Inputs /\ Off' = Off /\ Rotates' = Rotates
             /\ Datagrams' = Datagrams
      /\ OneLength' = OneLength /\ ExpectedWKC' = ExpectedWKC
      /\ WellMapped(group)' /\ IOmapSize(group)' = IOmapSize(group) /\ Datagrams \in Nat
  BY <1>1, GroupSame, GroupFacts, GroupMapped
<1>4. TypeInv'
  <2>1. received' \in [first : BOOLEAN, wkc : Nat, valid : BOOLEAN]
    BY <1>1 DEF NoReceive
  <2>2. result' \in Int /\ result' >= EC_NOFRAME
    BY <1>1 DEF TypeInv, EC_NOFRAME
  <2>3. idxstack' \in [entries : Seq(EntryType), pulled : Nat]
    BY <1>1
  <2>4. \A f \in wire' : FrameOK(f)'
    <3>1. \A f \in wire : FrameOK(f)
      BY DEF TypeInv
    <3> QED BY <3>1, <1>1 DEF FrameOK, Values
  <2>5. image' \in [0 .. IOmapSize(group)' - 1 -> Values(cycle')]
    BY <1>1, <1>3 DEF TypeInv
  <2>6. /\ cycle' \in 0 .. MaxCycles /\ job' \in JobType /\ rxbufstat' \in [Idx -> {"EMPTY", "TX"}]
               /\ lastidx' \in Idx
        /\ DCl' \in Nat /\ DCtime' \in {Junk} \cup 0 .. cycle' /\ delivered' \in [Slaves' -> Int]
    BY <1>1, <1>3 DEF TypeInv
  <2> QED BY <1>1, <1>2, <1>3, <2>1, <2>2, <2>3, <2>4, <2>5, <2>6 DEF TypeInv, Values
<1>5. JobInv'
  BY <1>1 DEF JobInv, Sending
<1>6. PlaceInv'
  BY <1>2 DEF PlaceInv
<1>7. IndexInv'
  <2>1. \A i \in Idx : rxbufstat[i] # "TX"
    BY <1>2 DEF IndexInv
  <2> QED BY <2>1, <1>1, <1>2 DEF IndexInv
<1>8. CountInv'
  BY <1>1, <1>2, <1>3 DEF CountInv
<1>9. CoverInv'
  BY <1>1 DEF CoverInv
<1>10. FirstInv'
  BY <1>1, <1>2 DEF FirstInv, NoReceive
<1>11. WireInv'
  <2> SUFFICES ASSUME Rotates, NEW f \in wire
               PROVE  Lag(f)' <= MaxLag /\ Behind(f.idx, lastidx) < Lag(f)' * Datagrams + Datagrams
    BY <1>1, <1>3 DEF WireInv
  <2>1. Lag(f)' = Lag(f) /\ Lag(f) <= MaxLag
    BY <1>1 DEF Lag, WireInv
  <2>2. f.idx \in Idx /\ f.cycle \in 1 .. cycle /\ cycle \in Nat
    BY DEF TypeInv, FrameOK
  <2>3. Lag(f) \in Nat /\ Lag(f) * Datagrams \in Nat /\ Top <= Datagrams
    <3>1. Lag(f) \in Nat
      BY <2>2 DEF Lag
    <3> QED BY <3>1, RotatesFacts DEF CountInv
  <2>4. Behind(f.idx, lastidx) \in Nat
    BY <2>2, BehindFacts DEF Idx
  <2>5. Behind(f.idx, lastidx) < Lag(f) * Datagrams + Datagrams
    <3> DEFINE x == Lag(f) * Datagrams
               y == Behind(f.idx, lastidx)
    <3>1. x \in Nat /\ y \in Nat
      BY <2>3, <2>4
    <3>2. CASE f.cycle < cycle
      <4>1. y < Top + x
        BY <3>2, <1>1 DEF WireInv
      <4> HIDE DEF x, y
      <4>2. y < x + Datagrams
        BY <3>1, <4>1, <2>3, <1>2, <1>3
      <4> QED BY <4>2 DEF x, y
    <3>3. CASE f.cycle = cycle
      <4>1. PICK k \in 1 .. Top : \E e \in {Entries[k]} : e.idx = f.idx
        BY <3>3, <1>1 DEF WireInv
      <4>2. y = Top - k
        BY <4>1, RotatesFacts DEF IndexInv
      <4> HIDE DEF x, y
      <4>3. y < x + Datagrams
        BY <3>1, <4>1, <4>2, <2>3, <1>2, <1>3
      <4> QED BY <4>3 DEF x, y
    <3> QED BY <3>2, <3>3, <2>2
  <2> QED BY <2>1, <2>5
<1>12. Genuine' => Genuine
  BY <1>1, <1>3 DEF Genuine, FirstGenuine
<1>13. OutputsInv'
  BY <1>1, <1>3, <1>12 DEF OutputsInv
<1>14. WkcInv'
  BY <1>1 DEF WkcInv
<1>15. ResultInv'
  <2> SUFFICES ASSUME Rotates, FirstGenuine
               PROVE  result' <= ExpectedWKC /\ (ExpectedWKC > 0 /\ result' = ExpectedWKC => AllNew)
    <3>1. AllNew' = AllNew
      BY <1>1, <1>3 DEF AllNew
    <3>2. FirstGenuine' = FirstGenuine
      BY <1>1, <1>3 DEF FirstGenuine
    <3> QED BY <1>3, <3>1, <3>2 DEF ResultInv, WkcVouches
  <2>1. received.wkc <= ExpectedWKC /\ (received.wkc = ExpectedWKC => AllNew)
    BY <1>1, <1>2, CountersVouch DEF Genuine
  <2>2. ExpectedWKC \in Nat
    BY DEF TypeInv, WellMapped, SlavesMapped, ExpectedWKC
  <2> QED BY <2>1, <2>2, <1>1 DEF EC_NOFRAME
<1> QED BY <1>4, <1>5, <1>6, <1>7, <1>8, <1>9, <1>10, <1>11, <1>13, <1>14, <1>15

-----------------------------------------------------------------------------
(* The theorems                                                            *)

\* Nothing changes in a stuttering step.
LEMMA CyclicStutters ==
    ASSUME CycInv, UNCHANGED cyclicVars
    PROVE  CycInv'
<1> USE DEF CycInv
<1>1. /\ group' = group /\ phase' = phase /\ cycle' = cycle /\ image' = image /\ job' = job
             /\ idxstack' = idxstack
      /\ rxbufstat' = rxbufstat /\ lastidx' = lastidx /\ wire' = wire /\ delivered' = delivered /\ DCl' = DCl
      /\ DCtime' = DCtime /\ received' = received /\ result' = result
  BY DEF cyclicVars
<1>2. /\ Entries' = Entries /\ Top' = Top
      /\ Slaves' = Slaves /\ Outputs' = Outputs /\ Inputs' = Inputs /\ Off' = Off
      /\ Datagrams' = Datagrams /\ Rotates' = Rotates /\ OneLength' = OneLength
      /\ \A e : /\ CmdOf(e)' = CmdOf(e) /\ AdrOf(e)' = AdrOf(e) /\ InSegment(e)' = InSegment(e)
                /\ ReadersOf(e)' = ReadersOf(e) /\ WritersOf(e)' = WritersOf(e)
  BY <1>1, GroupSame DEF Entries, Top
<1>3. TypeInv'
  <2>1. \A f \in wire' : FrameOK(f)'
    <3>1. \A f \in wire : FrameOK(f)
      BY DEF TypeInv
    <3> QED BY <3>1, <1>1 DEF FrameOK, Values
  <2>2. WellMapped(group)' /\ IOmapSize(group)' = IOmapSize(group)
    BY <1>1 DEF TypeInv
  <2>3. image' \in [0 .. IOmapSize(group)' - 1 -> Values(cycle')]
    BY <1>1, <2>2 DEF TypeInv
  <2> QED BY <1>1, <1>2, <2>1, <2>2, <2>3 DEF TypeInv, Values
<1>4. JobInv'
  BY <1>1, <1>2 DEF JobInv, Sending, St
<1>5. PlaceInv'
  <2>1. \A e : PlaceOK(e) => PlaceOK(e)'
    BY <1>1, <1>2 DEF PlaceOK, EndOf
  <2>2. \A k \in 1 .. Top : \A e \in {Entries[k]} : PlaceOK(e)' /\ InSegment(e)'
    BY <1>2, <2>1 DEF PlaceInv
  <2> QED BY <1>2, <2>2 DEF PlaceInv, EndOf
<1>6. IndexInv'
  BY <1>1, <1>2 DEF IndexInv, Sending, Behind
<1>7. CountInv'
  BY <1>1, <1>2 DEF CountInv, Reading
<1>8. CoverInv'
  BY <1>1, <1>2 DEF CoverInv, EndOf
<1>9. FirstInv'
  BY <1>1, <1>2 DEF FirstInv
<1>10. WireInv'
  <2>1. \A f, e : Match(f, e) => Match(f, e)'
    BY <1>1, <1>2 DEF Match
  <2>2. \A f : Lag(f)' = Lag(f)
    BY <1>1 DEF Lag
  <2>3. ASSUME Rotates, NEW f \in wire, phase # "app", f.cycle = cycle
        PROVE  \E k \in 1 .. Top : \E e \in {Entries[k]} :
                  e.idx = f.idx /\ Match(f, e)' /\ (f.dc <=> group.hasdc /\ k = 1)
    <3>1. \E k \in 1 .. Top : \E e \in {Entries[k]} :
                  e.idx = f.idx /\ Match(f, e) /\ (f.dc <=> group.hasdc /\ k = 1)
      BY <2>3 DEF WireInv
    <3> QED BY <2>1, <3>1
  <2>4. ASSUME Rotates, NEW f \in wire
        PROVE  /\ Lag(f) <= MaxLag
               /\ phase = "app" => Behind(f.idx, lastidx) < Lag(f) * Datagrams + Datagrams
               /\ phase # "app" /\ f.cycle < cycle =>
                     Top <= Behind(f.idx, lastidx) /\ Behind(f.idx, lastidx) < Top + Lag(f) * Datagrams
    BY <2>4 DEF WireInv
  <2> QED BY <1>1, <1>2, <2>2, <2>3, <2>4 DEF WireInv
<1>11. OutputsInv'
  BY <1>1, <1>2 DEF OutputsInv, Genuine, FirstGenuine
<1>12. WkcInv'
  <2>1. Genuine' = Genuine
    BY <1>1, <1>2 DEF Genuine, FirstGenuine
  <2>2. \A q : Wrote(q)' = Wrote(q) /\ Read(q)' = Read(q)
    BY <1>2 DEF Wrote, Read
  <2> QED BY <1>1, <1>2, <2>1, <2>2 DEF WkcInv
<1>13. ResultInv'
  <2>1. FirstGenuine' = FirstGenuine /\ AllNew' = AllNew /\ ExpectedWKC' = ExpectedWKC
    BY <1>1, <1>2 DEF FirstGenuine, AllNew, ExpectedWKC
  <2> QED BY <1>1, <1>2, <2>1 DEF ResultInv, WkcVouches, CycleDone
<1> QED BY <1>3, <1>4, <1>5, <1>6, <1>7, <1>8, <1>9, <1>10, <1>11, <1>12, <1>13

\* The inductive invariant of the exchange.
THEOREM CyclicInvariant ==
    ASSUME GroupsMapped
    PROVE  CyclicSpec => []CycInv
<1>1. CyclicInit => CycInv
  BY CyclicInitHolds
<1>2. CycInv /\ [CyclicNext]_cyclicVars => CycInv'
  <2> SUFFICES ASSUME CycInv, [CyclicNext]_cyclicVars PROVE CycInv'
    OBVIOUS
  <2>1. CASE CyclicNext
    BY <2>1, StartCycleKept, SendLRDKept, SendLWRKept, SendLRWKept, ReceiveFirstKept, ReceiveFrameKept,
       ReceiveTimeOutKept, ReceiveDoneKept DEF CyclicNext
  <2>2. CASE UNCHANGED cyclicVars
    BY <2>2, CyclicStutters
  <2> QED BY <2>1, <2>2
<1> QED BY <1>1, <1>2, PTL DEF CyclicSpec

\* The place of a datagram's data is in the IOmap, if an overlapping map has no more outputs than inputs.
LEMMA PlacesInImage ==
    ASSUME CycInv, group.overlap => group.Obytes <= group.Ibytes, NEW k \in 1 .. Top
    PROVE  Entries[k].data + Entries[k].length <= IOmapSize(group)
<1> USE DEF CycInv
<1>1. PICK e : e = Entries[k]
  OBVIOUS
<1>2. PlaceOK(e) /\ e.data \in Nat /\ e.length \in Nat /\ EndOf(e) = e.data + e.length /\ Top # 0
  BY <1>1, EntryFacts DEF PlaceInv, EndOf
<1>3. PICK x : x = EndOf(e)
  OBVIOUS
<1>4. x \in Nat
  BY <1>2, <1>3
<1>5. WellMapped(group)
  BY DEF TypeInv
<1>6. /\ group.Obytes \in Nat /\ group.Ibytes \in Nat /\ Off \in Nat /\ Extent(group) \in Nat
      /\ IOmapSize(group) = group.Obytes + group.Ibytes
      /\ group.blockLRW => ~group.overlap
      /\ Off + Extent(group) <= IOmapSize(group)
      /\ ~group.overlap => Off = 0
      /\ ~group.overlap => Extent(group) = group.Obytes + group.Ibytes
  <2>1. CASE group.overlap
    <3>1. Extent(group) = group.Ibytes /\ Off = group.Obytes
      BY <2>1, <1>5, GroupFacts DEF Extent, Off
    <3> QED BY <2>1, <3>1, <1>5, GroupFacts
  <2>2. CASE ~group.overlap
    BY <2>2, <1>5, GroupFacts
  <2> QED BY <2>1, <2>2
<1>7. phase # "app"
  BY <1>2 DEF TypeInv, Top
<1>8. \A i \in 0 .. group.nsegments : St(i) \in Nat /\ St(i) <= Extent(group)
  BY <1>5, SegmentFacts
<1>9. CASE phase = "LRW"
  <2>1. job.segment \in 0 .. group.nsegments /\ job.adr = St(job.segment)
    BY <1>9, <1>5, GroupFacts DEF JobInv, TypeInv, JobType
  <2>2. job.adr \in Nat /\ job.adr <= Extent(group)
    BY <2>1, <1>8
  <2>3. x <= Off + job.adr
    BY <1>2, <1>3, <1>9 DEF PlaceOK
  <2>4. x <= IOmapSize(group)
    BY <2>2, <2>3, <1>4, <1>6
  <2> QED BY <2>4, <1>1, <1>2, <1>3
<1>10. CASE phase = "LRD"
  <2>1. job.segment \in 0 .. group.nsegments /\ (job.adr = group.Obytes \/ job.adr = St(job.segment))
            /\ group.blockLRW
    <3>1. job.segment \in Nat /\ group.nsegments \in Nat
      BY <1>5, GroupFacts DEF TypeInv, JobType
    <3>2. job.segment < group.nsegments /\ (job.adr = group.Obytes \/ job.adr = St(job.segment))
              /\ group.blockLRW
      BY <1>10 DEF JobInv
    <3> QED BY <3>1, <3>2
  <2>2. job.adr \in Nat /\ job.adr <= IOmapSize(group)
    BY <2>1, <1>6, <1>8
  <2>3. x <= job.adr
    BY <1>2, <1>3, <1>10 DEF PlaceOK
  <2>4. x <= IOmapSize(group)
    BY <2>2, <2>3, <1>4, <1>6
  <2> QED BY <2>4, <1>1, <1>2, <1>3
<1>11. CASE phase = "LWR"
  <2>1. job.segment \in 0 .. group.nsegments /\ job.adr = St(job.segment) /\ group.blockLRW
    BY <1>11, <1>5, GroupFacts DEF JobInv, TypeInv, JobType
  <2>2. job.adr \in Nat /\ job.adr <= IOmapSize(group)
    BY <2>1, <1>6, <1>8
  <2>3. x <= job.adr \/ x <= IOmapSize(group)
    BY <1>2, <1>3, <1>11 DEF PlaceOK
  <2>4. x <= IOmapSize(group)
    BY <2>2, <2>3, <1>4, <1>6
  <2> QED BY <2>4, <1>1, <1>2, <1>3
<1>12. CASE phase = "receive"
  <2>1. x <= Off + Extent(group) \/ x <= group.Obytes \/ x <= IOmapSize(group)
    BY <1>2, <1>3, <1>12 DEF PlaceOK
  <2>2. x <= IOmapSize(group)
    BY <2>1, <1>4, <1>6
  <2> QED BY <2>2, <1>1, <1>2, <1>3
<1> QED BY <1>7, <1>9, <1>10, <1>11, <1>12 DEF TypeInv

\* For any group whose segments cover its addresses: the index stack, the image and the counter stay in
\* range, whatever is lost or late.
THEOREM CyclicTypes ==
    ASSUME GroupsMapped
    PROVE  CyclicSpec => []CyclicTypeOK
<1>1. CycInv => CyclicTypeOK
  <2> SUFFICES ASSUME CycInv PROVE CyclicTypeOK
    OBVIOUS
  <2> USE DEF CycInv
  <2>1. \A b \in DOMAIN image :
          image[b] \in {Junk, Old} \cup {OutputOf(c) : c \in 1 .. cycle} \cup {InputOf(c) : c \in 1 .. cycle}
    <3>1. image \in [0 .. IOmapSize(group) - 1 -> Values(cycle)]
      BY DEF TypeInv
    <3> QED BY <3>1 DEF Values
  <2>2. Len(idxstack.entries) <= EC_MAXBUF /\ idxstack.pulled \in 0 .. Len(idxstack.entries)
    BY EntryFacts DEF Top, Entries
  <2>3. CycleDone /\ Rotates /\ FirstGenuine => result <= ExpectedWKC
    BY DEF ResultInv, CycleDone
  <2> QED BY <2>1, <2>2, <2>3 DEF TypeInv, CyclicTypeOK
<1> QED BY <1>1, CyclicInvariant, PTL

\* For any such group: no answer, late or on time, undoes what the application wrote.
THEOREM OutputsStay ==
    ASSUME GroupsMapped
    PROVE  CyclicSpec => []OutputsKept
<1>1. CycInv => OutputsKept
  BY DEF CycInv, OutputsInv, OutputsKept, Genuine, CycleDone
<1> QED BY <1>1, CyclicInvariant, PTL

\* For any such group: a full working counter vouches for all inputs and outputs of the cycle.
THEOREM CounterVouches ==
    ASSUME GroupsMapped
    PROVE  CyclicSpec => []WkcVouches
<1>1. CycInv => WkcVouches
  BY DEF CycInv, ResultInv
<1> QED BY <1>1, CyclicInvariant, PTL

\* For any such group: every input byte has one place, in the IOmap, and every index is returned.
THEOREM PlacedOnce ==
    ASSUME GroupsMapped
    PROVE  CyclicSpec => []InputsPlacedOnce
<1>1. CycInv => InputsPlacedOnce
  <2> SUFFICES ASSUME CycInv PROVE InputsPlacedOnce
    OBVIOUS
  <2> USE DEF CycInv
  <2>1. Top \in Nat /\ DOMAIN Entries = 1 .. Top
    BY EntryFacts DEF TypeInv, Top, Entries
  <2>2. ASSUME phase = "receive", idxstack.pulled = 0, Datagrams <= EC_MAXBUF, NEW b \in Inputs
        PROVE  Cardinality(Placing(b)) = 1
    <3>1. PICK k \in 1 .. Top : Entries[k].data <= b /\ b < EndOf(Entries[k])
      BY <2>2 DEF CoverInv
    <3>2. \A j \in 1 .. Top : j \in Placing(b) <=> Entries[j].data <= b /\ b < EndOf(Entries[j])
      BY <2>1 DEF Placing, EndOf, Entries
    <3>3. b \in Int
      BY DEF Inputs
    <3>4. \A j \in 1 .. Top : Entries[j].data \in Nat /\ Entries[j].length \in Nat
              /\ EndOf(Entries[j]) \in Nat
      BY EntryFacts DEF EndOf
    <3>5. ASSUME NEW j \in 1 .. Top, j # k, Entries[j].data <= b, b < EndOf(Entries[j]) PROVE FALSE
      <4>1. j < k \/ k < j
        BY <3>5
      <4>2. EndOf(Entries[j]) <= Entries[k].data \/ EndOf(Entries[k]) <= Entries[j].data
        BY <4>1 DEF PlaceInv
      <4> QED BY <4>2, <3>1, <3>3, <3>4, <3>5
    <3>6. Placing(b) \subseteq 1 .. Top
      BY <2>1 DEF Placing, Entries
    <3>7. Placing(b) = {k}
      BY <3>1, <3>2, <3>5, <3>6
    <3> QED BY <3>7, FS_Singleton
  <2>3. ASSUME group.overlap => group.Obytes <= group.Ibytes, NEW k \in DOMAIN idxstack.entries
        PROVE  idxstack.entries[k].data + idxstack.entries[k].length <= IOmapSize(group)
    BY <2>1, <2>3, PlacesInImage DEF Entries
  <2>4. ASSUME phase = "app", NEW i \in Idx PROVE rxbufstat[i] = "EMPTY"
    <3>1. Top = 0
      BY <2>4 DEF TypeInv, Top
    <3>2. rxbufstat[i] # "TX"
      BY <3>1, EntryFacts DEF IndexInv
    <3> QED BY <3>2 DEF TypeInv
  <2> QED BY <2>2, <2>3, <2>4 DEF InputsPlacedOnce
<1> QED BY <1>1, CyclicInvariant, PTL

\* For any such group: the clock is set from anything but a clock datagram only when the frame with
\* that datagram did not arrive.
THEOREM ClockFromItsFrame ==
    ASSUME GroupsMapped
    PROVE  CyclicSpec => ClockGenuine
<1> DEFINE Step == Rotates /\ DCtime' = Junk /\ DCtime # Junk => idxstack.pulled > 0 /\ ~received.valid
<1>1. CycInv /\ [CyclicNext]_cyclicVars => [Step]_cyclicVars
  <2> SUFFICES ASSUME CycInv, CyclicNext, Rotates, DCtime' = Junk, DCtime # Junk
               PROVE  idxstack.pulled > 0 /\ ~received.valid
    OBVIOUS
  <2> USE DEF CycInv
  <2>1. ReceiveFirst
    <3>1. DCtime' # DCtime
      OBVIOUS
    <3> QED BY <3>1 DEF CyclicNext, StartCycle, SendLRD, SendLWR, SendLRW, SendRest, ReceiveFrame,
                        ReceiveTimeOut, ReceiveDone
  <2>2. PICK f \in wire : f.idx = Entry.idx /\ DCtime' = IF f.dc /\ f.len = DCl THEN f.cycle ELSE Junk
    BY <2>1 DEF ReceiveFirst
  <2>3. f.cycle \in 1 .. cycle
    BY DEF TypeInv, FrameOK
  <2>4. ~(f.dc /\ f.len = DCl)
    <3>1. f.cycle # Junk
      BY <2>3 DEF Junk, TypeInv
    <3> QED BY <2>2, <3>1
  <2>5. ~received.valid /\ group.hasdc
    BY <2>1 DEF ReceiveFirst, FirstInv
  <2>6. idxstack.pulled \in Nat /\ Pulling /\ phase = "receive"
    BY <2>1, EntryFacts DEF ReceiveFirst, Pulling
  <2>7. ASSUME idxstack.pulled = 0 PROVE FALSE
    <3>1. 1 \in 1 .. Top /\ Top > 0
      BY <2>6, <2>7, EntryFacts DEF Pulling, Top, Entries
    <3>2. PICK e : e = Entries[1]
      OBVIOUS
    <3>3. Entry = e
      BY <2>7, <3>2 DEF Entry, Entries
    <3>4. Match(f, e) /\ (f.dc <=> group.hasdc /\ 1 = 1)
      BY <2>2, <2>6, <3>1, <3>2, <3>3, FrameIsEntrys
    <3>5. f.dc /\ f.len = e.length
      BY <3>4, <2>5 DEF Match
    <3>6. DCl = e.length
      BY <2>5, <3>1, <3>2 DEF FirstInv
    <3> QED BY <2>4, <3>5, <3>6
  <2> QED BY <2>5, <2>6, <2>7
<1> QED BY <1>1, CyclicInvariant, PTL DEF CyclicSpec, ClockGenuine

=============================================================================
