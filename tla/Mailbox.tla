------------------------------- MODULE Mailbox -------------------------------
(***************************************************************************)
(* The mailbox link layer of the master (ecx_mbxempty, ecx_mbxsend and     *)
(* ecx_mbxreceive in ethercatmain.c), used the way CoE, FoE and SoE use it *)
(* for one request: empty the slave's out mailbox, take the next mailbox   *)
(* counter, send the request, receive the reply.                           *)
(*                                                                         *)
(* A register access (ecx_FPRD, ecx_FPWR) is one step that reaches the     *)
(* slave or not and whose answer is received or not.  The slave is         *)
(* external: it takes a request unless its counter is that of the one      *)
(* before, queues a reply, may send messages of its own (emergencies,      *)
(* mailbox errors, EoE fragments: asides), and serves repeat requests with *)
(* the message the master has read last.                                   *)
(***************************************************************************)
EXTENDS Integers, Sequences, FiniteSets

CONSTANTS
    MaxRequests,  \* bound: transactions
    MaxAsides,    \* bound: messages of the slave's own
    MaxLosses     \* bound: lost frames

ASSUME MailboxAssumption == MaxRequests \in Nat /\ MaxAsides \in Nat /\ MaxLosses \in Nat

VARIABLES
    pc,         \* idle | empty | write | poll | read | repeat | ack | available
    stage,      \* drain | reply: which ecx_mbxreceive of the transaction this is
    request,    \* number of the current transaction
    mbx_cnt,    \* slavelist[slave].mbx_cnt
    expired,    \* osal_timer_is_expired(&timer) of the current call
    SMstat,     \* local of ecx_mbxreceive: [full, repeat]
    wkc,        \* what the last call returned, by sign: 1, 0, -1
    reply,      \* message the last transaction returned, or NoMsg
    handled,    \* last aside given to the error list or the EoE hook
    in, out,    \* sync managers 0 and 1: the message in the slave's in and out mailbox
    \* external, the slave:
    slavecnt,   \* counter of the request taken last
    taken,      \* the requests it has taken
    queue,      \* messages that wait for its out mailbox
    asides,     \* messages of its own so far
    lastread,   \* the message the master has read last
    repeat, ack,  \* repeat request and acknowledge of the repeat
    losses,     \* frames lost so far
    lostread,   \* a read of the mailbox was lost before it reached the slave
    late        \* a call has given up: on the write, or on a message because its time was up

master == <<pc, stage, request, mbx_cnt, expired, SMstat, wkc, reply, handled, losses, lostread, late>>
slave == <<slavecnt, taken, queue, asides, lastread, repeat, ack>>
vars == <<pc, stage, request, mbx_cnt, expired, SMstat, wkc, reply, handled, in, out, slave,
          losses, lostread, late>>

NoMsg == [kind |-> "none", n |-> 0]
Reply(n) == [kind |-> "reply", n |-> n]
Aside(n) == [kind |-> "aside", n |-> n]
Messages == {NoMsg} \cup {Reply(n) : n \in 1 .. MaxRequests} \cup {Aside(n) : n \in 1 .. MaxAsides}

Init ==
    /\ pc = "idle"
    /\ stage = "reply"
    /\ request = 0
    /\ mbx_cnt \in {0, 6}
    /\ expired = FALSE
    /\ SMstat = [full |-> FALSE, repeat |-> FALSE]
    /\ wkc = 0
    /\ reply = NoMsg
    /\ handled = 0
    /\ in = [cnt |-> 0, n |-> 0]
    /\ out = NoMsg
    /\ slavecnt = mbx_cnt
    /\ taken = <<>>
    /\ queue = <<>>
    /\ asides = 0
    /\ lastread = NoMsg
    /\ repeat = FALSE
    /\ ack = FALSE
    /\ losses = 0
    /\ lostread = FALSE
    /\ late = FALSE

EmptyIn == [cnt |-> 0, n |-> 0]

\* A register access: it reaches the slave or not, and its answer comes back or not.
Answered == [sent |-> TRUE, ok |-> TRUE]
Exchanges == {Answered} \cup
    IF losses < MaxLosses THEN {[sent |-> TRUE, ok |-> FALSE], [sent |-> FALSE, ok |-> FALSE]} ELSE {}
Counted(x) == losses' = losses + (IF x.ok THEN 0 ELSE 1)

-----------------------------------------------------------------------------
(* The transaction, as ecx_SDOread, ecx_FOEread, ecx_SoEread begin theirs  *)

\* ec_nextmbxcnt: 1 to 7, 0 is never used.
NextMbxCnt == IF mbx_cnt >= 7 THEN 1 ELSE mbx_cnt + 1

\* Mutant: the same counter for every request.
Send_SameCnt ==
    /\ pc' = "empty"
    /\ expired' = FALSE
    /\ mbx_cnt' = 1

\* The request is built with a new counter and ecx_mbxsend called.
Send ==
    /\ pc' = "empty"
    /\ expired' = FALSE
    /\ mbx_cnt' = NextMbxCnt

\* ecx_mbxreceive with no time at all takes one message out of the way.
Begin ==
    /\ pc = "idle"
    /\ request < MaxRequests
    /\ request' = request + 1
    /\ pc' = "poll"
    /\ stage' = "drain"
    /\ expired' = TRUE
    /\ reply' = NoMsg
    /\ UNCHANGED <<mbx_cnt, SMstat, wkc, handled, in, out, slave, losses, lostread, late>>

\* The receive call returns w with message m: the reply is received if the request was sent.
Received(w, m) ==
    /\ wkc' = w
    /\ late' = (late \/ (w <= 0 /\ (stage = "reply" \/ pc # "poll")))
    /\ IF stage = "drain"
         THEN Send /\ UNCHANGED reply
         ELSE pc' = "idle" /\ reply' = m /\ UNCHANGED <<expired, mbx_cnt>>

\* Likewise ecx_mbxsend.
Sent(w) ==
    /\ wkc' = w
    /\ late' = (late \/ w <= 0)
    /\ IF w > 0
         THEN pc' = "poll" /\ stage' = "reply" /\ expired' = FALSE
         ELSE pc' = "idle" /\ UNCHANGED <<stage, expired>>

\* Time passes; a call with a timeout of 0 begins with no time left.
Expire ==
    /\ pc # "idle"
    /\ ~expired
    /\ expired' = TRUE
    /\ UNCHANGED <<pc, stage, request, mbx_cnt, SMstat, wkc, reply, handled, in, out, slave,
                   losses, lostread, late>>

-----------------------------------------------------------------------------
(* ecx_mbxsend                                                             *)

\* ecx_mbxempty: poll the status of sync manager 0 until the mailbox is empty or time is up.
PollEmpty ==
    /\ pc = "empty"
    /\ \E x \in Exchanges :
        /\ Counted(x)
        /\ CASE x.ok /\ in.n = 0 -> pc' = "write" /\ UNCHANGED <<stage, expired, wkc, late>>
             [] ~(x.ok /\ in.n = 0) /\ expired -> Sent(0)
             [] OTHER -> UNCHANGED <<pc, stage, expired, wkc, late>>
    /\ UNCHANGED <<request, mbx_cnt, SMstat, reply, handled, in, out, slave, lostread>>

\* ecx_FPWR of the request.  ecx_srconfirm sends it again while it has time and no answer; a full
\* mailbox takes nothing and counts 0.
WriteMailbox ==
    /\ pc = "write"
    /\ \E x \in Exchanges :
        /\ Counted(x)
        /\ in' = IF x.sent /\ in.n = 0 THEN [cnt |-> mbx_cnt, n |-> request] ELSE in
        /\ IF x.ok
             THEN Sent(IF in.n = 0 THEN 1 ELSE 0)
             ELSE Sent(-1) \/ UNCHANGED <<pc, stage, expired, wkc, late>>
    /\ UNCHANGED <<request, mbx_cnt, SMstat, reply, handled, out, slave, lostread>>

-----------------------------------------------------------------------------
(* ecx_mbxreceive                                                          *)

ReadStatus == [full |-> out # NoMsg, repeat |-> repeat]
Cleared == [full |-> FALSE, repeat |-> FALSE]

\* Poll the status of sync manager 1 until the mailbox is full or time is up.
PollFull ==
    /\ pc = "poll"
    /\ \E x \in Exchanges :
        /\ Counted(x)
        /\ SMstat' = IF x.ok THEN ReadStatus ELSE Cleared
        /\ CASE SMstat'.full -> pc' = "read" /\ UNCHANGED <<expired, mbx_cnt, wkc, reply, late>>
             [] ~SMstat'.full /\ expired -> Received(-1, NoMsg)
             [] OTHER -> UNCHANGED <<pc, expired, mbx_cnt, wkc, reply, late>>
    /\ UNCHANGED <<stage, request, handled, in, out, slave, lostread>>

\* The end of the repeat loop, with wkc <= 0: again, or give up.
AgainOr(w) ==
    IF expired THEN Received(w, NoMsg)
    ELSE pc' = "read" /\ UNCHANGED <<expired, mbx_cnt, wkc, reply, late>>

\* ecx_FPRD of the mailbox.  A message of the slave's own is handled and the loop goes on; any
\* other is returned; without one a repeat is asked for.
ReadMailbox ==
    /\ pc = "read"
    /\ \E x \in Exchanges :
        /\ Counted(x)
        /\ lostread' = (lostread \/ ~x.sent)
        /\ IF x.sent /\ out # NoMsg
             THEN out' = NoMsg /\ lastread' = out
             ELSE UNCHANGED <<out, lastread>>
        /\ CASE x.ok /\ out.kind = "reply" ->
                    Received(1, out) /\ UNCHANGED <<SMstat, handled>>
             [] x.ok /\ out.kind = "aside" ->
                    /\ handled' = out.n
                    /\ AgainOr(0)
                    /\ UNCHANGED SMstat
             [] OTHER ->
                    /\ SMstat' = [SMstat EXCEPT !.repeat = ~@]
                    /\ pc' = "repeat"
                    /\ UNCHANGED <<expired, mbx_cnt, wkc, reply, handled, late>>
    /\ UNCHANGED <<stage, request, in, slavecnt, taken, queue, asides, repeat, ack>>

\* ecx_FPWR of the toggled repeat bit; its working counter is not looked at.
RequestRepeat ==
    /\ pc = "repeat"
    /\ \E x \in Exchanges :
        /\ Counted(x)
        /\ repeat' = IF x.sent THEN SMstat.repeat ELSE repeat
    /\ pc' = "ack"
    /\ UNCHANGED <<stage, request, mbx_cnt, expired, SMstat, wkc, reply, handled, in, out,
                   slavecnt, taken, queue, asides, lastread, ack, lostread, late>>

\* Mutant: the wait for the acknowledge does not look at the timer.
WaitAck_NoTimer ==
    /\ pc = "ack"
    /\ \E x \in Exchanges :
        /\ Counted(x)
        /\ pc' = IF x.ok /\ ack = SMstat.repeat THEN "available" ELSE pc
    /\ UNCHANGED <<stage, request, mbx_cnt, expired, SMstat, wkc, reply, handled, in, out, slave, lostread, late>>

\* Mutant: the master does not wait for the acknowledge of the repeat request.
WaitAck_Skipped ==
    /\ pc = "ack"
    /\ \E x \in Exchanges : Counted(x)
    /\ pc' = "available"
    /\ UNCHANGED <<stage, request, mbx_cnt, expired, SMstat, wkc, reply, handled, in, out, slave, lostread, late>>

\* Wait until the slave has acknowledged the repeat request.
WaitAck ==
    /\ pc = "ack"
    /\ \E x \in Exchanges :
        /\ Counted(x)
        /\ pc' = IF (x.ok /\ ack = SMstat.repeat) \/ expired THEN "available" ELSE pc
    /\ UNCHANGED <<stage, request, mbx_cnt, expired, SMstat, wkc, reply, handled, in, out, slave, lostread, late>>

\* Wait until its mailbox is full again; the status is kept when the access fails.
WaitAvailable ==
    /\ pc = "available"
    /\ \E x \in Exchanges :
        /\ Counted(x)
        /\ SMstat' = IF x.ok THEN ReadStatus ELSE SMstat
        /\ IF (x.ok /\ out # NoMsg) \/ expired
             THEN AgainOr(-1)
             ELSE UNCHANGED <<pc, expired, mbx_cnt, wkc, reply, late>>
    /\ UNCHANGED <<stage, request, handled, in, out, slave, lostread>>

-----------------------------------------------------------------------------
(* The slave                                                               *)

\* A request with the counter of the one before is a duplicate.
SlaveTake ==
    /\ in # EmptyIn
    /\ in' = EmptyIn
    /\ IF in.cnt = slavecnt THEN UNCHANGED <<slavecnt, taken, queue>>
       ELSE /\ slavecnt' = in.cnt
            /\ taken' = Append(taken, in.n)
            /\ queue' = Append(queue, Reply(in.n))
    /\ UNCHANGED <<asides, lastread, repeat, ack, out, master>>

SlaveAside ==
    /\ asides < MaxAsides
    /\ asides' = asides + 1
    /\ queue' = Append(queue, Aside(asides'))
    /\ UNCHANGED <<slavecnt, taken, lastread, repeat, ack, in, out, master>>

SlavePost ==
    /\ out = NoMsg
    /\ queue # <<>>
    /\ repeat = ack
    /\ out' = Head(queue)
    /\ queue' = Tail(queue)
    /\ UNCHANGED <<slavecnt, taken, asides, lastread, repeat, ack, in, master>>

\* The message read last comes back; one that waits in the mailbox is put back into the queue.
SlaveRepeat ==
    /\ repeat # ack
    /\ ack' = repeat
    /\ IF lastread = NoMsg
         THEN UNCHANGED <<out, queue>>
         ELSE /\ out' = lastread
              /\ queue' = IF out = NoMsg THEN queue ELSE <<out>> \o queue
    /\ UNCHANGED <<slavecnt, taken, asides, lastread, repeat, in, master>>

Master ==
    \/ Begin \/ PollEmpty \/ WriteMailbox
    \/ PollFull \/ ReadMailbox \/ RequestRepeat \/ WaitAck \/ WaitAvailable

Next == Master \/ Expire \/ SlaveTake \/ SlaveAside \/ SlavePost \/ SlaveRepeat

Spec == Init /\ [][Next]_vars

\* The master's thread runs and its timers expire.
FairSpec == Spec /\ WF_vars(Master) /\ WF_vars(Expire)

-----------------------------------------------------------------------------
(* Properties                                                              *)

\* The mailbox counter stays in the three bits of the header (ec_nextmbxcnt), and the mailboxes hold
\* messages that somebody sent.
TypeOK ==
    /\ pc \in {"idle", "empty", "write", "poll", "read", "repeat", "ack", "available"}
    /\ stage \in {"drain", "reply"}
    /\ request \in 0 .. MaxRequests
    /\ SMstat \in [full : BOOLEAN, repeat : BOOLEAN]
    /\ {expired, repeat, ack, lostread, late} \subseteq BOOLEAN
    /\ mbx_cnt \in 0 .. 7
    /\ slavecnt \in 0 .. 7
    /\ {out, reply, lastread} \subseteq Messages
    /\ in \in [cnt : 0 .. 7, n : 0 .. MaxRequests]
    /\ {handled, asides} \subseteq 0 .. MaxAsides
    /\ taken \in Seq(1 .. MaxRequests)
    /\ queue \in Seq(Messages \ {NoMsg})
    /\ wkc \in {-1, 0, 1}

\* Once ecx_mbxsend has returned a positive working counter the slave has the request, or will
\* take it, exactly once, however often the write was repeated (ec_nextmbxcnt, ecx_srconfirm).  There
\* are seven counters: when that of the request taken last has come round, because none of the six
\* after it reached the slave, it takes the request for that one and drops it.
LastTaken == IF taken = <<>> THEN 0 ELSE taken[Len(taken)]
RequestTakenOnce ==
    stage = "reply" /\ pc # "idle" =>
        LET times == Cardinality({k \in DOMAIN taken : taken[k] = request})
                       + (IF in.n = request /\ in.cnt # slavecnt THEN 1 ELSE 0)
        IN times = 1 \/ (times = 0 /\ request - LastTaken >= 7)

\* The reply that is returned is that of the request, unless an earlier call ran out of time or a
\* read was lost before it reached the slave, which then repeats the wrong message.
ReplyFresh == pc = "idle" /\ wkc > 0 /\ reply # NoMsg => reply.n = request \/ late \/ lostread

\* Replies are fresh, and no message of the slave is skipped unless a call ran out of time: one that
\* was read and lost on the way is repeated before the next is read (the repeat request of
\* ecx_mbxreceive).
RepliesInOrder == [][ReplyFresh' /\ (handled' > handled + 1 => late')]_vars

\* Each call ends, whatever is lost and whatever the slave does.
CallEnds == pc # "idle" ~> pc = "idle"

=============================================================================
