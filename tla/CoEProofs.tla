------------------------------- MODULE CoEProofs -------------------------------
(***************************************************************************)
(* What ecx_SDOread, ecx_TxPDO, ecx_SDOwrite, ecx_RxPDO and the listing of *)
(* an object dictionary report is genuine, for all objects, sizes,         *)
(* mailboxes, buffers and dictionaries.                                    *)
(*                                                                         *)
(* The invariant says for each place of a call which messages are under    *)
(* way: a request in the slave's mailbox, or its answers, those in the     *)
(* queue behind the one in the mailbox (Pipe), and what they hold.         *)
(***************************************************************************)
EXTENDS ObjectDictionary, SequenceTheorems, TLAPS

-----------------------------------------------------------------------------
(* The inductive invariant: types                                          *)

Requests == {"UP_REQ", "SEG_UP_REQ", "DOWN_EXP_REQ", "DOWN_REQ", "SEG_DOWN_REQ", "RXPDO", "TXPDO_RR",
             "LIST_REQ", "DESC_REQ", "ENTRY_REQ"}

\* A sequence of anything.
IsSeq(s) == s \in Seq(Range(s))

\* The numbers in a message, whatever its kind.
Numbers(m) ==
    /\ m.call \in Nat /\ m.size \in Nat /\ m.from \in Nat /\ m.len \in Nat
    /\ m.unused \in 0 .. 7 /\ m.last \in BOOLEAN /\ m.toggle \in {0, 1}
Answer(m) == m.kind \in Responses \cup Unnamed /\ Numbers(m)

\* What the slave has answered and nobody has read, in order.
Pipe == IF out = None THEN slave.queue ELSE <<out>> \o slave.queue

Pieces == Seq([call : Nat, from : Nat, len : Nat])

\* The state of the slave but for its queue.
SlaveState(s) ==
    /\ s = [op |-> s.op, call |-> s.call, obj |-> s.obj, size |-> s.size, pieces |-> s.pieces,
            at |-> s.at, toggle |-> s.toggle, done |-> s.done, queue |-> s.queue]
    /\ s.call \in Nat /\ s.size \in Nat /\ s.at \in Nat /\ s.toggle \in {0, 1}
    /\ s.pieces \in Pieces
    /\ s.op = "up" => s.at < s.size

SlaveOK ==
    /\ SlaveState(slave)
    /\ IsSeq(slave.queue)
    /\ \A k \in 1 .. Len(slave.queue) : Answer(slave.queue[k])

CallOK ==
    /\ call = [n |-> call.n, op |-> call.op, obj |-> call.obj, size |-> call.size]
    /\ call.n \in 0 .. MaxCalls /\ call.size \in Nat
    /\ call.op \in {"READ", "WRITE", "TXPDO", "RXPDO", "LIST"}
    /\ call.op = "READ" => call.obj \in Objects
    /\ call.op = "TXPDO" => call.obj \in Pdos

LocalsOK ==
    /\ hp \in Nat /\ data \in Pieces
    /\ toggle \in {0, 1} /\ NotLast \in BOOLEAN
    /\ call.op = "WRITE" => hp <= call.size
    /\ pc = "request" => hp = 0 /\ data = <<>>
    /\ pc = "response" /\ call.op # "WRITE" => hp = 0
    /\ losses \in Nat /\ stale \in BOOLEAN /\ missed \in BOOLEAN /\ lost \in BOOLEAN

TypeInv ==
    /\ CallOK /\ LocalsOK /\ SlaveOK
    /\ Numbers(in) /\ in.kind \in {"none"} \cup Requests
    /\ out = None \/ Answer(out)

-----------------------------------------------------------------------------
(* The inductive invariant: reading                                        *)

\* The request is in the slave's mailbox, or its one answer is under way.
NotTaken == Pipe = <<>>
OneAnswer == in = None /\ Len(Pipe) = 1

\* A call that nothing of an earlier call disturbs begins with empty mailboxes.
RequestInv == pc = "request" /\ ~stale => in = None /\ Pipe = <<>>

\* The slave's first answer to an upload of this call.
Uploaded(m) ==
    \/ m.kind = "ABORT"
    \/ /\ m.kind \in {"UP_EXP", "UP"}
       /\ m.index = call.obj.index /\ m.call = call.n /\ m.from = 0 /\ m.size = call.obj.size
       /\ m.kind = "UP_EXP" => m.len = m.size
       /\ m.kind = "UP" =>
            /\ m.len <= m.size
            /\ m.len < m.size =>
                 slave.op = "up" /\ slave.call = call.n /\ slave.size = m.size /\ slave.at = m.len

ReadResponseInv ==
    pc = "response" /\ call.op = "READ" /\ ~stale =>
        \/ /\ NotTaken
           /\ in.kind = "UP_REQ" /\ in.call = call.n
           /\ in.index = call.obj.index /\ in.sub = call.obj.sub
        \/ OneAnswer /\ Uploaded(Pipe[1])

\* Where the data ends that the master has when it has read the first k messages under way.
End(k) == IF k = 0 THEN hp ELSE Pipe[k].from + DataIn(Pipe[k])

\* The segments under way follow each other, the first one what has been copied, but for what was
\* read and lost.  After an abort there are none.
SegmentsInv ==
    /\ in.kind \in {"none", "SEG_UP_REQ"}
    /\ \A k \in 1 .. Len(Pipe) : Pipe[k].kind \in {"SEG_UP", "ABORT"}
    /\ \A k \in 1 .. Len(Pipe) : Pipe[k].kind = "SEG_UP" =>
          /\ \A j \in 1 .. k - 1 : Pipe[j].kind = "SEG_UP"
          /\ Pipe[k].call = call.n
          /\ Pipe[k].from >= End(k - 1) /\ (k > 1 \/ ~lost => Pipe[k].from = End(k - 1))
          /\ End(k) <= call.obj.size /\ (Pipe[k].last => End(k) = call.obj.size)
    /\ slave.op = "up" =>
          /\ \A k \in 1 .. Len(Pipe) : Pipe[k].kind = "SEG_UP"
          /\ slave.call = call.n /\ slave.size = call.obj.size
          /\ slave.at >= End(Len(Pipe)) /\ (Pipe # <<>> \/ ~lost => slave.at = End(Len(Pipe)))

ReadInv ==
    pc \in {"segment", "segresponse"} /\ call.op = "READ" /\ ~stale =>
        /\ hp <= call.obj.size /\ call.obj.size <= call.size
        /\ ~lost => Whole(data, hp)
        /\ SegmentsInv

\* The PDO asked for.
TxPDOInv ==
    pc = "response" /\ call.op = "TXPDO" /\ ~stale =>
        \/ NotTaken /\ in.kind = "TXPDO_RR" /\ in.call = call.n /\ in.index = call.obj.index
        \/ /\ OneAnswer
           /\ Pipe[1].kind = "TXPDO" =>
                Pipe[1].call = call.n /\ Pipe[1].from = 0 /\ Pipe[1].len = call.obj.size

-----------------------------------------------------------------------------
(* The inductive invariant: writing                                        *)

\* What the slave has of the value: all that was sent, or less.
Stored(at) ==
    /\ slave.call = call.n /\ slave.size = call.size
    /\ slave.at <= at
    /\ slave.at = at => Whole(slave.pieces, at)

InWrite == call.op = "WRITE" /\ ~stale /\ ~missed /\ call.size < Width

WriteResponseInv ==
    InWrite /\ pc = "response" =>
        /\ NotLast <=> hp < call.size
        /\ \/ /\ NotTaken
              /\ in.kind \in {"DOWN_EXP_REQ", "DOWN_REQ"} /\ in.call = call.n
              /\ in.from = 0 /\ in.len = hp /\ in.size = call.size
           \/ /\ OneAnswer
              /\ Pipe[1].kind \in Responses =>
                    /\ Stored(hp) /\ slave.at = hp
                    /\ slave.op = (IF NotLast THEN "down" ELSE "none")
                    /\ slave.done <=> hp = call.size

\* Between two segments.  A segment that was not sent leaves the slave behind, for good.
WriteSegmentInv ==
    InWrite /\ pc = "segment" =>
        /\ in = None /\ Pipe = <<>>
        /\ hp < call.size
        /\ slave.op = "down" => Stored(hp)

\* A segment has been sent.
WriteSentInv ==
    InWrite /\ pc = "segresponse" =>
        /\ NotLast <=> hp < call.size
        /\ \/ /\ NotTaken
              /\ in.kind = "SEG_DOWN_REQ" /\ in.call = call.n
              /\ in.from + DataIn(in) = hp /\ (in.last <=> ~NotLast)
              /\ slave.op = "down" => Stored(in.from)
           \/ /\ OneAnswer
              /\ Pipe[1].kind = "SEG_DOWN" =>
                    /\ Stored(hp)
                    /\ ~NotLast => slave.done /\ slave.at = hp

\* What ecx_RxPDO has sent is under way, or has arrived.
RxPDOInv ==
    Ended("RXPDO") /\ call.size < Width =>
        /\ in.kind \in {"none", "RXPDO"}
        /\ Whole(IF in.kind = "RXPDO" THEN <<Piece(in, in.len)>> ELSE slave.pieces,
                 Least(call.size, maxdata + 8))

\* What ecx_SDOwrite has confirmed stays in the slave.
WrittenInv ==
    Ended("WRITE") /\ InWrite =>
        in = None /\ slave.done /\ Whole(slave.pieces, call.size)

-----------------------------------------------------------------------------
(* The inductive invariant: the object dictionary                          *)

\* Words the master has read with n frames.
WordsRead(n) == Least(Words, n * WordsPerFrame)

\* A list holds what n frames have of the dictionary, as far as there is room.
Lists(list, n) ==
    /\ IsSeq(list)
    /\ \A k \in 1 .. Len(list) :
          list[k] = [index |-> Dictionary[k].index, maxsub |-> list[k].maxsub, told |-> list[k].told]
    /\ Len(list) = IF n = 0 THEN 0 ELSE Least(EC_MAXODLIST, WordsRead(n) - 1)

\* Nothing is told of its objects yet.
Untold(list) == \A k \in 1 .. Len(list) : list[k].maxsub = 0 /\ ~list[k].told

\* What was told of them is the slave's.
Told(list) ==
    /\ \A k \in 1 .. Len(list) : list[k].maxsub \in Nat
    /\ \A k \in 1 .. Len(list) : list[k].told => list[k].maxsub = Dictionary[k].maxsub

Listing == call.op = "LIST" /\ inStep

BeginListInv == Listing /\ pc = "list" => x = 0 /\ ODlist = <<>>

ListInv ==
    Listing /\ pc = "listres" =>
        /\ x \in Nat /\ x <= MaxFrames /\ x < ListFrames
        /\ Lists(ODlist, x) /\ Untold(ODlist)
        /\ \/ NotTaken /\ in.kind = "LIST_REQ" /\ x = 0
           \/ OneAnswer /\ Pipe[1].kind = "ABORT"
           \/ /\ in = None /\ Len(Pipe) = ListFrames - x
              /\ \A k \in 1 .. ListFrames - x : Pipe[k] = ListPart(x + k)

\* The list is complete.
ItemsInv ==
    Listing /\ pc \in {"desc", "descres", "entry", "entryres", "shown"} =>
        /\ item \in 1 .. Len(ODlist)
        /\ Lists(ODlist, Least(MaxFrames + 1, ListFrames)) /\ Told(ODlist)

DescriptionInv ==
    Listing /\ pc = "descres" =>
        \/ NotTaken /\ in.kind = "DESC_REQ" /\ in.index = ODlist[item].index
        \/ OneAnswer /\ (Pipe[1].kind = "DESC" => Pipe[1].sub = Dictionary[item].maxsub)

EntriesInv ==
    Listing /\ pc \in {"entry", "entryres", "shown"} =>
        /\ sub \in Nat
        /\ IsSeq(OElist) /\ Len(OElist) = sub
        /\ \A s \in 1 .. sub : OElist[s] \in {Nowhere, [index |-> ODlist[item].index, sub |-> s - 1]}
        /\ IF pc = "shown" THEN sub = ODlist[item].maxsub + 1 ELSE sub <= ODlist[item].maxsub

EntryInv ==
    Listing /\ pc = "entryres" =>
        \/ NotTaken /\ in.kind = "ENTRY_REQ" /\ in.index = ODlist[item].index /\ in.sub = sub
        \/ /\ OneAnswer
           /\ Pipe[1].kind = "ENTRY" => Pipe[1].index = ODlist[item].index /\ Pipe[1].sub = sub

\* Where si_sdo is.
InSiSdo == {"list", "listres", "desc", "descres", "entry", "entryres", "shown"}
PcInv == pc \in InSiSdo => call.op = "LIST"

TransferInv ==
    /\ RequestInv /\ ReadResponseInv /\ ReadInv /\ TxPDOInv
    /\ WriteResponseInv /\ WriteSegmentInv /\ WriteSentInv /\ RxPDOInv /\ WrittenInv
    /\ ReadWhole

DictionaryInv ==
    BeginListInv /\ ListInv /\ ItemsInv /\ DescriptionInv /\ EntriesInv /\ EntryInv

CoEInv == TypeInv /\ PcInv /\ TransferInv /\ DictionaryInv

-----------------------------------------------------------------------------
(* Lemmas on sequences and numbers                                         *)

\* An element more at the end.
LEMMA AppendMore ==
  ASSUME NEW q, IsSeq(q), NEW m
  PROVE  /\ IsSeq(Append(q, m)) /\ Append(q, m) # <<>>
         /\ Len(q) \in Nat /\ Len(Append(q, m)) = Len(q) + 1
         /\ \A k \in 1 .. Len(q) : Append(q, m)[k] = q[k]
         /\ Append(q, m)[Len(q) + 1] = m
  <1> DEFINE S == Range(q) \cup {m}
  <1>1. q \in Seq(S)
    BY SeqMonotonic DEF IsSeq
  <1> HIDE DEF S
  <1>2. m \in S
    BY DEF S
  <1>3. Append(q, m) \in Seq(S)
    BY <1>1, <1>2, AppendProperties
  <1>4. IsSeq(Append(q, m))
    BY <1>3, SeqOfRange DEF IsSeq
  <1> QED
    BY <1>1, <1>2, <1>4, AppendProperties, LenProperties

\* The first element taken off.
LEMMA TailLess ==
  ASSUME NEW q, IsSeq(q), q # <<>>
  PROVE  /\ IsSeq(Tail(q)) /\ Len(q) \in Nat /\ Len(q) >= 1
         /\ Len(Tail(q)) = Len(q) - 1
         /\ \A k \in 1 .. Len(q) - 1 : Tail(q)[k] = q[k + 1]
         /\ Head(q) = q[1]
  <1>1. q \in Seq(Range(q))
    BY DEF IsSeq
  <1>2. /\ Tail(q) \in Seq(Range(q))
        /\ Len(Tail(q)) = Len(q) - 1
        /\ \A k \in 1 .. Len(Tail(q)) : Tail(q)[k] = q[k + 1]
    BY <1>1, HeadTailProperties
  <1>3. IsSeq(Tail(q))
    BY <1>2, SeqOfRange DEF IsSeq
  <1>4. Len(q) \in Nat /\ Len(q) # 0
    BY <1>1, EmptySeq, LenProperties
  <1>5. Head(q) = q[1]
    BY <1>1
  <1> QED
    BY <1>2, <1>3, <1>4, <1>5

\* One sequence behind another.
LEMMA ConcatBoth ==
  ASSUME NEW p, NEW q, IsSeq(p), IsSeq(q)
  PROVE  /\ IsSeq(p \o q) /\ Len(p) \in Nat /\ Len(q) \in Nat
         /\ Len(p \o q) = Len(p) + Len(q)
         /\ \A k \in 1 .. Len(p) + Len(q) :
               (p \o q)[k] = IF k <= Len(p) THEN p[k] ELSE q[k - Len(p)]
  <1> DEFINE S == Range(p) \cup Range(q)
  <1>1. p \in Seq(S) /\ q \in Seq(S)
    BY SeqMonotonic DEF IsSeq
  <1> HIDE DEF S
  <1>2. p \o q \in Seq(S)
    BY <1>1, ConcatProperties
  <1>3. IsSeq(p \o q)
    BY <1>2, SeqOfRange DEF IsSeq
  <1> QED
    BY <1>1, <1>3, ConcatProperties, LenProperties

\* A sequence of one element.
LEMMA OneIsSeq ==
  ASSUME NEW m
  PROVE  IsSeq(<<m>>) /\ Len(<<m>>) = 1 /\ <<m>>[1] = m
  <1>1. <<m>> \in Seq({m})
    OBVIOUS
  <1> QED
    BY <1>1, SeqOfRange DEF IsSeq

\* Sequences with the same elements are the same.
LEMMA SameSeq ==
  ASSUME NEW p, NEW q, IsSeq(p), IsSeq(q), Len(p) = Len(q), \A k \in 1 .. Len(p) : p[k] = q[k]
  PROVE  p = q
  <1> DEFINE S == Range(p) \cup Range(q)
  <1>1. p \in Seq(S) /\ q \in Seq(S)
    BY SeqMonotonic DEF IsSeq
  <1> HIDE DEF S
  <1> QED
    BY <1>1, SeqEqual

\* A sequence is empty if it has no elements.
LEMMA EmptyIsSeq ==
  IsSeq(<<>>) /\ \A q : IsSeq(q) => (q = <<>> <=> Len(q) = 0)
  <1>1. IsSeq(<<>>)
    BY EmptySeq DEF IsSeq
  <1>2. ASSUME NEW q, IsSeq(q) PROVE q = <<>> <=> Len(q) = 0
    BY <1>2, EmptySeq DEF IsSeq
  <1> QED
    BY <1>1, <1>2

\* The remainder of what is left in Width.
LEMMA Modulo ==
  ASSUME NEW a \in Nat
  PROVE  /\ a % Width \in Nat /\ a % Width <= a
         /\ a < Width => a % Width = a
  <1>1. Width \in Nat /\ Width > 0
    BY CoEAssumption
  <1> QED
    BY <1>1

-----------------------------------------------------------------------------
(* Lemmas on the messages under way                                        *)

\* The messages under way are a sequence of answers.
LEMMA PipeType ==
  ASSUME TypeInv
  PROVE  /\ IsSeq(Pipe) /\ Len(Pipe) \in Nat
         /\ \A k \in 1 .. Len(Pipe) : Answer(Pipe[k])
         /\ Pipe = <<>> <=> Len(Pipe) = 0
         /\ Pipe = <<>> <=> out = None /\ slave.queue = <<>>
  <1>1. IsSeq(slave.queue) /\ \A k \in 1 .. Len(slave.queue) : Answer(slave.queue[k])
    BY DEF TypeInv, SlaveOK
  <1>2. CASE out = None
    BY <1>1, <1>2, EmptyIsSeq DEF Pipe, IsSeq
  <1>3. CASE out # None
    <2>1. Answer(out)
      BY <1>3 DEF TypeInv
    <2>2. Pipe = <<out>> \o slave.queue
      BY <1>3 DEF Pipe
    <2>3. /\ IsSeq(Pipe) /\ Len(Pipe) = 1 + Len(slave.queue)
          /\ \A k \in 1 .. Len(Pipe) : Pipe[k] = IF k <= 1 THEN out ELSE slave.queue[k - 1]
      BY <1>1, <2>2, OneIsSeq, ConcatBoth
    <2>4. Len(slave.queue) \in Nat
      BY <1>1, LenProperties DEF IsSeq
    <2>5. \A k \in 1 .. Len(Pipe) : Answer(Pipe[k])
      BY <1>1, <2>1, <2>3, <2>4
    <2> QED
      BY <1>3, <2>3, <2>4, <2>5, EmptyIsSeq
  <1> QED
    BY <1>2, <1>3

\* Nothing happens to the answers.
LEMMA PipeSame ==
  ASSUME out' = out, slave'.queue = slave.queue
  PROVE  Pipe' = Pipe
  BY DEF Pipe

\* The slave answers with m.
LEMMA PipeAppend ==
  ASSUME TypeInv, NEW m, out' = out, slave'.queue = Append(slave.queue, m)
  PROVE  /\ Pipe' = Append(Pipe, m)
         /\ Len(Pipe) \in Nat /\ Len(Pipe') = Len(Pipe) + 1 /\ Pipe' # <<>>
         /\ \A k \in 1 .. Len(Pipe) : Pipe'[k] = Pipe[k]
         /\ Pipe'[Len(Pipe) + 1] = m
  <1>1. IsSeq(slave.queue)
    BY DEF TypeInv, SlaveOK
  <1>2. Pipe' = Append(Pipe, m)
    <2>1. CASE out = None
      BY <2>1 DEF Pipe
    <2>2. CASE out # None
      <3> DEFINE a == <<out>> \o Append(slave.queue, m)
                 b == Append(<<out>> \o slave.queue, m)
      <3>1. /\ IsSeq(Append(slave.queue, m)) /\ Len(slave.queue) \in Nat
            /\ Len(Append(slave.queue, m)) = Len(slave.queue) + 1
            /\ \A k \in 1 .. Len(slave.queue) : Append(slave.queue, m)[k] = slave.queue[k]
            /\ Append(slave.queue, m)[Len(slave.queue) + 1] = m
        BY <1>1, AppendMore
      <3>2. /\ IsSeq(a) /\ Len(a) = Len(slave.queue) + 2
            /\ \A k \in 1 .. Len(slave.queue) + 2 : a[k] = IF k <= 1 THEN out ELSE Append(slave.queue, m)[k - 1]
        BY <3>1, OneIsSeq, ConcatBoth
      <3>3. /\ IsSeq(<<out>> \o slave.queue) /\ Len(<<out>> \o slave.queue) = 1 + Len(slave.queue)
            /\ \A k \in 1 .. Len(slave.queue) + 1 : (<<out>> \o slave.queue)[k] = IF k <= 1 THEN out ELSE slave.queue[k - 1]
        BY <1>1, OneIsSeq, ConcatBoth
      <3>4. /\ IsSeq(b) /\ Len(b) = Len(slave.queue) + 2
            /\ \A k \in 1 .. Len(slave.queue) + 1 : b[k] = (<<out>> \o slave.queue)[k]
            /\ b[Len(slave.queue) + 2] = m
        BY <3>1, <3>3, AppendMore
      <3> HIDE DEF a, b
      <3>5. ASSUME NEW k \in 1 .. Len(a) PROVE a[k] = b[k]
        BY <3>1, <3>2, <3>3, <3>4
      <3>6. a = b
        BY <3>2, <3>4, <3>5, SameSeq
      <3> QED
        BY <2>2, <3>6 DEF Pipe, a, b
    <2> QED
      BY <2>1, <2>2
  <1> QED
    BY <1>2, PipeType, AppendMore

\* The master reads the message that is there.
LEMMA PipeRead ==
  ASSUME TypeInv, out # None, out' = None, slave'.queue = slave.queue
  PROVE  /\ Pipe[1] = out /\ Pipe # <<>>
         /\ Len(Pipe) \in Nat /\ Len(Pipe) >= 1 /\ Len(Pipe') = Len(Pipe) - 1
         /\ \A k \in 1 .. Len(Pipe) - 1 : Pipe'[k] = Pipe[k + 1]
         /\ Pipe' = <<>> <=> Len(Pipe) = 1
  <1>1. IsSeq(slave.queue)
    BY DEF TypeInv, SlaveOK
  <1>2. Pipe = <<out>> \o slave.queue /\ Pipe' = slave.queue
    BY DEF Pipe
  <1>3. /\ IsSeq(Pipe) /\ Len(slave.queue) \in Nat /\ Len(Pipe) = 1 + Len(slave.queue)
        /\ \A k \in 1 .. Len(Pipe) : Pipe[k] = IF k <= 1 THEN out ELSE slave.queue[k - 1]
    BY <1>1, <1>2, OneIsSeq, ConcatBoth
  <1>4. Pipe # <<>>
    BY <1>3, EmptyIsSeq
  <1>5. Pipe' = <<>> <=> Len(slave.queue) = 0
    BY <1>1, <1>2, EmptyIsSeq
  <1> QED
    BY <1>2, <1>3, <1>4, <1>5

\* The slave's next answer is in the out mailbox.
LEMMA PipePosted ==
  ASSUME TypeInv, SlaveAnswer
  PROVE  /\ Pipe' = Pipe /\ Answer(out)'
         /\ IsSeq(slave'.queue) /\ \A k \in 1 .. Len(slave'.queue) : Answer(slave'.queue[k])
  <1>1. /\ IsSeq(slave.queue) /\ \A k \in 1 .. Len(slave.queue) : Answer(slave.queue[k])
    BY DEF TypeInv, SlaveOK
  <1>2. /\ slave.queue # <<>> /\ out = None /\ out' = Head(slave.queue)
        /\ slave'.queue = Tail(slave.queue)
    BY DEF SlaveAnswer, TypeInv, SlaveOK, SlaveState
  <1>3. /\ IsSeq(Tail(slave.queue)) /\ Len(slave.queue) \in Nat /\ Len(slave.queue) >= 1
        /\ Len(Tail(slave.queue)) = Len(slave.queue) - 1
        /\ \A k \in 1 .. Len(slave.queue) - 1 : Tail(slave.queue)[k] = slave.queue[k + 1]
        /\ Head(slave.queue) = slave.queue[1]
    BY <1>1, <1>2, TailLess
  <1>4. Answer(slave.queue[1]) /\ out' = slave.queue[1]
    BY <1>1, <1>2, <1>3
  <1>5. slave.queue[1] # None
    BY <1>4 DEF Answer, Responses, Unnamed, None
  <1>6. Pipe' = <<slave.queue[1]>> \o Tail(slave.queue) /\ Pipe = slave.queue
    BY <1>2, <1>4, <1>5 DEF Pipe
  <1>7. /\ IsSeq(Pipe') /\ Len(Pipe') = Len(slave.queue)
        /\ \A k \in 1 .. Len(slave.queue) :
              Pipe'[k] = IF k <= 1 THEN slave.queue[1] ELSE Tail(slave.queue)[k - 1]
    BY <1>3, <1>6, OneIsSeq, ConcatBoth
  <1>8. \A k \in 1 .. Len(slave.queue) : Pipe'[k] = slave.queue[k]
    BY <1>3, <1>7
  <1>9. Pipe' = Pipe
    BY <1>1, <1>6, <1>7, <1>8, SameSeq
  <1>10. Answer(out)'
    BY <1>4 DEF Answer, Numbers
  <1>11. \A k \in 1 .. Len(slave'.queue) : Answer(slave'.queue[k])
    BY <1>1, <1>2, <1>3
  <1> QED
    BY <1>2, <1>3, <1>9, <1>10, <1>11

-----------------------------------------------------------------------------
(* Types                                                                   *)

\* The fields of a frame that names an object, carrying n's data.
LEMMA CarryingIs ==
  ASSUME NEW k, NEW o, NEW n \in Nat, NEW from \in Nat, NEW len \in Nat, NEW size \in Nat
  PROVE  LET m == Carrying(Sdo(k, o), n, from, len, size) IN
         /\ Numbers(m)
         /\ m.kind = k /\ m.index = o.index /\ m.sub = o.sub
         /\ m.call = n /\ m.from = from /\ m.len = len /\ m.size = size
         /\ ~m.last /\ DataIn(m) = len
  BY DEF Carrying, Sdo, None, Numbers, DataIn

\* The fields of a segment: what is unused is not counted.
LEMMA SegmentIs ==
  ASSUME NEW k, NEW n \in Nat, NEW from \in Nat, NEW len \in Nat, NEW last \in BOOLEAN, NEW t \in {0, 1}
  PROVE  LET m == Segment(k, n, from, len, last, t) IN
         /\ Numbers(m)
         /\ m.kind = k /\ m.call = n /\ m.from = from /\ m.last = last /\ m.toggle = t
         /\ DataIn(m) = len
         /\ m.len = (IF last /\ len < 7 THEN 7 ELSE len)
  BY DEF Segment, Carrying, None, Numbers, DataIn

\* A segment never holds less than nothing.
LEMMA DataInNat ==
  ASSUME NEW m, Numbers(m)
  PROVE  DataIn(m) \in Nat
  BY DEF Numbers, DataIn

\* Messages with the fields of None but those that name something.
LEMMA SdoIs ==
  ASSUME NEW k, NEW o
  PROVE  Sdo(k, o).kind = k /\ Sdo(k, o).index = o.index /\ Sdo(k, o).sub = o.sub
  BY DEF Sdo, None

\* ... and whose call they are from.
LEMMA NamingIs ==
  ASSUME NEW k, NEW o, NEW n \in Nat
  PROVE  LET m == [Sdo(k, o) EXCEPT !.call = n] IN
         Numbers(m) /\ m.kind = k /\ m.index = o.index /\ m.sub = o.sub /\ m.call = n
  BY DEF Sdo, None, Numbers

\* ... that have a toggle bit only,
LEMMA TogglingIs ==
  ASSUME NEW k, NEW t \in {0, 1}
  PROVE  LET m == [None EXCEPT !.kind = k, !.toggle = t] IN
         Numbers(m) /\ m.kind = k /\ m.toggle = t
  BY DEF None, Numbers

\* ... and that have nothing, or at most an object.
LEMMA PlainIs ==
  ASSUME NEW k, NEW i, NEW j
  PROVE  /\ Numbers(None) /\ None.kind = "none"
         /\ Numbers([None EXCEPT !.kind = k]) /\ [None EXCEPT !.kind = k].kind = k
         /\ LET m == [None EXCEPT !.kind = k, !.index = i] IN
            Numbers(m) /\ m.kind = k /\ m.index = i
         /\ LET m == [None EXCEPT !.kind = k, !.index = i, !.sub = j] IN
            Numbers(m) /\ m.kind = k /\ m.index = i /\ m.sub = j
  BY DEF None, Numbers

\* A send keeps the types of what it changes.
LEMMA SendTypes ==
  ASSUME TypeInv, NEW m, Numbers(m), m.kind \in Requests, Sent(m) \/ NotSent(m)
  PROVE  /\ Numbers(in)' /\ in'.kind \in {"none"} \cup Requests
         /\ losses' \in Nat /\ missed' \in BOOLEAN
  <1>1. CASE Sent(m)
    BY <1>1 DEF Sent, TypeInv, LocalsOK, Numbers
  <1>2. CASE NotSent(m)
    <2>1. losses' \in Nat
      BY <1>2 DEF NotSent, TypeInv, LocalsOK
    <2>2. CASE UNCHANGED <<in, missed>>
      BY <2>1, <2>2 DEF TypeInv, LocalsOK, Numbers
    <2>3. CASE in = None /\ in' = m /\ missed' = TRUE
      BY <2>1, <2>3 DEF Numbers
    <2> QED
      BY <1>2, <2>2, <2>3 DEF NotSent
  <1> QED
    BY <1>1, <1>2

\* What is in the mailbox is a message.
LEMMA ReceivedIs ==
  ASSUME TypeInv, NEW kinds, kinds \subseteq Responses \cup Unnamed, Receive(kinds)
  PROVE  /\ out # None /\ out' = None /\ Answer(out) /\ out.kind \in kinds
         /\ UNCHANGED <<in, slave, losses, stale, missed, lost>>
  BY DEF TypeInv, Receive, None, Responses, Unnamed

\* What stays of the types when the slave and the messages to it are left alone.
LEMMA TypesOfLocals ==
  ASSUME TypeInv, UNCHANGED <<in, slave>>, out' = None \/ out' = out
  PROVE  /\ SlaveOK' /\ Numbers(in)' /\ in'.kind \in {"none"} \cup Requests
         /\ out' = None \/ Answer(out)'
  <1>1. SlaveOK'
    BY DEF TypeInv, SlaveOK
  <1>2. Numbers(in)' /\ in'.kind \in {"none"} \cup Requests
    BY DEF TypeInv, Numbers
  <1>3. out' = None \/ Answer(out)'
    BY DEF TypeInv, Answer, Numbers
  <1> QED
    BY <1>1, <1>2, <1>3

\* ... and what does after a send.
LEMMA TypesOfSending ==
  ASSUME TypeInv, NEW m, Numbers(m), m.kind \in Requests, Sent(m) \/ NotSent(m),
         slave' = slave, out' = None \/ out' = out
  PROVE  /\ SlaveOK' /\ Numbers(in)' /\ in'.kind \in {"none"} \cup Requests
         /\ out' = None \/ Answer(out)'
         /\ losses' \in Nat /\ missed' \in BOOLEAN
  <1>1. SlaveOK'
    BY DEF TypeInv, SlaveOK
  <1>2. out' = None \/ Answer(out)'
    BY DEF TypeInv, Answer, Numbers
  <1> QED
    BY <1>1, <1>2, SendTypes

\* A receive that returns nothing.
LEMMA NothingTypes ==
  ASSUME TypeInv, ReceiveNothing
  PROVE  /\ losses' \in Nat /\ lost' \in BOOLEAN /\ missed' = TRUE
         /\ UNCHANGED <<in, slave, stale>> /\ (out' = None \/ out' = out)
  <1>1. losses' \in Nat
    BY DEF TypeInv, LocalsOK, ReceiveNothing
  <1>2. lost' \in BOOLEAN
    BY Zenon DEF TypeInv, LocalsOK, ReceiveNothing
  <1>3. missed' = TRUE /\ UNCHANGED <<in, slave, stale>>
    BY Zenon DEF ReceiveNothing
  <1>4. out' = None \/ out' = out
    BY Zenon DEF ReceiveNothing
  <1> QED
    BY <1>1, <1>2, <1>3, <1>4

\* Sequences of pieces.
LEMMA PieceSeq ==
  /\ <<>> \in Pieces
  /\ \A m : Numbers(m) => <<Piece(m, m.len)>> \in Pieces /\ <<Piece(m, DataIn(m))>> \in Pieces
  /\ \A m, p : Numbers(m) /\ p \in Pieces => Append(p, Piece(m, DataIn(m))) \in Pieces
  <1>1. ASSUME NEW m, Numbers(m)
        PROVE  /\ Piece(m, m.len) \in [call : Nat, from : Nat, len : Nat]
               /\ Piece(m, DataIn(m)) \in [call : Nat, from : Nat, len : Nat]
    BY <1>1, DataInNat DEF Piece, Numbers
  <1> QED
    BY <1>1, AppendProperties, EmptySeq DEF Pieces

\* The types follow from those of each variable that a step of a call may change.
LEMMA TypesFrom ==
  ASSUME TypeInv, call' = call, pc' # "request", hp' \in Nat, data' \in Pieces,
         toggle' \in {toggle, 1 - toggle}, NotLast' \in BOOLEAN,
         call.op = "WRITE" => hp' <= call.size,
         pc' = "response" /\ call.op # "WRITE" => hp' = 0,
         losses' \in Nat, stale' \in BOOLEAN, missed' \in BOOLEAN, lost' \in BOOLEAN,
         SlaveOK', Numbers(in)', in'.kind \in {"none"} \cup Requests, out' = None \/ Answer(out)'
  PROVE  TypeInv'
  <1>1. CallOK'
    BY DEF TypeInv, CallOK
  <1>2. toggle' \in {0, 1}
    BY DEF TypeInv, LocalsOK
  <1>3. LocalsOK'
    BY <1>2 DEF LocalsOK
  <1> QED
    BY <1>1, <1>3 DEF TypeInv

\* What is not changed keeps its type.
LEMMA SameTypes ==
  ASSUME TypeInv
  PROVE  /\ hp' = hp => hp' \in Nat /\ (call.op = "WRITE" => hp' <= call.size)
         /\ data' = data => data' \in Pieces
         /\ NotLast' = NotLast => NotLast' \in BOOLEAN
         /\ losses' = losses => losses' \in Nat
         /\ stale' = stale => stale' \in BOOLEAN
         /\ missed' = missed => missed' \in BOOLEAN
         /\ lost' = lost => lost' \in BOOLEAN
         /\ pc = "request" => hp = 0 /\ data = <<>>
  BY Zenon DEF TypeInv, LocalsOK

\* The steps of ecx_SDOread and those common to both keep the types.
LEMMA ReadTypes ==
  ASSUME TypeInv,
         \/ Begin \/ NoResponse
         \/ ReadRequest \/ ReadResponse \/ ReadDownResponse \/ ReadBadResponse
         \/ ReadSegmentRequest \/ ReadSegment \/ ReadBadSegment \/ ReadNoSegment
  PROVE  TypeInv'
  <1>1. CASE Begin
    <2>1. CallOK'
      BY <1>1, CoEAssumption DEF Begin, CallOK, TypeInv
    <2>2. LocalsOK'
      <3>1. /\ hp' = 0 /\ data' = <<>> /\ toggle' = 0 /\ NotLast' = FALSE
            /\ missed' = FALSE /\ lost' = FALSE /\ losses' = losses
        BY <1>1, Zenon DEF Begin
      <3>2. stale' \in BOOLEAN
        BY <1>1, Zenon DEF Begin
      <3> QED
        <4>1. hp' \in Nat /\ toggle' \in {0, 1} /\ losses' \in Nat
          BY <3>1 DEF TypeInv, LocalsOK
        <4>2. NotLast' \in BOOLEAN /\ missed' \in BOOLEAN /\ lost' \in BOOLEAN /\ data' \in Pieces
          BY <3>1, PieceSeq, Zenon
        <4>3. call'.op = "WRITE" => hp' <= call'.size
          BY <2>1, <3>1 DEF CallOK
        <4>4. pc' = "response" /\ call'.op # "WRITE" => hp' = 0
          BY <3>1
        <4> QED
          BY <3>1, <3>2, <4>1, <4>2, <4>3, <4>4 DEF LocalsOK
    <2>3. UNCHANGED <<in, slave>> /\ (out' = None \/ out' = out)
      BY <1>1 DEF Begin
    <2> QED
      BY <2>1, <2>2, <2>3, TypesOfLocals DEF TypeInv
  <1>2. CASE NoResponse
    <2>1. ReceiveNothing /\ UNCHANGED <<call, hp, data, toggle, NotLast>> /\ pc' = "idle"
      BY <1>2 DEF NoResponse, Return, locals
    <2> QED
      BY <2>1, NothingTypes, TypesOfLocals, SameTypes, TypesFrom
  <1>3. CASE ReadRequest
    <2> DEFINE m == [Sdo("UP_REQ", call.obj) EXCEPT !.call = call.n]
    <2>1. call.n \in Nat
      BY CoEAssumption DEF TypeInv, CallOK
    <2>2. Numbers(m) /\ m.kind \in Requests
      <3>1. Numbers(m)
        BY <2>1, NamingIs
      <3>2. m.kind = "UP_REQ"
        BY SdoIs
      <3> QED
        BY <3>1, <3>2 DEF Requests
    <2>3. /\ Sent(m) \/ NotSent(m)
          /\ UNCHANGED <<call, hp, data, toggle, NotLast, out, slave, stale, lost>>
          /\ pc' \in {"response", "idle"} /\ pc = "request" /\ call.op = "READ"
      BY <1>3 DEF ReadRequest, Return, locals
    <2> HIDE DEF m
    <2>4. /\ SlaveOK' /\ Numbers(in)' /\ in'.kind \in {"none"} \cup Requests
          /\ out' = None \/ Answer(out)'
          /\ losses' \in Nat /\ missed' \in BOOLEAN
      BY <2>2, <2>3, TypesOfSending
    <2> QED
      BY <2>3, <2>4, SameTypes, TypesFrom
  <1>4. CASE ReadResponse
    <2>1. /\ out' = None /\ Answer(out) /\ UNCHANGED <<in, slave, losses, stale, missed, lost>>
      BY <1>4, ReceivedIs DEF ReadResponse, Responses
    <2>2. call' = call /\ toggle' = toggle /\ call.op = "READ" /\ pc' \in {"segment", "idle"}
      BY <1>4 DEF ReadResponse, Return
    <2>3. /\ data' \in Pieces /\ hp' \in Nat /\ NotLast' \in BOOLEAN
      <3>1. CASE Fits(out.size)
        BY <1>4, <3>1, <2>1, PieceSeq DEF ReadResponse, Answer, Numbers
      <3>2. CASE ~Fits(out.size)
        BY <1>4, <3>2 DEF ReadResponse, TypeInv, LocalsOK
      <3> QED
        BY <3>1, <3>2
    <2> QED
      BY <2>1, <2>2, <2>3, TypesOfLocals, SameTypes, TypesFrom
  <1>5. CASE ReadDownResponse \/ ReadBadResponse
    <2>1. /\ out' = None /\ UNCHANGED <<in, slave, losses, stale, missed, lost>>
      BY <1>5, ReceivedIs DEF ReadDownResponse, ReadBadResponse, Responses
    <2>2. UNCHANGED <<call, hp, data, toggle, NotLast>> /\ pc' = "idle"
      BY <1>5 DEF ReadDownResponse, ReadBadResponse, Return, locals
    <2> QED
      BY <2>1, <2>2, TypesOfLocals, SameTypes, TypesFrom
  <1>6. CASE ReadSegmentRequest
    <2> DEFINE m == [None EXCEPT !.kind = "SEG_UP_REQ", !.toggle = toggle]
    <2>1. toggle \in {0, 1}
      BY DEF TypeInv, LocalsOK
    <2>2. Numbers(m) /\ m.kind \in Requests
      <3>1. Numbers(m) /\ m.kind = "SEG_UP_REQ"
        BY <2>1, TogglingIs, Zenon
      <3> QED
        BY <3>1 DEF Requests
    <2>3. /\ Sent(m) \/ NotSent(m)
          /\ UNCHANGED <<call, hp, data, NotLast, out, slave, stale, lost>>
          /\ toggle' \in {toggle, 1 - toggle}
          /\ pc' \in {"segresponse", "segment"} /\ call.op = "READ"
      BY <1>6 DEF ReadSegmentRequest
    <2> HIDE DEF m
    <2>4. /\ SlaveOK' /\ Numbers(in)' /\ in'.kind \in {"none"} \cup Requests
          /\ out' = None \/ Answer(out)'
          /\ losses' \in Nat /\ missed' \in BOOLEAN
      BY <2>2, <2>3, TypesOfSending
    <2> QED
      BY <2>3, <2>4, SameTypes, TypesFrom
  <1>7. CASE ReadSegment
    <2>1. /\ out' = None /\ Answer(out) /\ UNCHANGED <<in, slave, losses, stale, missed, lost>>
      BY <1>7, ReceivedIs DEF ReadSegment, Unnamed
    <2>2. call' = call /\ toggle' = 1 - toggle /\ call.op = "READ" /\ pc' \in {"segment", "idle"}
      BY <1>7 DEF ReadSegment, Return
    <2>3. data' \in Pieces /\ hp' \in Nat /\ NotLast' \in BOOLEAN
      <3>1. Numbers(out) /\ DataIn(out) \in Nat
        BY <2>1, DataInNat DEF Answer
      <3>2. data' = Append(data, Piece(out, DataIn(out))) /\ hp' = hp + DataIn(out) /\ NotLast' = ~out.last
        BY <1>7 DEF ReadSegment
      <3> QED
        BY <3>1, <3>2, PieceSeq DEF TypeInv, LocalsOK
    <2> QED
      BY <2>1, <2>2, <2>3, TypesOfLocals, SameTypes, TypesFrom
  <1>8. CASE ReadBadSegment
    <2>1. /\ out' = None /\ UNCHANGED <<in, slave, losses, stale, missed, lost>>
      BY <1>8, ReceivedIs DEF ReadBadSegment
    <2>2. UNCHANGED <<call, hp, data>> /\ NotLast' = FALSE /\ toggle' = 1 - toggle /\ pc' = "idle"
      BY <1>8 DEF ReadBadSegment, Return
    <2> QED
      BY <2>1, <2>2, TypesOfLocals, SameTypes, TypesFrom
  <1>9. CASE ReadNoSegment
    <2>1. ReceiveNothing /\ UNCHANGED <<call, hp, data, NotLast>> /\ toggle' = 1 - toggle /\ pc' = "segment"
      BY <1>9 DEF ReadNoSegment
    <2> QED
      BY <2>1, NothingTypes, TypesOfLocals, SameTypes, TypesFrom
  <1> QED
    BY <1>1, <1>2, <1>3, <1>4, <1>5, <1>6, <1>7, <1>8, <1>9

\* Bytes for the next frame are no more than are left.
LEMMA FrameDataIs ==
  ASSUME TypeInv, call.op \in {"WRITE", "RXPDO"}, hp <= call.size, NEW room \in Nat
  PROVE  /\ Left \in Nat /\ Left % Width \in Nat /\ FrameData(room) \in Nat
         /\ FrameData(room) <= room /\ FrameData(room) <= Left
         /\ hp + FrameData(room) <= call.size
         /\ call.size < Width =>
              /\ Left % Width = Left
              /\ FrameData(room) = IF Left > room THEN room ELSE Left
  <1>1. Left \in Nat
    BY DEF Left, TypeInv, LocalsOK, CallOK
  <1>2. /\ Left % Width \in Nat /\ Left % Width <= Left
        /\ Left < Width => Left % Width = Left
    BY <1>1, Modulo
  <1>3. Left = call.size - hp /\ call.size \in Nat /\ hp \in Nat /\ Width \in Nat
    BY CoEAssumption DEF Left, TypeInv, LocalsOK, CallOK
  <1> HIDE DEF Left
  <1> QED
    BY <1>1, <1>2, <1>3 DEF FrameData, Least

\* The steps of ecx_SDOwrite keep the types.
LEMMA WriteTypes ==
  ASSUME TypeInv,
         \/ WriteRequest \/ WriteResponse \/ WriteBadResponse
         \/ WriteSegment \/ WriteSegmentResponse \/ WriteBadSegmentResponse \/ WriteNoSegmentResponse
  PROVE  TypeInv'
  <1>0. maxdata \in Nat /\ call.n \in Nat
    BY CoEAssumption DEF TypeInv, CallOK
  <1>1. CASE WriteRequest
    <2> DEFINE exp == call.size <= 4
               len == IF exp THEN call.size ELSE FrameData(maxdata)
               kind == IF exp THEN "DOWN_EXP_REQ" ELSE "DOWN_REQ"
               m == Carrying(Sdo(kind, call.obj), call.n, 0, len, call.size)
    <2>1. pc = "request" /\ call.op = "WRITE" /\ hp = 0 /\ call.size \in Nat
      BY <1>1 DEF WriteRequest, TypeInv, LocalsOK, CallOK
    <2>2. len \in Nat /\ len <= call.size
      BY <1>0, <2>1, FrameDataIs
    <2>3. Numbers(m) /\ m.kind \in Requests
      <3>1. kind \in Requests
        BY DEF Requests
      <3> HIDE DEF kind, len
      <3>2. call.n \in Nat /\ 0 \in Nat /\ len \in Nat /\ call.size \in Nat
        BY <1>0, <2>1, <2>2
      <3>3. Numbers(m) /\ m.kind = kind
        BY <1>0, <3>2 DEF Carrying, Sdo, None, Numbers
      <3> QED
        BY <3>1, <3>3
    <2>4. /\ hp' = len /\ NotLast' \in BOOLEAN /\ (Sent(m) \/ NotSent(m))
      BY <1>1 DEF WriteRequest
    <2>5. UNCHANGED <<call, data, toggle, out, slave, stale, lost>> /\ pc' \in {"response", "idle"}
      BY <1>1 DEF WriteRequest, Return
    <2> HIDE DEF m, len
    <2>6. /\ SlaveOK' /\ Numbers(in)' /\ in'.kind \in {"none"} \cup Requests
          /\ out' = None \/ Answer(out)'
          /\ losses' \in Nat /\ missed' \in BOOLEAN
      BY <2>3, <2>4, <2>5, TypesOfSending
    <2> QED
      BY <2>1, <2>2, <2>4, <2>5, <2>6, SameTypes, TypesFrom
  <1>2. CASE WriteResponse \/ WriteBadResponse
    <2>1. /\ out' = None /\ UNCHANGED <<in, slave, losses, stale, missed, lost>>
      BY <1>2, ReceivedIs DEF WriteResponse, WriteBadResponse
    <2>2. UNCHANGED <<call, hp, data, toggle, NotLast>> /\ pc' \in {"idle", "segment"}
      BY <1>2 DEF WriteResponse, WriteBadResponse, Return, locals
    <2> QED
      BY <2>1, <2>2, TypesOfLocals, SameTypes, TypesFrom
  <1>3. CASE WriteSegment
    <2> DEFINE len == FrameData(maxdata + 7)
               last == ~NotLast'
               m == Segment("SEG_DOWN_REQ", call.n, hp, len, last, toggle)
    <2>1. call.op = "WRITE" /\ hp <= call.size /\ hp \in Nat /\ toggle \in {0, 1}
      BY <1>3 DEF WriteSegment, TypeInv, LocalsOK
    <2>2. len \in Nat /\ hp + len <= call.size
      BY <1>0, <2>1, FrameDataIs
    <2>3. /\ hp' = hp + len /\ NotLast' \in BOOLEAN /\ (Sent(m) \/ NotSent(m))
      BY <1>3 DEF WriteSegment
    <2>4. Numbers(m) /\ m.kind \in Requests
      <3>0. last \in BOOLEAN
        OBVIOUS
      <3> HIDE DEF last, len
      <3>1. Numbers(m)
        BY <1>0, <2>1, <2>2, <3>0, SegmentIs
      <3>2. m.kind = "SEG_DOWN_REQ"
        BY <1>0, <2>1, <2>2, <3>0, SegmentIs
      <3> QED
        BY <3>1, <3>2 DEF Requests
    <2>5. UNCHANGED <<call, data, out, slave, stale, lost>> /\ pc' \in {"segresponse", "segment", "idle"}
      BY <1>3 DEF WriteSegment, NextSegment, Return
    <2>6. toggle' \in {toggle, 1 - toggle}
      BY <1>3 DEF WriteSegment, NextSegment
    <2> HIDE DEF m, len
    <2>7. /\ SlaveOK' /\ Numbers(in)' /\ in'.kind \in {"none"} \cup Requests
          /\ out' = None \/ Answer(out)'
          /\ losses' \in Nat /\ missed' \in BOOLEAN
      BY <2>3, <2>4, <2>5, TypesOfSending
    <2> QED
      BY <2>1, <2>2, <2>3, <2>5, <2>6, <2>7, SameTypes, TypesFrom
  <1>4. CASE WriteSegmentResponse \/ WriteBadSegmentResponse
    <2>1. /\ out' = None /\ UNCHANGED <<in, slave, losses, stale, missed, lost>>
      BY <1>4, ReceivedIs DEF WriteSegmentResponse, WriteBadSegmentResponse, Unnamed
    <2>2. /\ UNCHANGED <<call, hp, data>> /\ toggle' = 1 - toggle /\ NotLast' \in {NotLast, FALSE}
          /\ pc' \in {"idle", "segment"}
      BY <1>4 DEF WriteSegmentResponse, WriteBadSegmentResponse, NextSegment, Return
    <2> QED
      BY <2>1, <2>2, TypesOfLocals, SameTypes, TypesFrom
  <1>5. CASE WriteNoSegmentResponse
    <2>1. /\ ReceiveNothing /\ UNCHANGED <<call, hp, data, NotLast>> /\ toggle' = 1 - toggle
          /\ pc' \in {"idle", "segment"}
      BY <1>5 DEF WriteNoSegmentResponse, NextSegment, Return
    <2> QED
      BY <2>1, NothingTypes, TypesOfLocals, SameTypes, TypesFrom
  <1> QED
    BY <1>1, <1>2, <1>3, <1>4, <1>5

\* The steps of ecx_RxPDO and ecx_TxPDO keep the types.
LEMMA PdoTypes ==
  ASSUME TypeInv, RxPDO \/ TxPDORequest \/ TxPDOResponse \/ TxPDOBadResponse
  PROVE  TypeInv'
  <1>0. maxdata + 8 \in Nat /\ call.n \in Nat /\ hp \in Nat /\ 0 \in Nat
    BY CoEAssumption DEF TypeInv, CallOK, LocalsOK
  <1>1. CASE RxPDO
    <2> DEFINE len == FrameData(maxdata + 8)
               m == Carrying(Sdo("RXPDO", call.obj), call.n, 0, len, len)
    <2>1. pc = "request" /\ call.op = "RXPDO" /\ hp = 0 /\ call.size \in Nat
      BY <1>1 DEF RxPDO, TypeInv, LocalsOK, CallOK
    <2>2. len \in Nat
      BY <1>0, <2>1, FrameDataIs
    <2>3. Numbers(m) /\ m.kind \in Requests
      <3> HIDE DEF len
      <3>1. Numbers(m)
        BY <1>0, <2>2, CarryingIs
      <3>2. m.kind = "RXPDO"
        BY DEF Carrying, Sdo, None
      <3> QED
        BY <3>1, <3>2 DEF Requests
    <2>4. /\ Sent(m) \/ NotSent(m)
          /\ UNCHANGED <<call, hp, data, toggle, NotLast, out, slave, stale, lost>>
          /\ pc' = "idle"
      BY <1>1 DEF RxPDO, Return, locals
    <2> HIDE DEF m, len
    <2>5. /\ SlaveOK' /\ Numbers(in)' /\ in'.kind \in {"none"} \cup Requests
          /\ out' = None \/ Answer(out)'
          /\ losses' \in Nat /\ missed' \in BOOLEAN
      BY <2>3, <2>4, TypesOfSending
    <2> QED
      BY <2>4, <2>5, SameTypes, TypesFrom
  <1>2. CASE TxPDORequest
    <2> DEFINE m == [Sdo("TXPDO_RR", call.obj) EXCEPT !.call = call.n]
    <2>2. Numbers(m) /\ m.kind \in Requests
      <3>1. Numbers(m)
        BY <1>0, NamingIs
      <3>2. m.kind = "TXPDO_RR"
        BY SdoIs
      <3> QED
        BY <3>1, <3>2 DEF Requests
    <2>3. /\ Sent(m) \/ NotSent(m)
          /\ UNCHANGED <<call, hp, data, toggle, NotLast, out, slave, stale, lost>>
          /\ pc' \in {"response", "idle"} /\ pc = "request" /\ call.op = "TXPDO"
      BY <1>2 DEF TxPDORequest, Return, locals
    <2> HIDE DEF m
    <2>4. /\ SlaveOK' /\ Numbers(in)' /\ in'.kind \in {"none"} \cup Requests
          /\ out' = None \/ Answer(out)'
          /\ losses' \in Nat /\ missed' \in BOOLEAN
      BY <2>2, <2>3, TypesOfSending
    <2> QED
      BY <2>3, <2>4, SameTypes, TypesFrom
  <1>3. CASE TxPDOResponse
    <2>1. /\ out' = None /\ Answer(out) /\ UNCHANGED <<in, slave, losses, stale, missed, lost>>
      BY <1>3, ReceivedIs DEF TxPDOResponse, Unnamed
    <2>2. UNCHANGED <<call, toggle, NotLast>> /\ call.op = "TXPDO" /\ pc' = "idle"
      BY <1>3 DEF TxPDOResponse, Return
    <2>3. data' \in Pieces /\ hp' \in Nat
      <3>1. CASE Fits(out.len)
        BY <1>3, <3>1, <2>1, PieceSeq DEF TxPDOResponse, Answer, Numbers
      <3>2. CASE ~Fits(out.len)
        BY <1>3, <3>2 DEF TxPDOResponse, TypeInv, LocalsOK
      <3> QED
        BY <3>1, <3>2
    <2> QED
      BY <2>1, <2>2, <2>3, TypesOfLocals, SameTypes, TypesFrom
  <1>4. CASE TxPDOBadResponse
    <2>1. /\ out' = None /\ UNCHANGED <<in, slave, losses, stale, missed, lost>>
      BY <1>4, ReceivedIs DEF TxPDOBadResponse
    <2>2. UNCHANGED <<call, hp, data, toggle, NotLast>> /\ pc' = "idle"
      BY <1>4 DEF TxPDOBadResponse, Return, locals
    <2> QED
      BY <2>1, <2>2, TypesOfLocals, SameTypes, TypesFrom
  <1> QED
    BY <1>1, <1>2, <1>3, <1>4

\* A function of the dictionary asks for something.
LEMMA AskTypes ==
  ASSUME TypeInv, NEW m, Numbers(m), m.kind \in Requests, NEW from, NEW to,
         Request(m, from, to) \/ RequestFails(m, from),
         UNCHANGED <<call, hp, data, toggle, NotLast, slave, lost>>, pc' \notin {"request", "response"}
  PROVE  TypeInv'
  <1>1. /\ Sent(m) \/ NotSent(m)
        /\ out' = None \/ out' = out
    BY Zenon DEF Request, RequestFails
  <1>2. stale' \in BOOLEAN
    BY SameTypes, Zenon DEF Request, RequestFails
  <1>3. /\ SlaveOK' /\ Numbers(in)' /\ in'.kind \in {"none"} \cup Requests
        /\ out' = None \/ Answer(out)'
        /\ losses' \in Nat /\ missed' \in BOOLEAN
    BY <1>1, TypesOfSending
  <1> QED
    BY <1>2, <1>3, SameTypes, TypesFrom

\* A function of the dictionary gets an answer or none.
LEMMA AnswerTypes ==
  ASSUME TypeInv, NEW kinds, kinds \subseteq Responses \cup Unnamed, Receive(kinds) \/ ReceiveNothing,
         UNCHANGED <<call, hp, data, toggle, NotLast>>, pc' \notin {"request", "response"}
  PROVE  TypeInv'
  <1>1. CASE Receive(kinds)
    <2>1. /\ out' = None /\ UNCHANGED <<in, slave, losses, stale, missed, lost>>
      BY <1>1, ReceivedIs
    <2> QED
      BY <2>1, TypesOfLocals, SameTypes, TypesFrom
  <1>2. CASE ReceiveNothing
    BY <1>2, NothingTypes, TypesOfLocals, SameTypes, TypesFrom
  <1> QED
    BY <1>1, <1>2

\* The steps of si_sdo keep the types.
LEMMA DictionaryTypes ==
  ASSUME TypeInv, SI_SDO
  PROVE  TypeInv'
  <1>1. CASE BeginList
    <2>1. CallOK'
      <3>1. /\ call' = [call EXCEPT !.n = @ + 1, !.op = "LIST", !.size = 0]
            /\ call = [n |-> call.n, op |-> call.op, obj |-> call.obj, size |-> call.size]
            /\ call.n \in 0 .. MaxCalls /\ call.n < MaxCalls /\ MaxCalls \in Nat
        BY <1>1, CoEAssumption DEF BeginList, TypeInv, CallOK
      <3>2. call' = [n |-> call.n + 1, op |-> "LIST", obj |-> call.obj, size |-> 0]
        BY <3>1
      <3>3. /\ call'.n = call.n + 1 /\ call'.op = "LIST" /\ call'.obj = call.obj /\ call'.size = 0
            /\ call' = [n |-> call'.n, op |-> call'.op, obj |-> call'.obj, size |-> call'.size]
        BY <3>2
      <3>4. call'.n \in 0 .. MaxCalls /\ call'.size \in Nat
        BY <3>1, <3>3
      <3> QED
        BY <3>3, <3>4 DEF CallOK
    <2>2. LocalsOK'
      <3>1. /\ hp' = 0 /\ data' = <<>> /\ toggle' = 0 /\ NotLast' = FALSE /\ pc' = "list"
            /\ stale' = FALSE /\ missed' = FALSE /\ lost' = FALSE /\ losses' = losses
        BY <1>1, Zenon DEF BeginList
      <3>2. hp' \in Nat /\ toggle' \in {0, 1} /\ losses' \in Nat
        BY <3>1 DEF TypeInv, LocalsOK
      <3>3. /\ NotLast' \in BOOLEAN /\ stale' \in BOOLEAN /\ missed' \in BOOLEAN /\ lost' \in BOOLEAN
            /\ data' \in Pieces
        BY <3>1, PieceSeq, Zenon
      <3>4. call'.op = "LIST"
        BY <1>1 DEF BeginList, TypeInv, CallOK
      <3> QED
        BY <3>1, <3>2, <3>3, <3>4 DEF LocalsOK
    <2>3. UNCHANGED <<in, slave, out>>
      BY <1>1 DEF BeginList
    <2> QED
      BY <2>1, <2>2, <2>3, TypesOfLocals DEF TypeInv
  <1>2. CASE AskList \/ AskDescription \/ AskEntry
    <2>1. Numbers(ListRequest) /\ Numbers(DescRequest) /\ Numbers(EntryRequest)
      <3>1. Numbers(ListRequest)
        BY PlainIs DEF ListRequest
      <3>2. Numbers(DescRequest)
        BY PlainIs DEF DescRequest
      <3>3. Numbers(EntryRequest)
        BY PlainIs DEF EntryRequest
      <3> QED
        BY <3>1, <3>2, <3>3
    <2>2. /\ ListRequest.kind \in Requests /\ DescRequest.kind \in Requests /\ EntryRequest.kind \in Requests
      BY DEF ListRequest, DescRequest, EntryRequest, None, Requests
    <2>3. UNCHANGED <<call, hp, data, toggle, NotLast, slave, lost>>
      BY <1>2 DEF AskList, AskDescription, AskEntry, locals
    <2>4. \/ Request(ListRequest, "list", "listres") \/ RequestFails(ListRequest, "list")
          \/ Request(DescRequest, "desc", "descres") \/ RequestFails(DescRequest, "desc")
          \/ Request(EntryRequest, "entry", "entryres") \/ RequestFails(EntryRequest, "entry")
      BY <1>2 DEF AskList, AskDescription, AskEntry
    <2>5. pc' \notin {"request", "response"}
      BY <1>2 DEF AskList, AskDescription, AskEntry, Request, Return, ToEntries, NextSub
    <2> QED
      BY <2>1, <2>2, <2>3, <2>4, <2>5, AskTypes
  <1>3. CASE ListFrame \/ ListFails \/ Description \/ NoDescription \/ Entry \/ NoEntry
    <2>1. UNCHANGED <<call, hp, data, toggle, NotLast>>
      BY <1>3 DEF ListFrame, ListFails, Description, NoDescription, Entry, NoEntry, locals
    <2>2. pc' \notin {"request", "response"}
      BY <1>3 DEF ListFrame, ListFails, Description, NoDescription, Entry, NoEntry,
                  Return, ToEntries, NextSub, ToFirst
    <2>3. \E kinds \in SUBSET (Responses \cup Unnamed) : Receive(kinds) \/ ReceiveNothing
      <3>1. ListFrame => Receive({"LIST"})
        BY DEF ListFrame
      <3>2. Description => Receive({"DESC"})
        BY DEF Description
      <3>3. Entry => Receive({"ENTRY"})
        BY DEF Entry
      <3>4. ListFails => Receive((Responses \cup Unnamed) \ {"LIST"}) \/ ReceiveNothing
        BY DEF ListFails
      <3>5. NoDescription => Receive((Responses \cup Unnamed) \ {"DESC"}) \/ ReceiveNothing
        BY DEF NoDescription
      <3>6. NoEntry => Receive((Responses \cup Unnamed) \ {"ENTRY"}) \/ ReceiveNothing
        BY DEF NoEntry
      <3>7. \A k : (Responses \cup Unnamed) \ {k} \in SUBSET (Responses \cup Unnamed)
        OBVIOUS
      <3>8. {"LIST"} \in SUBSET (Responses \cup Unnamed) /\ {"DESC"} \in SUBSET (Responses \cup Unnamed)
            /\ {"ENTRY"} \in SUBSET (Responses \cup Unnamed)
        BY DEF Unnamed
      <3> QED
        BY <1>3, <3>1, <3>2, <3>3, <3>4, <3>5, <3>6, <3>7, <3>8, Zenon
    <2> QED
      BY <2>1, <2>2, <2>3, AnswerTypes
  <1>4. CASE NextItem
    <2>1. UNCHANGED <<call, hp, data, toggle, NotLast, in, out, slave, losses, stale, missed, lost>>
      BY <1>4 DEF NextItem, locals
    <2>2. pc' \notin {"request", "response"}
      BY <1>4 DEF NextItem, Return
    <2> QED
      BY <2>1, <2>2, TypesOfLocals, SameTypes, TypesFrom
  <1> QED
    BY <1>1, <1>2, <1>3, <1>4 DEF SI_SDO

\* The slave takes a request, is then in state s but for its queue, and answers with m.
LEMMA TakeIs ==
  ASSUME TypeInv, NEW s, SlaveState(s), NEW m, Answer(m), Take(s, m)
  PROVE  /\ TypeInv'
         /\ in' = None /\ UNCHANGED <<pc, call, hp, data, toggle, NotLast, wkc, out, losses, stale, missed, lost>>
         /\ slave'.queue = Append(slave.queue, m)
         /\ slave'.op = s.op /\ slave'.call = s.call /\ slave'.size = s.size /\ slave'.pieces = s.pieces
         /\ slave'.at = s.at /\ slave'.done = s.done
  <1>1. /\ in' = None /\ UNCHANGED <<pc, call, hp, data, toggle, NotLast, wkc, out, losses, stale, missed, lost>>
        /\ slave' = [s EXCEPT !.queue = Append(slave.queue, m)]
    BY DEF Take, locals
  <1>2. slave' = [op |-> s.op, call |-> s.call, obj |-> s.obj, size |-> s.size, pieces |-> s.pieces,
                  at |-> s.at, toggle |-> s.toggle, done |-> s.done, queue |-> Append(slave.queue, m)]
    BY <1>1 DEF SlaveState
  <1>3. SlaveState(slave') /\ slave'.queue = Append(slave.queue, m)
    BY <1>2 DEF SlaveState
  <1>4. /\ IsSeq(slave'.queue)
        /\ \A k \in 1 .. Len(slave'.queue) : Answer(slave'.queue[k])
    <2>1. IsSeq(slave.queue) /\ \A k \in 1 .. Len(slave.queue) : Answer(slave.queue[k])
      BY DEF TypeInv, SlaveOK
    <2>2. /\ IsSeq(Append(slave.queue, m)) /\ Len(slave.queue) \in Nat
          /\ Len(Append(slave.queue, m)) = Len(slave.queue) + 1
          /\ \A k \in 1 .. Len(slave.queue) : Append(slave.queue, m)[k] = slave.queue[k]
          /\ Append(slave.queue, m)[Len(slave.queue) + 1] = m
      BY <2>1, AppendMore
    <2> QED
      BY <1>3, <2>1, <2>2
  <1>5. SlaveOK'
    BY <1>3, <1>4 DEF SlaveOK
  <1>6. CallOK' /\ LocalsOK'
    BY <1>1 DEF TypeInv, CallOK, LocalsOK
  <1>7. Numbers(in)' /\ in'.kind = "none"
    <2>1. Numbers(None) /\ None.kind = "none"
      BY PlainIs
    <2> QED
      BY <1>1, <2>1
  <1>8. out' = None \/ Answer(out)'
    BY <1>1 DEF TypeInv, Answer, Numbers
  <1>9. TypeInv'
    BY <1>5, <1>6, <1>7, <1>8 DEF TypeInv
  <1> QED
    BY <1>1, <1>2, <1>9

\* The fields of the state of a slave that begins a transfer.
LEMMA BegunIs ==
  ASSUME TypeInv, NEW o, NEW size \in Nat, NEW at \in Nat, NEW pieces \in Pieces, NEW done,
         o = "up" => at < size
  PROVE  LET s == Begun(o, size, at, pieces, done) IN
         /\ SlaveState(s)
         /\ s.op = o /\ s.call = in.call /\ s.size = size /\ s.at = at /\ s.pieces = pieces /\ s.done = done
  <1> DEFINE s == Begun(o, size, at, pieces, done)
  <1>1. SlaveState(slave) /\ in.call \in Nat
    BY DEF TypeInv, SlaveOK, Numbers
  <1> DEFINE r == [op |-> slave.op, call |-> slave.call, obj |-> slave.obj, size |-> slave.size,
                   pieces |-> slave.pieces, at |-> slave.at, toggle |-> slave.toggle,
                   done |-> slave.done, queue |-> slave.queue]
  <1>0. s = [r EXCEPT !.op = o, !.call = in.call, !.size = size, !.at = at,
                      !.obj = [index |-> in.index, sub |-> in.sub],
                      !.pieces = pieces, !.toggle = 0, !.done = done]
    <2>1. slave = r
      BY <1>1 DEF SlaveState
    <2> HIDE DEF r
    <2> QED
      BY <2>1, Zenon DEF Begun
  <1>2. s = [op |-> o, call |-> in.call, obj |-> [index |-> in.index, sub |-> in.sub], size |-> size,
             pieces |-> pieces, at |-> at, toggle |-> 0, done |-> done, queue |-> slave.queue]
    BY <1>0
  <1> HIDE DEF s
  <1>3. SlaveState(s)
    BY <1>1, <1>2 DEF SlaveState
  <1>4. s.op = o /\ s.call = in.call /\ s.size = size /\ s.at = at /\ s.pieces = pieces /\ s.done = done
    BY <1>2
  <1> QED
    BY <1>3, <1>4 DEF s

\* The slave has taken the message in its mailbox and has answered it with m.
Answered(m) ==
    /\ TypeInv' /\ Answer(m)
    /\ in' = None /\ UNCHANGED <<pc, call, hp, data, toggle, NotLast, wkc, out, losses, stale, missed, lost>>
    /\ Len(Pipe) \in Nat /\ Len(Pipe') = Len(Pipe) + 1 /\ Pipe' # <<>>
    /\ \A k \in 1 .. Len(Pipe) : Pipe'[k] = Pipe[k]
    /\ Pipe'[Len(Pipe) + 1] = m

\* The state of the slave after it has answered is s, but for the queue.
Becomes(s) ==
    /\ slave'.op = s.op /\ slave'.call = s.call /\ slave'.size = s.size /\ slave'.pieces = s.pieces
    /\ slave'.at = s.at /\ slave'.done = s.done

\* Taking a request is answering it.
LEMMA TakeAnswers ==
  ASSUME TypeInv, NEW s, SlaveState(s), NEW m, Answer(m), Take(s, m)
  PROVE  Answered(m) /\ Becomes(s)
  <1>1. /\ TypeInv'
        /\ in' = None /\ UNCHANGED <<pc, call, hp, data, toggle, NotLast, wkc, out, losses, stale, missed, lost>>
        /\ slave'.queue = Append(slave.queue, m)
    BY TakeIs
  <1>2. Becomes(s)
    BY TakeIs DEF Becomes
  <1>3. /\ Len(Pipe) \in Nat /\ Len(Pipe') = Len(Pipe) + 1 /\ Pipe' # <<>>
        /\ \A k \in 1 .. Len(Pipe) : Pipe'[k] = Pipe[k]
        /\ Pipe'[Len(Pipe) + 1] = m
    BY <1>1, PipeAppend
  <1> QED
    BY <1>1, <1>2, <1>3 DEF Answered

\* What the slave does with an upload request.
LEMMA UploadIs ==
  ASSUME TypeInv, SlaveUpload
  PROVE  /\ in.kind = "UP_REQ"
         /\ \E o \in Objects : \E m :
              /\ o.index = in.index /\ o.sub = in.sub
              /\ Answered(m)
              /\ m.kind \in {"UP_EXP", "UP"} /\ m.index = o.index /\ m.call = in.call /\ m.from = 0
              /\ m.size = o.size
              /\ m.kind = "UP_EXP" => m.len = m.size
              /\ m.kind = "UP" =>
                    /\ m.len <= m.size
                    /\ m.len < m.size => /\ slave'.op = "up" /\ slave'.call = in.call
                                         /\ slave'.size = m.size /\ slave'.at = m.len
  <1>1. PICK o \in Objects :
          /\ o.index = in.index /\ o.sub = in.sub
          /\ LET len == Least(o.size, maxdata) IN
              IF o.size <= 4
                THEN Take(Begun("none", o.size, o.size, <<>>, TRUE),
                          Carrying(Sdo("UP_EXP", o), in.call, 0, o.size, o.size))
                ELSE Take(Begun(IF len < o.size THEN "up" ELSE "none", o.size, len, <<>>, len = o.size),
                          Carrying(Sdo("UP", o), in.call, 0, len, o.size))
    BY DEF SlaveUpload
  <1>2. in.kind = "UP_REQ" /\ in.call \in Nat /\ o.size \in Nat /\ maxdata \in Nat /\ 0 \in Nat
    BY CoEAssumption DEF SlaveUpload, TypeInv, Numbers
  <1>3. <<>> \in Pieces
    BY PieceSeq
  <1>4. CASE o.size <= 4
    <2> DEFINE s == Begun("none", o.size, o.size, <<>>, TRUE)
               m == Carrying(Sdo("UP_EXP", o), in.call, 0, o.size, o.size)
    <2>1. Take(s, m)
      BY <1>1, <1>4
    <2>2. SlaveState(s)
      BY <1>2, <1>3, BegunIs
    <2>3. Numbers(m)
      BY <1>2, CarryingIs
    <2>4. /\ m.kind = "UP_EXP" /\ m.index = o.index /\ m.call = in.call /\ m.from = 0
          /\ m.size = o.size /\ m.len = o.size
      BY DEF Carrying, Sdo, None
    <2> HIDE DEF m, s
    <2>5. Answer(m)
      BY <2>3, <2>4 DEF Answer, Responses
    <2>6. Answered(m)
      BY <2>1, <2>2, <2>5, TakeAnswers
    <2> QED
      BY <1>1, <1>2, <2>4, <2>6
  <1>5. CASE ~(o.size <= 4)
    <2> DEFINE len == Least(o.size, maxdata)
               op == IF len < o.size THEN "up" ELSE "none"
               done == len = o.size
               s == Begun(op, o.size, len, <<>>, done)
               m == Carrying(Sdo("UP", o), in.call, 0, len, o.size)
    <2>1. Take(s, m)
      BY <1>1, <1>5
    <2>2. len \in Nat /\ len <= o.size /\ (op = "up" <=> len < o.size)
      BY <1>2 DEF Least
    <2> HIDE DEF len, op, done
    <2>3. SlaveState(s)
      BY <1>2, <1>3, <2>2, BegunIs
    <2>4. s.op = op /\ s.call = in.call /\ s.size = o.size /\ s.at = len
      BY <1>2, <1>3, <2>2, BegunIs
    <2>5. Numbers(m)
      BY <1>2, <2>2, CarryingIs
    <2>6. /\ m.kind = "UP" /\ m.index = o.index /\ m.call = in.call /\ m.from = 0
          /\ m.size = o.size /\ m.len = len
      BY DEF Carrying, Sdo, None
    <2> HIDE DEF m, s
    <2>7. Answer(m)
      BY <2>5, <2>6 DEF Answer, Responses
    <2>8. Answered(m) /\ Becomes(s)
      BY <2>1, <2>3, <2>7, TakeAnswers
    <2>9. m.len < m.size => slave'.op = "up" /\ slave'.call = in.call /\ slave'.size = m.size /\ slave'.at = m.len
      BY <2>2, <2>4, <2>6, <2>8 DEF Becomes
    <2> QED
      BY <1>1, <1>2, <2>2, <2>6, <2>8, <2>9
  <1> QED
    BY <1>4, <1>5

\* What the slave does with the request for a segment.
LEMMA UploadSegmentIs ==
  ASSUME TypeInv, SlaveUploadSegment
  PROVE  /\ in.kind = "SEG_UP_REQ" /\ slave.op = "up"
         /\ \E m : /\ Answered(m)
                   /\ m.kind = "SEG_UP" /\ m.call = slave.call /\ m.from = slave.at
                   /\ m.from + DataIn(m) <= slave.size
                   /\ m.last => m.from + DataIn(m) = slave.size
                   /\ slave'.at = m.from + DataIn(m)
                   /\ slave'.op = "up" => ~m.last
                   /\ slave'.call = slave.call /\ slave'.size = slave.size
  <1> DEFINE len == Least(slave.size - slave.at, maxdata + 7)
             last == slave.at + len = slave.size
             op == IF last THEN "none" ELSE "up"
             s == [slave EXCEPT !.at = @ + len, !.toggle = 1 - @, !.op = op]
             m == Segment("SEG_UP", slave.call, slave.at, len, last, in.toggle)
  <1>1. in.kind = "SEG_UP_REQ" /\ slave.op = "up" /\ Take(s, m)
    BY DEF SlaveUploadSegment
  <1>2. /\ slave.call \in Nat /\ slave.at \in Nat /\ slave.size \in Nat /\ slave.at < slave.size
        /\ in.toggle \in {0, 1} /\ slave.toggle \in {0, 1}
        /\ slave.pieces \in Pieces
        /\ SlaveState(slave)
    BY <1>1 DEF TypeInv, SlaveOK, SlaveState, Numbers
  <1>3. len \in Nat /\ slave.at + len <= slave.size /\ last \in BOOLEAN
    BY <1>2, CoEAssumption DEF Least
  <1>0. op = "up" => slave.at + len < slave.size /\ ~last
    BY <1>2, <1>3
  <1> HIDE DEF len
  <1>4. s = [op |-> op, call |-> slave.call, obj |-> slave.obj, size |-> slave.size,
             pieces |-> slave.pieces, at |-> slave.at + len, toggle |-> 1 - slave.toggle,
             done |-> slave.done, queue |-> slave.queue]
    <2> DEFINE r == [op |-> slave.op, call |-> slave.call, obj |-> slave.obj, size |-> slave.size,
                     pieces |-> slave.pieces, at |-> slave.at, toggle |-> slave.toggle,
                     done |-> slave.done, queue |-> slave.queue]
    <2>1. s = [r EXCEPT !.at = @ + len, !.toggle = 1 - @, !.op = op]
      <3>1. slave = r
        BY <1>2 DEF SlaveState
      <3> HIDE DEF r
      <3> QED
        BY <3>1, Zenon
    <2> HIDE DEF s
    <2> QED
      BY <2>1
  <1> HIDE DEF op, s
  <1>5. SlaveState(s)
    BY <1>0, <1>2, <1>3, <1>4 DEF SlaveState
  <1>6. s.op = op /\ s.call = slave.call /\ s.size = slave.size /\ s.at = slave.at + len
    BY <1>4
  <1>7. last => slave.at + len = slave.size
    OBVIOUS
  <1> HIDE DEF last
  <1>8. Numbers(m)
    BY <1>2, <1>3, SegmentIs
  <1>9. /\ m.kind = "SEG_UP" /\ m.call = slave.call /\ m.from = slave.at /\ m.last = last
        /\ DataIn(m) = len
    BY <1>2, <1>3, SegmentIs
  <1> HIDE DEF m
  <1>10. Answer(m)
    BY <1>8, <1>9 DEF Answer, Unnamed
  <1>11. Answered(m) /\ Becomes(s)
    BY <1>1, <1>5, <1>10, TakeAnswers
  <1>12. /\ slave'.op = op /\ slave'.call = slave.call /\ slave'.size = slave.size
         /\ slave'.at = slave.at + len
    BY <1>6, <1>11 DEF Becomes
  <1> QED
    BY <1>0, <1>1, <1>3, <1>7, <1>9, <1>11, <1>12

\* What the slave does with the first request of a download.
LEMMA DownloadIs ==
  ASSUME TypeInv, SlaveDownload
  PROVE  /\ in.kind \in {"DOWN_EXP_REQ", "DOWN_REQ"}
         /\ \E m : Answered(m) /\ m.kind = "DOWN"
         /\ slave'.op = (IF in.len < in.size THEN "down" ELSE "none")
         /\ slave'.call = in.call /\ slave'.size = in.size /\ slave'.at = in.len
         /\ slave'.pieces = <<Piece(in, in.len)>> /\ (slave'.done <=> in.len = in.size)
  <1> DEFINE op == IF in.len < in.size THEN "down" ELSE "none"
             done == in.len = in.size
             s == Begun(op, in.size, in.len, <<Piece(in, in.len)>>, done)
             m == Sdo("DOWN", [index |-> in.index, sub |-> in.sub])
  <1>1. in.kind \in {"DOWN_EXP_REQ", "DOWN_REQ"} /\ Take(s, m)
    BY DEF SlaveDownload
  <1>2. in.len \in Nat /\ in.size \in Nat /\ in.call \in Nat
    BY DEF TypeInv, Numbers
  <1>3. <<Piece(in, in.len)>> \in Pieces
    BY PieceSeq DEF TypeInv
  <1>4. op # "up"
    OBVIOUS
  <1>5. Answer(m) /\ m.kind = "DOWN"
    <2>1. Numbers(m)
      BY DEF Sdo, None, Numbers
    <2>2. m.kind = "DOWN"
      BY DEF Sdo, None
    <2> QED
      BY <2>1, <2>2 DEF Answer, Responses
  <1> HIDE DEF m
  <1>6. slave'.done = s.done => (slave'.done <=> s.done)
    OBVIOUS
  <1> HIDE DEF op, done
  <1>7. SlaveState(s)
    BY <1>2, <1>3, <1>4, BegunIs
  <1>8. /\ s.op = op /\ s.call = in.call /\ s.size = in.size /\ s.at = in.len
        /\ s.pieces = <<Piece(in, in.len)>> /\ s.done = done
    BY <1>2, <1>3, <1>4, BegunIs
  <1> HIDE DEF s
  <1>9. Answered(m) /\ Becomes(s)
    BY <1>1, <1>5, <1>7, TakeAnswers
  <1>10. /\ slave'.op = op /\ slave'.call = in.call /\ slave'.size = in.size /\ slave'.at = in.len
         /\ slave'.pieces = <<Piece(in, in.len)>> /\ slave'.done = done
    BY <1>8, <1>9 DEF Becomes
  <1> QED
    BY <1>1, <1>5, <1>9, <1>10 DEF op, done

\* What the slave does with a segment.
LEMMA DownloadSegmentIs ==
  ASSUME TypeInv, SlaveDownloadSegment
  PROVE  /\ in.kind = "SEG_DOWN_REQ" /\ slave.op = "down"
         /\ in.last => slave.at + DataIn(in) = slave.size
         /\ \E m : Answered(m) /\ m.kind = "SEG_DOWN"
         /\ slave'.op = (IF in.last THEN "none" ELSE "down")
         /\ slave'.call = slave.call /\ slave'.size = slave.size /\ slave'.at = slave.at + DataIn(in)
         /\ slave'.pieces = Append(slave.pieces, Piece(in, DataIn(in))) /\ slave'.done = in.last
  <1> DEFINE op == IF in.last THEN "none" ELSE "down"
             p == Piece(in, DataIn(in))
             s == [slave EXCEPT !.at = @ + DataIn(in), !.toggle = 1 - @, !.done = in.last, !.op = op,
                                !.pieces = Append(@, p)]
             m == [None EXCEPT !.kind = "SEG_DOWN", !.toggle = in.toggle]
  <1>1. /\ in.kind = "SEG_DOWN_REQ" /\ slave.op = "down" /\ Take(s, m)
        /\ in.last => slave.at + DataIn(in) = slave.size
    BY DEF SlaveDownloadSegment
  <1>2. /\ slave.call \in Nat /\ slave.at \in Nat /\ slave.size \in Nat
        /\ in.toggle \in {0, 1} /\ slave.toggle \in {0, 1}
        /\ slave.pieces \in Pieces
        /\ SlaveState(slave)
    BY DEF TypeInv, SlaveOK, SlaveState, Numbers
  <1>3. DataIn(in) \in Nat /\ Append(slave.pieces, p) \in Pieces
    BY <1>2, DataInNat, PieceSeq DEF TypeInv
  <1>4. Answer(m) /\ m.kind = "SEG_DOWN"
    <2>1. Numbers(m)
      BY <1>2, TogglingIs
    <2>2. m.kind = "SEG_DOWN"
      BY DEF None
    <2> QED
      BY <2>1, <2>2 DEF Answer, Unnamed
  <1> HIDE DEF m, p
  <1>5. op # "up"
    OBVIOUS
  <1> HIDE DEF op
  <1>6. s = [op |-> op, call |-> slave.call, obj |-> slave.obj, size |-> slave.size,
             pieces |-> Append(slave.pieces, p), at |-> slave.at + DataIn(in),
             toggle |-> 1 - slave.toggle, done |-> in.last, queue |-> slave.queue]
    <2> DEFINE r == [op |-> slave.op, call |-> slave.call, obj |-> slave.obj, size |-> slave.size,
                     pieces |-> slave.pieces, at |-> slave.at, toggle |-> slave.toggle,
                     done |-> slave.done, queue |-> slave.queue]
    <2>1. s = [r EXCEPT !.at = @ + DataIn(in), !.toggle = 1 - @, !.done = in.last, !.op = op,
                        !.pieces = Append(@, p)]
      <3>1. slave = r
        BY <1>2 DEF SlaveState
      <3> HIDE DEF r
      <3> QED
        BY <3>1, Zenon
    <2> HIDE DEF s
    <2> QED
      BY <2>1
  <1> HIDE DEF s
  <1>7. SlaveState(s)
    BY <1>2, <1>3, <1>5, <1>6 DEF SlaveState
  <1>8. /\ s.op = op /\ s.call = slave.call /\ s.size = slave.size /\ s.at = slave.at + DataIn(in)
        /\ s.pieces = Append(slave.pieces, p) /\ s.done = in.last
    BY <1>6
  <1>9. Answered(m) /\ Becomes(s)
    BY <1>1, <1>4, <1>7, TakeAnswers
  <1>10. /\ slave'.op = op /\ slave'.call = slave.call /\ slave'.size = slave.size
         /\ slave'.at = slave.at + DataIn(in)
         /\ slave'.pieces = Append(slave.pieces, p) /\ slave'.done = in.last
    BY <1>8, <1>9 DEF Becomes
  <1> QED
    BY <1>1, <1>4, <1>9, <1>10 DEF op, p

\* What the slave answers to the request of a PDO.
LEMMA TxPDOIs ==
  ASSUME TypeInv, SlaveTxPDO
  PROVE  /\ in.kind = "TXPDO_RR" /\ Becomes(slave)
         /\ \E o \in Pdos : \E m : /\ Answered(m) /\ o.index = in.index
                               /\ m.kind = "TXPDO" /\ m.call = in.call /\ m.from = 0 /\ m.len = o.size
  <1>1. PICK o \in Pdos : o.index = in.index /\ Take(slave, Carrying(Sdo("TXPDO", o), in.call, 0, o.size, o.size))
    BY DEF SlaveTxPDO
  <1> DEFINE m == Carrying(Sdo("TXPDO", o), in.call, 0, o.size, o.size)
  <1>2. in.kind = "TXPDO_RR" /\ in.call \in Nat /\ o.size \in Nat /\ 0 \in Nat /\ SlaveState(slave)
    BY CoEAssumption DEF SlaveTxPDO, TypeInv, Numbers, SlaveOK
  <1>3. Numbers(m)
    BY <1>2, CarryingIs
  <1>4. m.kind = "TXPDO" /\ m.call = in.call /\ m.from = 0 /\ m.len = o.size
    BY DEF Carrying, Sdo, None
  <1>5. Take(slave, m) /\ o.index = in.index
    BY <1>1
  <1> HIDE DEF m
  <1>6. Answer(m)
    BY <1>3, <1>4 DEF Answer, Unnamed
  <1>7. Answered(m) /\ Becomes(slave)
    BY <1>2, <1>5, <1>6, TakeAnswers
  <1> QED
    BY <1>2, <1>4, <1>5, <1>7

\* ... of the description of an object
LEMMA DescriptionIs ==
  ASSUME TypeInv, SlaveDescription
  PROVE  /\ in.kind = "DESC_REQ" /\ Becomes(slave)
         /\ \E k \in DOMAIN Dictionary : \E m :
              Answered(m) /\ Dictionary[k].index = in.index /\ m.kind = "DESC" /\ m.sub = Dictionary[k].maxsub
  <1>1. PICK k \in DOMAIN Dictionary :
          /\ Dictionary[k].index = in.index
          /\ Take(slave, [None EXCEPT !.kind = "DESC", !.index = in.index, !.sub = Dictionary[k].maxsub])
    BY DEF SlaveDescription
  <1> DEFINE m == [None EXCEPT !.kind = "DESC", !.index = in.index, !.sub = Dictionary[k].maxsub]
  <1>2. in.kind = "DESC_REQ" /\ SlaveState(slave)
    BY DEF SlaveDescription, TypeInv, SlaveOK
  <1>3. Numbers(m)
    BY PlainIs
  <1>4. m.kind = "DESC" /\ m.sub = Dictionary[k].maxsub
    BY DEF None
  <1>5. Take(slave, m)
    BY <1>1
  <1> HIDE DEF m
  <1>6. Answer(m)
    BY <1>3, <1>4 DEF Answer, Unnamed
  <1>7. Answered(m) /\ Becomes(slave)
    BY <1>2, <1>5, <1>6, TakeAnswers
  <1> QED
    BY <1>1, <1>2, <1>4, <1>7

\* ... and of an entry of it.
LEMMA EntryIs ==
  ASSUME TypeInv, SlaveEntry
  PROVE  /\ in.kind = "ENTRY_REQ" /\ Becomes(slave)
         /\ \E m : Answered(m) /\ m.kind = "ENTRY" /\ m.index = in.index /\ m.sub = in.sub
  <1> DEFINE m == [None EXCEPT !.kind = "ENTRY", !.index = in.index, !.sub = in.sub]
  <1>1. in.kind = "ENTRY_REQ" /\ SlaveState(slave) /\ Take(slave, m)
    BY DEF SlaveEntry, TypeInv, SlaveOK
  <1>2. Numbers(m)
    BY PlainIs
  <1>3. m.kind = "ENTRY" /\ m.index = in.index /\ m.sub = in.sub
    BY DEF None
  <1> HIDE DEF m
  <1>4. Answer(m)
    BY <1>2, <1>3 DEF Answer, Unnamed
  <1>5. Answered(m) /\ Becomes(slave)
    BY <1>1, <1>4, TakeAnswers
  <1> QED
    BY <1>1, <1>3, <1>5

\* An abort ends the transfer.
LEMMA AbortIs ==
  ASSUME TypeInv, SlaveAbort
  PROVE  /\ in.kind \notin {"none", "RXPDO"}
         /\ \E m : Answered(m) /\ m.kind = "ABORT"
         /\ slave'.op = "none" /\ slave'.pieces = slave.pieces /\ slave'.done = slave.done
         /\ slave'.call = slave.call /\ slave'.size = slave.size /\ slave'.at = slave.at
  <1> DEFINE m == [None EXCEPT !.kind = "ABORT"]
             s == [slave EXCEPT !.op = "none"]
  <1>1. in.kind \notin {"none", "RXPDO"} /\ SlaveState(slave) /\ Take(s, m)
    BY DEF SlaveAbort, TypeInv, SlaveOK
  <1>2. Numbers(m)
    BY PlainIs
  <1>3. m.kind = "ABORT"
    BY DEF None
  <1> HIDE DEF m
  <1>4. Answer(m)
    BY <1>2, <1>3 DEF Answer, Unnamed
  <1>5. s = [op |-> "none", call |-> slave.call, obj |-> slave.obj, size |-> slave.size,
             pieces |-> slave.pieces, at |-> slave.at, toggle |-> slave.toggle,
             done |-> slave.done, queue |-> slave.queue]
    BY <1>1 DEF SlaveState
  <1> HIDE DEF s
  <1>6. SlaveState(s)
    BY <1>1, <1>5 DEF SlaveState
  <1>7. /\ s.op = "none" /\ s.call = slave.call /\ s.size = slave.size /\ s.at = slave.at
        /\ s.pieces = slave.pieces /\ s.done = slave.done
    BY <1>5
  <1>8. Answered(m) /\ Becomes(s)
    BY <1>1, <1>4, <1>6, TakeAnswers
  <1> QED
    BY <1>1, <1>3, <1>7, <1>8 DEF Becomes

\* A PDO is taken without an answer.
LEMMA RxPDOIs ==
  ASSUME TypeInv, SlaveRxPDO
  PROVE  /\ TypeInv' /\ Pipe' = Pipe
         /\ in.kind = "RXPDO" /\ in' = None
         /\ UNCHANGED <<pc, call, hp, data, toggle, NotLast, wkc, out, losses, stale, missed, lost>>
         /\ slave'.pieces = <<Piece(in, in.len)>>
         /\ slave'.op = slave.op /\ slave'.call = slave.call /\ slave'.size = slave.size
         /\ slave'.at = slave.at /\ slave'.done = slave.done
  <1>1. /\ in.kind = "RXPDO" /\ in' = None
        /\ UNCHANGED <<pc, call, hp, data, toggle, NotLast, wkc, out, losses, stale, missed, lost>>
        /\ slave' = [slave EXCEPT !.pieces = <<Piece(in, in.len)>>]
        /\ SlaveState(slave)
    BY DEF SlaveRxPDO, locals, TypeInv, SlaveOK
  <1>2. slave' = [op |-> slave.op, call |-> slave.call, obj |-> slave.obj, size |-> slave.size,
                  pieces |-> <<Piece(in, in.len)>>, at |-> slave.at, toggle |-> slave.toggle,
                  done |-> slave.done, queue |-> slave.queue]
    BY <1>1 DEF SlaveState
  <1>3. <<Piece(in, in.len)>> \in Pieces
    BY PieceSeq DEF TypeInv
  <1>4. SlaveState(slave') /\ slave'.queue = slave.queue
    BY <1>1, <1>2, <1>3 DEF SlaveState
  <1>5. SlaveOK'
    BY <1>4 DEF SlaveOK, TypeInv
  <1>6. CallOK' /\ LocalsOK'
    BY <1>1 DEF TypeInv, CallOK, LocalsOK
  <1>7. Numbers(in)' /\ in'.kind = "none"
    <2>1. Numbers(None) /\ None.kind = "none"
      BY PlainIs
    <2> QED
      BY <1>1, <2>1
  <1>8. out' = None \/ Answer(out)'
    BY <1>1 DEF TypeInv, Answer, Numbers
  <1>9. TypeInv'
    BY <1>5, <1>6, <1>7, <1>8 DEF TypeInv
  <1>10. Pipe' = Pipe
    BY <1>1, <1>4, PipeSame
  <1> QED
    BY <1>1, <1>2, <1>9, <1>10

\* The next answer is put in the mailbox: it was under way and still is.
LEMMA PostedIs ==
  ASSUME TypeInv, SlaveAnswer
  PROVE  /\ TypeInv' /\ Pipe' = Pipe
         /\ UNCHANGED <<pc, call, hp, data, toggle, NotLast, wkc, in, losses, stale, missed, lost>>
         /\ Becomes(slave)
  <1>1. /\ UNCHANGED <<pc, call, hp, data, toggle, NotLast, wkc, in, losses, stale, missed, lost>>
        /\ slave' = [slave EXCEPT !.queue = Tail(@)]
        /\ SlaveState(slave)
    BY DEF SlaveAnswer, locals, TypeInv, SlaveOK
  <1>2. slave' = [op |-> slave.op, call |-> slave.call, obj |-> slave.obj, size |-> slave.size,
                  pieces |-> slave.pieces, at |-> slave.at, toggle |-> slave.toggle,
                  done |-> slave.done, queue |-> Tail(slave.queue)]
    BY <1>1 DEF SlaveState
  <1>3. SlaveState(slave')
    BY <1>1, <1>2 DEF SlaveState
  <1>4. /\ Pipe' = Pipe /\ Answer(out)'
        /\ IsSeq(slave'.queue) /\ \A k \in 1 .. Len(slave'.queue) : Answer(slave'.queue[k])
    BY PipePosted
  <1>5. SlaveOK'
    BY <1>3, <1>4 DEF SlaveOK
  <1>6. CallOK' /\ LocalsOK'
    BY <1>1 DEF TypeInv, CallOK, LocalsOK
  <1>7. Numbers(in)' /\ in'.kind \in {"none"} \cup Requests
    BY <1>1 DEF TypeInv, Numbers
  <1>8. TypeInv'
    BY <1>4, <1>5, <1>6, <1>7 DEF TypeInv
  <1> QED
    BY <1>1, <1>2, <1>4, <1>8 DEF Becomes

-----------------------------------------------------------------------------
(* The list of the slave's objects                                         *)

\* The frames of the list hold its words, and each of them at least one.
LEMMA ListFramesHold ==
  /\ Words \in Nat /\ Words = Len(Dictionary) + 1 /\ ListFrames \in Nat /\ ListFrames >= 1
  /\ Words <= ListFrames * WordsPerFrame
  /\ \A k \in 1 .. ListFrames : (k - 1) * WordsPerFrame \in Nat /\ (k - 1) * WordsPerFrame < Words
  /\ \A k \in 1 .. ListFrames - 1 : k * WordsPerFrame < Words
  <1>1. /\ Words \in Nat /\ Words = Len(Dictionary) + 1 /\ Words >= 1
        /\ WordsPerFrame \in Nat /\ WordsPerFrame >= 2
    BY DictionaryAssumption DEF Words
  <1> DEFINE n == Words + WordsPerFrame - 1
             q == n \div WordsPerFrame
  <1>2. n \in Nat /\ n >= WordsPerFrame
    BY <1>1
  <1>3. q \in Nat /\ q * WordsPerFrame <= n /\ n < (q + 1) * WordsPerFrame
    <2> HIDE DEF n
    <2> QED
      BY <1>1, <1>2
  <1>4. ListFrames = q
    BY DEF ListFrames
  <1> HIDE DEF q
  <1>5. (q + 1) * WordsPerFrame = q * WordsPerFrame + WordsPerFrame
    BY <1>1, <1>3
  <1>6. Words <= q * WordsPerFrame
    BY <1>1, <1>3, <1>5
  <1>7. q >= 1
    BY <1>1, <1>3, <1>6
  <1>8. (q - 1) * WordsPerFrame = q * WordsPerFrame - WordsPerFrame
    BY <1>1, <1>3
  <1>9. (q - 1) * WordsPerFrame < Words
    BY <1>1, <1>3, <1>8
  <1>10. ASSUME NEW j \in 0 .. q - 1
         PROVE  j * WordsPerFrame \in Nat /\ j * WordsPerFrame <= (q - 1) * WordsPerFrame
    BY <1>1, <1>3
  <1>11. \A k \in 1 .. q : k - 1 \in 0 .. q - 1
    BY <1>3
  <1>12. \A k \in 1 .. q : (k - 1) * WordsPerFrame \in Nat /\ (k - 1) * WordsPerFrame < Words
    <2> TAKE k \in 1 .. q
    <2> DEFINE j == k - 1
    <2>1. j \in 0 .. q - 1
      BY <1>3
    <2> HIDE DEF j
    <2>2. j * WordsPerFrame \in Nat /\ j * WordsPerFrame <= (q - 1) * WordsPerFrame
      BY <1>10, <2>1
    <2>3. j * WordsPerFrame < Words
      BY <1>1, <1>3, <1>8, <1>9, <2>2
    <2> QED
      BY <2>2, <2>3 DEF j
  <1>13. \A k \in 1 .. q - 1 : k * WordsPerFrame < Words
    <2> TAKE k \in 1 .. q - 1
    <2>1. k \in 0 .. q - 1
      BY <1>3
    <2>2. k * WordsPerFrame \in Nat /\ k * WordsPerFrame <= (q - 1) * WordsPerFrame
      BY <1>10, <2>1
    <2> QED
      BY <1>1, <1>3, <1>8, <1>9, <2>2
  <1> QED
    BY <1>1, <1>3, <1>4, <1>6, <1>7, <1>12, <1>13

\* A frame of the list.
LEMMA ListPartIs ==
  ASSUME NEW k \in 1 .. ListFrames
  PROVE  /\ Answer(ListPart(k)) /\ ListPart(k).kind = "LIST"
         /\ ListPart(k).from = (k - 1) * WordsPerFrame
         /\ ListPart(k).len = Least(WordsPerFrame, Words - (k - 1) * WordsPerFrame)
         /\ ListPart(k).last <=> k = ListFrames
  <1> DEFINE from == (k - 1) * WordsPerFrame
             last == k = ListFrames
             len == Least(WordsPerFrame, Words - from)
  <1>1. from \in Nat /\ from < Words /\ Words \in Nat /\ WordsPerFrame \in Nat
    BY ListFramesHold, DictionaryAssumption
  <1>2. last \in BOOLEAN
    OBVIOUS
  <1>3. ListPart(k) = [None EXCEPT !.kind = "LIST", !.from = from, !.len = len, !.last = last]
    BY DEF ListPart
  <1> HIDE DEF from, last
  <1>4. len \in Nat
    BY <1>1 DEF Least
  <1> HIDE DEF len
  <1>5. /\ ListPart(k).kind = "LIST" /\ ListPart(k).from = from /\ ListPart(k).len = len /\ ListPart(k).last = last
        /\ Numbers(ListPart(k))
    BY <1>1, <1>2, <1>3, <1>4 DEF None, Numbers
  <1>6. Answer(ListPart(k))
    BY <1>5 DEF Answer, Unnamed
  <1> QED
    BY <1>5, <1>6 DEF from, len, last

\* A function on the first numbers is a sequence.
LEMMA FunctionIsSeq ==
  ASSUME NEW n \in Nat, NEW f, f = [k \in 1 .. n |-> f[k]]
  PROVE  IsSeq(f) /\ Len(f) = n
  <1>1. f \in [1 .. n -> Range(f)]
    BY DEF Range
  <1>2. f \in Seq(Range(f))
    BY <1>1, SeqDef
  <1> QED
    BY <1>1, <1>2, LenProperties DEF IsSeq

\* The slave answers with all frames of its list.
LEMMA ListedIs ==
  ASSUME TypeInv, SlaveList
  PROVE  /\ TypeInv'
         /\ in.kind = "LIST_REQ" /\ in' = None
         /\ UNCHANGED <<pc, call, hp, data, toggle, NotLast, wkc, out, losses, stale, missed, lost>>
         /\ Pipe = <<>> => Len(Pipe') = ListFrames /\ \A k \in 1 .. ListFrames : Pipe'[k] = ListPart(k)
  <1> DEFINE f == [k \in 1 .. ListFrames |-> ListPart(k)]
  <1>1. /\ in.kind = "LIST_REQ" /\ in' = None
        /\ UNCHANGED <<pc, call, hp, data, toggle, NotLast, wkc, out, losses, stale, missed, lost>>
        /\ slave' = [slave EXCEPT !.queue = @ \o f]
        /\ SlaveState(slave)
    BY DEF SlaveList, locals, TypeInv, SlaveOK
  <1>2. slave' = [op |-> slave.op, call |-> slave.call, obj |-> slave.obj, size |-> slave.size,
                  pieces |-> slave.pieces, at |-> slave.at, toggle |-> slave.toggle,
                  done |-> slave.done, queue |-> slave.queue \o f]
    <2> HIDE DEF f
    <2> QED
      BY <1>1 DEF SlaveState
  <1>3. ListFrames \in Nat /\ \A k \in 1 .. ListFrames : f[k] = ListPart(k) /\ Answer(f[k])
    BY ListFramesHold, ListPartIs
  <1>4. f = [k \in 1 .. ListFrames |-> f[k]]
    OBVIOUS
  <1> HIDE DEF f
  <1>5. IsSeq(f) /\ Len(f) = ListFrames
    BY <1>3, <1>4, FunctionIsSeq
  <1>6. IsSeq(slave.queue) /\ \A k \in 1 .. Len(slave.queue) : Answer(slave.queue[k])
    BY DEF TypeInv, SlaveOK
  <1>7. /\ IsSeq(slave.queue \o f) /\ Len(slave.queue) \in Nat
        /\ Len(slave.queue \o f) = Len(slave.queue) + ListFrames
        /\ \A k \in 1 .. Len(slave.queue) + ListFrames :
              (slave.queue \o f)[k] = IF k <= Len(slave.queue) THEN slave.queue[k] ELSE f[k - Len(slave.queue)]
    BY <1>5, <1>6, ConcatBoth
  <1>8. \A k \in 1 .. Len(slave.queue \o f) : Answer((slave.queue \o f)[k])
    BY <1>3, <1>6, <1>7
  <1>9. slave'.queue = slave.queue \o f /\ SlaveState(slave')
    BY <1>1, <1>2 DEF SlaveState
  <1>10. SlaveOK'
    BY <1>7, <1>8, <1>9 DEF SlaveOK
  <1>11. CallOK' /\ LocalsOK'
    BY <1>1 DEF TypeInv, CallOK, LocalsOK
  <1>12. Numbers(in)' /\ in'.kind = "none"
    <2>1. Numbers(None) /\ None.kind = "none"
      BY PlainIs
    <2> QED
      BY <1>1, <2>1
  <1>13. out' = None \/ Answer(out)'
    BY <1>1 DEF TypeInv, Answer, Numbers
  <1>14. TypeInv'
    BY <1>10, <1>11, <1>12, <1>13 DEF TypeInv
  <1>15. ASSUME Pipe = <<>>
         PROVE  Len(Pipe') = ListFrames /\ \A k \in 1 .. ListFrames : Pipe'[k] = ListPart(k)
    <2>1. out = None /\ slave.queue = <<>>
      BY <1>15, PipeType
    <2>2. Len(slave.queue) = 0
      BY <1>6, <2>1, EmptyIsSeq
    <2>3. Pipe' = slave.queue \o f
      BY <1>1, <1>9, <2>1 DEF Pipe
    <2> QED
      BY <1>3, <1>7, <2>2, <2>3
  <1> QED
    BY <1>1, <1>14, <1>15

-----------------------------------------------------------------------------
(* Types are kept                                                          *)

\* Every step keeps the types.
LEMMA TypeStep ==
  ASSUME TypeInv, [ODMaster \/ ODSlave]_odvars
  PROVE  TypeInv'
  <1>1. CASE SI_SDO
    BY <1>1, DictionaryTypes
  <1>2. CASE Master
    BY <1>2, ReadTypes, WriteTypes, PdoTypes DEF Master
  <1>3. CASE ODSlave
    <2>1. \/ SlaveUpload \/ SlaveUploadSegment \/ SlaveDownload \/ SlaveDownloadSegment
          \/ SlaveTxPDO \/ SlaveRxPDO \/ SlaveAbort \/ SlaveAnswer
          \/ SlaveList \/ SlaveDescription \/ SlaveEntry
      BY <1>3 DEF ODSlave, Slave
    <2> QED
      BY <2>1, UploadIs, UploadSegmentIs, DownloadIs, DownloadSegmentIs, TxPDOIs, RxPDOIs, AbortIs,
         PostedIs, ListedIs, DescriptionIs, EntryIs DEF Answered
  <1>4. CASE UNCHANGED odvars
    <2>1. UNCHANGED <<pc, call, hp, data, toggle, NotLast, in, out, slave, losses, stale, missed, lost>>
      BY <1>4 DEF odvars, vars, locals
    <2> QED
      BY <2>1, TypesOfLocals DEF TypeInv, CallOK, LocalsOK
  <1> QED
    BY <1>1, <1>2, <1>3, <1>4 DEF ODMaster

\* Where the transfers are.
LEMMA MasterPc ==
  ASSUME Master
  PROVE  pc' \in {"idle", "request", "response", "segment", "segresponse"}
  <1>1. CASE Begin \/ NoResponse
    BY <1>1 DEF Begin, NoResponse, Return
  <1>2. CASE \/ ReadRequest \/ ReadResponse \/ ReadDownResponse \/ ReadBadResponse
             \/ ReadSegmentRequest \/ ReadSegment \/ ReadBadSegment \/ ReadNoSegment
    BY <1>2 DEF ReadRequest, ReadResponse, ReadDownResponse, ReadBadResponse,
                ReadSegmentRequest, ReadSegment, ReadBadSegment, ReadNoSegment, Return
  <1>3. CASE \/ WriteRequest \/ WriteResponse \/ WriteBadResponse
             \/ WriteSegment \/ WriteSegmentResponse \/ WriteBadSegmentResponse \/ WriteNoSegmentResponse
    BY <1>3 DEF WriteRequest, WriteResponse, WriteBadResponse, WriteSegment, WriteSegmentResponse,
                WriteBadSegmentResponse, WriteNoSegmentResponse, NextSegment, Return
  <1>4. CASE RxPDO \/ TxPDORequest \/ TxPDOResponse \/ TxPDOBadResponse
    BY <1>4 DEF RxPDO, TxPDORequest, TxPDOResponse, TxPDOBadResponse, Return
  <1> QED
    BY <1>1, <1>2, <1>3, <1>4 DEF Master

\* Where si_sdo is, its call is the current one.
LEMMA PcStep ==
  ASSUME TypeInv, PcInv, [ODMaster \/ ODSlave]_odvars
  PROVE  PcInv'
  <1>1. CASE SI_SDO
    <2>1. CASE BeginList
      BY <2>1 DEF BeginList, TypeInv, CallOK, PcInv
    <2>2. CASE ~BeginList
      <3>1. call' = call
        BY <1>1, <2>2 DEF SI_SDO, AskList, ListFrame, ListFails, AskDescription, Description, NoDescription,
                          AskEntry, Entry, NoEntry, NextItem, locals
      <3>2. pc \in InSiSdo
        BY <1>1, <2>2 DEF SI_SDO, AskList, ListFrame, ListFails, AskDescription, Description, NoDescription,
                          AskEntry, Entry, NoEntry, NextItem, Request, RequestFails, InSiSdo
      <3> QED
        BY <3>1, <3>2 DEF PcInv
    <2> QED
      BY <2>1, <2>2
  <1>2. CASE Master
    <2>1. pc' \in {"idle", "request", "response", "segment", "segresponse"}
      BY <1>2, MasterPc
    <2> QED
      BY <2>1 DEF PcInv, InSiSdo
  <1>3. CASE ODSlave
    <2>1. UNCHANGED <<pc, call>>
      BY <1>3 DEF ODSlave, Slave, SlaveUpload, SlaveUploadSegment, SlaveDownload, SlaveDownloadSegment,
                  SlaveTxPDO, SlaveRxPDO, SlaveAbort, SlaveAnswer, SlaveList, SlaveDescription, SlaveEntry,
                  Take, locals
    <2> QED
      BY <2>1 DEF PcInv
  <1>4. CASE UNCHANGED odvars
    BY <1>4 DEF PcInv, odvars, vars, locals
  <1> QED
    BY <1>1, <1>2, <1>3, <1>4 DEF ODMaster

-----------------------------------------------------------------------------
(* What is left to show of a step                                          *)

\* A call that ends otherwise than well.
LEMMA Failed ==
  ASSUME pc' = "idle", wkc' # "ok",
         call'.op \in {"READ", "TXPDO"} /\ ~stale' => hp' <= call'.size
  PROVE  TransferInv'
  BY DEF TransferInv, RequestInv, ReadResponseInv, ReadInv, TxPDOInv, WriteResponseInv, WriteSegmentInv,
         WriteSentInv, RxPDOInv, WrittenInv, ReadWhole, Ended

\* A call that began with something of an earlier one under way.
LEMMA Stale ==
  ASSUME stale', call'.op # "RXPDO"
  PROVE  TransferInv'
  BY DEF TransferInv, RequestInv, ReadResponseInv, ReadInv, TxPDOInv, WriteResponseInv, WriteSegmentInv,
         WriteSentInv, RxPDOInv, WrittenInv, ReadWhole, Ended, InWrite

\* A call of si_sdo.
LEMMA OfList ==
  ASSUME call'.op = "LIST", pc' # "request" \/ RequestInv'
  PROVE  TransferInv'
  BY DEF TransferInv, RequestInv, ReadResponseInv, ReadInv, TxPDOInv, WriteResponseInv, WriteSegmentInv,
         WriteSentInv, RxPDOInv, WrittenInv, ReadWhole, Ended, InWrite

\* A call of ecx_SDOread,
LEMMA OfRead ==
  ASSUME call'.op = "READ", RequestInv', ReadResponseInv', ReadInv', ReadWhole'
  PROVE  TransferInv'
  BY DEF TransferInv, TxPDOInv, WriteResponseInv, WriteSegmentInv,
         WriteSentInv, RxPDOInv, WrittenInv, Ended, InWrite

\* ... of ecx_TxPDO,
LEMMA OfTxPDO ==
  ASSUME call'.op = "TXPDO", RequestInv', TxPDOInv', ReadWhole'
  PROVE  TransferInv'
  BY DEF TransferInv, ReadResponseInv, ReadInv, WriteResponseInv, WriteSegmentInv,
         WriteSentInv, RxPDOInv, WrittenInv, Ended, InWrite

\* ... of ecx_RxPDO,
LEMMA OfRxPDO ==
  ASSUME call'.op = "RXPDO", RequestInv', RxPDOInv'
  PROVE  TransferInv'
  BY DEF TransferInv, ReadResponseInv, ReadInv, TxPDOInv, WriteResponseInv, WriteSegmentInv,
         WriteSentInv, WrittenInv, ReadWhole, Ended, InWrite

\* ... of ecx_SDOwrite.
LEMMA OfWrite ==
  ASSUME call'.op = "WRITE", RequestInv', WriteResponseInv', WriteSegmentInv', WriteSentInv', WrittenInv'
  PROVE  TransferInv'
  BY DEF TransferInv, ReadResponseInv, ReadInv, TxPDOInv, RxPDOInv, ReadWhole, Ended

\* A call begins.
LEMMA BeginStep ==
  ASSUME TypeInv, Begin \/ BeginList
  PROVE  TransferInv'
  <1>1. CASE Begin
    <2>1. /\ pc' = "request" /\ hp' = 0 /\ UNCHANGED <<in, slave>>
          /\ stale' = (in # None \/ out' # None \/ slave.queue # <<>>)
      BY <1>1 DEF Begin
    <2>2. call'.size \in Nat
      BY <1>1, CoEAssumption DEF Begin
    <2>3. RequestInv'
      BY <2>1 DEF RequestInv, Pipe
    <2>4. ReadWhole'
      BY <2>1, <2>2 DEF ReadWhole, Ended
    <2> QED
      BY <2>1, <2>3, <2>4 DEF TransferInv, ReadResponseInv, ReadInv, TxPDOInv, WriteResponseInv,
                              WriteSegmentInv, WriteSentInv, RxPDOInv, WrittenInv, Ended
  <1>2. CASE BeginList
    <2>1. call'.op = "LIST" /\ pc' # "request"
      BY <1>2 DEF BeginList, TypeInv, CallOK
    <2> QED
      BY <2>1, OfList
  <1> QED
    BY <1>1, <1>2

-----------------------------------------------------------------------------
(* Pieces                                                                  *)

\* Whole, of any call.
Covers(n, pieces, size) ==
    /\ pieces # <<>> /\ pieces[1].from = 0
    /\ \A k \in DOMAIN pieces :
        /\ pieces[k].call = n
        /\ pieces[k].from + pieces[k].len = IF k < Len(pieces) THEN pieces[k + 1].from ELSE size

\* Whole is about the current call.
LEMMA WholeCovers ==
  /\ \A p, s : Whole(p, s) <=> Covers(call.n, p, s)
  /\ \A p, s : Whole(p, s)' <=> Covers(call'.n, p, s)
  BY DEF Whole, Covers

\* One piece from the beginning.
LEMMA CoversOne ==
  ASSUME NEW n, NEW q, q.call = n, q.from = 0, q.len \in Nat
  PROVE  Covers(n, <<q>>, q.len)
  <1>1. <<q>> # <<>> /\ DOMAIN <<q>> = {1} /\ Len(<<q>>) = 1 /\ <<q>>[1] = q
    <2>1. <<q>> \in Seq({q}) /\ Len(<<q>>) = 1
      OBVIOUS
    <2>2. <<q>> # <<>>
      BY <2>1, EmptySeq
    <2> QED
      BY <2>1, <2>2
  <1>2. ~(1 < 1)
    OBVIOUS
  <1>3. 0 + q.len = q.len
    OBVIOUS
  <1> QED
    BY <1>1, <1>2, <1>3 DEF Covers

\* One piece more, from where the others end.
LEMMA CoversMore ==
  ASSUME NEW n, NEW p \in Pieces, NEW size \in Nat, Covers(n, p, size),
         NEW q \in [call : Nat, from : Nat, len : Nat], q.call = n, q.from = size,
         NEW end, end = size + q.len
  PROVE  Covers(n, Append(p, q), end)
  <1> DEFINE r == Append(p, q)
  <1>1. /\ r \in Pieces /\ r # <<>> /\ Len(p) \in Nat /\ Len(r) = Len(p) + 1 /\ r[Len(p) + 1] = q
        /\ \A k \in 1 .. Len(p) : r[k] = p[k]
        /\ DOMAIN r = 1 .. Len(p) + 1 /\ DOMAIN p = 1 .. Len(p)
    <2> DEFINE S == [call : Nat, from : Nat, len : Nat]
    <2>1. p \in Seq(S) /\ q \in S
      BY DEF Pieces
    <2> HIDE DEF S
    <2>2. /\ r \in Seq(S) /\ Len(r) = Len(p) + 1 /\ r[Len(p) + 1] = q
          /\ \A k \in 1 .. Len(p) : r[k] = p[k]
      BY <2>1, AppendProperties
    <2>3. Len(p) \in Nat /\ DOMAIN r = 1 .. Len(r) /\ DOMAIN p = 1 .. Len(p)
      BY <2>1, <2>2, LenProperties
    <2>4. r # <<>>
      BY <2>2, <2>3, EmptySeq
    <2>5. r \in Pieces
      BY <2>2 DEF S, Pieces
    <2> QED
      BY <2>2, <2>3, <2>4, <2>5
  <1>2. p # <<>> /\ Len(p) >= 1
    BY <1>1, EmptySeq DEF Covers, Pieces
  <1>3. r[1].from = 0
    BY <1>1, <1>2 DEF Covers
  <1> HIDE DEF r
  <1>4. ASSUME NEW k \in DOMAIN r
        PROVE  /\ r[k].call = n
               /\ r[k].from + r[k].len = IF k < Len(r) THEN r[k + 1].from ELSE end
    <2>1. CASE k = Len(p) + 1
      BY <1>1, <2>1
    <2>2. CASE k = Len(p) /\ k >= 1
      <3>1. k \in DOMAIN p /\ r[k] = p[k] /\ r[k + 1] = q /\ k < Len(r) /\ ~(k < Len(p))
        BY <1>1, <2>2
      <3> QED
        BY <3>1 DEF Covers
    <2>3. CASE k < Len(p)
      <3>1. k \in DOMAIN p /\ r[k] = p[k] /\ r[k + 1] = p[k + 1] /\ k < Len(r)
        BY <1>1, <2>3
      <3> QED
        BY <2>3, <3>1 DEF Covers
    <2> QED
      BY <1>1, <2>1, <2>2, <2>3
  <1>5. Covers(n, r, end)
    BY <1>1, <1>3, <1>4 DEF Covers
  <1> QED
    BY <1>5 DEF r

-----------------------------------------------------------------------------
(* Reading                                                                 *)

\* The steps of ecx_SDOread outside its loop keep the invariant.
LEMMA ReadFirstStep ==
  ASSUME TypeInv, TypeInv', TransferInv,
         NoResponse \/ ReadRequest \/ ReadResponse \/ ReadDownResponse \/ ReadBadResponse
  PROVE  TransferInv'
  <1>0. maxdata \in Nat /\ call.n \in Nat /\ call.size \in Nat /\ hp \in Nat
    BY CoEAssumption DEF TypeInv, CallOK, LocalsOK
  <1>1. CASE NoResponse
    <2>1. pc = "response" /\ pc' = "idle" /\ wkc' = "none" /\ hp' = hp /\ call' = call
      BY <1>1 DEF NoResponse, Return, locals
    <2>2. call.op # "WRITE" => hp = 0
      BY <2>1 DEF TypeInv, LocalsOK
    <2> QED
      BY <1>0, <2>1, <2>2, Failed
  <1>2. CASE ReadRequest
    <2> DEFINE m == [Sdo("UP_REQ", call.obj) EXCEPT !.call = call.n]
    <2>1. /\ pc = "request" /\ call.op = "READ" /\ UNCHANGED <<call, hp, out, slave, stale, lost>>
          /\ \/ Sent(m) /\ pc' = "response"
             \/ NotSent(m) /\ pc' = "idle" /\ wkc' = "none"
      BY <1>2 DEF ReadRequest, Return, locals
    <2>2. Pipe' = Pipe /\ hp = 0
      BY <2>1, PipeSame DEF TypeInv, LocalsOK
    <2>3. CASE pc' = "idle"
      BY <1>0, <2>1, <2>2, <2>3, Failed
    <2>4. CASE pc' # "idle" /\ ~stale
      <3>1. in' = m /\ pc' = "response"
        BY <2>1, <2>4 DEF Sent
      <3>2. m.kind = "UP_REQ" /\ m.call = call.n /\ m.index = call.obj.index /\ m.sub = call.obj.sub
        BY DEF Sdo, None
      <3> HIDE DEF m
      <3>3. NotTaken'
        BY <2>1, <2>2, <2>4 DEF TransferInv, RequestInv, NotTaken
      <3>4. ReadResponseInv'
        BY <2>1, <3>1, <3>2, <3>3 DEF ReadResponseInv
      <3>5. ReadWhole' /\ RequestInv' /\ ReadInv'
        BY <1>0, <2>1, <2>2, <3>1 DEF ReadWhole, RequestInv, ReadInv, Ended
      <3> QED
        BY <2>1, <3>4, <3>5, OfRead
    <2>5. CASE stale
      BY <2>1, <2>5, Stale
    <2> QED
      BY <2>3, <2>4, <2>5
  <1>3. CASE ReadResponse
    <2>1. /\ pc = "response" /\ call.op = "READ"
          /\ out # None /\ out' = None /\ Answer(out) /\ out.kind \in {"UP_EXP", "UP"}
          /\ UNCHANGED <<in, slave, stale, missed, lost>>
      BY <1>3, ReceivedIs DEF ReadResponse, Responses
    <2>2. call' = call /\ toggle' = toggle
      BY <1>3 DEF ReadResponse
    <2>3. CASE stale
      BY <2>1, <2>2, <2>3, Stale
    <2>4. CASE ~stale /\ ~Fits(out.size)
      <3>1. pc' = "idle" /\ wkc' = "error" /\ hp' = hp /\ hp = 0
        BY <1>3, <2>1, <2>4 DEF ReadResponse, Return, TypeInv, LocalsOK
      <3> QED
        BY <1>0, <2>1, <2>2, <3>1, Failed
    <2>5. CASE ~stale /\ Fits(out.size)
      <3>1. /\ Pipe[1] = out /\ Pipe # <<>> /\ Len(Pipe) \in Nat
            /\ Len(Pipe) = 1 => Pipe' = <<>>
        BY <2>1, PipeRead
      <3>2. OneAnswer /\ Uploaded(out)
        BY <2>1, <2>5, <3>1 DEF TransferInv, ReadResponseInv, NotTaken
      <3>3. /\ data' = <<Piece(out, out.len)>> /\ hp' = out.len
            /\ NotLast' = (out.kind = "UP" /\ out.len < out.size)
            /\ \/ NotLast' /\ pc' = "segment"
               \/ ~NotLast' /\ pc' = "idle" /\ wkc' = "ok"
        BY <1>3, <2>5 DEF ReadResponse, Return
      <3>4. /\ out.call = call.n /\ out.from = 0 /\ out.size = call.obj.size
            /\ out.kind = "UP_EXP" => out.len = out.size
            /\ out.kind = "UP" =>
                 /\ out.len <= out.size
                 /\ out.len < out.size =>
                     slave.op = "up" /\ slave.call = call.n /\ slave.size = out.size /\ slave.at = out.len
        BY <2>1, <3>2 DEF Uploaded
      <3>5. out.len \in Nat /\ out.size \in Nat /\ out.len <= out.size /\ out.size <= call.size
        BY <2>1, <2>5, <3>4 DEF Answer, Numbers, Fits
      <3>6. Covers(call.n, data', hp')
        <4>1. Piece(out, out.len).call = call.n /\ Piece(out, out.len).from = 0 /\ Piece(out, out.len).len = out.len
          BY <3>4 DEF Piece
        <4> QED
          BY <3>3, <3>5, <4>1, CoversOne
      <3>7. in = None /\ Pipe' = <<>>
        BY <3>1, <3>2 DEF OneAnswer
      <3>8. CASE NotLast'
        <4>1. pc' = "segment" /\ out.kind = "UP" /\ out.len < out.size
          BY <3>3, <3>8
        <4>2. Len(Pipe') = 0
          BY <3>7, EmptyIsSeq
        <4>3. in'.kind = "none"
          BY <2>1, <3>7 DEF None
        <4>4. SegmentsInv'
          BY <2>1, <2>2, <3>3, <3>4, <3>5, <3>7, <4>1, <4>2, <4>3 DEF SegmentsInv, End
        <4>5. ReadInv'
          BY <2>1, <2>2, <3>3, <3>4, <3>5, <3>6, <4>4, WholeCovers DEF ReadInv
        <4>6. RequestInv' /\ ReadResponseInv' /\ ReadWhole'
          BY <1>0, <2>2, <3>3, <3>5, <4>1 DEF RequestInv, ReadResponseInv, ReadWhole, Ended
        <4> QED
          BY <2>1, <2>2, <4>5, <4>6, OfRead
      <3>9. CASE ~NotLast'
        <4>0. pc' = "idle" /\ ~(out.kind = "UP" /\ out.len < out.size)
          BY <3>3, <3>9
        <4>1. pc' = "idle" /\ out.len = out.size
          BY <2>1, <3>4, <3>5, <4>0
        <4>2. Whole(data, call.obj.size)'
          BY <2>2, <3>3, <3>4, <3>6, <4>1, WholeCovers
        <4>3. ReadWhole'
          BY <1>0, <2>1, <2>2, <3>3, <3>5, <4>2 DEF ReadWhole, Ended
        <4>4. RequestInv' /\ ReadResponseInv' /\ ReadInv'
          BY <4>1 DEF RequestInv, ReadResponseInv, ReadInv
        <4> QED
          BY <2>1, <2>2, <4>3, <4>4, OfRead
      <3> QED
        BY <3>8, <3>9
    <2> QED
      BY <2>3, <2>4, <2>5
  <1>4. CASE ReadDownResponse
    <2>1. /\ pc = "response" /\ call.op = "READ"
          /\ out # None /\ out' = None /\ out.kind = "DOWN" /\ UNCHANGED <<in, slave, stale, missed, lost>>
      BY <1>4, ReceivedIs DEF ReadDownResponse, Responses
    <2>2. call' = call
      BY <1>4 DEF ReadDownResponse, locals
    <2>3. Pipe[1] = out /\ Pipe # <<>>
      BY <2>1, PipeRead
    <2>4. stale
      BY <2>1, <2>3 DEF TransferInv, ReadResponseInv, NotTaken, Uploaded
    <2> QED
      BY <2>1, <2>2, <2>4, Stale
  <1>5. CASE ReadBadResponse
    <2>1. pc = "response" /\ call.op = "READ" /\ pc' = "idle" /\ wkc' = "error" /\ hp' = hp /\ call' = call
      BY <1>5 DEF ReadBadResponse, Return, locals
    <2>2. hp = 0
      BY <2>1 DEF TypeInv, LocalsOK
    <2> QED
      BY <1>0, <2>1, <2>2, Failed
  <1> QED
    BY <1>1, <1>2, <1>3, <1>4, <1>5

\* The ends of the data under way, and what the slave has sent of it.
LEMMA EndIs ==
  ASSUME TypeInv
  PROVE  /\ End(0) = hp /\ hp \in Nat /\ Len(Pipe) \in Nat
         /\ \A k \in 1 .. Len(Pipe) :
              /\ End(k) = Pipe[k].from + DataIn(Pipe[k])
              /\ Pipe[k].from \in Nat /\ DataIn(Pipe[k]) \in Nat /\ End(k) \in Nat
  <1>1. hp \in Nat /\ Len(Pipe) \in Nat /\ \A k \in 1 .. Len(Pipe) : Answer(Pipe[k])
    BY PipeType DEF TypeInv, LocalsOK
  <1>2. \A k \in 1 .. Len(Pipe) : Pipe[k].from \in Nat /\ DataIn(Pipe[k]) \in Nat
    BY <1>1, DataInNat DEF Answer, Numbers
  <1>3. \A k \in 1 .. Len(Pipe) : End(k) = Pipe[k].from + DataIn(Pipe[k])
    BY <1>1 DEF End
  <1>4. End(0) = hp
    BY DEF End
  <1> QED
    BY <1>1, <1>2, <1>3, <1>4

\* The first segment under way is taken, copied or lost.
LEMMA SegmentsTaken ==
  ASSUME TypeInv, TypeInv', SegmentsInv, out # None, out' = None, UNCHANGED <<in, slave, call>>,
         lost => lost',
         Pipe[1].kind = "SEG_UP" => hp' <= End(1) /\ (~lost' => hp' = End(1))
  PROVE  SegmentsInv'
  <1>1. /\ Len(Pipe) \in Nat /\ Len(Pipe) >= 1 /\ Len(Pipe') = Len(Pipe) - 1
        /\ \A k \in 1 .. Len(Pipe) - 1 : Pipe'[k] = Pipe[k + 1]
        /\ Pipe # <<>> /\ (Pipe' = <<>> <=> Len(Pipe) = 1)
    BY PipeRead
  <1>2. /\ hp \in Nat /\ hp' \in Nat /\ End(0)' = hp'
        /\ \A k \in 1 .. Len(Pipe) : /\ End(k) = Pipe[k].from + DataIn(Pipe[k])
                                     /\ Pipe[k].from \in Nat /\ End(k) \in Nat
    BY EndIs DEF End, TypeInv, LocalsOK
  <1>3. \A k \in 1 .. Len(Pipe) - 1 : End(k)' = End(k + 1)
    <2> TAKE k \in 1 .. Len(Pipe) - 1
    <2>1. k # 0 /\ k + 1 # 0 /\ Pipe'[k] = Pipe[k + 1]
      BY <1>1
    <2> QED
      BY <2>1 DEF End
  <1>4. in'.kind \in {"none", "SEG_UP_REQ"}
    BY DEF SegmentsInv
  <1>5. \A k \in 1 .. Len(Pipe') : Pipe'[k].kind \in {"SEG_UP", "ABORT"}
    BY <1>1 DEF SegmentsInv
  <1>6. ASSUME NEW k \in 1 .. Len(Pipe'), Pipe'[k].kind = "SEG_UP"
        PROVE  /\ \A j \in 1 .. k - 1 : Pipe'[j].kind = "SEG_UP"
               /\ Pipe'[k].call = call'.n
               /\ Pipe'[k].from >= End(k - 1)' /\ (k > 1 \/ ~lost' => Pipe'[k].from = End(k - 1)')
               /\ End(k)' <= call'.obj.size /\ (Pipe'[k].last => End(k)' = call'.obj.size)
    <2>1. k \in 1 .. Len(Pipe) - 1 /\ k + 1 \in 1 .. Len(Pipe) /\ Pipe'[k] = Pipe[k + 1]
      BY <1>1
    <2>2. /\ \A j \in 1 .. k : Pipe[j].kind = "SEG_UP"
          /\ Pipe[k + 1].call = call.n
          /\ Pipe[k + 1].from = End(k)
          /\ End(k + 1) <= call.obj.size /\ (Pipe[k + 1].last => End(k + 1) = call.obj.size)
      <3>1. Pipe[k + 1].kind = "SEG_UP" /\ k + 1 > 1 /\ (k + 1) - 1 = k
        BY <1>6, <2>1
      <3> QED
        BY <2>1, <3>1 DEF SegmentsInv
    <2>3. \A j \in 1 .. k - 1 : Pipe'[j].kind = "SEG_UP"
      BY <1>1, <2>1, <2>2
    <2>4. Pipe'[k].from >= End(k - 1)' /\ (k > 1 \/ ~lost' => Pipe'[k].from = End(k - 1)')
      <3>1. CASE k = 1
        <4>1. End(k - 1)' = hp' /\ Pipe[1].kind = "SEG_UP" /\ Pipe'[k].from = End(1)
          BY <1>2, <2>1, <2>2, <3>1
        <4>2. hp' <= End(1) /\ (~lost' => hp' = End(1)) /\ End(1) \in Nat
          BY <1>1, <1>2, <4>1
        <4> QED
          BY <1>2, <3>1, <4>1, <4>2
      <3>2. CASE k # 1
        <4>1. k - 1 \in 1 .. Len(Pipe) - 1 /\ (k - 1) + 1 = k /\ k \in 1 .. Len(Pipe)
          BY <2>1, <3>2
        <4>2. End(k - 1)' = End(k)
          BY <1>3, <4>1
        <4>3. Pipe'[k].from = End(k - 1)'
          BY <2>1, <2>2, <4>2
        <4>4. End(k) \in Nat
          BY <1>2, <4>1
        <4> QED
          BY <4>2, <4>3, <4>4
      <3> QED
        BY <3>1, <3>2
    <2>5. End(k)' = End(k + 1)
      BY <1>3, <2>1
    <2> QED
      BY <2>1, <2>2, <2>3, <2>4, <2>5
  <1>7. ASSUME slave'.op = "up"
        PROVE  /\ \A k \in 1 .. Len(Pipe') : Pipe'[k].kind = "SEG_UP"
               /\ slave'.call = call'.n /\ slave'.size = call'.obj.size
               /\ slave'.at >= End(Len(Pipe))'
               /\ (Pipe' # <<>> \/ ~lost' => slave'.at = End(Len(Pipe))')
    <2>1. /\ \A k \in 1 .. Len(Pipe) : Pipe[k].kind = "SEG_UP"
          /\ slave.call = call.n /\ slave.size = call.obj.size
          /\ slave.at = End(Len(Pipe))
      BY <1>1, <1>7 DEF SegmentsInv
    <2>2. CASE Len(Pipe) = 1
      <3>1. Len(Pipe') = 0 /\ End(Len(Pipe))' = hp'
        BY <1>1, <1>2, <2>2 DEF End
      <3>2. hp' <= End(1) /\ (~lost' => hp' = End(1)) /\ End(1) \in Nat
        BY <1>1, <1>2, <2>1
      <3> QED
        BY <1>1, <1>2, <2>1, <2>2, <3>1, <3>2
    <2>3. CASE Len(Pipe) # 1
      <3>1. /\ Len(Pipe) - 1 \in 1 .. Len(Pipe) - 1 /\ (Len(Pipe) - 1) + 1 = Len(Pipe)
            /\ Len(Pipe) \in 1 .. Len(Pipe)
        BY <1>1, <2>3
      <3>2. Pipe'[Len(Pipe')] = Pipe[Len(Pipe)]
        BY <1>1, <3>1
      <3>3. Len(Pipe') # 0 /\ Pipe' # <<>>
        BY <1>1, <2>3
      <3>4. End(Len(Pipe))' = Pipe'[Len(Pipe')].from + DataIn(Pipe'[Len(Pipe')])
        BY <3>3 DEF End
      <3>5. End(Len(Pipe))' = End(Len(Pipe)) /\ End(Len(Pipe)) \in Nat
        BY <1>2, <3>1, <3>2, <3>4
      <3> QED
        BY <1>1, <1>7, <2>1, <3>5
    <2> QED
      BY <2>2, <2>3
  <1> QED
    BY <1>4, <1>5, <1>6, <1>7 DEF SegmentsInv

\* A segment more is under way, or an abort.
LEMMA SegmentsSent ==
  ASSUME TypeInv, SegmentsInv, NEW m, Answered(m),
         \/ m.kind = "ABORT" /\ slave'.op = "none"
         \/ /\ m.kind = "SEG_UP" /\ slave.op = "up" /\ m.call = slave.call /\ m.from = slave.at
            /\ m.from + DataIn(m) <= slave.size
            /\ m.last => m.from + DataIn(m) = slave.size
            /\ slave'.at = m.from + DataIn(m)
            /\ slave'.call = slave.call /\ slave'.size = slave.size
  PROVE  SegmentsInv'
  <1>0. PICK l : l = Len(Pipe)
    OBVIOUS
  <1>1. /\ l \in Nat /\ Len(Pipe') = l + 1 /\ Pipe' # <<>> /\ Answer(m)
        /\ \A k \in 1 .. l : Pipe'[k] = Pipe[k]
        /\ Pipe'[l + 1] = m
        /\ in' = None /\ UNCHANGED <<call, hp, lost>>
        /\ Pipe = <<>> <=> l = 0
    BY <1>0, PipeType DEF Answered
  <1>2. /\ hp \in Nat /\ End(0)' = hp /\ End(0) = hp
        /\ \A k \in 1 .. l : /\ End(k) = Pipe[k].from + DataIn(Pipe[k])
                             /\ Pipe[k].from \in Nat /\ End(k) \in Nat
    BY <1>0, <1>1, EndIs DEF End
  <1>3. \A k \in 0 .. l : End(k)' = End(k) /\ End(k) \in Nat
    <2> TAKE k \in 0 .. l
    <2>1. CASE k = 0
      BY <1>2, <2>1
    <2>2. CASE k # 0
      <3>1. k \in 1 .. l /\ Pipe'[k] = Pipe[k]
        BY <1>1, <2>2
      <3> QED
        BY <1>2, <2>2, <3>1 DEF End
    <2> QED
      BY <2>1, <2>2
  <1>4. in'.kind \in {"none", "SEG_UP_REQ"}
    BY <1>1 DEF None
  <1>5. \A k \in 1 .. l + 1 : Pipe'[k].kind \in {"SEG_UP", "ABORT"}
    <2> TAKE k \in 1 .. l + 1
    <2>1. k = l + 1 \/ k \in 1 .. l
      BY <1>1
    <2> QED
      BY <1>0, <1>1, <2>1 DEF SegmentsInv
  <1>6. m.from \in Nat /\ DataIn(m) \in Nat
    BY <1>1, DataInNat DEF Answer, Numbers
  <1>7. l + 1 # 0
    BY <1>1
  <1>8. End(l + 1)' = m.from + DataIn(m) /\ End(Len(Pipe))' = m.from + DataIn(m)
    BY <1>1, <1>7 DEF End
  <1>9. slave.op = "up" =>
          /\ \A k \in 1 .. l : Pipe[k].kind = "SEG_UP"
          /\ slave.call = call.n /\ slave.size = call.obj.size
          /\ slave.at >= End(l) /\ (l # 0 \/ ~lost => slave.at = End(l))
    BY <1>0, <1>1 DEF SegmentsInv
  <1>10. ASSUME NEW k \in 1 .. l + 1, Pipe'[k].kind = "SEG_UP"
         PROVE  /\ \A j \in 1 .. k - 1 : Pipe'[j].kind = "SEG_UP"
                /\ Pipe'[k].call = call'.n
                /\ Pipe'[k].from >= End(k - 1)' /\ (k > 1 \/ ~lost' => Pipe'[k].from = End(k - 1)')
                /\ End(k)' <= call'.obj.size /\ (Pipe'[k].last => End(k)' = call'.obj.size)
    <2>1. CASE k \in 1 .. l
      <3>1. k - 1 \in 0 .. l /\ k \in 0 .. l /\ \A j \in 1 .. k - 1 : j \in 1 .. l
        BY <1>1, <2>1
      <3>2. Pipe'[k] = Pipe[k] /\ End(k)' = End(k) /\ End(k - 1)' = End(k - 1)
        BY <1>1, <1>3, <2>1, <3>1
      <3>3. /\ \A j \in 1 .. k - 1 : Pipe[j].kind = "SEG_UP"
            /\ Pipe[k].call = call.n
            /\ Pipe[k].from >= End(k - 1) /\ (k > 1 \/ ~lost => Pipe[k].from = End(k - 1))
            /\ End(k) <= call.obj.size /\ (Pipe[k].last => End(k) = call.obj.size)
        BY <1>0, <1>10, <2>1, <3>2 DEF SegmentsInv
      <3> QED
        BY <1>1, <3>1, <3>2, <3>3
    <2>2. CASE k = l + 1
      <3>1. Pipe'[k] = m /\ k - 1 = l /\ l \in 0 .. l /\ m.kind = "SEG_UP"
        BY <1>1, <1>10, <2>2
      <3>2. End(k)' = m.from + DataIn(m) /\ End(k - 1)' = End(l) /\ End(l) \in Nat
        BY <1>3, <1>8, <2>2, <3>1
      <3>3. k > 1 <=> l # 0
        BY <1>1, <2>2
      <3>4. \A j \in 1 .. k - 1 : Pipe'[j].kind = "SEG_UP"
        BY <1>1, <1>9, <3>1
      <3>5. m.from >= End(l) /\ (l # 0 \/ ~lost => m.from = End(l))
        BY <1>9, <3>1
      <3> QED
        BY <1>1, <1>9, <3>1, <3>2, <3>3, <3>4, <3>5
    <2> QED
      BY <1>1, <2>1, <2>2
  <1>11. ASSUME slave'.op = "up"
         PROVE  /\ \A k \in 1 .. l + 1 : Pipe'[k].kind = "SEG_UP"
                /\ slave'.call = call'.n /\ slave'.size = call'.obj.size
                /\ slave'.at = End(Len(Pipe))'
    <2>1. /\ m.kind = "SEG_UP" /\ slave.op = "up"
          /\ slave'.at = m.from + DataIn(m) /\ slave'.call = slave.call /\ slave'.size = slave.size
      BY <1>11
    <2>2. \A k \in 1 .. l + 1 : k = l + 1 \/ k \in 1 .. l
      BY <1>1
    <2> QED
      BY <1>1, <1>8, <1>9, <2>1, <2>2
  <1>12. End(Len(Pipe))' \in Nat
    BY <1>6, <1>8
  <1>13. slave'.op = "up" => slave'.at >= End(Len(Pipe))'
    BY <1>11, <1>12
  <1> QED
    BY <1>1, <1>4, <1>5, <1>10, <1>11, <1>13 DEF SegmentsInv

\* The steps of the loop of ecx_SDOread keep the invariant.
LEMMA ReadLoopStep ==
  ASSUME TypeInv, TypeInv', TransferInv,
         ReadSegmentRequest \/ ReadSegment \/ ReadBadSegment \/ ReadNoSegment
  PROVE  TransferInv'
  <1>0. /\ call.size \in Nat /\ hp \in Nat /\ hp' \in Nat /\ data \in Pieces
        /\ call.op = "READ" => call.obj.size \in Nat
    BY CoEAssumption DEF TypeInv, CallOK, LocalsOK
  <1>1. /\ call.op = "READ" /\ pc \in {"segment", "segresponse"} /\ call' = call /\ stale' = stale
    BY DEF ReadSegmentRequest, ReadSegment, ReadBadSegment, ReadNoSegment, Receive, ReceiveNothing
  <1>2. CASE stale
    BY <1>1, <1>2, Stale
  <1>3. CASE ~stale
    <2>0. /\ hp <= call.obj.size /\ call.obj.size <= call.size
          /\ ~lost => Covers(call.n, data, hp)
          /\ SegmentsInv
          /\ hp <= call.size
      BY <1>0, <1>1, <1>3, WholeCovers DEF TransferInv, ReadInv
    <2>1. ASSUME pc' \in {"segment", "segresponse"}, SegmentsInv', hp' <= call.obj.size,
                 ~lost' => Covers(call.n, data', hp')
          PROVE  TransferInv'
      <3>1. ReadInv'
        BY <1>1, <2>0, <2>1, WholeCovers DEF ReadInv
      <3>2. hp' <= call'.size
        BY <1>0, <1>1, <2>0, <2>1
      <3>3. RequestInv' /\ ReadResponseInv' /\ ReadWhole'
        BY <2>1, <3>2 DEF RequestInv, ReadResponseInv, ReadWhole, Ended
      <3> QED
        BY <1>1, <3>1, <3>3, OfRead
    <2>2. CASE ReadSegmentRequest
      <3> DEFINE m == [None EXCEPT !.kind = "SEG_UP_REQ", !.toggle = toggle]
      <3>1. /\ UNCHANGED <<call, hp, data, out, slave, lost>> /\ pc' \in {"segment", "segresponse"}
            /\ Sent(m) \/ NotSent(m)
        BY <2>2 DEF ReadSegmentRequest
      <3>2. m.kind = "SEG_UP_REQ"
        BY DEF None
      <3> HIDE DEF m
      <3>3. in'.kind \in {"none", "SEG_UP_REQ"}
        BY <2>0, <3>1, <3>2 DEF Sent, NotSent, SegmentsInv, None
      <3>4. Pipe' = Pipe
        BY <3>1, PipeSame
      <3>5. SegmentsInv'
        BY <2>0, <3>1, <3>3, <3>4 DEF SegmentsInv, End
      <3> QED
        BY <2>0, <2>1, <3>1, <3>5
    <2>3. CASE ReadSegment
      <3>1. /\ out # None /\ out' = None /\ Answer(out) /\ out.kind = "SEG_UP" /\ UNCHANGED <<in, slave, lost>>
        BY <2>3, ReceivedIs DEF ReadSegment, Unnamed
      <3>2. /\ data' = Append(data, Piece(out, DataIn(out)))
            /\ hp' = hp + DataIn(out)
            /\ \/ out.last /\ pc' = "idle" /\ wkc' = "ok"
               \/ ~out.last /\ pc' = "segment"
        BY <2>3 DEF ReadSegment, Return
      <3>3. Pipe[1] = out /\ Len(Pipe) \in Nat /\ Len(Pipe) >= 1
        BY <3>1, PipeRead
      <3>4. /\ out.call = call.n /\ End(0) = hp /\ End(1) = out.from + DataIn(out)
            /\ out.from \in Nat /\ DataIn(out) \in Nat /\ End(1) \in Nat
            /\ out.from >= End(0) /\ (~lost => out.from = End(0))
            /\ End(1) <= call.obj.size /\ (out.last => End(1) = call.obj.size)
        <4>1. 1 \in 1 .. Len(Pipe) /\ 1 - 1 = 0
          BY <3>3
        <4>2. /\ End(0) = hp /\ End(1) = out.from + DataIn(out)
              /\ out.from \in Nat /\ DataIn(out) \in Nat /\ End(1) \in Nat
          BY <3>3, <4>1, EndIs
        <4>3. /\ out.call = call.n
              /\ out.from >= End(0) /\ (~lost => out.from = End(0))
              /\ End(1) <= call.obj.size /\ (out.last => End(1) = call.obj.size)
          BY <2>0, <3>1, <3>3, <4>1 DEF SegmentsInv
        <4> QED
          BY <4>2, <4>3
      <3>5. hp' <= End(1) /\ (~lost => hp' = End(1)) /\ hp' <= call.obj.size
        BY <1>0, <1>1, <3>2, <3>4
      <3>6. ~lost => Covers(call.n, data', hp')
        <4>1. Piece(out, DataIn(out)) \in [call : Nat, from : Nat, len : Nat]
          BY <3>1, <3>4 DEF Piece, Answer, Numbers
        <4>2. /\ Piece(out, DataIn(out)).call = call.n /\ Piece(out, DataIn(out)).from = out.from
              /\ Piece(out, DataIn(out)).len = DataIn(out)
          BY <3>4 DEF Piece
        <4> QED
          BY <1>0, <2>0, <3>2, <3>4, <4>1, <4>2, CoversMore
      <3>7. CASE out.last
        <4>1. pc' = "idle" /\ (~lost => hp' = call.obj.size)
          BY <3>2, <3>4, <3>5, <3>7
        <4>2. ~lost' => Whole(data, call.obj.size)'
          BY <1>1, <3>1, <3>6, <4>1, WholeCovers
        <4>3. hp' <= call'.size
          BY <1>0, <1>1, <2>0, <3>5
        <4>4. ReadWhole'
          BY <1>1, <4>2, <4>3 DEF ReadWhole, Ended
        <4>5. RequestInv' /\ ReadResponseInv' /\ ReadInv'
          BY <4>1 DEF RequestInv, ReadResponseInv, ReadInv
        <4> QED
          BY <1>1, <4>4, <4>5, OfRead
      <3>8. CASE ~out.last
        <4>1. SegmentsInv'
          BY <1>1, <2>0, <3>1, <3>5, SegmentsTaken
        <4> QED
          BY <2>1, <3>1, <3>2, <3>5, <3>6, <3>8, <4>1
      <3> QED
        BY <3>7, <3>8
    <2>4. CASE ReadBadSegment
      <3>1. pc' = "idle" /\ wkc' = "error" /\ hp' = hp
        BY <2>4 DEF ReadBadSegment, Return
      <3> QED
        BY <1>1, <2>0, <3>1, Failed
    <2>5. CASE ReadNoSegment
      <3>1. /\ ReceiveNothing /\ UNCHANGED <<hp, data>> /\ pc' = "segment"
            /\ UNCHANGED <<in, slave>>
        BY <2>5 DEF ReadNoSegment, ReceiveNothing
      <3>2. CASE UNCHANGED <<out, lost>>
        <4>1. Pipe' = Pipe
          BY <3>1, <3>2, PipeSame
        <4>2. SegmentsInv'
          BY <1>1, <2>0, <3>1, <3>2, <4>1 DEF SegmentsInv, End
        <4> QED
          BY <2>0, <2>1, <3>1, <3>2, <4>2
      <3>3. CASE out # None /\ out' = None /\ lost' = TRUE
        <4>1. Len(Pipe) \in Nat /\ Len(Pipe) >= 1
          BY <3>1, <3>3, PipeRead
        <4>2. Pipe[1].kind = "SEG_UP" => hp' <= End(1)
          <5>1. 1 \in 1 .. Len(Pipe) /\ 1 - 1 = 0
            BY <4>1
          <5>2. /\ End(0) = hp /\ End(1) = Pipe[1].from + DataIn(Pipe[1])
                /\ Pipe[1].from \in Nat /\ DataIn(Pipe[1]) \in Nat
            BY <5>1, EndIs
          <5>3. Pipe[1].kind = "SEG_UP" => Pipe[1].from >= End(0)
            BY <2>0, <5>1 DEF SegmentsInv
          <5> QED
            BY <1>0, <3>1, <5>2, <5>3
        <4>3. SegmentsInv'
          BY <1>1, <2>0, <3>1, <3>3, <4>2, SegmentsTaken
        <4> QED
          BY <2>0, <2>1, <3>1, <3>3, <4>3
      <3> QED
        BY <3>1, <3>2, <3>3 DEF ReceiveNothing
    <2> QED
      BY <2>2, <2>3, <2>4, <2>5
  <1> QED
    BY <1>2, <1>3

-----------------------------------------------------------------------------
(* Steps of the slave                                                      *)

\* A step of the slave is another one for each kind of request, and leaves the master alone.
SlaveStep == Slave \/ SlaveList \/ SlaveDescription \/ SlaveEntry
Posted == Pipe' = Pipe /\ in' = in /\ Becomes(slave)

\* What the slave does with each request.
LEMMA SlaveChoice ==
  ASSUME TypeInv, SlaveStep
  PROVE  /\ TypeInv'
         /\ UNCHANGED <<pc, call, hp, data, NotLast, wkc, stale, missed, lost>>
         /\ \/ Posted \/ SlaveAbort
            \/ in.kind = "UP_REQ" /\ SlaveUpload
            \/ in.kind = "SEG_UP_REQ" /\ SlaveUploadSegment
            \/ in.kind \in {"DOWN_EXP_REQ", "DOWN_REQ"} /\ SlaveDownload
            \/ in.kind = "SEG_DOWN_REQ" /\ SlaveDownloadSegment
            \/ in.kind = "TXPDO_RR" /\ SlaveTxPDO
            \/ in.kind = "RXPDO" /\ SlaveRxPDO
            \/ in.kind = "LIST_REQ" /\ SlaveList
            \/ in.kind = "DESC_REQ" /\ SlaveDescription
            \/ in.kind = "ENTRY_REQ" /\ SlaveEntry
  <1>1. CASE SlaveUpload
    BY <1>1, UploadIs DEF Answered
  <1>2. CASE SlaveUploadSegment
    BY <1>2, UploadSegmentIs DEF Answered
  <1>3. CASE SlaveDownload
    BY <1>3, DownloadIs DEF Answered
  <1>4. CASE SlaveDownloadSegment
    BY <1>4, DownloadSegmentIs DEF Answered
  <1>5. CASE SlaveTxPDO
    BY <1>5, TxPDOIs DEF Answered
  <1>6. CASE SlaveRxPDO
    BY <1>6, RxPDOIs
  <1>7. CASE SlaveAbort
    BY <1>7, AbortIs DEF Answered
  <1>8. CASE SlaveAnswer
    BY <1>8, PostedIs DEF Posted
  <1>9. CASE SlaveList
    BY <1>9, ListedIs
  <1>10. CASE SlaveDescription
    BY <1>10, DescriptionIs DEF Answered
  <1>11. CASE SlaveEntry
    BY <1>11, EntryIs DEF Answered
  <1> QED
    BY <1>1, <1>2, <1>3, <1>4, <1>5, <1>6, <1>7, <1>8, <1>9, <1>10, <1>11 DEF SlaveStep, Slave

\* Without a request the slave can at most put an answer in the mailbox.
LEMMA NothingAsked ==
  ASSUME TypeInv, SlaveStep, in = None
  PROVE  Posted
  <1>1. in.kind = "none"
    BY DEF None
  <1> QED
    BY <1>1, SlaveChoice, AbortIs

\* An answer put in the mailbox changes nothing for a call.
LEMMA PostedStep ==
  ASSUME TypeInv, TransferInv, Posted, UNCHANGED <<pc, call, hp, data, NotLast, wkc, stale, missed, lost>>
  PROVE  TransferInv'
  <1>1. /\ Pipe' = Pipe /\ in' = in
        /\ slave'.op = slave.op /\ slave'.call = slave.call /\ slave'.size = slave.size
        /\ slave'.pieces = slave.pieces /\ slave'.at = slave.at /\ slave'.done = slave.done
    BY DEF Posted, Becomes
  <1>2. RequestInv' /\ TxPDOInv' /\ ReadWhole'
    BY <1>1 DEF TransferInv, RequestInv, TxPDOInv, ReadWhole, NotTaken, OneAnswer, Ended, Whole
  <1>3. ReadResponseInv'
    BY <1>1 DEF TransferInv, ReadResponseInv, NotTaken, OneAnswer, Uploaded
  <1>4. ReadInv'
    BY <1>1 DEF TransferInv, ReadInv, SegmentsInv, End, Whole
  <1>5. WriteResponseInv' /\ WriteSegmentInv' /\ WriteSentInv'
    BY <1>1 DEF TransferInv, WriteResponseInv, WriteSegmentInv, WriteSentInv, InWrite, NotTaken, OneAnswer,
                Stored, Whole
  <1>6. RxPDOInv' /\ WrittenInv'
    BY <1>1 DEF TransferInv, RxPDOInv, WrittenInv, InWrite, Ended, Whole
  <1> QED
    BY <1>2, <1>3, <1>4, <1>5, <1>6 DEF TransferInv

\* The slave's steps keep the invariant of reading.
LEMMA ReadSlaveStep ==
  ASSUME TypeInv, TransferInv, SlaveStep, call.op = "READ"
  PROVE  TransferInv'
  <1>1. TypeInv' /\ UNCHANGED <<pc, call, hp, data, NotLast, wkc, stale, missed, lost>>
    BY SlaveChoice
  <1>2. CASE Posted
    BY <1>1, <1>2, PostedStep
  <1>3. CASE stale
    BY <1>1, <1>3, Stale
  <1>4. CASE ~Posted /\ ~stale
    <2>1. in # None /\ ReadWhole'
      BY <1>1, <1>4, NothingAsked DEF TransferInv, ReadWhole, Ended, Whole
    <2>2. RequestInv'
      BY <1>1, <1>4, <2>1 DEF TransferInv, RequestInv
    <2>3. ReadResponseInv'
      <3>1. CASE pc # "response"
        BY <1>1, <3>1 DEF ReadResponseInv
      <3>2. CASE pc = "response"
        <4>1. /\ Pipe = <<>> /\ in.kind = "UP_REQ" /\ in.call = call.n
              /\ in.index = call.obj.index /\ in.sub = call.obj.sub
          BY <1>4, <2>1, <3>2 DEF TransferInv, ReadResponseInv, NotTaken, OneAnswer
        <4>2. Len(Pipe) = 0
          BY <4>1, EmptyIsSeq
        <4>3. CASE SlaveAbort
          <5>1. PICK m : Answered(m) /\ m.kind = "ABORT"
            BY <4>3, AbortIs
          <5>2. OneAnswer' /\ Pipe'[1] = m
            BY <4>2, <5>1 DEF Answered, OneAnswer
          <5>3. Uploaded(Pipe[1])'
            BY <5>1, <5>2 DEF Uploaded
          <5> QED
            BY <5>2, <5>3 DEF ReadResponseInv
        <4>4. CASE SlaveUpload
          <5>1. PICK o, m :
                  /\ o \in Objects /\ o.index = in.index /\ o.sub = in.sub
                  /\ Answered(m)
                  /\ m.kind \in {"UP_EXP", "UP"} /\ m.index = o.index /\ m.call = in.call /\ m.from = 0
                  /\ m.size = o.size
                  /\ m.kind = "UP_EXP" => m.len = m.size
                  /\ m.kind = "UP" =>
                        /\ m.len <= m.size
                        /\ m.len < m.size => /\ slave'.op = "up" /\ slave'.call = in.call
                                             /\ slave'.size = m.size /\ slave'.at = m.len
            BY <4>4, UploadIs
          <5>2. o = call.obj
            BY <4>1, <5>1, CoEAssumption DEF TypeInv, CallOK
          <5>3. OneAnswer' /\ Pipe'[1] = m
            BY <4>2, <5>1 DEF Answered, OneAnswer
          <5>4. Uploaded(Pipe[1])'
            BY <1>1, <4>1, <5>1, <5>2, <5>3 DEF Uploaded
          <5> QED
            BY <5>3, <5>4 DEF ReadResponseInv
        <4> QED
          BY <1>4, <4>1, <4>3, <4>4, SlaveChoice
      <3> QED
        BY <3>1, <3>2
    <2>4. ReadInv'
      <3>1. CASE pc \notin {"segment", "segresponse"}
        BY <1>1, <3>1 DEF ReadInv
      <3>2. CASE pc \in {"segment", "segresponse"}
        <4>1. /\ hp <= call.obj.size /\ call.obj.size <= call.size
              /\ ~lost => Whole(data, hp)
              /\ SegmentsInv
          BY <1>4, <3>2 DEF TransferInv, ReadInv
        <4>2. ASSUME SlaveAbort PROVE SegmentsInv'
          <5>1. PICK m : Answered(m) /\ m.kind = "ABORT"
            BY <4>2, AbortIs
          <5>2. slave'.op = "none"
            BY <4>2, AbortIs
          <5> QED
            BY <4>1, <5>1, <5>2, SegmentsSent
        <4>3. ASSUME SlaveUploadSegment PROVE SegmentsInv'
          <5>1. slave.op = "up"
            BY <4>3, UploadSegmentIs
          <5>2. PICK m : /\ Answered(m)
                         /\ m.kind = "SEG_UP" /\ m.call = slave.call /\ m.from = slave.at
                         /\ m.from + DataIn(m) <= slave.size
                         /\ m.last => m.from + DataIn(m) = slave.size
                         /\ slave'.at = m.from + DataIn(m)
                         /\ slave'.op = "up" => ~m.last
                         /\ slave'.call = slave.call /\ slave'.size = slave.size
            BY <4>3, UploadSegmentIs
          <5> QED
            BY <4>1, <5>1, <5>2, SegmentsSent
        <4>4. SegmentsInv'
          <5>1. in.kind \in {"none", "SEG_UP_REQ"}
            BY <4>1 DEF SegmentsInv
          <5>2. SlaveAbort \/ SlaveUploadSegment
            BY <1>4, <5>1, SlaveChoice
          <5> QED
            BY <4>2, <4>3, <5>2
        <4>5. ~lost' => Whole(data, hp)'
          BY <1>1, <4>1 DEF Whole
        <4> QED
          BY <1>1, <4>1, <4>4, <4>5 DEF ReadInv
      <3> QED
        BY <3>1, <3>2
    <2> QED
      BY <1>1, <2>1, <2>2, <2>3, <2>4, OfRead
  <1> QED
    BY <1>2, <1>3, <1>4

-----------------------------------------------------------------------------
(* Process data over the mailbox                                           *)

\* The steps of ecx_TxPDO keep the invariant.
LEMMA TxPDOStep ==
  ASSUME TypeInv, TypeInv', TransferInv, TxPDORequest \/ TxPDOResponse \/ TxPDOBadResponse
  PROVE  TransferInv'
  <1>0. call.n \in Nat /\ call.size \in Nat /\ hp \in Nat
    BY CoEAssumption DEF TypeInv, CallOK, LocalsOK
  <1>1. call.op = "TXPDO" /\ call' = call /\ stale' = stale
    BY DEF TxPDORequest, TxPDOResponse, TxPDOBadResponse, Receive, locals
  <1>2. CASE stale
    BY <1>1, <1>2, Stale
  <1>3. CASE ~stale /\ TxPDORequest
    <2> DEFINE m == [Sdo("TXPDO_RR", call.obj) EXCEPT !.call = call.n]
    <2>1. /\ pc = "request" /\ UNCHANGED <<hp, out, slave>>
          /\ \/ Sent(m) /\ pc' = "response"
             \/ NotSent(m) /\ pc' = "idle" /\ wkc' = "none"
      BY <1>3 DEF TxPDORequest, Return, locals
    <2>2. Pipe' = Pipe /\ hp = 0 /\ Pipe = <<>>
      BY <1>3, <2>1, PipeSame DEF TypeInv, LocalsOK, TransferInv, RequestInv
    <2>3. CASE pc' = "idle"
      BY <1>0, <1>1, <2>1, <2>2, <2>3, Failed
    <2>4. CASE pc' # "idle"
      <3>1. in' = m /\ pc' = "response"
        BY <2>1, <2>4 DEF Sent
      <3>2. m.kind = "TXPDO_RR" /\ m.call = call.n /\ m.index = call.obj.index
        BY DEF Sdo, None
      <3> HIDE DEF m
      <3>3. TxPDOInv'
        BY <1>1, <2>2, <3>1, <3>2 DEF TxPDOInv, NotTaken
      <3>4. RequestInv' /\ ReadWhole'
        BY <1>0, <1>1, <2>1, <2>2, <3>1 DEF RequestInv, ReadWhole, Ended
      <3> QED
        BY <1>1, <3>3, <3>4, OfTxPDO
    <2> QED
      BY <2>3, <2>4
  <1>4. CASE ~stale /\ TxPDOResponse
    <2>1. /\ pc = "response" /\ pc' = "idle" /\ hp = 0
          /\ out # None /\ out' = None /\ Answer(out) /\ out.kind = "TXPDO"
      BY <1>1, <1>4, ReceivedIs DEF TxPDOResponse, Unnamed, TypeInv, LocalsOK, Return
    <2>2. CASE ~Fits(out.len)
      <3>1. wkc' = "error" /\ hp' = hp
        BY <1>4, <2>2 DEF TxPDOResponse, Return
      <3> QED
        BY <1>0, <1>1, <2>1, <3>1, Failed
    <2>3. CASE Fits(out.len)
      <3>1. data' = <<Piece(out, out.len)>> /\ hp' = out.len
        BY <1>4, <2>3 DEF TxPDOResponse
      <3>2. Pipe[1] = out /\ Pipe # <<>>
        BY <2>1, <1>4, PipeRead DEF TxPDOResponse, Receive
      <3>3. out.call = call.n /\ out.from = 0 /\ out.len = call.obj.size
        BY <1>1, <1>4, <2>1, <3>2 DEF TransferInv, TxPDOInv, NotTaken
      <3>4. out.len \in Nat /\ out.len <= call.size
        BY <2>1, <2>3 DEF Answer, Numbers, Fits
      <3>5. Covers(call.n, data', call.obj.size)
        <4>1. /\ Piece(out, out.len).call = call.n /\ Piece(out, out.len).from = 0
              /\ Piece(out, out.len).len = out.len
          BY <3>3 DEF Piece
        <4> QED
          BY <3>1, <3>3, <3>4, <4>1, CoversOne
      <3>6. ReadWhole'
        BY <1>0, <1>1, <3>1, <3>4, <3>5, WholeCovers DEF ReadWhole, Ended
      <3>7. RequestInv' /\ TxPDOInv'
        BY <2>1 DEF RequestInv, TxPDOInv
      <3> QED
        BY <1>1, <3>6, <3>7, OfTxPDO
    <2> QED
      BY <2>2, <2>3
  <1>5. CASE ~stale /\ TxPDOBadResponse
    <2>1. pc' = "idle" /\ wkc' = "error" /\ hp' = hp /\ hp = 0
      BY <1>1, <1>5 DEF TxPDOBadResponse, Return, locals, TypeInv, LocalsOK
    <2> QED
      BY <1>0, <1>1, <2>1, Failed
  <1> QED
    BY <1>2, <1>3, <1>4, <1>5

\* The slave's steps keep it.
LEMMA TxPDOSlaveStep ==
  ASSUME TypeInv, TransferInv, SlaveStep, call.op = "TXPDO"
  PROVE  TransferInv'
  <1>1. TypeInv' /\ UNCHANGED <<pc, call, hp, data, NotLast, wkc, stale, missed, lost>>
    BY SlaveChoice
  <1>2. CASE Posted
    BY <1>1, <1>2, PostedStep
  <1>3. CASE stale
    BY <1>1, <1>3, Stale
  <1>4. CASE ~Posted /\ ~stale
    <2>1. in # None /\ ReadWhole'
      BY <1>1, <1>4, NothingAsked DEF TransferInv, ReadWhole, Ended, Whole
    <2>2. RequestInv'
      BY <1>1, <1>4, <2>1 DEF TransferInv, RequestInv
    <2>3. TxPDOInv'
      <3>1. CASE pc # "response"
        BY <1>1, <3>1 DEF TxPDOInv
      <3>2. CASE pc = "response"
        <4>1. Pipe = <<>> /\ in.kind = "TXPDO_RR" /\ in.call = call.n /\ in.index = call.obj.index
          BY <1>4, <2>1, <3>2 DEF TransferInv, TxPDOInv, NotTaken, OneAnswer
        <4>2. Len(Pipe) = 0
          BY <4>1, EmptyIsSeq
        <4>3. CASE SlaveAbort
          <5>1. PICK m : Answered(m) /\ m.kind = "ABORT"
            BY <4>3, AbortIs
          <5>2. OneAnswer' /\ Pipe'[1] = m
            BY <4>2, <5>1 DEF Answered, OneAnswer
          <5> QED
            BY <5>1, <5>2 DEF TxPDOInv
        <4>4. CASE SlaveTxPDO
          <5>1. PICK o, m :
                  /\ o \in Pdos /\ Answered(m) /\ o.index = in.index
                  /\ m.kind = "TXPDO" /\ m.call = in.call /\ m.from = 0 /\ m.len = o.size
            BY <4>4, TxPDOIs
          <5>2. o = call.obj
            BY <4>1, <5>1, CoEAssumption DEF TypeInv, CallOK
          <5>3. OneAnswer' /\ Pipe'[1] = m
            BY <4>2, <5>1 DEF Answered, OneAnswer
          <5> QED
            BY <1>1, <4>1, <5>1, <5>2, <5>3 DEF TxPDOInv
        <4> QED
          BY <1>4, <4>1, <4>3, <4>4, SlaveChoice
      <3> QED
        BY <3>1, <3>2
    <2> QED
      BY <1>1, <2>1, <2>2, <2>3, OfTxPDO
  <1> QED
    BY <1>2, <1>3, <1>4

\* ecx_RxPDO sends as much of the PDO as fits.
LEMMA RxPDOStep ==
  ASSUME TypeInv, TypeInv', TransferInv, RxPDO
  PROVE  TransferInv'
  <1> DEFINE len == FrameData(maxdata + 8)
             m == Carrying(Sdo("RXPDO", call.obj), call.n, 0, len, len)
  <1>1. /\ pc = "request" /\ call.op = "RXPDO" /\ hp = 0 /\ pc' = "idle" /\ call' = call
        /\ Sent(m) \/ (NotSent(m) /\ wkc' = "none")
    BY DEF RxPDO, Return, locals, TypeInv, LocalsOK
  <1>2. CASE wkc' = "none"
    BY <1>1, <1>2, Failed
  <1>3. CASE wkc' # "none"
    <2>1. in' = m
      BY <1>1, <1>3 DEF Sent
    <2>2. m.kind = "RXPDO" /\ m.call = call.n /\ m.from = 0 /\ m.len = len
      BY DEF Carrying, Sdo, None
    <2>3. maxdata + 8 \in Nat /\ call.size \in Nat /\ hp <= call.size
      BY <1>1, CoEAssumption DEF TypeInv, CallOK
    <2>4. len \in Nat /\ (call.size < Width => len = Least(call.size, maxdata + 8))
      <3>1. /\ FrameData(maxdata + 8) \in Nat
            /\ call.size < Width => FrameData(maxdata + 8) = IF Left > maxdata + 8 THEN maxdata + 8 ELSE Left
        BY <1>1, <2>3, FrameDataIs
      <3>2. Left = call.size
        BY <1>1, <2>3 DEF Left
      <3> QED
        BY <2>3, <3>1, <3>2 DEF Least
    <2> HIDE DEF m, len
    <2>5. Covers(call.n, <<Piece(m, m.len)>>, len)
      <3>1. Piece(m, m.len).call = call.n /\ Piece(m, m.len).from = 0 /\ Piece(m, m.len).len = len
        BY <2>2 DEF Piece
      <3> QED
        BY <2>4, <3>1, CoversOne
    <2>6. in'.kind = "RXPDO"
      BY <2>1, <2>2
    <2>7. call.size < Width => Covers(call.n, <<Piece(in', in'.len)>>, Least(call.size, maxdata + 8))
      BY <2>1, <2>4, <2>5
    <2>8. RxPDOInv'
      BY <1>1, <2>6, <2>7, WholeCovers DEF RxPDOInv
    <2>9. RequestInv'
      BY <1>1 DEF RequestInv
    <2> QED
      BY <1>1, <2>8, <2>9, OfRxPDO
  <1> QED
    BY <1>2, <1>3

\* What has been sent arrives.
LEMMA RxPDOSlaveStep ==
  ASSUME TypeInv, TransferInv, SlaveStep, call.op = "RXPDO"
  PROVE  TransferInv'
  <1>1. TypeInv' /\ UNCHANGED <<pc, call, hp, data, NotLast, wkc, stale, missed, lost>>
    BY SlaveChoice
  <1>2. CASE Posted
    BY <1>1, <1>2, PostedStep
  <1>3. CASE ~Posted
    <2>1. in # None
      BY <1>3, NothingAsked
    <2>2. RequestInv'
      BY <1>1, <2>1 DEF TransferInv, RequestInv
    <2>3. RxPDOInv'
      <3>1. CASE ~(Ended("RXPDO") /\ call.size < Width)
        BY <1>1, <3>1 DEF RxPDOInv, Ended
      <3>2. CASE Ended("RXPDO") /\ call.size < Width
        <4>1. /\ in.kind \in {"none", "RXPDO"}
              /\ Whole(IF in.kind = "RXPDO" THEN <<Piece(in, in.len)>> ELSE slave.pieces,
                       Least(call.size, maxdata + 8))
          BY <3>2 DEF TransferInv, RxPDOInv
        <4>2. in.kind = "RXPDO" /\ SlaveRxPDO
          BY <1>3, <4>1, SlaveChoice, AbortIs
        <4>3. in' = None /\ slave'.pieces = <<Piece(in, in.len)>>
          BY <4>2, RxPDOIs
        <4>4. in'.kind = "none"
          BY <4>3 DEF None
        <4>5. Covers(call.n, slave'.pieces, Least(call.size, maxdata + 8))
          BY <4>1, <4>2, <4>3, WholeCovers
        <4> QED
          BY <1>1, <4>4, <4>5, WholeCovers DEF RxPDOInv
      <3> QED
        BY <3>1, <3>2
    <2> QED
      BY <1>1, <2>2, <2>3, OfRxPDO
  <1> QED
    BY <1>2, <1>3

-----------------------------------------------------------------------------
(* Writing                                                                 *)

\* Once a message is missed nothing more is said of a write.
LEMMA Missed ==
  ASSUME call'.op = "WRITE", missed', pc' # "request"
  PROVE  TransferInv'
  BY OfWrite DEF RequestInv, WriteResponseInv, WriteSegmentInv, WriteSentInv, WrittenInv, InWrite

\* A send that fails either leaves the mailbox alone or is one that is missed.
LEMMA SendOutcome ==
  ASSUME TypeInv, NEW m, Sent(m) \/ NotSent(m)
  PROVE  \/ Sent(m) /\ in = None /\ in' = m /\ missed' = missed
         \/ NotSent(m) /\ in' = in /\ missed' = missed
         \/ NotSent(m) /\ missed'
  BY Zenon DEF Sent, NotSent

\* The first request, and its answer, keep the invariant of writing.
LEMMA WriteFirstStep ==
  ASSUME TypeInv, TypeInv', TransferInv, WriteRequest \/ WriteResponse \/ WriteBadResponse
  PROVE  TransferInv'
  <1>0. maxdata \in Nat /\ call.n \in Nat /\ call.size \in Nat /\ hp \in Nat /\ Width \in Nat
    BY CoEAssumption DEF TypeInv, CallOK, LocalsOK
  <1>1. /\ call.op = "WRITE" /\ call' = call /\ stale' = stale /\ hp <= call.size
    BY DEF WriteRequest, WriteResponse, WriteBadResponse, Receive, locals, TypeInv, LocalsOK
  <1>2. CASE WriteRequest
    <2> DEFINE exp == call.size <= 4
               len == IF exp THEN call.size ELSE FrameData(maxdata)
               kind == IF exp THEN "DOWN_EXP_REQ" ELSE "DOWN_REQ"
               m == Carrying(Sdo(kind, call.obj), call.n, 0, len, call.size)
    <2>1. /\ pc = "request" /\ hp = 0 /\ hp' = len /\ UNCHANGED <<out, slave>>
          /\ NotLast' <=> (~exp /\ Left % Width > maxdata)
          /\ \/ Sent(m) /\ pc' = "response"
             \/ NotSent(m) /\ pc' = "idle" /\ wkc' = "none"
      BY <1>2 DEF WriteRequest, Return, TypeInv, LocalsOK
    <2>2. CASE pc' = "idle"
      BY <1>1, <2>1, <2>2, Failed
    <2>3. CASE pc' # "idle" /\ InWrite'
      <3>1. /\ Sent(m) /\ in' = m /\ missed' = missed /\ pc' = "response"
        BY <2>1, <2>3 DEF Sent
      <3>2. Pipe' = Pipe /\ InWrite
        BY <1>1, <2>1, <2>3, <3>1, PipeSame DEF InWrite
      <3>3. Pipe = <<>>
        BY <2>1, <3>2 DEF TransferInv, RequestInv, InWrite
      <3>4. /\ Left = call.size
            /\ Left % Width = Left
            /\ FrameData(maxdata) = IF Left > maxdata THEN maxdata ELSE Left
        BY <1>0, <1>1, <2>1, <3>2, FrameDataIs DEF InWrite, Left
      <3>5. NotLast' <=> len < call.size
        BY <1>0, <2>1, <3>4
      <3>6. m.kind = kind /\ m.call = call.n /\ m.from = 0 /\ m.len = len /\ m.size = call.size
        BY DEF Carrying, Sdo, None
      <3>7. kind \in {"DOWN_EXP_REQ", "DOWN_REQ"}
        OBVIOUS
      <3> HIDE DEF m, len, kind
      <3>8. WriteResponseInv'
        BY <1>1, <2>1, <3>1, <3>2, <3>3, <3>5, <3>6, <3>7 DEF WriteResponseInv, NotTaken
      <3>9. RequestInv' /\ WriteSegmentInv' /\ WriteSentInv' /\ WrittenInv'
        BY <3>1 DEF RequestInv, WriteSegmentInv, WriteSentInv, WrittenInv, Ended
      <3> QED
        BY <1>1, <3>8, <3>9, OfWrite
    <2>4. CASE pc' # "idle" /\ ~InWrite'
      BY <1>1, <2>1, <2>4, OfWrite DEF RequestInv, WriteResponseInv, WriteSegmentInv, WriteSentInv, WrittenInv
    <2> QED
      BY <2>2, <2>3, <2>4
  <1>3. CASE WriteResponse
    <2>1. /\ pc = "response" /\ UNCHANGED <<hp, NotLast>>
          /\ out # None /\ out' = None /\ out.kind \in Responses /\ UNCHANGED <<in, slave, missed>>
          /\ \/ NotLast /\ pc' = "segment"
             \/ ~NotLast /\ pc' = "idle" /\ wkc' = "ok"
      <3>1. /\ out # None /\ out' = None /\ out.kind \in Responses /\ UNCHANGED <<in, slave, missed>>
        BY <1>3, ReceivedIs DEF WriteResponse
      <3> QED
        BY <1>3, <3>1 DEF WriteResponse, Return, locals
    <2>2. CASE InWrite'
      <3>1. InWrite
        BY <1>1, <2>1, <2>2 DEF InWrite
      <3>2. /\ Pipe[1] = out /\ Pipe # <<>>
            /\ Len(Pipe) = 1 => Pipe' = <<>>
        BY <2>1, PipeRead
      <3>3. /\ NotLast <=> hp < call.size
            /\ OneAnswer
            /\ Stored(hp) /\ slave.at = hp
            /\ slave.done <=> hp = call.size
        BY <2>1, <3>1, <3>2 DEF TransferInv, WriteResponseInv, NotTaken
      <3>4. in = None /\ Pipe' = <<>>
        BY <3>2, <3>3 DEF OneAnswer
      <3>5. CASE NotLast
        <4>1. Stored(hp)'
          BY <1>1, <2>1, <3>3 DEF Stored, Whole
        <4>2. WriteSegmentInv'
          BY <1>1, <2>1, <3>3, <3>4, <3>5, <4>1 DEF WriteSegmentInv
        <4>3. RequestInv' /\ WriteResponseInv' /\ WriteSentInv' /\ WrittenInv'
          BY <2>1, <3>5 DEF RequestInv, WriteResponseInv, WriteSentInv, WrittenInv, Ended
        <4> QED
          BY <1>1, <4>2, <4>3, OfWrite
      <3>6. CASE ~NotLast
        <4>1. hp = call.size
          BY <1>0, <1>1, <3>3, <3>6
        <4>2. Whole(slave.pieces, call.size)'
          BY <1>1, <2>1, <3>3, <4>1 DEF Stored, Whole
        <4>3. WrittenInv'
          BY <1>1, <2>1, <3>3, <3>4, <4>1, <4>2 DEF WrittenInv
        <4>4. RequestInv' /\ WriteResponseInv' /\ WriteSentInv' /\ WriteSegmentInv'
          BY <2>1, <3>6 DEF RequestInv, WriteResponseInv, WriteSentInv, WriteSegmentInv
        <4> QED
          BY <1>1, <4>3, <4>4, OfWrite
      <3> QED
        BY <3>5, <3>6
    <2>3. CASE ~InWrite'
      BY <1>1, <2>1, <2>3, OfWrite DEF RequestInv, WriteResponseInv, WriteSegmentInv, WriteSentInv, WrittenInv
    <2> QED
      BY <2>2, <2>3
  <1>4. CASE WriteBadResponse
    <2>1. pc' = "idle" /\ wkc' = "error"
      BY <1>4 DEF WriteBadResponse, Return
    <2> QED
      BY <1>1, <2>1, Failed
  <1> QED
    BY <1>2, <1>3, <1>4

\* The steps of the loop of ecx_SDOwrite keep the invariant.
LEMMA WriteLoopStep ==
  ASSUME TypeInv, TypeInv', TransferInv,
         \/ WriteSegment \/ WriteSegmentResponse \/ WriteBadSegmentResponse \/ WriteNoSegmentResponse
  PROVE  TransferInv'
  <1>0. maxdata \in Nat \ {0} /\ call.n \in Nat /\ call.size \in Nat /\ hp \in Nat /\ Width \in Nat
        /\ toggle \in {0, 1}
    BY CoEAssumption DEF TypeInv, CallOK, LocalsOK
  <1>1. /\ call.op = "WRITE" /\ call' = call /\ stale' = stale /\ hp <= call.size
    BY DEF WriteSegment, WriteSegmentResponse, WriteBadSegmentResponse, WriteNoSegmentResponse,
           Receive, ReceiveNothing, TypeInv, LocalsOK
  <1>2. pc' \in {"idle", "segment", "segresponse"}
    BY DEF WriteSegment, WriteSegmentResponse, WriteBadSegmentResponse, WriteNoSegmentResponse,
           NextSegment, Return
  <1>3. CASE ~InWrite'
    BY <1>1, <1>2, <1>3, OfWrite DEF RequestInv, WriteResponseInv, WriteSegmentInv, WriteSentInv, WrittenInv
  <1>4. CASE InWrite' /\ WriteSegment
    <2> DEFINE len == FrameData(maxdata + 7)
               last == ~NotLast'
               m == Segment("SEG_DOWN_REQ", call.n, hp, len, last, toggle)
    <2>1. /\ pc = "segment" /\ hp' = hp + len /\ UNCHANGED <<out, slave>>
          /\ NotLast' <=> Left % Width > maxdata + 7
          /\ \/ Sent(m) /\ pc' = "segresponse"
             \/ NotSent(m) /\ NotLast' /\ pc' = "segment"
             \/ NotSent(m) /\ pc' = "idle" /\ wkc' = "none"
      BY <1>4 DEF WriteSegment, NextSegment, Return
    <2>2. \/ Sent(m) /\ in = None /\ in' = m /\ missed' = missed
          \/ NotSent(m) /\ in' = in /\ missed' = missed
      <3>1. ~missed'
        BY <1>4 DEF InWrite
      <3> HIDE DEF m
      <3> QED
        BY <2>1, <3>1, SendOutcome
    <2>3. InWrite /\ Pipe' = Pipe
      BY <1>1, <1>4, <2>1, <2>2, PipeSame DEF InWrite
    <2>4. /\ in = None /\ Pipe = <<>> /\ hp < call.size
          /\ slave.op = "down" => Stored(hp)
      BY <2>1, <2>3 DEF TransferInv, WriteSegmentInv
    <2>5. /\ len \in Nat /\ len >= 1 /\ hp + len <= call.size
          /\ NotLast' <=> hp + len < call.size
      <3>1. Left = call.size - hp /\ Left \in Nat /\ Left >= 1
        BY <1>0, <2>4 DEF Left
      <3>2. /\ Left % Width = Left
            /\ FrameData(maxdata + 7) = IF Left > maxdata + 7 THEN maxdata + 7 ELSE Left
        BY <1>0, <1>1, <2>3, FrameDataIs DEF InWrite
      <3> HIDE DEF Left
      <3> QED
        BY <1>0, <2>1, <3>1, <3>2
    <2>6. CASE pc' = "segresponse"
      <3>1. in' = m
        BY <2>1, <2>2, <2>6 DEF Sent
      <3>2. last \in BOOLEAN /\ (last <=> ~NotLast')
        OBVIOUS
      <3> HIDE DEF last, len
      <3>3. m.kind = "SEG_DOWN_REQ" /\ m.call = call.n /\ m.from = hp /\ m.last = last /\ DataIn(m) = len
        BY <1>0, <2>5, <3>2, SegmentIs
      <3> HIDE DEF m
      <3>4. in'.kind = "SEG_DOWN_REQ" /\ in'.call = call'.n /\ in'.from = hp /\ DataIn(in') = len
            /\ (in'.last <=> ~NotLast')
        BY <1>1, <3>1, <3>2, <3>3
      <3>5. slave'.op = "down" => Stored(in.from)'
        BY <1>1, <2>1, <2>4, <3>4 DEF Stored, Whole
      <3>6. WriteSentInv'
        BY <1>1, <2>1, <2>3, <2>4, <2>5, <3>4, <3>5 DEF WriteSentInv, NotTaken
      <3>7. RequestInv' /\ WriteResponseInv' /\ WriteSegmentInv' /\ WrittenInv'
        BY <2>6 DEF RequestInv, WriteResponseInv, WriteSegmentInv, WrittenInv, Ended
      <3> QED
        BY <1>1, <3>6, <3>7, OfWrite
    <2>7. CASE pc' = "segment"
      <3>0. ~(Sent(m) /\ NotSent(m))
        <4> HIDE DEF m
        <4>1. losses \in Nat
          BY DEF TypeInv, LocalsOK
        <4> QED
          BY <4>1 DEF Sent, NotSent
      <3>1. in' = None /\ NotLast'
        <4> HIDE DEF m
        <4> QED
          BY <2>1, <2>2, <2>4, <2>7, <3>0
      <3> HIDE DEF len, m
      <3>2. ASSUME slave.op = "down" PROVE Stored(hp)'
        <4>1. slave.at <= hp /\ slave.at \in Nat
          BY <2>4, <3>2 DEF Stored, TypeInv, SlaveOK, SlaveState
        <4>2. slave.at < hp'
          BY <1>0, <2>1, <2>5, <4>1
        <4>3. hp' \in Nat
          BY DEF TypeInv, LocalsOK
        <4>4. slave'.at <= hp' /\ slave'.at # hp'
          BY <2>1, <4>1, <4>2, <4>3
        <4> QED
          BY <1>1, <2>1, <2>4, <3>2, <4>4 DEF Stored
      <3>3. WriteSegmentInv'
        BY <1>1, <2>1, <2>3, <2>4, <2>5, <3>1, <3>2 DEF WriteSegmentInv
      <3>4. RequestInv' /\ WriteResponseInv' /\ WriteSentInv' /\ WrittenInv'
        BY <2>7 DEF RequestInv, WriteResponseInv, WriteSentInv, WrittenInv, Ended
      <3> QED
        BY <1>1, <3>3, <3>4, OfWrite
    <2>8. CASE pc' = "idle"
      BY <1>1, <2>1, <2>8, Failed
    <2> QED
      BY <1>2, <2>6, <2>7, <2>8
  <1>5. CASE InWrite' /\ WriteSegmentResponse
    <2>1. /\ pc = "segresponse" /\ UNCHANGED <<hp, NotLast>>
          /\ \/ NotLast /\ pc' = "segment"
             \/ ~NotLast /\ pc' = "idle" /\ wkc' = "ok"
      BY <1>5 DEF WriteSegmentResponse, NextSegment, Return
    <2>2. /\ out # None /\ out' = None /\ out.kind = "SEG_DOWN" /\ UNCHANGED <<in, slave, missed>>
      BY <1>5, ReceivedIs DEF WriteSegmentResponse, Unnamed
    <2>3. InWrite
      BY <1>1, <1>5, <2>2 DEF InWrite
    <2>4. /\ Pipe[1] = out /\ Pipe # <<>>
          /\ Len(Pipe) = 1 => Pipe' = <<>>
      BY <2>2, PipeRead
    <2>5. /\ NotLast <=> hp < call.size
          /\ OneAnswer
          /\ Stored(hp)
          /\ ~NotLast => slave.done /\ slave.at = hp
      BY <2>1, <2>2, <2>3, <2>4 DEF TransferInv, WriteSentInv, NotTaken
    <2>6. in = None /\ Pipe' = <<>>
      BY <2>4, <2>5 DEF OneAnswer
    <2>7. CASE NotLast
      <3>1. Stored(hp)'
        BY <1>1, <2>1, <2>2, <2>5 DEF Stored, Whole
      <3>2. WriteSegmentInv'
        BY <1>1, <2>1, <2>2, <2>5, <2>6, <2>7, <3>1 DEF WriteSegmentInv
      <3>3. RequestInv' /\ WriteResponseInv' /\ WriteSentInv' /\ WrittenInv'
        BY <2>1, <2>7 DEF RequestInv, WriteResponseInv, WriteSentInv, WrittenInv, Ended
      <3> QED
        BY <1>1, <3>2, <3>3, OfWrite
    <2>8. CASE ~NotLast
      <3>1. hp = call.size
        BY <1>0, <1>1, <2>5, <2>8
      <3>2. Whole(slave.pieces, call.size)'
        BY <1>1, <2>2, <2>5, <2>8, <3>1 DEF Stored, Whole
      <3>3. WrittenInv'
        BY <1>1, <2>2, <2>5, <2>6, <2>8, <3>2 DEF WrittenInv
      <3>4. RequestInv' /\ WriteResponseInv' /\ WriteSentInv' /\ WriteSegmentInv'
        BY <2>1, <2>8 DEF RequestInv, WriteResponseInv, WriteSentInv, WriteSegmentInv
      <3> QED
        BY <1>1, <3>3, <3>4, OfWrite
    <2> QED
      BY <2>7, <2>8
  <1>6. CASE WriteBadSegmentResponse
    <2>1. pc' = "idle" /\ wkc' = "error"
      BY <1>6 DEF WriteBadSegmentResponse, NextSegment, Return
    <2> QED
      BY <1>1, <2>1, Failed
  <1>7. CASE WriteNoSegmentResponse
    <2>1. missed'
      BY <1>7, Zenon DEF WriteNoSegmentResponse, ReceiveNothing
    <2> QED
      BY <1>1, <1>2, <2>1, Missed
  <1> QED
    BY <1>3, <1>4, <1>5, <1>6, <1>7

\* The slave's steps keep it.
LEMMA WriteSlaveStep ==
  ASSUME TypeInv, TransferInv, SlaveStep, call.op = "WRITE"
  PROVE  TransferInv'
  <1>1. TypeInv' /\ UNCHANGED <<pc, call, hp, data, NotLast, wkc, stale, missed, lost>>
    BY SlaveChoice
  <1>2. CASE Posted
    BY <1>1, <1>2, PostedStep
  <1>3. CASE stale
    BY <1>1, <1>3, Stale
  <1>4. CASE ~Posted /\ ~stale
    <2>1. in # None
      BY <1>4, NothingAsked
    <2>2. RequestInv'
      BY <1>1, <1>4, <2>1 DEF TransferInv, RequestInv
    <2>3. WriteSegmentInv' /\ WrittenInv'
      BY <1>1, <2>1 DEF TransferInv, WriteSegmentInv, WrittenInv, InWrite, Ended
    <2>4. ASSUME SlaveAbort, Len(Pipe) = 0
          PROVE  OneAnswer' /\ Pipe'[1].kind = "ABORT"
      <3>1. PICK m : Answered(m) /\ m.kind = "ABORT"
        BY <2>4, AbortIs
      <3> QED
        BY <2>4, <3>1 DEF Answered, OneAnswer
    <2>5. WriteResponseInv'
      <3>1. CASE ~(InWrite /\ pc = "response")
        BY <1>1, <3>1 DEF WriteResponseInv, InWrite
      <3>2. CASE InWrite /\ pc = "response"
        <4>1. /\ NotLast <=> hp < call.size
              /\ Pipe = <<>>
              /\ in.kind \in {"DOWN_EXP_REQ", "DOWN_REQ"} /\ in.call = call.n
              /\ in.from = 0 /\ in.len = hp /\ in.size = call.size
          BY <2>1, <3>2 DEF TransferInv, WriteResponseInv, NotTaken, OneAnswer
        <4>2. Len(Pipe) = 0
          BY <4>1, EmptyIsSeq
        <4>3. CASE SlaveAbort
          BY <1>1, <2>4, <4>1, <4>2, <4>3 DEF WriteResponseInv, Responses
        <4>4. CASE SlaveDownload
          <5>1. PICK m : Answered(m) /\ m.kind = "DOWN"
            BY <4>4, DownloadIs
          <5>2. OneAnswer' /\ hp \in Nat
            BY <4>2, <5>1 DEF Answered, OneAnswer, TypeInv, LocalsOK
          <5>3. /\ slave'.op = (IF in.len < in.size THEN "down" ELSE "none")
                /\ slave'.call = in.call /\ slave'.size = in.size /\ slave'.at = in.len
                /\ slave'.pieces = <<Piece(in, in.len)>> /\ (slave'.done <=> in.len = in.size)
            BY <4>4, DownloadIs
          <5>4. Covers(call.n, slave'.pieces, hp)
            <6>1. Piece(in, in.len).call = call.n /\ Piece(in, in.len).from = 0 /\ Piece(in, in.len).len = hp
              BY <4>1 DEF Piece
            <6> QED
              BY <5>2, <5>3, <6>1, CoversOne
          <5>5. Stored(hp)'
            BY <1>1, <4>1, <5>2, <5>3, <5>4, WholeCovers DEF Stored
          <5>6. /\ slave'.at = hp' /\ slave'.op = (IF NotLast' THEN "down" ELSE "none")
                /\ slave'.done <=> hp' = call'.size
            BY <1>1, <4>1, <5>3
          <5>7. NotLast' <=> hp' < call'.size
            BY <1>1, <4>1
          <5> QED
            BY <5>2, <5>5, <5>6, <5>7 DEF WriteResponseInv
        <4> QED
          BY <1>4, <4>1, <4>3, <4>4, SlaveChoice
      <3> QED
        BY <3>1, <3>2
    <2>6. WriteSentInv'
      <3>1. CASE ~(InWrite /\ pc = "segresponse")
        BY <1>1, <3>1 DEF WriteSentInv, InWrite
      <3>2. CASE InWrite /\ pc = "segresponse"
        <4>1. /\ NotLast <=> hp < call.size
              /\ Pipe = <<>>
              /\ in.kind = "SEG_DOWN_REQ" /\ in.call = call.n
              /\ in.from + DataIn(in) = hp /\ (in.last <=> ~NotLast)
              /\ slave.op = "down" => Stored(in.from)
          BY <2>1, <3>2 DEF TransferInv, WriteSentInv, NotTaken, OneAnswer
        <4>2. Len(Pipe) = 0
          BY <4>1, EmptyIsSeq
        <4>3. CASE SlaveAbort
          BY <1>1, <2>4, <4>1, <4>2, <4>3 DEF WriteSentInv
        <4>4. CASE SlaveDownloadSegment
          <5>1. PICK m : Answered(m) /\ m.kind = "SEG_DOWN"
            BY <4>4, DownloadSegmentIs
          <5>2. OneAnswer'
            BY <4>2, <5>1 DEF Answered, OneAnswer
          <5>3. /\ slave.op = "down"
                /\ in.last => slave.at + DataIn(in) = slave.size
                /\ slave'.call = slave.call /\ slave'.size = slave.size /\ slave'.at = slave.at + DataIn(in)
                /\ slave'.pieces = Append(slave.pieces, Piece(in, DataIn(in))) /\ slave'.done = in.last
            BY <4>4, DownloadSegmentIs
          <5>4. /\ slave.call = call.n /\ slave.size = call.size
                /\ slave.at <= in.from
                /\ slave.at = in.from => Covers(call.n, slave.pieces, in.from)
            BY <4>1, <5>3, WholeCovers DEF Stored
          <5>5. /\ in.from \in Nat /\ DataIn(in) \in Nat /\ slave.at \in Nat /\ hp \in Nat /\ call.size \in Nat
                /\ slave.pieces \in Pieces /\ hp <= call.size
            BY DataInNat DEF TypeInv, Numbers, SlaveOK, SlaveState, LocalsOK, CallOK
          <5>6. slave'.at <= hp /\ (slave'.at = hp => slave.at = in.from)
            BY <4>1, <5>3, <5>4, <5>5
          <5>7. ASSUME slave.at = in.from PROVE Covers(call.n, slave'.pieces, hp)
            <6>1. PICK q : q = Piece(in, DataIn(in))
              OBVIOUS
            <6>2. q \in [call : Nat, from : Nat, len : Nat]
              BY <5>5, <6>1 DEF Piece, TypeInv, Numbers
            <6>3. q.call = call.n /\ q.from = in.from /\ q.len = DataIn(in)
              BY <4>1, <6>1 DEF Piece
            <6>4. hp = in.from + q.len
              BY <4>1, <6>3
            <6>5. Covers(call.n, slave.pieces, in.from)
              BY <5>4, <5>7
            <6>6. Covers(call.n, Append(slave.pieces, q), hp)
              BY <5>5, <6>2, <6>3, <6>4, <6>5, CoversMore
            <6> QED
              BY <5>3, <6>1, <6>6
          <5>8. Stored(hp)'
            BY <1>1, <5>3, <5>4, <5>6, <5>7, WholeCovers DEF Stored
          <5>9. ~NotLast' => slave'.done /\ slave'.at = hp'
            <6>1. ~NotLast => hp = call.size /\ in.last
              BY <4>1, <5>5
            <6> QED
              BY <1>1, <5>3, <5>4, <6>1
          <5> QED
            BY <1>1, <4>1, <5>2, <5>8, <5>9 DEF WriteSentInv
        <4> QED
          BY <1>4, <4>1, <4>3, <4>4, SlaveChoice
      <3> QED
        BY <3>1, <3>2
    <2> QED
      BY <1>1, <2>2, <2>3, <2>5, <2>6, OfWrite
  <1> QED
    BY <1>2, <1>3, <1>4

-----------------------------------------------------------------------------
(* Every step                                                              *)

\* Every step keeps the invariant of the transfers.
LEMMA TransferStep ==
  ASSUME TypeInv, PcInv, TransferInv, [ODMaster \/ ODSlave]_odvars
  PROVE  TransferInv'
  <1>0. TypeInv' /\ PcInv'
    BY TypeStep, PcStep
  <1>1. CASE SI_SDO
    <2>1. CASE BeginList
      BY <2>1, BeginStep
    <2>2. CASE ~BeginList
      <3>1. pc \in InSiSdo /\ call' = call /\ pc' # "request"
        BY <1>1, <2>2 DEF SI_SDO, AskList, ListFrame, ListFails, AskDescription, Description, NoDescription,
                          AskEntry, Entry, NoEntry, NextItem, Request, RequestFails, InSiSdo, locals,
                          ToFirst, ToEntries, NextSub, Return
      <3> QED
        BY <3>1, OfList DEF PcInv
    <2> QED
      BY <2>1, <2>2
  <1>2. CASE Master
    BY <1>0, <1>2, BeginStep, ReadFirstStep, ReadLoopStep, TxPDOStep, RxPDOStep, WriteFirstStep, WriteLoopStep
       DEF Master
  <1>3. CASE ODSlave
    <2>1. SlaveStep
      BY <1>3 DEF ODSlave, SlaveStep
    <2>2. UNCHANGED <<pc, call>> /\ call.op \in {"READ", "WRITE", "TXPDO", "RXPDO", "LIST"}
      BY <2>1, SlaveChoice DEF TypeInv, CallOK
    <2>3. CASE call.op = "LIST"
      <3>2. CASE Posted
        BY <2>1, <3>2, SlaveChoice, PostedStep
      <3>3. CASE ~Posted
        <4>1. in # None /\ UNCHANGED <<pc, stale>>
          BY <2>1, <3>3, NothingAsked, SlaveChoice
        <4>2. RequestInv'
          BY <4>1 DEF TransferInv, RequestInv
        <4> QED
          BY <2>2, <2>3, <4>2, OfList
      <3> QED
        BY <3>2, <3>3
    <2> QED
      BY <2>1, <2>2, <2>3, ReadSlaveStep, WriteSlaveStep, TxPDOSlaveStep, RxPDOSlaveStep
  <1>4. CASE UNCHANGED odvars
    <2>1. UNCHANGED <<pc, call, hp, data, NotLast, wkc, in, out, slave, stale, missed, lost>>
      BY <1>4 DEF odvars, vars, locals
    <2>2. Posted
      BY <2>1, PipeSame DEF Posted, Becomes
    <2> QED
      BY <2>1, <2>2, PostedStep
  <1> QED
    BY <1>1, <1>2, <1>3, <1>4 DEF ODMaster


-----------------------------------------------------------------------------
(* The object dictionary                                                   *)

\* Outside si_sdo, or with an answer to something else under way, nothing is said.
LEMMA NotListing ==
  ASSUME pc' \notin InSiSdo \/ ~inStep'
  PROVE  DictionaryInv'
  BY DEF DictionaryInv, BeginListInv, ListInv, ItemsInv, DescriptionInv, EntriesInv, EntryInv, Listing, InSiSdo

\* What a frame appends to a list after n frames.
Appended(list, n, m, new) ==
    \E offset, words, more :
        /\ offset = IF n = 0 THEN 1 ELSE 0
        /\ words = [k \in 1 .. m.len - offset |-> Word(m.from + offset + k - 1)]
        /\ more = SubSeq(words, 1, Least(Len(words), EC_MAXODLIST - Len(list)))
        /\ new = list \o [k \in DOMAIN more |-> [index |-> more[k], maxsub |-> 0, told |-> FALSE]]

\* One frame more of the list, appended as far as there is room.
LEMMA ListGrows ==
  ASSUME NEW n \in Nat, n < ListFrames, NEW list, Lists(list, n), Untold(list),
         NEW m, m = ListPart(n + 1), NEW new, Appended(list, n, m, new)
  PROVE  Lists(new, n + 1) /\ Untold(new)
  <1>0. PICK offset, words, more :
          /\ offset = IF n = 0 THEN 1 ELSE 0
          /\ words = [k \in 1 .. m.len - offset |-> Word(m.from + offset + k - 1)]
          /\ more = SubSeq(words, 1, Least(Len(words), EC_MAXODLIST - Len(list)))
          /\ new = list \o [k \in DOMAIN more |-> [index |-> more[k], maxsub |-> 0, told |-> FALSE]]
    BY DEF Appended
  <1> DEFINE room == EC_MAXODLIST - Len(list)
             entries == [k \in DOMAIN more |-> [index |-> more[k], maxsub |-> 0, told |-> FALSE]]
  <1> DEFINE at == n * WordsPerFrame
             len == Least(WordsPerFrame, Words - at)
  <1>1. /\ WordsPerFrame \in Nat /\ WordsPerFrame >= 2 /\ EC_MAXODLIST \in Nat
        /\ at \in Nat /\ at < Words /\ Words \in Nat
        /\ (n + 1) * WordsPerFrame = at + WordsPerFrame
        /\ n # 0 => at >= WordsPerFrame
    <2>1. WordsPerFrame \in Nat /\ WordsPerFrame >= 2 /\ EC_MAXODLIST \in Nat /\ Words \in Nat
      BY ListFramesHold, DictionaryAssumption
    <2>2. n + 1 \in 1 .. ListFrames /\ (n + 1) - 1 = n
      BY ListFramesHold
    <2>3. at \in Nat /\ at < Words
      BY <2>2, ListFramesHold
    <2>4. (n + 1) * WordsPerFrame = at + WordsPerFrame
      BY <2>1
    <2>5. ASSUME n # 0 PROVE at >= WordsPerFrame
      <3>1. n >= 1
        BY <2>5
      <3> QED
        BY <2>1, <3>1
    <2> QED
      BY <2>1, <2>3, <2>4, <2>5
  <1>2. m.len = len /\ m.from = at
    <2>1. n + 1 \in 1 .. ListFrames /\ (n + 1) - 1 = n
      BY ListFramesHold
    <2> QED
      BY <2>1, ListPartIs
  <1>3. n = 0 => at = 0
    BY <1>1
  <1> HIDE DEF at
  <1>4. IF n = 0 THEN offset = 1 ELSE offset = 0
    BY <1>0
  <1>5. len \in Nat /\ len >= 1
    BY <1>1 DEF Least
  <1>6. /\ len - offset \in Nat /\ offset \in Nat
        /\ IF n = 0 THEN offset = 1 ELSE offset = 0
    BY <1>4, <1>5
  <1> DEFINE c == len - offset
  <1>7. words = [k \in 1 .. c |-> Word(at + offset + k - 1)]
    BY <1>0, <1>2
  <1> HIDE DEF len
  <1>8. words = [k \in 1 .. c |-> words[k]] /\ c \in Nat
    BY <1>6, <1>7
  <1>9. IsSeq(words) /\ Len(words) = c /\ \A k \in 1 .. c : words[k] = Word(at + offset + k - 1)
    BY <1>7, <1>8, FunctionIsSeq
  <1> HIDE DEF c
  <1>10. /\ IsSeq(list) /\ Len(list) \in Nat
        /\ Len(list) = IF n = 0 THEN 0 ELSE Least(EC_MAXODLIST, at - 1)
    <2>1. IsSeq(list) /\ Len(list) = IF n = 0 THEN 0 ELSE Least(EC_MAXODLIST, WordsRead(n) - 1)
      BY DEF Lists
    <2>2. WordsRead(n) = at
      BY <1>1 DEF WordsRead, Least, at
    <2> QED
      BY <1>1, <2>1, <2>2, LenProperties DEF IsSeq
  <1>11. room \in Nat /\ (n # 0 /\ EC_MAXODLIST <= at - 1 => room = 0)
    BY <1>1, <1>10 DEF Least
  <1>12. room = EC_MAXODLIST - Len(list)
    OBVIOUS
  <1> HIDE DEF room
  <1> DEFINE j == Least(c, room)
  <1>13. j \in Nat /\ j <= c
    BY <1>8, <1>11 DEF Least
  <1>14. IsSeq(more) /\ Len(more) = j /\ \A k \in 1 .. j : more[k] = Word(at + offset + k - 1)
    <2>1. more = SubSeq(words, 1, j)
      BY <1>0, <1>9, <1>12
    <2> HIDE DEF j
    <2>2. words \in Seq(Range(words))
      BY <1>9 DEF IsSeq
    <2>3. j \in Int /\ 1 \in Int /\ \A i \in 1 .. j : words[i] \in Range(words)
      <3>1. \A i \in 1 .. Len(words) : words[i] \in Range(words)
        BY <2>2
      <3> QED
        BY <1>8, <1>9, <1>13, <3>1
    <2>4. /\ SubSeq(words, 1, j) \in Seq(Range(words))
          /\ Len(SubSeq(words, 1, j)) = j
          /\ \A i \in 1 .. j : SubSeq(words, 1, j)[i] = words[i]
      <3>1. /\ SubSeq(words, 1, j) \in Seq(Range(words))
            /\ Len(SubSeq(words, 1, j)) = IF 1 <= j THEN j - 1 + 1 ELSE 0
            /\ \A i \in 1 .. j - 1 + 1 : SubSeq(words, 1, j)[i] = words[1 + i - 1]
        BY <2>3, SubSeqProperties
      <3> QED
        BY <1>13, <3>1
    <2>5. IsSeq(more)
      BY <2>1, <2>4, SeqOfRange DEF IsSeq
    <2> QED
      BY <1>9, <1>13, <2>1, <2>4, <2>5
  <1> HIDE DEF j
  <1>15. new = list \o entries
    BY <1>0
  <1>16. IsSeq(entries) /\ Len(entries) = j
         /\ \A k \in 1 .. j : entries[k] = [index |-> Word(at + offset + k - 1), maxsub |-> 0, told |-> FALSE]
    <2>1. DOMAIN more = 1 .. j
      BY <1>14 DEF IsSeq
    <2>2. entries = [k \in 1 .. j |-> [index |-> more[k], maxsub |-> 0, told |-> FALSE]]
      BY <2>1
    <2>3. entries = [k \in 1 .. j |-> entries[k]]
      BY <2>2
    <2> QED
      BY <1>13, <1>14, <2>2, <2>3, FunctionIsSeq
  <1> HIDE DEF entries
  <1>17. /\ IsSeq(new) /\ Len(new) = Len(list) + j
         /\ \A k \in 1 .. Len(list) + j : new[k] = IF k <= Len(list) THEN list[k] ELSE entries[k - Len(list)]
    BY <1>10, <1>16, <1>15, ConcatBoth
  <1>18. ASSUME NEW k \in 1 .. j PROVE Word(at + offset + k - 1) = Dictionary[Len(list) + k].index
    <2>1. n # 0 => Len(list) = at - 1
      BY <1>1, <1>10, <1>11, <1>13, <1>18, <1>12 DEF j, Least
    <2>2. at + offset + k - 1 = Len(list) + k
      BY <1>1, <1>3, <1>6, <1>10, <2>1
    <2>3. Len(list) + k # 0
      BY <1>10
    <2> QED
      BY <2>2, <2>3 DEF Word
  <1>19. ASSUME NEW k \in 1 .. Len(new)
         PROVE  /\ new[k] = [index |-> Dictionary[k].index, maxsub |-> new[k].maxsub, told |-> new[k].told]
                /\ new[k].maxsub = 0 /\ ~new[k].told
    <2>1. CASE k <= Len(list)
      <3>1. k \in 1 .. Len(list) /\ new[k] = list[k]
        BY <1>10, <1>13, <1>17, <1>19, <2>1
      <3> QED
        BY <3>1 DEF Lists, Untold
    <2>2. CASE k > Len(list)
      <3>1. PICK i : i = k - Len(list)
        OBVIOUS
      <3>2. k \in 1 .. Len(list) + j
        BY <1>17
      <3>3. i \in 1 .. j /\ Len(list) + i = k
        BY <1>10, <1>13, <2>2, <3>1, <3>2
      <3>4. new[k] = entries[i]
        BY <1>10, <1>17, <2>2, <3>1, <3>2
      <3>5. new[k] = [index |-> Dictionary[k].index, maxsub |-> 0, told |-> FALSE]
        BY <1>16, <1>18, <3>3, <3>4
      <3> QED
        BY <3>5
    <2> QED
      BY <1>10, <1>13, <1>17, <2>1, <2>2
  <1>20. Len(new) = Least(EC_MAXODLIST, WordsRead(n + 1) - 1)
    <2>1. WordsRead(n + 1) = Least(Words, at + WordsPerFrame)
      BY <1>1 DEF WordsRead
    <2>2. CASE n = 0
      BY <1>1, <1>3, <1>6, <1>10, <1>17, <1>12, <2>1, <2>2 DEF j, c, len, Least
    <2>3. CASE n # 0 /\ EC_MAXODLIST <= at - 1
      BY <1>1, <1>8, <1>10, <1>11, <1>17, <2>1, <2>3 DEF j, Least
    <2>4. CASE n # 0 /\ EC_MAXODLIST > at - 1
      <3>1. Len(list) = at - 1 /\ room = EC_MAXODLIST - (at - 1) /\ c = Least(WordsPerFrame, Words - at)
        BY <1>1, <1>6, <1>10, <1>12, <2>4 DEF c, len, Least
      <3> QED
        <4>1. Len(new) = at - 1 + Least(c, EC_MAXODLIST - (at - 1))
          BY <1>17, <3>1 DEF j
        <4>2. at - 1 + Least(Least(WordsPerFrame, Words - at), EC_MAXODLIST - (at - 1)) =
                Least(EC_MAXODLIST, Least(Words, at + WordsPerFrame) - 1)
          BY <1>1, <2>4 DEF Least
        <4> QED
          BY <2>1, <3>1, <4>1, <4>2
    <2> QED
      BY <1>1, <2>2, <2>3, <2>4
  <1>21. n + 1 # 0
    OBVIOUS
  <1>22. IsSeq(new)
    BY <1>17
  <1>23. Lists(new, n + 1)
    BY <1>19, <1>20, <1>21, <1>22 DEF Lists
  <1>24. Untold(new)
    BY <1>19 DEF Untold
  <1> QED
    BY <1>23, <1>24


\* An entry of the complete list is one of the slave's objects.
LEMMA Listed ==
  ASSUME ItemsInv, Listing, pc \in {"desc", "descres", "entry", "entryres", "shown"}
  PROVE  /\ item \in Nat /\ item >= 1 /\ Len(ODlist) \in Nat /\ item <= Len(ODlist)
         /\ item \in DOMAIN Dictionary /\ Len(ODlist) <= Len(Dictionary)
         /\ \A k \in 1 .. Len(ODlist) : ODlist[k].index = Dictionary[k].index
         /\ Dictionary[item].maxsub \in Nat
  <1> DEFINE n == Least(MaxFrames + 1, ListFrames)
  <1>1. item \in 1 .. Len(ODlist) /\ Lists(ODlist, n)
    BY DEF ItemsInv
  <1>2. n \in Nat /\ n # 0
    BY ListFramesHold, DictionaryAssumption DEF Least
  <1>3. n * WordsPerFrame \in Nat
    BY <1>2, DictionaryAssumption
  <1> HIDE DEF n
  <1>4. Len(ODlist) \in Nat
    BY <1>1, LenProperties DEF Lists, IsSeq
  <1>5. Len(ODlist) = Least(EC_MAXODLIST, WordsRead(n) - 1)
    BY <1>1, <1>2 DEF Lists
  <1>6. Len(ODlist) <= Len(Dictionary)
    BY <1>3, <1>5, ListFramesHold, DictionaryAssumption DEF WordsRead, Least
  <1>7. item \in DOMAIN Dictionary /\ Dictionary[item].maxsub \in Nat
    BY <1>1, <1>4, <1>6, DictionaryAssumption
  <1>8. \A k \in 1 .. Len(ODlist) : ODlist[k].index = Dictionary[k].index
    <2> TAKE k \in 1 .. Len(ODlist)
    <2>1. ODlist[k] = [index |-> Dictionary[k].index, maxsub |-> ODlist[k].maxsub, told |-> ODlist[k].told]
      BY <1>1 DEF Lists
    <2> QED
      BY <2>1
  <1> QED
    BY <1>1, <1>4, <1>6, <1>7, <1>8

\* A request that is sent finds the mailboxes empty, or nothing more is said.
LEMMA Requested ==
  ASSUME NEW m, NEW from, NEW to, Request(m, from, to), slave' = slave
  PROVE  /\ pc = from /\ pc' = to
         /\ inStep' => inStep /\ in' = m /\ Pipe' = <<>>
  <1>1. /\ pc = from /\ pc' = to /\ in' = m
        /\ stale' = (in # None \/ out' # None \/ slave.queue # <<>>)
        /\ inStep' = (inStep /\ ~stale')
    BY DEF Request, Sent
  <1>2. inStep' => inStep /\ ~stale'
    BY <1>1
  <1>3. ~stale' => out' = None /\ slave.queue = <<>>
    BY <1>1
  <1>4. out' = None /\ slave'.queue = <<>> => Pipe' = <<>>
    BY DEF Pipe
  <1> QED
    BY <1>1, <1>2, <1>3, <1>4

\* A call of si_sdo begins.
LEMMA BeginListStep ==
  ASSUME BeginList
  PROVE  DictionaryInv'
  BY DEF BeginList, DictionaryInv, BeginListInv, ListInv, ItemsInv, DescriptionInv, EntriesInv, EntryInv

\* The list is asked for.
LEMMA AskListStep ==
  ASSUME TypeInv, DictionaryInv, call.op = "LIST", AskList
  PROVE  DictionaryInv'
  <1>1. CASE Request(ListRequest, "list", "listres")
    <2>1. UNCHANGED <<call, slave, ODlist, OElist, item, sub, x>>
      BY DEF AskList, locals
    <2>2. pc = "list" /\ pc' = "listres" /\ (inStep' => inStep /\ in' = ListRequest /\ Pipe' = <<>>)
      BY <1>1, <2>1, Requested
    <2>3. ASSUME inStep' PROVE ListInv'
      <3>1. x' = 0 /\ ODlist' = <<>>
        BY <2>1, <2>2, <2>3 DEF DictionaryInv, BeginListInv, Listing
      <3>2. x' \in Nat /\ x' <= MaxFrames /\ x' < ListFrames
        BY <3>1, ListFramesHold, DictionaryAssumption
      <3>3. IsSeq(<<>>) /\ Len(<<>>) = 0 /\ Lists(<<>>, 0) /\ Untold(<<>>)
        BY EmptyIsSeq DEF Lists, Untold
      <3>4. ListRequest.kind = "LIST_REQ"
        BY DEF ListRequest, None
      <3> QED
        BY <2>2, <2>3, <3>1, <3>2, <3>3, <3>4 DEF ListInv, NotTaken
    <2>4. CASE ~inStep'
      BY <2>4, NotListing
    <2> QED
      BY <2>2, <2>3, <2>4 DEF DictionaryInv, BeginListInv, ItemsInv, DescriptionInv, EntriesInv, EntryInv
  <1>2. CASE Return("none")
    BY <1>2, NotListing DEF Return, InSiSdo
  <1> QED
    BY <1>1, <1>2 DEF AskList

\* A frame of the list.
LEMMA ListFrameStep ==
  ASSUME TypeInv, DictionaryInv, call.op = "LIST", ListFrame
  PROVE  DictionaryInv'
  <1>1. /\ pc = "listres" /\ Receive({"LIST"}) /\ x' = x + 1 /\ UNCHANGED <<call, OElist, sub, inStep>>
        /\ \/ ~out.last /\ x' <= MaxFrames /\ UNCHANGED <<pc, wkc, item>>
           \/ ~(~out.last /\ x' <= MaxFrames) /\ ToFirst(ODlist')
    BY DEF ListFrame
  <1>2. CASE ~inStep'
    BY <1>2, NotListing
  <1>3. CASE inStep'
    <2>1. /\ x \in Nat /\ x <= MaxFrames /\ x < ListFrames /\ Lists(ODlist, x) /\ Untold(ODlist)
          /\ \/ NotTaken /\ in.kind = "LIST_REQ" /\ x = 0
             \/ OneAnswer /\ Pipe[1].kind = "ABORT"
             \/ /\ in = None /\ Len(Pipe) = ListFrames - x
                /\ \A k \in 1 .. ListFrames - x : Pipe[k] = ListPart(x + k)
      BY <1>1, <1>3 DEF DictionaryInv, ListInv, Listing
    <2>2. /\ out # None /\ out' = None /\ out.kind = "LIST" /\ UNCHANGED <<in, slave>>
      BY <1>1, ReceivedIs DEF Unnamed
    <2>3. /\ Pipe[1] = out /\ Pipe # <<>>
          /\ Len(Pipe) \in Nat /\ Len(Pipe) >= 1 /\ Len(Pipe') = Len(Pipe) - 1
          /\ \A k \in 1 .. Len(Pipe) - 1 : Pipe'[k] = Pipe[k + 1]
      BY <2>2, PipeRead
    <2>4. /\ in = None /\ Len(Pipe) = ListFrames - x
          /\ \A k \in 1 .. ListFrames - x : Pipe[k] = ListPart(x + k)
      BY <2>1, <2>2, <2>3 DEF NotTaken
    <2>5. out = ListPart(x + 1) /\ x + 1 \in 1 .. ListFrames /\ ListFrames \in Nat
      BY <2>1, <2>3, <2>4, ListFramesHold
    <2>6. out.last <=> x + 1 = ListFrames
      BY <2>5, ListPartIs
    <2>7. Appended(ODlist, x, out, ODlist')
      <3> DEFINE offset == IF x = 0 THEN 1 ELSE 0
                 words == [k \in 1 .. out.len - offset |-> Word(out.from + offset + k - 1)]
                 more == SubSeq(words, 1, Least(Len(words), EC_MAXODLIST - Len(ODlist)))
      <3>1. ODlist' = ODlist \o [k \in DOMAIN more |-> [index |-> more[k], maxsub |-> 0, told |-> FALSE]]
        BY DEF ListFrame, Indexes
      <3> QED
        BY <3>1 DEF Appended
    <2>8. Lists(ODlist', x + 1) /\ Untold(ODlist')
      BY <2>1, <2>5, <2>7, ListGrows
    <2>9. CASE ~out.last /\ x' <= MaxFrames
      <3>1. pc' = "listres" /\ x' \in Nat /\ x' < ListFrames
        BY <1>1, <2>1, <2>5, <2>6, <2>9
      <3>2. in' = None /\ Len(Pipe') = ListFrames - x'
        BY <1>1, <2>1, <2>2, <2>3, <2>4, <2>5
      <3>3. ASSUME NEW k \in 1 .. ListFrames - x' PROVE Pipe'[k] = ListPart(x' + k)
        <4>1. k \in 1 .. Len(Pipe) - 1 /\ k + 1 \in 1 .. ListFrames - x /\ x + (k + 1) = x' + k
          BY <1>1, <2>1, <2>4, <2>5, <3>3
        <4> QED
          BY <2>3, <2>4, <4>1
      <3>4. ListInv'
        BY <1>1, <2>8, <2>9, <3>1, <3>2, <3>3 DEF ListInv
      <3> QED
        BY <3>1, <3>4 DEF DictionaryInv, BeginListInv, ItemsInv, DescriptionInv, EntriesInv, EntryInv
    <2>10. CASE ~(~out.last /\ x' <= MaxFrames)
      <3>1. CASE ODlist' = <<>>
        BY <1>1, <2>10, <3>1, NotListing DEF ToFirst, Return, InSiSdo
      <3>2. CASE ODlist' # <<>>
        <4>1. item' = 1 /\ pc' = "desc"
          BY <1>1, <2>10, <3>2 DEF ToFirst
        <4>2. x + 1 = Least(MaxFrames + 1, ListFrames)
          BY <1>1, <2>1, <2>5, <2>6, <2>10, DictionaryAssumption DEF Least
        <4>3. Len(ODlist') \in Nat /\ Len(ODlist') # 0
          BY <2>8, <3>2, EmptyIsSeq, LenProperties DEF Lists, IsSeq
        <4>4. Told(ODlist')
          BY <2>8 DEF Untold, Told
        <4>5. item' \in 1 .. Len(ODlist')
          BY <4>1, <4>3
        <4>6. ItemsInv'
          BY <2>8, <4>2, <4>4, <4>5 DEF ItemsInv
        <4> QED
          BY <4>1, <4>6 DEF DictionaryInv, BeginListInv, ListInv, DescriptionInv, EntriesInv, EntryInv
      <3> QED
        BY <3>1, <3>2
    <2> QED
      BY <2>9, <2>10
  <1> QED
    BY <1>2, <1>3


\* si_sdo goes on with the entries of an item.
LEMMA EntriesBegin ==
  ASSUME ToEntries, call.op = "LIST", inStep' => ItemsInv' /\ ODlist'[item'].maxsub \in Nat
  PROVE  DictionaryInv'
  <1>1. pc' = "entry" /\ sub' = 0 /\ OElist' = <<>>
    BY DEF ToEntries
  <1>2. CASE ~inStep'
    BY <1>2, NotListing
  <1>3. CASE inStep'
    <2>1. EntriesInv'
      BY <1>1, <1>3, EmptyIsSeq DEF EntriesInv
    <2> QED
      BY <1>1, <1>3, <2>1 DEF DictionaryInv, BeginListInv, ListInv, DescriptionInv, EntryInv
  <1> QED
    BY <1>2, <1>3

\* What is said of the items stays while the list and the place in it do.
LEMMA SameItems ==
  ASSUME ItemsInv, Listing, pc \in {"desc", "descres", "entry", "entryres", "shown"},
         UNCHANGED <<ODlist, item>>
  PROVE  ItemsInv' /\ ODlist'[item'].maxsub \in Nat
  <1>1. ItemsInv'
    BY DEF ItemsInv
  <1>2. item \in 1 .. Len(ODlist) /\ Told(ODlist)
    BY DEF ItemsInv
  <1> QED
    BY <1>1, <1>2 DEF Told

\* An object is described.
LEMMA DescriptionStep ==
  ASSUME TypeInv, DictionaryInv, call.op = "LIST", AskDescription \/ Description \/ NoDescription
  PROVE  DictionaryInv'
  <1>1. UNCHANGED <<call, item>> /\ pc \in {"desc", "descres"}
    BY DEF AskDescription, Description, NoDescription, Request, RequestFails, locals
  <1>2. CASE ~inStep
    <2>1. ~inStep'
      BY <1>2 DEF AskDescription, Description, NoDescription, Request, RequestFails
    <2> QED
      BY <2>1, NotListing
  <1>3. CASE inStep
    <2>0. /\ ItemsInv /\ Listing /\ DescriptionInv
          /\ pc \in {"desc", "descres", "entry", "entryres", "shown"}
      BY <1>1, <1>3 DEF DictionaryInv, Listing
    <2>1. CASE AskDescription /\ Request(DescRequest, "desc", "descres")
      <3>1. UNCHANGED <<slave, ODlist>>
        BY <2>1 DEF AskDescription
      <3>2. pc' = "descres" /\ (inStep' => in' = DescRequest /\ Pipe' = <<>>)
        BY <2>1, <3>1, Requested
      <3>3. DescRequest.kind = "DESC_REQ" /\ DescRequest.index = ODlist[item].index
        BY DEF DescRequest, None
      <3>4. ItemsInv'
        BY <1>1, <2>0, <3>1, SameItems
      <3>5. DescriptionInv'
        BY <1>1, <3>1, <3>2, <3>3 DEF DescriptionInv, Listing, NotTaken
      <3> QED
        BY <3>2, <3>4, <3>5 DEF DictionaryInv, BeginListInv, ListInv, EntriesInv, EntryInv
    <2>2. CASE (AskDescription /\ RequestFails(DescRequest, "desc") /\ ToEntries) \/ NoDescription
      <3>1. ToEntries /\ UNCHANGED ODlist
        BY <2>2 DEF AskDescription, NoDescription
      <3> QED
        BY <1>1, <2>0, <3>1, SameItems, EntriesBegin
    <2>3. CASE Description
      <3>1. /\ pc = "descres" /\ Receive({"DESC"}) /\ ToEntries
            /\ ODlist' = [ODlist EXCEPT ![item].maxsub = out.sub, ![item].told = TRUE]
        BY <2>3 DEF Description
      <3>2. /\ out # None /\ out' = None /\ out.kind = "DESC" /\ UNCHANGED <<in, slave>>
        BY <3>1, ReceivedIs DEF Unnamed
      <3>3. Pipe[1] = out /\ Pipe # <<>>
        BY <3>2, PipeRead
      <3>4. out.sub = Dictionary[item].maxsub
        BY <2>0, <3>1, <3>2, <3>3 DEF DescriptionInv, NotTaken
      <3>5. /\ item \in Nat /\ item >= 1 /\ Len(ODlist) \in Nat /\ item <= Len(ODlist)
            /\ Dictionary[item].maxsub \in Nat
        BY <2>0, Listed
      <3> DEFINE n == Least(MaxFrames + 1, ListFrames)
      <3>6. Lists(ODlist, n) /\ Told(ODlist)
        BY <2>0 DEF ItemsInv
      <3> HIDE DEF n
      <3>7. IsSeq(ODlist) /\ DOMAIN ODlist = 1 .. Len(ODlist)
        BY <3>6 DEF Lists, IsSeq
      <3>8. ODlist[item] = [index |-> Dictionary[item].index, maxsub |-> ODlist[item].maxsub, told |-> ODlist[item].told]
        BY <3>5, <3>6 DEF Lists
      <3> DEFINE new == [index |-> Dictionary[item].index, maxsub |-> Dictionary[item].maxsub, told |-> TRUE]
      <3>9. ODlist' = [ODlist EXCEPT ![item] = new]
        <4>1. PICK r, c, i : r = ODlist[item] /\ c = Dictionary[item].maxsub /\ i = Dictionary[item].index
          OBVIOUS
        <4>2. PICK e : e = [ODlist[item] EXCEPT !.maxsub = out.sub, !.told = TRUE]
          OBVIOUS
        <4>3. e = new
          <5>1. PICK a, b : r = [index |-> i, maxsub |-> a, told |-> b]
            BY <3>8, <4>1
          <5>2. e = [r EXCEPT !.maxsub = c, !.told = TRUE]
            BY <3>4, <4>1, <4>2, Zenon
          <5>3. e = [index |-> i, maxsub |-> c, told |-> TRUE]
            BY <5>1, <5>2
          <5> QED
            BY <4>1, <5>3
        <4>4. ODlist' = [ODlist EXCEPT ![item] = e]
          BY <3>1, <3>5, <3>7, <4>2
        <4> QED
          BY <4>3, <4>4
      <3>10. /\ new.maxsub = Dictionary[item].maxsub /\ new.told = TRUE
             /\ new = [index |-> Dictionary[item].index, maxsub |-> new.maxsub, told |-> new.told]
        OBVIOUS
      <3> HIDE DEF new
      <3>11. /\ ODlist' = [k \in 1 .. Len(ODlist) |-> ODlist'[k]]
             /\ \A k \in 1 .. Len(ODlist) : ODlist'[k] = IF k = item THEN new ELSE ODlist[k]
        BY <3>7, <3>9
      <3>12. IsSeq(ODlist') /\ Len(ODlist') = Len(ODlist)
        BY <3>5, <3>11, FunctionIsSeq
      <3>13. Lists(ODlist', n)
        <4>1. \A k \in 1 .. Len(ODlist') :
                 ODlist'[k] = [index |-> Dictionary[k].index, maxsub |-> ODlist'[k].maxsub, told |-> ODlist'[k].told]
          <5> TAKE k \in 1 .. Len(ODlist')
          <5>1. CASE k = item
            BY <3>10, <3>11, <3>12, <5>1
          <5>2. CASE k # item
            <6>1. ODlist'[k] = ODlist[k]
              BY <3>11, <3>12, <5>2
            <6> QED
              BY <3>6, <3>12, <6>1 DEF Lists
          <5> QED
            BY <5>1, <5>2
        <4> QED
          BY <3>6, <3>12, <4>1 DEF Lists
      <3>14. Told(ODlist')
        BY <3>5, <3>6, <3>10, <3>11, <3>12 DEF Told
      <3>15. ItemsInv' /\ ODlist'[item'].maxsub \in Nat
        BY <1>1, <2>0, <3>12, <3>13, <3>14 DEF ItemsInv, n, Told
      <3> QED
        BY <3>1, <3>15, EntriesBegin
    <2> QED
      BY <2>1, <2>2, <2>3 DEF AskDescription
  <1> QED
    BY <1>2, <1>3

\* The entry of a subindex: the one asked for, or none.
LEMMA EntryMore ==
  ASSUME ItemsInv, EntriesInv, Listing, pc \in {"entry", "entryres"},
         UNCHANGED <<call, item, ODlist>>, NextSub,
         NEW e \in {Nowhere, [index |-> ODlist[item].index, sub |-> sub]}, OElist' = Append(OElist, e)
  PROVE  DictionaryInv'
  <1>1. /\ sub \in Nat /\ IsSeq(OElist) /\ Len(OElist) = sub
        /\ \A s \in 1 .. sub : OElist[s] \in {Nowhere, [index |-> ODlist[item].index, sub |-> s - 1]}
        /\ sub <= ODlist[item].maxsub
    BY DEF EntriesInv
  <1>2. sub' = sub + 1 /\ pc' = IF sub < ODlist[item].maxsub THEN "entry" ELSE "shown"
    BY DEF NextSub
  <1>3. ItemsInv' /\ ODlist[item].maxsub \in Nat
    BY SameItems
  <1>4. /\ IsSeq(OElist') /\ Len(OElist') = sub + 1
        /\ \A s \in 1 .. sub : OElist'[s] = OElist[s]
        /\ OElist'[sub + 1] = e
    BY <1>1, AppendMore
  <1>5. ASSUME NEW s \in 1 .. sub'
        PROVE  OElist'[s] \in {Nowhere, [index |-> ODlist'[item'].index, sub |-> s - 1]}
    <2>1. CASE s \in 1 .. sub
      BY <1>1, <1>4, <2>1
    <2>2. CASE s = sub + 1
      <3>1. s - 1 = sub
        BY <1>1, <2>2
      <3> QED
        BY <1>4, <2>2, <3>1
    <2> QED
      BY <1>1, <1>2, <1>5, <2>1, <2>2
  <1>6. /\ pc' \in {"entry", "shown"} /\ sub' \in Nat /\ Len(OElist') = sub'
        /\ IF pc' = "shown" THEN sub' = ODlist'[item'].maxsub + 1 ELSE sub' <= ODlist'[item'].maxsub
    BY <1>1, <1>2, <1>3, <1>4
  <1>7. EntriesInv'
    BY <1>4, <1>5, <1>6 DEF EntriesInv
  <1> QED
    BY <1>3, <1>6, <1>7 DEF DictionaryInv, BeginListInv, ListInv, DescriptionInv, EntryInv

\* The entries of an item.
LEMMA EntryStep ==
  ASSUME TypeInv, DictionaryInv, call.op = "LIST", AskEntry \/ Entry \/ NoEntry
  PROVE  DictionaryInv'
  <1>1. UNCHANGED <<call, item, ODlist>> /\ pc \in {"entry", "entryres"}
    BY DEF AskEntry, Entry, NoEntry, Request, RequestFails, locals
  <1>2. CASE ~inStep
    <2>1. ~inStep'
      BY <1>2 DEF AskEntry, Entry, NoEntry, Request, RequestFails
    <2> QED
      BY <2>1, NotListing
  <1>3. CASE inStep
    <2>0. ItemsInv /\ EntriesInv /\ EntryInv /\ Listing /\ pc \in {"entry", "entryres", "shown"}
      BY <1>1, <1>3 DEF DictionaryInv, Listing
    <2>1. CASE AskEntry /\ Request(EntryRequest, "entry", "entryres") /\ UNCHANGED <<sub, OElist>>
      <3>1. UNCHANGED <<slave, sub, OElist>>
        BY <2>1 DEF AskEntry
      <3>2. pc = "entry" /\ pc' = "entryres" /\ (inStep' => in' = EntryRequest /\ Pipe' = <<>>)
        BY <2>1, <3>1, Requested
      <3>3. EntryRequest.kind = "ENTRY_REQ" /\ EntryRequest.index = ODlist[item].index /\ EntryRequest.sub = sub
        BY DEF EntryRequest, None
      <3>4. ItemsInv'
        BY <1>1, <2>0, SameItems
      <3>5. EntriesInv'
        BY <1>1, <2>0, <3>1, <3>2 DEF EntriesInv
      <3>6. EntryInv'
        BY <1>1, <3>1, <3>2, <3>3 DEF EntryInv, Listing, NotTaken
      <3> QED
        BY <3>2, <3>4, <3>5, <3>6 DEF DictionaryInv, BeginListInv, ListInv, DescriptionInv
    <2>2. CASE (AskEntry /\ RequestFails(EntryRequest, "entry") /\ NextSub /\ OElist' = Append(OElist, Nowhere)) \/ NoEntry
      <3>1. NextSub /\ OElist' = Append(OElist, Nowhere)
        BY <2>2 DEF NoEntry
      <3> QED
        BY <1>1, <2>0, <3>1, EntryMore
    <2>3. CASE Entry
      <3>1. /\ pc = "entryres" /\ Receive({"ENTRY"}) /\ NextSub
            /\ OElist' = Append(OElist, [index |-> out.index, sub |-> out.sub])
        BY <2>3 DEF Entry
      <3>2. /\ out # None /\ out' = None /\ out.kind = "ENTRY" /\ UNCHANGED <<in, slave>>
        BY <3>1, ReceivedIs DEF Unnamed
      <3>3. Pipe[1] = out /\ Pipe # <<>>
        BY <3>2, PipeRead
      <3>4. out.index = ODlist[item].index /\ out.sub = sub
        BY <2>0, <3>1, <3>2, <3>3 DEF EntryInv, NotTaken
      <3> QED
        BY <1>1, <2>0, <3>1, <3>4, EntryMore
    <2> QED
      BY <2>1, <2>2, <2>3 DEF AskEntry
  <1> QED
    BY <1>2, <1>3

\* si_sdo has shown an item.
LEMMA NextItemStep ==
  ASSUME TypeInv, DictionaryInv, call.op = "LIST", NextItem
  PROVE  DictionaryInv'
  <1>1. UNCHANGED <<call, ODlist, inStep>> /\ pc = "shown"
    BY DEF NextItem, locals
  <1>2. CASE ~inStep \/ ~(item < Len(ODlist))
    BY <1>1, <1>2, NotListing DEF NextItem, Return, InSiSdo
  <1>3. CASE inStep /\ item < Len(ODlist)
    <2>1. item' = item + 1 /\ pc' = "desc"
      BY <1>3 DEF NextItem
    <2>2. ItemsInv /\ Listing /\ pc \in {"desc", "descres", "entry", "entryres", "shown"}
      BY <1>1, <1>3 DEF DictionaryInv, Listing
    <2>3. item \in Nat /\ item >= 1 /\ Len(ODlist) \in Nat
      BY <2>2, Listed
    <2>4. item' \in 1 .. Len(ODlist')
      BY <1>1, <1>3, <2>1, <2>3
    <2>5. ItemsInv'
      BY <1>1, <2>2, <2>4 DEF ItemsInv
    <2> QED
      BY <2>1, <2>5 DEF DictionaryInv, BeginListInv, ListInv, DescriptionInv, EntriesInv, EntryInv
  <1> QED
    BY <1>2, <1>3


\* The slave answers a request of si_sdo, or puts an answer in the mailbox.
LEMMA DictionarySlaveStep ==
  ASSUME TypeInv, PcInv, DictionaryInv, SlaveStep, UNCHANGED dictionary
  PROVE  DictionaryInv'
  <1>1. UNCHANGED <<pc, call, ODlist, OElist, item, sub, x, inStep>>
    BY SlaveChoice DEF dictionary
  <1>2. CASE pc \notin InSiSdo \/ ~inStep
    BY <1>1, <1>2, NotListing
  <1>3. CASE pc \in InSiSdo /\ inStep
    <2>1. Listing /\ Listing'
      BY <1>1, <1>3 DEF PcInv, Listing
    <2>2. BeginListInv' /\ ItemsInv' /\ EntriesInv'
      BY <1>1 DEF DictionaryInv, BeginListInv, ItemsInv, EntriesInv, Listing
    <2>3. ListInv'
      <3>1. CASE pc # "listres"
        BY <1>1, <3>1 DEF ListInv
      <3>2. CASE pc = "listres" /\ Posted
        BY <1>1, <2>1, <3>2 DEF DictionaryInv, ListInv, Posted, NotTaken, OneAnswer
      <3>3. CASE pc = "listres" /\ ~Posted
        <4>1. /\ x \in Nat /\ x <= MaxFrames /\ x < ListFrames /\ Lists(ODlist, x) /\ Untold(ODlist)
              /\ Pipe = <<>> /\ in.kind = "LIST_REQ" /\ x = 0
          BY <2>1, <3>3, NothingAsked DEF DictionaryInv, ListInv, NotTaken, OneAnswer
        <4>2. CASE SlaveList
          <5>1. in' = None /\ Len(Pipe') = ListFrames /\ \A k \in 1 .. ListFrames : Pipe'[k] = ListPart(k)
            BY <4>1, <4>2, ListedIs
          <5>2. ListFrames - x' = ListFrames /\ \A k \in 1 .. ListFrames : x' + k = k
            BY <1>1, <4>1, ListFramesHold
          <5> QED
            BY <1>1, <4>1, <5>1, <5>2 DEF ListInv
        <4>3. CASE SlaveAbort
          <5>1. PICK m : Answered(m) /\ m.kind = "ABORT"
            BY <4>3, AbortIs
          <5>2. Len(Pipe) = 0
            BY <4>1, EmptyIsSeq
          <5>3. OneAnswer' /\ Pipe'[1] = m
            BY <5>1, <5>2 DEF Answered, OneAnswer
          <5> QED
            BY <1>1, <4>1, <5>1, <5>3 DEF ListInv
        <4> QED
          BY <3>3, <4>1, <4>2, <4>3, SlaveChoice
      <3> QED
        BY <3>1, <3>2, <3>3
    <2>4. DescriptionInv'
      <3>1. CASE pc # "descres"
        BY <1>1, <3>1 DEF DescriptionInv
      <3>2. CASE pc = "descres" /\ Posted
        BY <1>1, <2>1, <3>2 DEF DictionaryInv, DescriptionInv, Posted, NotTaken, OneAnswer
      <3>3. CASE pc = "descres" /\ ~Posted
        <4>1. Pipe = <<>> /\ in.kind = "DESC_REQ" /\ in.index = ODlist[item].index
          BY <2>1, <3>3, NothingAsked DEF DictionaryInv, DescriptionInv, NotTaken, OneAnswer
        <4>2. Len(Pipe) = 0
          BY <4>1, EmptyIsSeq
        <4>3. \E m : Answered(m) /\ (m.kind = "DESC" => m.sub = Dictionary[item].maxsub)
          <5>1. CASE SlaveAbort
            BY <5>1, AbortIs
          <5>2. CASE SlaveDescription
            <6>1. PICK k, m : /\ k \in DOMAIN Dictionary /\ Answered(m)
                              /\ Dictionary[k].index = in.index /\ m.sub = Dictionary[k].maxsub
              BY <5>2, DescriptionIs
            <6>2. /\ item \in DOMAIN Dictionary /\ item \in 1 .. Len(ODlist)
                  /\ \A i \in 1 .. Len(ODlist) : ODlist[i].index = Dictionary[i].index
              BY <2>1, <3>3, Listed DEF DictionaryInv
            <6>3. k = item
              BY <4>1, <6>1, <6>2, DictionaryAssumption
            <6> QED
              BY <6>1, <6>3
          <5> QED
            BY <3>3, <4>1, <5>1, <5>2, SlaveChoice
        <4>4. PICK m : Answered(m) /\ (m.kind = "DESC" => m.sub = Dictionary[item].maxsub)
          BY <4>3
        <4>5. OneAnswer' /\ Pipe'[1] = m
          BY <4>2, <4>4 DEF Answered, OneAnswer
        <4> QED
          BY <1>1, <4>4, <4>5 DEF DescriptionInv
      <3> QED
        BY <3>1, <3>2, <3>3
    <2>5. EntryInv'
      <3>1. CASE pc # "entryres"
        BY <1>1, <3>1 DEF EntryInv
      <3>2. CASE pc = "entryres" /\ Posted
        BY <1>1, <2>1, <3>2 DEF DictionaryInv, EntryInv, Posted, NotTaken, OneAnswer
      <3>3. CASE pc = "entryres" /\ ~Posted
        <4>1. Pipe = <<>> /\ in.kind = "ENTRY_REQ" /\ in.index = ODlist[item].index /\ in.sub = sub
          BY <2>1, <3>3, NothingAsked DEF DictionaryInv, EntryInv, NotTaken, OneAnswer
        <4>2. Len(Pipe) = 0
          BY <4>1, EmptyIsSeq
        <4>3. PICK m : Answered(m) /\ (m.kind = "ENTRY" => m.index = in.index /\ m.sub = in.sub)
          BY <3>3, <4>1, SlaveChoice, AbortIs, EntryIs
        <4>4. OneAnswer' /\ Pipe'[1] = m
          BY <4>2, <4>3 DEF Answered, OneAnswer
        <4> QED
          BY <1>1, <4>1, <4>3, <4>4 DEF EntryInv
      <3> QED
        BY <3>1, <3>2, <3>3
    <2> QED
      BY <2>2, <2>3, <2>4, <2>5 DEF DictionaryInv
  <1> QED
    BY <1>2, <1>3

\* Every step keeps the invariant of the dictionary.
LEMMA DictionaryStep ==
  ASSUME TypeInv, PcInv, DictionaryInv, [ODMaster \/ ODSlave]_odvars
  PROVE  DictionaryInv'
  <1>1. CASE SI_SDO
    <2>1. CASE BeginList
      BY <2>1, BeginListStep
    <2>2. CASE ~BeginList
      <3>1. pc \in InSiSdo
        BY <1>1, <2>2 DEF SI_SDO, AskList, ListFrame, ListFails, AskDescription, Description, NoDescription,
                          AskEntry, Entry, NoEntry, NextItem, Request, RequestFails, InSiSdo
      <3>2. call.op = "LIST"
        BY <3>1 DEF PcInv
      <3>3. CASE ListFails
        BY <3>3, NotListing DEF ListFails, Return, InSiSdo
      <3> QED
        BY <1>1, <2>2, <3>2, <3>3, AskListStep, ListFrameStep, DescriptionStep, EntryStep, NextItemStep DEF SI_SDO
    <2> QED
      BY <2>1, <2>2
  <1>2. CASE Master /\ UNCHANGED dictionary
    <2>1. pc' \notin InSiSdo
      BY <1>2, MasterPc DEF InSiSdo
    <2> QED
      BY <2>1, NotListing
  <1>3. CASE ODSlave
    BY <1>3, DictionarySlaveStep DEF ODSlave, SlaveStep
  <1>4. CASE UNCHANGED odvars
    <2>1. UNCHANGED <<pc, call, in, out, slave, ODlist, OElist, item, sub, x, inStep>>
      BY <1>4 DEF odvars, vars, locals, dictionary
    <2>2. Pipe' = Pipe
      BY <2>1, PipeSame
    <2> QED
      BY <2>1, <2>2 DEF DictionaryInv, BeginListInv, ListInv, ItemsInv, DescriptionInv, EntriesInv, EntryInv,
                        Listing, NotTaken, OneAnswer
  <1> QED
    BY <1>1, <1>2, <1>3, <1>4 DEF ODMaster

-----------------------------------------------------------------------------
(* The theorems                                                            *)

\* It holds at the beginning.
LEMMA InitIs ==
  ASSUME ODInit
  PROVE  CoEInv
  <1>1. /\ pc = "idle" /\ call \in [n : {0}, op : {"READ"}, obj : Objects, size : {0}]
        /\ hp = 0 /\ data = <<>> /\ toggle = 0 /\ in = None /\ out = None /\ losses = 0
        /\ slave = [op |-> "none", call |-> 0, obj |-> call.obj, size |-> 0, pieces |-> <<>>,
                    at |-> 0, toggle |-> 0, done |-> FALSE, queue |-> <<>>]
    BY DEF ODInit, Init
  <1>2. NotLast \in BOOLEAN /\ stale \in BOOLEAN /\ missed \in BOOLEAN /\ lost \in BOOLEAN
    BY Zenon DEF ODInit, Init
  <1>3. /\ call = [n |-> call.n, op |-> call.op, obj |-> call.obj, size |-> call.size]
        /\ call.n = 0 /\ call.op = "READ" /\ call.obj \in Objects /\ call.size = 0
    BY <1>1
  <1>4. CallOK
    BY <1>3, CoEAssumption DEF CallOK
  <1>5. LocalsOK
    BY <1>1, <1>2, <1>3, PieceSeq DEF LocalsOK
  <1>6. SlaveOK
    <2>1. SlaveState(slave) /\ slave.queue = <<>>
      BY <1>1, PieceSeq DEF SlaveState
    <2> QED
      BY <2>1, EmptyIsSeq DEF SlaveOK
  <1>7. Numbers(in) /\ in.kind = "none"
    BY <1>1, PlainIs
  <1>8. TypeInv
    BY <1>1, <1>4, <1>5, <1>6, <1>7 DEF TypeInv
  <1>9. PcInv /\ DictionaryInv
    BY <1>1 DEF PcInv, InSiSdo, DictionaryInv, BeginListInv, ListInv, ItemsInv, DescriptionInv, EntriesInv, EntryInv
  <1>10. TransferInv
    BY <1>1, <1>3 DEF TransferInv, RequestInv, ReadResponseInv, ReadInv, TxPDOInv, WriteResponseInv,
                      WriteSegmentInv, WriteSentInv, RxPDOInv, WrittenInv, ReadWhole, Ended
  <1> QED
    BY <1>8, <1>9, <1>10 DEF CoEInv

\* The invariant of the mailbox transfers of CoE holds in every state.
THEOREM TransfersInvariant == ODSpec => []CoEInv
  <1>1. CoEInv /\ [ODMaster \/ ODSlave]_odvars => CoEInv'
    BY TypeStep, PcStep, TransferStep, DictionaryStep DEF CoEInv
  <1> QED
    BY InitIs, <1>1, PTL DEF ODSpec

\* What ecx_SDOread and ecx_TxPDO report as read is the slave's value, whole and in order, and no more
\* is copied than the caller's buffer holds.
THEOREM ReadsAreWhole == ODSpec => []ReadWhole
  <1>1. CoEInv => ReadWhole
    BY DEF CoEInv, TransferInv
  <1> QED
    BY <1>1, TransfersInvariant, PTL

\* What ecx_SDOwrite reports as written is in the slave, whole, and what ecx_RxPDO reports as sent is
\* in the slave or its mailbox.
THEOREM WritesAreConfirmed == ODSpec => []WriteConfirmed
  <1>1. CoEInv => WriteConfirmed
    <2> SUFFICES ASSUME CoEInv, call.size < Width
                 PROVE  /\ Ended("WRITE") /\ ~stale /\ ~missed => slave.done /\ Whole(slave.pieces, call.size)
                        /\ Ended("RXPDO") =>
                              Whole(IF in.kind = "RXPDO" THEN <<Piece(in, in.len)>> ELSE slave.pieces,
                                    Least(call.size, maxdata + 8))
      BY DEF WriteConfirmed
    <2>1. ASSUME Ended("WRITE"), ~stale, ~missed PROVE slave.done /\ Whole(slave.pieces, call.size)
      BY <2>1 DEF CoEInv, TransferInv, WrittenInv, InWrite, Ended
    <2>2. ASSUME Ended("RXPDO")
          PROVE  Whole(IF in.kind = "RXPDO" THEN <<Piece(in, in.len)>> ELSE slave.pieces,
                       Least(call.size, maxdata + 8))
      BY <2>2 DEF CoEInv, TransferInv, RxPDOInv
    <2> QED
      BY <2>1, <2>2
  <1> QED
    BY <1>1, TransfersInvariant, PTL

\* What slaveinfo shows of an object dictionary is the slave's, when no answer to an earlier request
\* was under way at any of its requests.
THEOREM DictionariesAreGenuine == ODSpec => []DictionaryGenuine
  <1>1. CoEInv => DictionaryGenuine
    <2> SUFFICES ASSUME CoEInv, pc = "shown", inStep PROVE DictionaryGenuine
      BY DEF DictionaryGenuine
    <2>1. Listing /\ ItemsInv /\ EntriesInv
      BY DEF CoEInv, PcInv, InSiSdo, Listing, DictionaryInv
    <2>2. /\ item \in Nat /\ item >= 1 /\ Len(ODlist) \in Nat /\ item <= Len(ODlist)
          /\ \A k \in 1 .. Len(ODlist) : ODlist[k].index = Dictionary[k].index
      BY <2>1, Listed
    <2> DEFINE n == Least(MaxFrames + 1, ListFrames)
    <2>3. Lists(ODlist, n) /\ Told(ODlist)
      BY <2>1 DEF ItemsInv
    <2>4. DOMAIN ODlist = 1 .. Len(ODlist)
      BY <2>3 DEF Lists, IsSeq
    <2>5. /\ DOMAIN OElist = 1 .. sub /\ Len(OElist) = sub /\ sub = ODlist[item].maxsub + 1
          /\ \A s \in 1 .. sub : OElist[s] \in {Nowhere, [index |-> ODlist[item].index, sub |-> s - 1]}
      BY <2>1 DEF EntriesInv, IsSeq
    <2>6. Len(ODlist) = Least(EC_MAXODLIST, WordsRead(n) - 1)
      <3>1. n # 0
        BY ListFramesHold, DictionaryAssumption DEF Least
      <3> QED
        BY <2>3, <3>1 DEF Lists
    <2>7. WordsRead(n) = Least(Words, (MaxFrames + 1) * WordsPerFrame)
      <3>1. /\ MaxFrames + 1 \in Nat /\ ListFrames \in Nat /\ Words \in Nat /\ WordsPerFrame \in Nat
            /\ Words <= ListFrames * WordsPerFrame
        BY ListFramesHold, DictionaryAssumption
      <3>2. CASE MaxFrames + 1 < ListFrames
        BY <3>1, <3>2 DEF WordsRead, Least
      <3>3. CASE MaxFrames + 1 >= ListFrames
        <4>1. n = ListFrames
          BY <3>1, <3>3 DEF Least
        <4>2. WordsRead(n) = Words
          BY <3>1, <4>1 DEF WordsRead, Least
        <4>3. (MaxFrames + 1) * WordsPerFrame >= ListFrames * WordsPerFrame
          BY <3>1, <3>3
        <4>4. (MaxFrames + 1) * WordsPerFrame \in Nat /\ ListFrames * WordsPerFrame \in Nat
          BY <3>1
        <4> QED
          BY <3>1, <4>2, <4>3, <4>4 DEF Least
      <3> QED
        BY <3>1, <3>2, <3>3
    <2>8. Len(ODlist) = Least(EC_MAXODLIST, Least(Len(Dictionary), (MaxFrames + 1) * WordsPerFrame - 1))
      <3>1. (MaxFrames + 1) * WordsPerFrame \in Nat
        BY DictionaryAssumption
      <3> QED
        BY <2>6, <2>7, <3>1, ListFramesHold, DictionaryAssumption DEF Least
    <2>9. ODlist[item].told => ODlist[item].maxsub = Dictionary[item].maxsub
      BY <2>2, <2>3 DEF Told
    <2> QED
      BY <2>2, <2>4, <2>5, <2>8, <2>9 DEF DictionaryGenuine
  <1> QED
    BY <1>1, TransfersInvariant, PTL

================================================================================
