-------------------------- MODULE RedundancyProofs --------------------------
(***************************************************************************)
(* Proofs about Redundancy: for any number of slaves, threads, buffers,    *)
(* retransmissions, troubles and failing sends, an answer with a positive  *)
(* working counter is that of the call, and one interruption of the row is *)
(* not noticed.                                                            *)
(*                                                                         *)
(* A datagram is at most two frames of one index, the data and the dummy.  *)
(* The invariant follows them: what of that index is at each socket, under *)
(* way or in a buffer that nobody has looked at, and what the thread has   *)
(* in hand.                                                                *)
(***************************************************************************)
EXTENDS Redundancy, SequenceTheorems, FiniteSetTheorems, NaturalsInduction, TLAPS

-----------------------------------------------------------------------------
(* The inductive invariant: types and indexes                              *)

Statuses == {"EMPTY", "ALLOC", "TX", "RCVD", "COMPLETE"}
Places == {"idle", "out", "dummy", "wait", "rewait", "done"}

\* The card a frame left by tells what it is.
FrameType ==
    {f \in [idx : Idx, txn : 0 .. MaxTxn, try : Nat, kind : {"data", "dummy", "none"}, by : Seq(1 .. N),
            sa : {"PRIM", "SEC", "none"}] :
        /\ f.kind = "data" <=> f.sa = "PRIM"
        /\ f.kind = "dummy" <=> f.sa = "SEC"
        /\ f.kind = "data" => f.txn \in 1 .. MaxTxn}

BufferTypes ==
    /\ stat \in [Sockets -> [Idx -> Statuses]]
    /\ rx \in [Sockets -> [Idx -> FrameType]]
    /\ tx \in [Idx -> Seq(1 .. N)]
    /\ lastidx \in Idx
    /\ net \in [Sockets -> SUBSET FrameType]

ThreadTypes ==
    /\ pc \in [Threads -> Places]
    /\ idx \in [Threads -> Idx]
    /\ txn \in [Threads -> 0 .. MaxTxn]
    /\ tries \in [Threads -> Nat]
    /\ got \in [Threads -> SUBSET Sockets]
    /\ answer \in [Threads -> FrameType]

WorldTypes ==
    /\ broken \in SUBSET Cables
    /\ begun \in 0 .. MaxTxn
    /\ executed \in [1 .. MaxTxn -> Seq(1 .. N)]
    /\ retries \in Nat
    /\ mixed \in BOOLEAN
    /\ disturbed \in SUBSET Threads

TypeInv == BufferTypes /\ ThreadTypes /\ WorldTypes

\* No call has index i.
Unused(i) == \A t \in Threads : pc[t] # "idle" => idx[t] # i

\* Every call has a number of its own, and an index of its own unless that of a call whose send failed
\* was given out again; no number was given out that is not begun.
IndexInv ==
    /\ \A t \in Threads : pc[t] # "idle" => txn[t] \in 1 .. begun
    /\ \A t, u \in Threads : pc[t] # "idle" /\ pc[u] # "idle" /\ t # u =>
          txn[t] # txn[u] /\ (~mixed => idx[t] # idx[u])
    /\ \A x \in 1 .. MaxTxn : x > begun => executed[x] = <<>>

-----------------------------------------------------------------------------
(* The inductive invariant: the work of the slaves                         *)

\* How often slave v is in the list q.
Times(q, v) == Cardinality({j \in 1 .. Len(q) : q[j] = v})

\* The work in q was done: no slave is in it more often than in x.
Within(q, x) == \A v \in 1 .. N : Times(q, v) <= Times(x, v)

\* A frame with a datagram carries no work that was not done.
Honest(f) == f.kind = "data" => Within(f.by, executed[f.txn])

\* That is so unless a frame outlived a wait and was taken for a later one.
WorkInv ==
    ~mixed => /\ \A s \in Sockets : \A f \in net[s] : Honest(f)
              /\ \A s \in Sockets, i \in Idx : Honest(rx[s][i])
              /\ \A t \in Threads : Honest(answer[t])

-----------------------------------------------------------------------------
(* The inductive invariant: what is under way                              *)

\* The frames of index i at socket s: still in the queue, or put in the buffer by another thread.
Queued(s, i) == {f \in net[s] : f.idx = i}
Here(s, i) == Queued(s, i) \cup {f \in {rx[s][i]} : stat[s][i] = "RCVD"}
Nowhere(i) == \A s \in Sockets : Here(s, i) = {}
\* What thread t has from socket s.
Hand(t, s) == {f \in {rx[s][idx[t]]} : s \in got[t]}

\* The datagram of the call of thread t; the dummy of its index, which has met no slave when it
\* arrives at the primary card.
IsData(t, f) == f.kind = "data" /\ f.txn = txn[t]
IsOurs(t, s, f) == IsData(t, f) \/ (f.kind = "dummy" /\ (s = "PRIM" => f.by = <<>>))

\* There is one dummy: queued, in a buffer or in hand.
OneDummy(t) ==
    /\ \A s, r \in Sockets : \A f \in Queued(s, idx[t]), g \in Queued(r, idx[t]) :
          f.kind = "dummy" /\ g.kind = "dummy" => s = r /\ f = g
    /\ \A s \in Sockets : stat[s][idx[t]] = "RCVD" /\ rx[s][idx[t]].kind = "dummy" =>
          \A r \in Sockets : /\ \A f \in Queued(r, idx[t]) : f.kind # "dummy"
                             /\ r # s /\ stat[r][idx[t]] = "RCVD" => rx[r][idx[t]].kind # "dummy"
    /\ \A s \in Sockets : s \in got[t] /\ rx[s][idx[t]].kind = "dummy" =>
          \A r \in Sockets : \A f \in Here(r, idx[t]) : f.kind # "dummy"

\* A frame that thread t has taken from socket s stays in the buffer.
Taken(t, s) == s \in got[t] => stat[s][idx[t]] = "COMPLETE"

\* What there is of the frames of a call, unless one of them outlived a wait.
Frames(t) ==
    /\ pc[t] = "out" => Nowhere(idx[t])
    /\ pc[t] = "dummy" => got[t] = {} /\ \A s \in Sockets : \A f \in Here(s, idx[t]) : IsData(t, f)
    /\ pc[t] = "wait" =>
          /\ \A s \in Sockets : \A f \in Here(s, idx[t]) \cup Hand(t, s) : IsOurs(t, s, f)
          /\ OneDummy(t)
          /\ \A s \in Sockets : Taken(t, s)
    /\ pc[t] = "rewait" =>
          /\ \A f \in Here("SEC", idx[t]) \cup Hand(t, "PRIM") : IsData(t, f)
          /\ Taken(t, "PRIM")
    /\ pc[t] = "done" => answer[t].by = <<>> \/ IsData(t, answer[t])
    /\ pc[t] # "idle" => Within(tx[idx[t]], executed[txn[t]])

FramesInv ==
    ~mixed => /\ \A t \in Threads : Frames(t)
             /\ \A i \in Idx : Unused(i) => Nowhere(i)

-----------------------------------------------------------------------------
(* The inductive invariant: a call that nothing disturbs                   *)

All == SlavesFrom(1, N)
First(t) == Data(t, Executing("PRIM"))
Probe(t) == [Dummy(t) EXCEPT !.by = Executing("SEC")]

\* What arrives at socket s of the data and the dummy.
Expected(t, s) == {f \in {First(t)} : s \in Arrives("PRIM")} \cup {f \in {Probe(t)} : s \in Arrives("SEC")}

\* The frames F are at socket s, and will find their thread.
Awaited(s, i, F) ==
    /\ Here(s, i) = F
    /\ stat[s][i] \in {"TX", "RCVD"}
    /\ stat[s][i] = "RCVD" => Queued(s, i) = {}

\* One interruption at most, and not between the primary card and the first slave nor behind the last.
Exact(t) ==
    /\ pc[t] = "out" =>
          /\ Nowhere(idx[t]) /\ tx[idx[t]] = <<>> /\ executed[txn[t]] = <<>>
          /\ stat["SEC"][idx[t]] = "ALLOC"
    /\ pc[t] \in {"dummy", "wait"} => tx[idx[t]] = <<>> /\ executed[txn[t]] = Executing("PRIM")
    /\ pc[t] = "dummy" =>
          /\ Awaited("PRIM", idx[t], {f \in {First(t)} : "PRIM" \in Arrives("PRIM")})
          /\ Here("SEC", idx[t]) = {f \in {First(t)} : "SEC" \in Arrives("PRIM")}
          /\ stat["SEC"][idx[t]] = "ALLOC"
    /\ pc[t] = "wait" => \A s \in Sockets :
          IF s \in got[t]
          THEN Here(s, idx[t]) = {} /\ rx[s][idx[t]] \in Expected(t, s)
          ELSE Awaited(s, idx[t], Expected(t, s))
    /\ pc[t] = "rewait" => executed[txn[t]] = All /\ Awaited("SEC", idx[t], {Data(t, All)})
    /\ pc[t] = "done" => executed[txn[t]] = All /\ answer[t] = Data(t, All)

Undisturbed(t) == ~mixed /\ t \notin disturbed /\ Cardinality(broken) <= 1
ExactInv == \A t \in Threads : Undisturbed(t) => Exact(t)

RedundancyInv == TypeInv /\ IndexInv /\ WorkInv /\ FramesInv /\ ExactInv

-----------------------------------------------------------------------------
(* Numbers and lists                                                       *)

\* There is a slave and a buffer.
LEMMA Sizes == N \in Nat /\ N >= 1 /\ EC_MAXBUF \in Nat /\ EC_MAXBUF >= 1 /\ MaxTxn \in Nat
  BY RedundancyAssumption

\* A set of numbers that is not empty has a least one.
LEMMA LeastExists ==
  ASSUME NEW T \in SUBSET Nat, T # {}
  PROVE  \E x \in T : \A y \in T : x <= y
  <1> DEFINE R == OpToRel(<, Nat)
  <1>1. PICK x \in T : \A y \in T : ~(<<y, x>> \in R)
    <2> HIDE DEF R
    <2>1. IsWellFoundedOn(R, Nat)
      BY NatLessThanWellFounded DEF R
    <2> QED
      BY <2>1, WFMin
  <1>2. \A y \in T : ~(y < x)
    BY <1>1 DEF OpToRel
  <1> QED
    BY <1>2

\* One below a bound has a greatest one.
LEMMA GreatestExists ==
  ASSUME NEW n \in Nat, NEW T \in SUBSET (0 .. n), T # {}
  PROVE  \E x \in T : \A y \in T : x >= y
  <1> DEFINE D == {d \in 0 .. n : n - d \in T}
  <1>1. D \in SUBSET Nat /\ D # {}
    <2>1. PICK x \in T : TRUE
      OBVIOUS
    <2>2. x \in 0 .. n
      BY <2>1
    <2>3. n - x \in 0 .. n /\ n - (n - x) = x
      BY <2>2
    <2>4. n - x \in D
      BY <2>1, <2>3
    <2>5. \A d \in D : d \in Nat
      OBVIOUS
    <2> QED
      BY <2>4, <2>5
  <1>2. PICK d \in D : \A e \in D : d <= e
    BY <1>1, LeastExists
  <1>3. \A y \in T : n - y \in D
    <2> SUFFICES ASSUME NEW y \in T PROVE n - y \in D
      OBVIOUS
    <2>1. y \in 0 .. n /\ n - (n - y) = y
      OBVIOUS
    <2> QED
      BY <2>1
  <1>4. n - d \in T /\ \A y \in T : n - d >= y
    <2> SUFFICES ASSUME NEW y \in T PROVE n - d >= y
      OBVIOUS
    <2>1. d <= n - y
      BY <1>2, <1>3
    <2> QED
      BY <2>1
  <1> QED
    BY <1>4

\* The least and the greatest cable that is interrupted.
LEMMA BrokenBounds ==
  ASSUME broken \in SUBSET Cables, broken # {}
  PROVE  Min(broken) \in broken /\ Max(broken) \in broken
  <1>1. broken \in SUBSET Nat
    BY RedundancyAssumption DEF Cables
  <1>2. \E x \in broken : \A y \in broken : x <= y
    BY <1>1, LeastExists
  <1>3. \E x \in broken : \A y \in broken : x >= y
    BY GreatestExists, RedundancyAssumption DEF Cables
  <1> QED
    BY <1>2, <1>3 DEF Min, Max

\* The slaves of a part of the row.
LEMMA SlavesFromType ==
  ASSUME NEW i \in 1 .. N + 1, NEW j \in 0 .. N, i <= j + 1
  PROVE  /\ SlavesFrom(i, j) \in Seq(1 .. N)
         /\ Len(SlavesFrom(i, j)) = j + 1 - i
         /\ \A k \in 1 .. j + 1 - i : SlavesFrom(i, j)[k] = i + k - 1
  <1> DEFINE n == j + 1 - i
  <1>1. n \in Nat /\ \A k \in 1 .. n : i + k - 1 \in 1 .. N
    BY RedundancyAssumption
  <1>2. SlavesFrom(i, j) = [k \in 1 .. n |-> i + k - 1]
    BY DEF SlavesFrom
  <1> HIDE DEF n
  <1>3. SlavesFrom(i, j) \in [1 .. n -> 1 .. N]
    BY <1>1, <1>2
  <1>4. SlavesFrom(i, j) \in Seq(1 .. N)
    BY <1>1, <1>3, SeqDef
  <1>5. Len(SlavesFrom(i, j)) = n
    BY <1>1, <1>2, <1>3, <1>4, LenProperties
  <1>6. \A k \in 1 .. n : SlavesFrom(i, j)[k] = i + k - 1
    BY <1>2
  <1> QED
    BY <1>4, <1>5, <1>6 DEF n

\* What slaves execute a frame.
LEMMA ExecutingType ==
  ASSUME broken \in SUBSET Cables, NEW s \in Sockets
  PROVE  Executing(s) \in Seq(1 .. N)
  <1>1. CASE broken = {}
    <2>1. 1 \in 1 .. N + 1 /\ N \in 0 .. N /\ 1 <= N + 1
      BY Sizes
    <2>2. SlavesFrom(1, N) \in Seq(1 .. N)
      BY <2>1, SlavesFromType
    <2> QED
      BY <1>1, <2>2, EmptySeq DEF Executing
  <1>2. CASE broken # {}
    <2>1. Min(broken) \in 0 .. N /\ Max(broken) \in 0 .. N
      BY <1>2, BrokenBounds DEF Cables
    <2>2. /\ 1 \in 1 .. N + 1 /\ 1 <= Min(broken) + 1
          /\ Max(broken) + 1 \in 1 .. N + 1 /\ N \in 0 .. N /\ Max(broken) + 1 <= N + 1
      BY <2>1, RedundancyAssumption
    <2> QED
      BY <1>2, <2>1, <2>2, SlavesFromType DEF Executing, Sockets
  <1> QED
    BY <1>1, <1>2

\* Two parts of the row that follow each other are the row.
LEMMA RowParts ==
  ASSUME NEW c \in 0 .. N
  PROVE  SlavesFrom(1, c) \o SlavesFrom(c + 1, N) = All
  <1> DEFINE a == SlavesFrom(1, c)
             b == SlavesFrom(c + 1, N)
  <1>1. a \in Seq(1 .. N) /\ Len(a) = c /\ \A k \in 1 .. c : a[k] = k
    <2>1. 1 \in 1 .. N + 1 /\ 1 <= c + 1 /\ c + 1 - 1 = c
      BY Sizes
    <2>2. a \in Seq(1 .. N) /\ Len(a) = c + 1 - 1 /\ \A k \in 1 .. c + 1 - 1 : a[k] = 1 + k - 1
      BY <2>1, SlavesFromType
    <2> HIDE DEF a
    <2> QED
      BY <2>1, <2>2
  <1>2. b \in Seq(1 .. N) /\ Len(b) = N - c /\ \A k \in 1 .. N - c : b[k] = c + k
    <2>1. c + 1 \in 1 .. N + 1 /\ N \in 0 .. N /\ c + 1 <= N + 1 /\ N + 1 - (c + 1) = N - c
      BY Sizes
    <2>2. /\ b \in Seq(1 .. N) /\ Len(b) = N + 1 - (c + 1)
          /\ \A k \in 1 .. N + 1 - (c + 1) : b[k] = (c + 1) + k - 1
      BY <2>1, SlavesFromType
    <2> HIDE DEF b
    <2> QED
      BY <2>1, <2>2, Sizes
  <1>3. All \in Seq(1 .. N) /\ Len(All) = N /\ \A k \in 1 .. N : All[k] = k
    <2>1. 1 \in 1 .. N + 1 /\ N \in 0 .. N /\ 1 <= N + 1 /\ N + 1 - 1 = N
      BY Sizes
    <2>2. All \in Seq(1 .. N) /\ Len(All) = N + 1 - 1 /\ \A k \in 1 .. N + 1 - 1 : All[k] = 1 + k - 1
      BY <2>1, SlavesFromType DEF All
    <2> QED
      BY <2>1, <2>2
  <1> HIDE DEF a, b
  <1>4. a \o b \in Seq(1 .. N) /\ Len(a \o b) = N
    <2>1. Len(a \o b) = Len(a) + Len(b) /\ a \o b \in Seq(1 .. N)
      BY <1>1, <1>2, ConcatProperties
    <2> QED
      BY <1>1, <1>2, <2>1, Sizes
  <1>5. \A k \in 1 .. N : (a \o b)[k] = k
    <2> SUFFICES ASSUME NEW k \in 1 .. N PROVE (a \o b)[k] = k
      OBVIOUS
    <2>1. k \in 1 .. Len(a) + Len(b)
      BY <1>1, <1>2, RedundancyAssumption
    <2>2. (a \o b)[k] = IF k <= Len(a) THEN a[k] ELSE b[k - Len(a)]
      BY <1>1, <1>2, <2>1, ConcatProperties
    <2>3. CASE k <= c
      BY <1>1, <2>2, <2>3
    <2>4. CASE ~(k <= c)
      <3>1. k - c \in 1 .. N - c /\ c + (k - c) = k
        BY <2>4, RedundancyAssumption
      <3> QED
        BY <1>1, <1>2, <2>2, <2>4, <3>1
    <2> QED
      BY <2>3, <2>4
  <1>6. a \o b = All
    BY <1>3, <1>4, <1>5, SeqEqual
  <1> QED
    BY <1>6 DEF a, b

\* Counting in lists.
LEMMA TimesType ==
  ASSUME NEW q \in Seq(1 .. N), NEW v
  PROVE  /\ Times(q, v) \in Nat
         /\ IsFiniteSet({j \in 1 .. Len(q) : q[j] = v})
  <1>1. Len(q) \in Nat
    BY LenProperties
  <1>2. IsFiniteSet(1 .. Len(q))
    BY <1>1, FS_Interval
  <1>3. IsFiniteSet({j \in 1 .. Len(q) : q[j] = v})
    BY <1>2, FS_Subset
  <1> QED
    BY <1>3, FS_CardinalityType DEF Times

\* Nobody is in the empty list.
LEMMA TimesOfNone ==
  ASSUME NEW v
  PROVE  Times(<<>>, v) = 0
  <1>1. {j \in 1 .. Len(<<>>) : <<>>[j] = v} = {}
    BY EmptySeq
  <1> QED
    BY <1>1, FS_EmptySet DEF Times

\* Lists one after the other add up.
LEMMA TimesOfBoth ==
  ASSUME NEW p \in Seq(1 .. N), NEW q \in Seq(1 .. N), NEW v
  PROVE  Times(p \o q, v) = Times(p, v) + Times(q, v)
  <1> DEFINE P == {j \in 1 .. Len(p) : p[j] = v}
             Q == {j \in 1 .. Len(q) : q[j] = v}
             S == {j + Len(p) : j \in Q}
             B == {j \in 1 .. Len(p \o q) : (p \o q)[j] = v}
  <1>1. Len(p) \in Nat /\ Len(q) \in Nat /\ Len(p \o q) = Len(p) + Len(q)
        /\ \A j \in 1 .. Len(p) + Len(q) : (p \o q)[j] = IF j <= Len(p) THEN p[j] ELSE q[j - Len(p)]
    BY LenProperties, ConcatProperties
  <1>2. IsFiniteSet(P) /\ IsFiniteSet(Q) /\ Cardinality(P) \in Nat /\ Cardinality(Q) \in Nat
    BY TimesType DEF Times
  <1>3. IsFiniteSet(S) /\ Cardinality(S) = Cardinality(Q)
    <2> DEFINE f == [j \in Q |-> j + Len(p)]
    <2>1. f \in [Q -> S]
      OBVIOUS
    <2>2. \A j, k \in Q : f[j] = f[k] => j = k
      BY <1>1
    <2>3. \A y \in S : \E j \in Q : f[j] = y
      OBVIOUS
    <2> HIDE DEF f, S, Q
    <2>4. f \in Bijection(Q, S)
      BY <2>1, <2>2, <2>3 DEF Bijection, Injection, Surjection, IsInjective
    <2>5. ExistsBijection(Q, S)
      BY <2>4 DEF ExistsBijection
    <2> QED
      BY <1>2, <2>5, FS_Bijection
  <1>4. B = P \cup S
    <2>1. B \subseteq P \cup S
      <3> SUFFICES ASSUME NEW j \in B, j \notin P PROVE j \in S
        OBVIOUS
      <3>1. j \in 1 .. Len(p) + Len(q) /\ ~(j <= Len(p)) /\ q[j - Len(p)] = v
        BY <1>1
      <3>2. j - Len(p) \in 1 .. Len(q) /\ (j - Len(p)) + Len(p) = j
        BY <1>1, <3>1
      <3> QED
        BY <3>1, <3>2
    <2>2. P \subseteq B
      BY <1>1
    <2>3. S \subseteq B
      <3> SUFFICES ASSUME NEW k \in Q PROVE k + Len(p) \in B
        OBVIOUS
      <3>1. k + Len(p) \in 1 .. Len(p) + Len(q) /\ ~(k + Len(p) <= Len(p)) /\ (k + Len(p)) - Len(p) = k
        BY <1>1
      <3> QED
        BY <1>1, <3>1
    <2> QED
      BY <2>1, <2>2, <2>3
  <1>5. P \cap S = {}
    BY <1>1
  <1> HIDE DEF P, S, B, Q
  <1>6. Cardinality(B) = Cardinality(P) + Cardinality(Q)
    <2>1. Cardinality(B) = Cardinality(P) + Cardinality(S) - Cardinality(P \cap S)
      BY <1>2, <1>3, <1>4, FS_Union
    <2>2. Cardinality(P \cap S) = 0
      BY <1>5, FS_EmptySet
    <2> QED
      BY <1>2, <1>3, <2>1, <2>2
  <1> QED
    BY <1>6 DEF Times, P, Q, B

\* What was done stays done, and what is added to both sides does not matter.
LEMMA WithinFacts ==
  ASSUME NEW p \in Seq(1 .. N), NEW q \in Seq(1 .. N), NEW r \in Seq(1 .. N)
  PROVE  /\ Within(<<>>, q)
         /\ Within(p, q) => Within(p, q \o r)
         /\ Within(p, q) => Within(p \o r, q \o r)
  <1>1. \A v \in 1 .. N : /\ Times(p, v) \in Nat /\ Times(q, v) \in Nat /\ Times(r, v) \in Nat
                          /\ Times(<<>>, v) = 0
                          /\ Times(q \o r, v) = Times(q, v) + Times(r, v)
                          /\ Times(p \o r, v) = Times(p, v) + Times(r, v)
    BY TimesType, TimesOfNone, TimesOfBoth
  <1> QED
    BY <1>1 DEF Within

\* The index that ecx_getindex finds is free.
LEMMA IndexFound ==
  ASSUME BufferTypes, \E i \in Idx : stat["PRIM"][i] = "EMPTY"
  PROVE  NextFree(lastidx) \in Idx /\ stat["PRIM"][NextFree(lastidx)] = "EMPTY"
  <1> DEFINE At(d) == (lastidx + d) % EC_MAXBUF
             D == {d \in 1 .. EC_MAXBUF : stat["PRIM"][At(d)] = "EMPTY"}
  <1>1. EC_MAXBUF \in Nat \ {0} /\ lastidx \in Nat /\ lastidx < EC_MAXBUF
    BY RedundancyAssumption DEF BufferTypes, Idx
  <1>2. \A d \in Nat : At(d) \in Idx
    BY <1>1 DEF Idx
  <1>3. D # {}
    <2>1. PICK i \in Idx : stat["PRIM"][i] = "EMPTY"
      OBVIOUS
    <2>2. i \in Nat /\ i < EC_MAXBUF
      BY <1>1 DEF Idx
    <2>3. i % EC_MAXBUF = i /\ (i + EC_MAXBUF) % EC_MAXBUF = i
      BY <1>1, <2>2
    <2>4. CASE i > lastidx
      <3>1. i - lastidx \in 1 .. EC_MAXBUF /\ lastidx + (i - lastidx) = i
        BY <1>1, <2>2, <2>4
      <3> QED
        BY <2>1, <2>3, <3>1
    <2>5. CASE ~(i > lastidx)
      <3>1. /\ i + EC_MAXBUF - lastidx \in 1 .. EC_MAXBUF
            /\ lastidx + (i + EC_MAXBUF - lastidx) = i + EC_MAXBUF
        BY <1>1, <2>2, <2>5
      <3> QED
        BY <2>1, <2>3, <3>1
    <2> QED
      BY <2>4, <2>5
  <1>4. PICK d \in D : \A e \in D : d <= e
    <2>1. D \in SUBSET Nat
      OBVIOUS
    <2> HIDE DEF D
    <2> QED
      BY <1>3, <2>1, LeastExists
  <1>5. \A e \in 1 .. d - 1 : stat["PRIM"][At(e)] # "EMPTY"
    <2> SUFFICES ASSUME NEW e \in 1 .. d - 1 PROVE stat["PRIM"][At(e)] # "EMPTY"
      OBVIOUS
    <2>1. e \in 1 .. EC_MAXBUF /\ ~(d <= e)
      BY <1>1
    <2> HIDE DEF At
    <2> QED
      BY <1>4, <2>1
  <1> DEFINE Found(j) == \E m \in 1 .. EC_MAXBUF :
                  /\ j = At(m)
                  /\ stat["PRIM"][j] = "EMPTY"
                  /\ \A e \in 1 .. m - 1 : stat["PRIM"][At(e)] # "EMPTY"
  <1>6. At(d) \in Idx /\ Found(At(d))
    BY <1>2, <1>4, <1>5
  <1>7. NextFree(lastidx) = CHOOSE j \in Idx : Found(j)
    BY DEF NextFree
  <1>8. \A j : Found(j) => stat["PRIM"][j] = "EMPTY"
    OBVIOUS
  <1> HIDE DEF Found
  <1> QED
    BY <1>6, <1>7, <1>8

-----------------------------------------------------------------------------
(* Frames, and what is sent                                                *)

\* Frame f after the slaves it passes.
Run(s, f) == [f EXCEPT !.by = @ \o Executing(s)]

\* The answer EC_NOFRAME is one of the frames, of no kind.
LEMMA NoFrameType == NoFrame \in FrameType
  <1>1. 0 \in Idx /\ 0 \in 0 .. MaxTxn /\ <<>> \in Seq(1 .. N)
    BY Sizes, EmptySeq DEF Idx
  <1> QED
    BY <1>1 DEF NoFrame, FrameType

\* The data and the dummy of a call.
LEMMA OwnFrames ==
  ASSUME TypeInv, NEW t \in Threads, txn[t] \in 1 .. MaxTxn, NEW b \in Seq(1 .. N)
  PROVE  /\ Data(t, b) \in FrameType /\ Dummy(t) \in FrameType
         /\ Data(t, b).idx = idx[t] /\ Data(t, b).txn = txn[t] /\ Data(t, b).kind = "data"
         /\ Data(t, b).by = b /\ Data(t, b).sa = "PRIM"
         /\ Dummy(t).idx = idx[t] /\ Dummy(t).kind = "dummy" /\ Dummy(t).by = <<>> /\ Dummy(t).sa = "SEC"
  <1>1. /\ idx[t] \in Idx /\ txn[t] \in 0 .. MaxTxn /\ tries[t] \in Nat /\ <<>> \in Seq(1 .. N)
    BY EmptySeq DEF TypeInv, ThreadTypes
  <1>2. Data(t, b) \in FrameType
    BY <1>1 DEF Data, FrameType
  <1>3. Dummy(t) \in FrameType
    BY <1>1 DEF Dummy, FrameType
  <1> QED
    BY <1>2, <1>3 DEF Data, Dummy

\* The slaves only add their work to a frame.
LEMMA RunFacts ==
  ASSUME TypeInv, NEW s \in Sockets, NEW f \in FrameType
  PROVE  /\ Run(s, f) \in FrameType
         /\ Run(s, f).idx = f.idx /\ Run(s, f).txn = f.txn /\ Run(s, f).try = f.try
         /\ Run(s, f).kind = f.kind /\ Run(s, f).sa = f.sa /\ Run(s, f).by = f.by \o Executing(s)
  <1> DEFINE b == f.by \o Executing(s)
  <1>1. f.by \in Seq(1 .. N)
    BY DEF FrameType
  <1>2. b \in Seq(1 .. N)
    BY <1>1, ExecutingType, ConcatProperties DEF TypeInv, WorldTypes
  <1>3. Run(s, f) = [f EXCEPT !.by = b]
    BY DEF Run
  <1> HIDE DEF b
  <1>4. /\ Run(s, f) \in FrameType
        /\ Run(s, f).idx = f.idx /\ Run(s, f).txn = f.txn /\ Run(s, f).try = f.try
        /\ Run(s, f).kind = f.kind /\ Run(s, f).sa = f.sa /\ Run(s, f).by = b
    BY <1>2, <1>3 DEF FrameType
  <1> QED
    BY <1>4 DEF b

\* Sending: one more frame where it arrives, and the slaves' work.
LEMMA SendFacts ==
  ASSUME TypeInv, NEW s \in Sockets, NEW f \in FrameType, Send(s, f)
  PROVE  /\ net' \in [Sockets -> SUBSET FrameType]
         /\ \A d \in Sockets : net'[d] = IF d \in Arrives(s) THEN net[d] \cup {Run(s, f)} ELSE net[d]
         /\ executed' \in [1 .. MaxTxn -> Seq(1 .. N)]
         /\ f.kind = "data" => executed'[f.txn] = executed[f.txn] \o Executing(s)
         /\ \A x \in 1 .. MaxTxn : f.kind # "data" \/ x # f.txn => executed'[x] = executed[x]
  <1>1. net' = [d \in Sockets |-> IF d \in Arrives(s) THEN net[d] \cup {Run(s, f)} ELSE net[d]]
    BY DEF Send, Run
  <1>2. net' \in [Sockets -> SUBSET FrameType]
    BY <1>1, RunFacts DEF TypeInv, BufferTypes
  <1>3. executed \in [1 .. MaxTxn -> Seq(1 .. N)]
    BY DEF TypeInv, WorldTypes
  <1>4. CASE f.kind = "data"
    <2>1. f.txn \in 1 .. MaxTxn
      BY <1>4 DEF FrameType
    <2>2. executed' = [executed EXCEPT ![f.txn] = executed[f.txn] \o Executing(s)]
      BY <1>4 DEF Send
    <2>3. executed[f.txn] \o Executing(s) \in Seq(1 .. N)
      BY <1>3, <2>1, ExecutingType, ConcatProperties DEF TypeInv, WorldTypes
    <2> QED
      BY <1>1, <1>2, <1>3, <1>4, <2>1, <2>2, <2>3
  <1>5. CASE f.kind # "data"
    BY <1>1, <1>2, <1>3, <1>5 DEF Send
  <1> QED
    BY <1>4, <1>5

\* The end of an ecx_waitinframe_red: the call is done, or is tried again.
LEMMA ResultFacts ==
  ASSUME TypeInv, NEW t \in Threads, NEW f \in FrameType, Result(t, f)
  PROVE  /\ pc' \in [Threads -> Places] /\ tries' \in [Threads -> Nat] /\ answer' \in [Threads -> FrameType]
         /\ \A u \in Threads \ {t} : pc'[u] = pc[u] /\ tries'[u] = tries[u] /\ answer'[u] = answer[u]
         /\ \/ pc'[t] = "done" /\ answer'[t] = f /\ tries'[t] = tries[t]
            \/ pc'[t] = "out" /\ f = NoFrame /\ answer'[t] = answer[t]
         /\ retries' \in Nat
  <1>1. pc \in [Threads -> Places] /\ tries \in [Threads -> Nat] /\ answer \in [Threads -> FrameType]
    BY DEF TypeInv, ThreadTypes
  <1>a. retries' \in Nat
    BY DEF Result, TypeInv, WorldTypes
  <1>2. CASE /\ f = NoFrame /\ pc' = [pc EXCEPT ![t] = "out"]
             /\ tries' = [tries EXCEPT ![t] = tries[t] + 1] /\ answer' = answer
    BY <1>1, <1>2, <1>a DEF Places
  <1>3. CASE pc' = [pc EXCEPT ![t] = "done"] /\ answer' = [answer EXCEPT ![t] = f] /\ tries' = tries
    BY <1>1, <1>3, <1>a DEF Places
  <1> QED
    BY <1>2, <1>3 DEF Result

-----------------------------------------------------------------------------
(* The steps of a thread: types, indexes and work, and what they leave     *)
(* alone                                                                   *)

\* Nothing but the state of thread u and of index i changes, except that other threads' calls can
\* turn out to be mixed up.
Local(u, i) ==
    /\ \A t \in Threads \ {u} :
          /\ pc'[t] = pc[t] /\ idx'[t] = idx[t] /\ txn'[t] = txn[t]
          /\ tries'[t] = tries[t] /\ got'[t] = got[t] /\ answer'[t] = answer[t]
    /\ \A s \in Sockets, j \in Idx \ {i} :
          stat'[s][j] = stat[s][j] /\ rx'[s][j] = rx[s][j] /\ Queued(s, j)' = Queued(s, j)
    /\ \A j \in Idx \ {i} : tx'[j] = tx[j]
    /\ \A x \in 1 .. MaxTxn : x # txn[u] => executed'[x] = executed[x]
    /\ broken' = broken
    /\ mixed => mixed'
    /\ \A t \in Threads \ {u} : t \in disturbed' <=> t \in disturbed

\* Every frame there is comes from one there was.
Carried ==
    /\ executed' = executed
    /\ mixed => mixed'
    /\ \A s \in Sockets : net'[s] \subseteq net[s]
    /\ \A s \in Sockets, i \in Idx :
          rx'[s][i] = NoFrame \/ \E r \in Sockets : rx'[s][i] \in net[r] \/ rx'[s][i] = rx[r][i]
    /\ \A t \in Threads :
          \/ answer'[t] \in {NoFrame, answer[t]}
          \/ \E r \in Sockets : answer'[t] \in net[r] \/ \E i \in Idx : answer'[t] = rx[r][i]

\* As long as no frame is made, all of them carry work that was done.
LEMMA CarriedKeeps ==
  ASSUME WorkInv, Carried
  PROVE  WorkInv'
  <1> SUFFICES ASSUME ~mixed, ~mixed' PROVE WorkInv'
    BY DEF WorkInv, Carried
  <1>1. \A f : Honest(f) => Honest(f)'
    BY DEF Carried, Honest
  <1>2. Honest(NoFrame)
    BY DEF Honest, NoFrame
  <1>3. \A s \in Sockets : \A f \in net'[s] : Honest(f)
    BY DEF WorkInv, Carried
  <1>4. \A s \in Sockets, i \in Idx : Honest(rx'[s][i])
    BY <1>2 DEF WorkInv, Carried
  <1>5. ASSUME NEW t \in Threads PROVE Honest(answer'[t])
    <2> Honest(answer[t])
      BY DEF WorkInv
    <2>1. CASE answer'[t] \in {NoFrame, answer[t]}
      <3>1. CASE answer'[t] = NoFrame
        BY <1>2, <3>1
      <3>2. CASE answer'[t] = answer[t]
        BY <3>2
      <3> QED
        BY <2>1, <3>1, <3>2
    <2>2. CASE \E r \in Sockets : answer'[t] \in net[r]
      BY <2>2 DEF WorkInv
    <2>3. CASE \E r \in Sockets, i \in Idx : answer'[t] = rx[r][i]
      BY <2>3 DEF WorkInv
    <2> QED
      BY <2>1, <2>2, <2>3 DEF Carried
  <1> QED
    BY <1>1, <1>3, <1>4, <1>5 DEF WorkInv, Carried, Honest

\* A step of thread u inside its call keeps the indexes.
LEMMA IndexKept ==
  ASSUME TypeInv, IndexInv, NEW u \in Threads, pc[u] # "idle", Local(u, idx[u]),
         idx'[u] = idx[u], txn'[u] = txn[u], begun' = begun
  PROVE  IndexInv'
  <1>1. \A t \in Threads : /\ idx'[t] = idx[t] /\ txn'[t] = txn[t] /\ idx[t] \in Idx
                           /\ pc'[t] # "idle" => pc[t] # "idle"
    BY DEF Local, TypeInv, ThreadTypes
  <1>2. \A t \in Threads : pc'[t] # "idle" => txn[t] \in 1 .. begun
    BY <1>1 DEF IndexInv
  <1>3. \A x \in 1 .. MaxTxn : x > begun => executed'[x] = <<>>
    <2>1. txn[u] \in 1 .. begun /\ begun \in Nat
      BY Sizes DEF IndexInv, TypeInv, WorldTypes
    <2> QED
      BY <2>1 DEF Local, IndexInv
  <1>4. mixed => mixed'
    BY DEF Local
  <1> QED
    BY <1>1, <1>2, <1>3, <1>4 DEF IndexInv

\* The place of a thread in its call.
LEMMA CallFacts ==
  ASSUME TypeInv, IndexInv, NEW u \in Threads, pc[u] # "idle"
  PROVE  /\ idx[u] \in Idx /\ txn[u] \in 1 .. MaxTxn /\ txn[u] \in 1 .. begun
         /\ tx[idx[u]] \in Seq(1 .. N) /\ got[u] \in SUBSET Sockets
         /\ \A s \in Sockets : rx[s][idx[u]] \in FrameType /\ stat[s][idx[u]] \in Statuses
  BY Sizes DEF TypeInv, IndexInv, ThreadTypes, BufferTypes, WorldTypes

\* ecx_getindex and the building of the datagram.
LEMMA GetIndexStep ==
  ASSUME TypeInv, IndexInv, WorkInv, NEW u \in Threads, GetIndex(u)
  PROVE  /\ TypeInv' /\ IndexInv' /\ WorkInv'
         /\ Local(u, idx'[u]) /\ (~mixed' => Unused(idx'[u]))
         /\ executed'[txn'[u]] = <<>>
  <1> DEFINE i == NextFree(lastidx)
  <1>1. i \in Idx /\ stat["PRIM"][i] = "EMPTY"
    BY IndexFound DEF GetIndex, TypeInv
  <1>2. /\ idx' = [idx EXCEPT ![u] = i] /\ lastidx' = i
        /\ stat' = [s \in Sockets |-> [stat[s] EXCEPT ![i] = "ALLOC"]]
        /\ tx' = [tx EXCEPT ![i] = <<>>]
    BY DEF GetIndex
  <1> HIDE DEF i
  <1>3. /\ pc[u] = "idle" /\ pc' = [pc EXCEPT ![u] = "out"]
        /\ txn' = [txn EXCEPT ![u] = begun + 1] /\ tries' = [tries EXCEPT ![u] = 1]
        /\ begun' = begun + 1 /\ begun + retries < MaxTxn /\ disturbed' = disturbed \ {u}
        /\ UNCHANGED <<rx, broken, net, got, answer, executed, troubles, retries>>
    BY DEF GetIndex, Goto
  <1>0. mixed' = (mixed \/ \E t \in Threads : pc[t] # "idle" /\ idx[t] = i)
    BY DEF GetIndex, i
  <1>4. begun + 1 \in 1 .. MaxTxn /\ begun \in Nat
    BY <1>3, Sizes DEF TypeInv, WorldTypes
  <1>5. BufferTypes'
    BY <1>1, <1>2, <1>3, EmptySeq DEF TypeInv, BufferTypes, Statuses
  <1>6. ThreadTypes'
    BY <1>1, <1>2, <1>3, <1>4 DEF TypeInv, ThreadTypes, Places
  <1>7. WorldTypes'
    BY <1>0, <1>3, <1>4 DEF TypeInv, WorldTypes
  <1>8. idx'[u] = i /\ txn'[u] = begun + 1
    BY <1>2, <1>3 DEF TypeInv, ThreadTypes
  <1>9. Local(u, i)
    BY <1>0, <1>1, <1>2, <1>3 DEF Local, Queued, TypeInv, BufferTypes, ThreadTypes
  <1>10. executed'[begun + 1] = <<>>
    BY <1>3, <1>4 DEF IndexInv
  <1>11. IndexInv'
    <2>1. \A t \in Threads \ {u} : pc'[t] # "idle" =>
             idx'[t] = idx[t] /\ txn'[t] = txn[t] /\ (~mixed' => idx[t] # i) /\ txn[t] \in 1 .. begun
      BY <1>0, <1>9, CallFacts DEF Local
    <2>3. \A t \in Threads : pc'[t] # "idle" => txn'[t] \in 1 .. begun'
      BY <1>3, <1>4, <1>8, <2>1
    <2>4. \A t, v \in Threads : pc'[t] # "idle" /\ pc'[v] # "idle" /\ t # v =>
             txn'[t] # txn'[v] /\ (~mixed' => idx'[t] # idx'[v])
      <3> SUFFICES ASSUME NEW t \in Threads, NEW v \in Threads, pc'[t] # "idle", pc'[v] # "idle", t # v
                   PROVE  txn'[t] # txn'[v] /\ (~mixed' => idx'[t] # idx'[v])
        OBVIOUS
      <3>1. CASE t # u /\ v # u
        BY <2>1, <3>1, <1>0, <1>9 DEF IndexInv, Local
      <3>2. CASE t = u
        BY <1>4, <1>8, <2>1, <3>2
      <3>3. CASE v = u
        BY <1>4, <1>8, <2>1, <3>3
      <3> QED
        BY <3>1, <3>2, <3>3
    <2>5. \A x \in 1 .. MaxTxn : x > begun' => executed'[x] = <<>>
      BY <1>3, <1>4 DEF IndexInv
    <2> QED
      BY <2>3, <2>4, <2>5 DEF IndexInv
  <1>12. Carried
    BY <1>0, <1>3 DEF Carried
  <1>13. ~mixed' => Unused(idx'[u])
    BY <1>0, <1>8 DEF Unused
  <1> QED
    BY <1>1, <1>13, <1>5, <1>6, <1>7, <1>8, <1>9, <1>10, <1>11, <1>12, CarriedKeeps DEF TypeInv

\* A datagram that carries only work that was done is sent.
LEMMA SendWork ==
  ASSUME TypeInv, WorkInv, NEW s \in Sockets, NEW f \in FrameType, Send(s, f),
         ~mixed => Honest(f), mixed => mixed', rx' = rx, answer' = answer
  PROVE  WorkInv'
  <1> SUFFICES ASSUME ~mixed, ~mixed' PROVE WorkInv'
    BY DEF WorkInv
  <1>1. \A x \in 1 .. MaxTxn : /\ executed[x] \in Seq(1 .. N)
                               /\ executed'[x] \in {executed[x], executed[x] \o Executing(s)}
    BY SendFacts DEF TypeInv, WorldTypes
  <1>2. Executing(s) \in Seq(1 .. N)
    BY ExecutingType DEF TypeInv, WorldTypes
  <1>3. \A g \in FrameType : Honest(g) => Honest(g)'
    <2> SUFFICES ASSUME NEW g \in FrameType, Honest(g), g.kind = "data"
                 PROVE  Within(g.by, executed'[g.txn])
      BY DEF Honest, Within, Times
    <2>1. g.txn \in 1 .. MaxTxn /\ g.by \in Seq(1 .. N) /\ Within(g.by, executed[g.txn])
      BY DEF FrameType, Honest
    <2>2. Within(g.by, executed[g.txn] \o Executing(s))
      BY <1>1, <1>2, <2>1, WithinFacts
    <2> QED
      BY <1>1, <2>1, <2>2
  <1>4. \A g : g = Run(s, f) => Honest(g)'
    <2> SUFFICES ASSUME NEW g, g = Run(s, f), g.kind = "data"
                 PROVE  Within(g.by, executed'[g.txn])
      BY DEF Honest, Within, Times
    <2>a. f.kind = "data"
      BY RunFacts
    <2>1. f.txn \in 1 .. MaxTxn /\ f.by \in Seq(1 .. N) /\ Within(f.by, executed[f.txn])
      BY <2>a DEF FrameType, Honest
    <2>2. executed'[f.txn] = executed[f.txn] \o Executing(s)
      BY <2>a, SendFacts
    <2>3. g.by = f.by \o Executing(s) /\ g.txn = f.txn
      BY RunFacts
    <2>4. executed[f.txn] \in Seq(1 .. N)
      BY <1>1, <2>1
    <2>5. Within(f.by \o Executing(s), executed[f.txn] \o Executing(s))
      BY <1>2, <2>1, <2>4, WithinFacts
    <2> QED
      BY <2>2, <2>3, <2>5
  <1>5. \A d \in Sockets : \A g \in net'[d] : g = Run(s, f) \/ g \in net[d]
    <2>1. \A d \in Sockets : net'[d] = IF d \in Arrives(s) THEN net[d] \cup {Run(s, f)} ELSE net[d]
      BY SendFacts
    <2> QED
      BY <2>1
  <1>6. /\ \A d \in Sockets : \A g \in net[d] : g \in FrameType /\ Honest(g)
        /\ \A d \in Sockets, i \in Idx : rx[d][i] \in FrameType /\ Honest(rx[d][i])
        /\ \A t \in Threads : answer[t] \in FrameType /\ Honest(answer[t])
    BY DEF WorkInv, TypeInv, BufferTypes, ThreadTypes
  <1>7. \A d \in Sockets : \A g \in net'[d] : Honest(g)'
    BY <1>3, <1>4, <1>5, <1>6
  <1>8. \A d \in Sockets, i \in Idx : Honest(rx[d][i])' /\ rx'[d][i] = rx[d][i]
    <2>1. \A d \in Sockets, i \in Idx : \A g : g = rx[d][i] => Honest(g)'
      BY <1>3, <1>6
    <2> QED
      BY <2>1
  <1>9. \A t \in Threads : Honest(answer[t])'
    <2>1. \A t \in Threads : \A g : g = answer[t] => Honest(g)'
      BY <1>3, <1>6
    <2> QED
      BY <2>1
  <1> QED
    BY <1>7, <1>8, <1>9 DEF WorkInv

\* Sending leaves the other indexes alone.
LEMMA SendLeaves ==
  ASSUME TypeInv, NEW s \in Sockets, NEW f \in FrameType, Send(s, f)
  PROVE  \A d \in Sockets, j \in Idx \ {f.idx} : Queued(d, j)' = Queued(d, j)
  <1> SUFFICES ASSUME NEW d \in Sockets, NEW j \in Idx \ {f.idx} PROVE Queued(d, j)' = Queued(d, j)
    OBVIOUS
  <1>1. net'[d] = net[d] \/ net'[d] = net[d] \cup {Run(s, f)}
    BY SendFacts
  <1>2. Run(s, f).idx = f.idx
    BY RunFacts
  <1> DEFINE g == Run(s, f)
  <1> HIDE DEF g
  <1>3. g.idx # j /\ (net'[d] = net[d] \/ net'[d] = net[d] \cup {g})
    BY <1>1, <1>2 DEF g
  <1> QED
    BY <1>3 DEF Queued

\* The datagram leaves through the primary socket.
LEMMA OutframePrimaryStep ==
  ASSUME TypeInv, IndexInv, WorkInv, FramesInv, NEW u \in Threads, OutframePrimary(u)
  PROVE  TypeInv' /\ IndexInv' /\ WorkInv' /\ Local(u, idx[u])
  <1> DEFINE i == idx[u]
             f == Data(u, tx[i])
  <1>1. /\ pc[u] = "out" /\ pc' = [pc EXCEPT ![u] = "dummy"]
        /\ stat' = [stat EXCEPT !["PRIM"][i] = "TX"] /\ got' = [got EXCEPT ![u] = {}]
        /\ Send("PRIM", f)
        /\ UNCHANGED <<rx, tx, lastidx, broken, idx, txn, tries, answer, begun, troubles, retries, mixed, disturbed>>
    BY DEF OutframePrimary, Goto, SetStat
  <1>2. i \in Idx /\ txn[u] \in 1 .. MaxTxn /\ tx[i] \in Seq(1 .. N)
    BY <1>1, CallFacts
  <1>3. /\ f \in FrameType /\ f.idx = i /\ f.txn = txn[u] /\ f.kind = "data" /\ f.by = tx[i]
    BY <1>2, OwnFrames
  <1> HIDE DEF f
  <1>4. /\ net' \in [Sockets -> SUBSET FrameType] /\ executed' \in [1 .. MaxTxn -> Seq(1 .. N)]
        /\ \A x \in 1 .. MaxTxn : x # txn[u] => executed'[x] = executed[x]
    BY <1>1, <1>3, SendFacts DEF Sockets
  <1>5. \A s \in Sockets, j \in Idx \ {i} : Queued(s, j)' = Queued(s, j)
    BY <1>1, <1>3, SendLeaves DEF Sockets
  <1>6. BufferTypes'
    BY <1>1, <1>2, <1>4 DEF TypeInv, BufferTypes, Statuses, Sockets
  <1>7. ThreadTypes'
    BY <1>1 DEF TypeInv, ThreadTypes, Places
  <1>8. WorldTypes'
    BY <1>1, <1>4 DEF TypeInv, WorldTypes
  <1>9. Local(u, i)
    BY <1>1, <1>2, <1>4, <1>5 DEF Local, TypeInv, BufferTypes, ThreadTypes
  <1>11. IndexInv'
    BY <1>1, <1>9, IndexKept
  <1>12. ~mixed => Honest(f)
    BY <1>1, <1>3 DEF FramesInv, Frames, Honest
  <1>13. WorkInv'
    BY <1>1, <1>3, <1>12, SendWork DEF Sockets
  <1> QED
    BY <1>6, <1>7, <1>8, <1>9, <1>11, <1>13 DEF TypeInv

\* The dummy leaves through the secondary socket.
LEMMA OutframeDummyStep ==
  ASSUME TypeInv, IndexInv, WorkInv, NEW u \in Threads, OutframeDummy(u)
  PROVE  TypeInv' /\ IndexInv' /\ WorkInv' /\ Local(u, idx[u])
  <1> DEFINE i == idx[u]
             f == Dummy(u)
  <1>1. /\ pc[u] = "dummy" /\ pc' = [pc EXCEPT ![u] = "wait"]
        /\ stat' = [stat EXCEPT !["SEC"][i] = "TX"]
        /\ Send("SEC", f)
        /\ UNCHANGED <<rx, tx, lastidx, broken, idx, txn, tries, got, answer, begun, troubles, retries, mixed,
                       disturbed>>
    BY DEF OutframeDummy, Goto, SetStat
  <1>2. i \in Idx /\ txn[u] \in 1 .. MaxTxn /\ tx[i] \in Seq(1 .. N)
    BY <1>1, CallFacts
  <1>3. f \in FrameType /\ f.idx = i /\ f.kind = "dummy"
    BY <1>2, OwnFrames
  <1> HIDE DEF f
  <1>4. /\ net' \in [Sockets -> SUBSET FrameType] /\ executed' \in [1 .. MaxTxn -> Seq(1 .. N)]
        /\ \A x \in 1 .. MaxTxn : executed'[x] = executed[x]
    BY <1>1, <1>3, SendFacts DEF Sockets
  <1>5. \A s \in Sockets, j \in Idx \ {i} : Queued(s, j)' = Queued(s, j)
    BY <1>1, <1>3, SendLeaves DEF Sockets
  <1>6. BufferTypes'
    BY <1>1, <1>2, <1>4 DEF TypeInv, BufferTypes, Statuses, Sockets
  <1>7. ThreadTypes'
    BY <1>1 DEF TypeInv, ThreadTypes, Places
  <1>8. WorldTypes'
    BY <1>1, <1>4 DEF TypeInv, WorldTypes
  <1>9. Local(u, i)
    BY <1>1, <1>2, <1>4, <1>5 DEF Local, TypeInv, BufferTypes, ThreadTypes
  <1>11. IndexInv'
    BY <1>1, <1>9, IndexKept
  <1>12. WorkInv'
    BY <1>1, <1>3, SendWork DEF Sockets, Honest
  <1> QED
    BY <1>6, <1>7, <1>8, <1>9, <1>11, <1>12 DEF TypeInv

\* The awaited frame, from the buffer or the queue.
LEMMA InframeOwnStep ==
  ASSUME TypeInv, IndexInv, WorkInv, NEW u \in Threads, NEW s \in Sockets, InframeOwn(u, s)
  PROVE  TypeInv' /\ IndexInv' /\ WorkInv' /\ Local(u, idx[u])
  <1> DEFINE i == idx[u]
  <1>1. /\ pc[u] = "wait" /\ s \notin got[u] /\ Complete(s, i)
        /\ got' = [got EXCEPT ![u] = got[u] \cup {s}]
        /\ UNCHANGED <<tx, lastidx, broken, pc, idx, txn, tries, answer, begun, executed, troubles, retries,
                       mixed, disturbed>>
    BY DEF InframeOwn
  <1>2. i \in Idx
    BY <1>1, CallFacts
  <1>3. stat' = [stat EXCEPT ![s][i] = "COMPLETE"]
    BY <1>1 DEF Complete, SetStat
  <1>4. \/ net' = net /\ rx' = rx
        \/ \E f \in net[s] : f.idx = i /\ net' = [net EXCEPT ![s] = net[s] \ {f}] /\ rx' = [rx EXCEPT ![s][i] = f]
    BY <1>1 DEF Complete
  <1>5. /\ rx' \in [Sockets -> [Idx -> FrameType]] /\ net' \in [Sockets -> SUBSET FrameType]
        /\ \A r \in Sockets, j \in Idx \ {i} : rx'[r][j] = rx[r][j] /\ Queued(r, j)' = Queued(r, j)
        /\ \A r \in Sockets : net'[r] \subseteq net[r]
        /\ \A r \in Sockets, j \in Idx : rx'[r][j] = rx[r][j] \/ rx'[r][j] \in net[r]
    <2>1. CASE net' = net /\ rx' = rx
      BY <2>1 DEF TypeInv, BufferTypes, Queued
    <2>2. CASE \E f \in net[s] : f.idx = i /\ net' = [net EXCEPT ![s] = net[s] \ {f}]
                                 /\ rx' = [rx EXCEPT ![s][i] = f]
      <3>1. PICK f \in net[s] : f.idx = i /\ net' = [net EXCEPT ![s] = net[s] \ {f}]
                                /\ rx' = [rx EXCEPT ![s][i] = f]
        BY <2>2
      <3>2. f \in FrameType
        BY DEF TypeInv, BufferTypes
      <3>3. rx' \in [Sockets -> [Idx -> FrameType]] /\ net' \in [Sockets -> SUBSET FrameType]
        BY <1>2, <3>1, <3>2 DEF TypeInv, BufferTypes
      <3>4. \A r \in Sockets, j \in Idx : rx'[r][j] = IF r = s /\ j = i THEN f ELSE rx[r][j]
        BY <1>2, <3>1 DEF TypeInv, BufferTypes
      <3>5. \A r \in Sockets : net'[r] = IF r = s THEN net[s] \ {f} ELSE net[r]
        BY <3>1 DEF TypeInv, BufferTypes
      <3> QED
        BY <3>1, <3>3, <3>4, <3>5 DEF Queued
    <2> QED
      BY <1>4, <2>1, <2>2
  <1>6. BufferTypes'
    BY <1>1, <1>2, <1>3, <1>5 DEF TypeInv, BufferTypes, Statuses
  <1>7. ThreadTypes'
    BY <1>1 DEF TypeInv, ThreadTypes
  <1>8. WorldTypes'
    BY <1>1 DEF TypeInv, WorldTypes
  <1>9. Local(u, i)
    BY <1>1, <1>2, <1>3, <1>5 DEF Local, TypeInv, BufferTypes, ThreadTypes
  <1>11. IndexInv'
    BY <1>1, <1>9, IndexKept
  <1>12. Carried
    BY <1>1, <1>5 DEF Carried
  <1> QED
    BY <1>6, <1>7, <1>8, <1>9, <1>11, <1>12, CarriedKeeps DEF TypeInv

\* The ring is whole: the frame that went all the way is the result.
LEMMA DecideWholeStep ==
  ASSUME TypeInv, IndexInv, WorkInv, NEW u \in Threads, DecideWhole(u)
  PROVE  TypeInv' /\ IndexInv' /\ WorkInv' /\ Local(u, idx[u])
  <1> DEFINE i == idx[u]
             f == rx["SEC"][i]
  <1>1. /\ pc[u] = "wait" /\ WaitOver(u) /\ rx' = [rx EXCEPT !["PRIM"][i] = f] /\ Result(u, f)
        /\ UNCHANGED <<stat, tx, lastidx, broken, net, idx, txn, got, begun, executed, troubles, disturbed>>
    BY DEF DecideWhole
  <1>2. i \in Idx /\ f \in FrameType
    BY <1>1, CallFacts DEF Sockets
  <1>3. /\ pc' \in [Threads -> Places] /\ tries' \in [Threads -> Nat] /\ answer' \in [Threads -> FrameType]
        /\ \A t \in Threads \ {u} : pc'[t] = pc[t] /\ tries'[t] = tries[t] /\ answer'[t] = answer[t]
        /\ answer'[u] \in {f, answer[u]} /\ retries' \in Nat
    BY <1>1, <1>2, ResultFacts
  <1>4. mixed' \in BOOLEAN /\ (mixed => mixed')
    BY <1>1 DEF WaitOver
  <1>5. rx' \in [Sockets -> [Idx -> FrameType]]
        /\ \A s \in Sockets, j \in Idx : rx'[s][j] = IF s = "PRIM" /\ j = i THEN f ELSE rx[s][j]
    BY <1>1, <1>2 DEF TypeInv, BufferTypes
  <1>6. BufferTypes'
    BY <1>1, <1>5 DEF TypeInv, BufferTypes
  <1>7. ThreadTypes'
    BY <1>1, <1>3 DEF TypeInv, ThreadTypes
  <1>8. WorldTypes'
    BY <1>1, <1>4, <1>3 DEF TypeInv, WorldTypes
  <1>9. Local(u, i)
    BY <1>1, <1>3, <1>4, <1>5 DEF Local, Queued
  <1>10. IndexInv'
    BY <1>1, <1>2, <1>9, IndexKept
  <1>11. Carried
    <2>1. \A t \in Threads : answer'[t] = answer[t] \/ answer'[t] = f
      BY <1>3
    <2> QED
      BY <1>1, <1>2, <1>4, <1>5, <2>1 DEF Carried, Sockets
  <1> QED
    BY <1>6, <1>7, <1>8, <1>9, <1>10, <1>11, CarriedKeeps DEF TypeInv

\* The work in the frame that came back to the primary card, if one did, was done.
LEMMA BackHonest ==
  ASSUME TypeInv, IndexInv, WorkInv, FramesInv, NEW u \in Threads, pc[u] = "wait",
         Source(u, "PRIM") \in {"none", "PRIM"}, NEW by,
         by = IF Source(u, "PRIM") = "PRIM" THEN rx["PRIM"][idx[u]].by ELSE tx[idx[u]]
  PROVE  by \in Seq(1 .. N) /\ (~mixed => Within(by, executed[txn[u]]))
  <1>1. idx[u] \in Idx /\ rx["PRIM"][idx[u]] \in FrameType /\ tx[idx[u]] \in Seq(1 .. N)
    BY CallFacts DEF Sockets
  <1>2. CASE Source(u, "PRIM") = "PRIM"
    <2>1. "PRIM" \in got[u] /\ rx["PRIM"][idx[u]].sa = "PRIM"
      BY <1>2 DEF Source
    <2>2. rx["PRIM"][idx[u]].kind = "data"
      BY <1>1, <2>1 DEF FrameType
    <2>3. ~mixed => rx["PRIM"][idx[u]].txn = txn[u]
      BY <2>1, <2>2 DEF FramesInv, Frames, Hand, IsOurs, IsData, Sockets
    <2>4. ~mixed => Honest(rx["PRIM"][idx[u]])
      BY <1>1 DEF WorkInv, Sockets
    <2> QED
      BY <1>1, <1>2, <2>2, <2>3, <2>4 DEF FrameType, Honest
  <1>3. CASE Source(u, "PRIM") # "PRIM"
    BY <1>1, <1>3 DEF FramesInv, Frames
  <1> QED
    BY <1>2, <1>3

\* The datagram is sent once more, through the secondary socket.
LEMMA DecideResendStep ==
  ASSUME TypeInv, IndexInv, WorkInv, FramesInv, NEW u \in Threads, DecideResend(u)
  PROVE  TypeInv' /\ IndexInv' /\ WorkInv' /\ Local(u, idx[u])
  <1> DEFINE i == idx[u]
  <1>1. PICK by : /\ by = IF Source(u, "PRIM") = "PRIM" THEN rx["PRIM"][i].by ELSE tx[i]
                  /\ tx' = [tx EXCEPT ![i] = by]
                  /\ Send("SEC", Data(u, by))
    BY DEF DecideResend, CarriedOver
  <1> DEFINE f == Data(u, by)
  <1>2. /\ pc[u] = "wait" /\ pc' = [pc EXCEPT ![u] = "rewait"] /\ WaitOver(u)
        /\ Source(u, "PRIM") \in {"none", "PRIM"}
        /\ stat' = [stat EXCEPT !["SEC"][i] = "TX"]
        /\ UNCHANGED <<rx, lastidx, broken, idx, txn, tries, got, answer, begun, troubles, retries, disturbed>>
    BY DEF DecideResend, Resending, Goto, SetStat
  <1>3. i \in Idx /\ txn[u] \in 1 .. MaxTxn
    BY <1>2, CallFacts
  <1>4. by \in Seq(1 .. N) /\ (~mixed => Within(by, executed[txn[u]]))
    BY <1>1, <1>2, BackHonest
  <1>5. /\ f \in FrameType /\ f.idx = i /\ f.txn = txn[u] /\ f.kind = "data" /\ f.by = by
    BY <1>3, <1>4, OwnFrames
  <1>6. Send("SEC", f)
    BY <1>1
  <1> HIDE DEF f
  <1>7. /\ net' \in [Sockets -> SUBSET FrameType] /\ executed' \in [1 .. MaxTxn -> Seq(1 .. N)]
        /\ \A x \in 1 .. MaxTxn : x # txn[u] => executed'[x] = executed[x]
    BY <1>5, <1>6, SendFacts DEF Sockets
  <1>8. \A s \in Sockets, j \in Idx \ {i} : Queued(s, j)' = Queued(s, j)
    BY <1>5, <1>6, SendLeaves DEF Sockets
  <1>9. mixed' \in BOOLEAN /\ (mixed => mixed')
    BY <1>2 DEF WaitOver
  <1>10. BufferTypes'
    BY <1>1, <1>2, <1>3, <1>4, <1>7 DEF TypeInv, BufferTypes, Statuses, Sockets
  <1>11. ThreadTypes'
    BY <1>2 DEF TypeInv, ThreadTypes, Places
  <1>12. WorldTypes'
    BY <1>2, <1>7, <1>9 DEF TypeInv, WorldTypes
  <1>13. Local(u, i)
    BY <1>1, <1>2, <1>3, <1>7, <1>8, <1>9 DEF Local, TypeInv, BufferTypes, ThreadTypes
  <1>15. IndexInv'
    BY <1>2, <1>13, IndexKept
  <1>16. ~mixed => Honest(f)
    BY <1>4, <1>5 DEF Honest
  <1>17. WorkInv'
    BY <1>2, <1>5, <1>6, <1>9, <1>16, SendWork DEF Sockets
  <1> QED
    BY <1>10, <1>11, <1>12, <1>13, <1>15, <1>17 DEF TypeInv

\* The result of the primary socket stands, if there is one.
LEMMA StandsStep ==
  ASSUME TypeInv, IndexInv, WorkInv, NEW u \in Threads, DecidePrimary(u) \/ ResendExpired(u)
  PROVE  TypeInv' /\ IndexInv' /\ WorkInv' /\ Local(u, idx[u])
  <1> DEFINE i == idx[u]
             f == IF "PRIM" \in got[u] THEN rx["PRIM"][i] ELSE NoFrame
  <1>1. /\ pc[u] # "idle" /\ Result(u, f)
        /\ mixed' \in BOOLEAN /\ (mixed => mixed')
        /\ UNCHANGED <<stat, rx, tx, lastidx, broken, net, idx, txn, got, begun, executed, troubles, disturbed>>
    BY DEF DecidePrimary, ResendExpired, WaitOver
  <1>2. i \in Idx /\ f \in FrameType
    BY <1>1, CallFacts, NoFrameType DEF Sockets
  <1>3. f = NoFrame \/ f = rx["PRIM"][i]
    OBVIOUS
  <1> HIDE DEF f
  <1>4. /\ pc' \in [Threads -> Places] /\ tries' \in [Threads -> Nat] /\ answer' \in [Threads -> FrameType]
        /\ \A t \in Threads \ {u} : pc'[t] = pc[t] /\ tries'[t] = tries[t] /\ answer'[t] = answer[t]
        /\ answer'[u] \in {f, answer[u]} /\ retries' \in Nat
    BY <1>1, <1>2, ResultFacts
  <1>5. BufferTypes'
    BY <1>1 DEF TypeInv, BufferTypes
  <1>6. ThreadTypes'
    BY <1>1, <1>4 DEF TypeInv, ThreadTypes
  <1>7. WorldTypes'
    BY <1>1, <1>4 DEF TypeInv, WorldTypes
  <1>8. Local(u, i)
    BY <1>1, <1>4 DEF Local, Queued
  <1>9. IndexInv'
    BY <1>1, <1>2, <1>8, IndexKept
  <1>10. Carried
    <2>1. \A t \in Threads : answer'[t] = answer[t] \/ answer'[t] = NoFrame \/ answer'[t] = rx["PRIM"][i]
      BY <1>3, <1>4
    <2> QED
      BY <1>1, <1>2, <2>1 DEF Carried, Sockets
  <1> QED
    BY <1>5, <1>6, <1>7, <1>8, <1>9, <1>10, CarriedKeeps DEF TypeInv

\* The second transmission is answered.
LEMMA ResendAnsweredStep ==
  ASSUME TypeInv, IndexInv, WorkInv, NEW u \in Threads, ResendAnswered(u)
  PROVE  TypeInv' /\ IndexInv' /\ WorkInv' /\ Local(u, idx[u])
  <1> DEFINE i == idx[u]
  <1>1. /\ pc[u] = "rewait" /\ stat' = [stat EXCEPT !["SEC"][i] = "COMPLETE"]
        /\ UNCHANGED <<tx, lastidx, broken, idx, txn, got, begun, executed, troubles, mixed, disturbed>>
    BY DEF ResendAnswered, SetStat
  <1>2. i \in Idx /\ rx["SEC"][i] \in FrameType
    BY <1>1, CallFacts DEF Sockets
  <1>3. PICK f : /\ Result(u, f)
                 /\ \/ f = rx["SEC"][i] /\ net' = net /\ rx' = [rx EXCEPT !["PRIM"][i] = f]
                    \/ /\ f \in net["SEC"] /\ f.idx = i /\ net' = [net EXCEPT !["SEC"] = net["SEC"] \ {f}]
                       /\ rx' = [s \in Sockets |-> [rx[s] EXCEPT ![i] = f]]
    BY DEF ResendAnswered
  <1>4. f \in FrameType
    BY <1>2, <1>3 DEF TypeInv, BufferTypes, Sockets
  <1>5. /\ pc' \in [Threads -> Places] /\ tries' \in [Threads -> Nat] /\ answer' \in [Threads -> FrameType]
        /\ \A t \in Threads \ {u} : pc'[t] = pc[t] /\ tries'[t] = tries[t] /\ answer'[t] = answer[t]
        /\ answer'[u] \in {f, answer[u]} /\ retries' \in Nat
    BY <1>3, <1>4, ResultFacts
  <1>6. rx' \in [Sockets -> [Idx -> FrameType]]
        /\ \A s \in Sockets, j \in Idx : rx'[s][j] = rx[s][j] \/ (j = i /\ rx'[s][j] = f)
    <2>1. CASE rx' = [rx EXCEPT !["PRIM"][i] = f]
      BY <1>2, <1>4, <2>1 DEF TypeInv, BufferTypes
    <2>2. CASE rx' = [s \in Sockets |-> [rx[s] EXCEPT ![i] = f]]
      BY <1>2, <1>4, <2>2 DEF TypeInv, BufferTypes
    <2> QED
      BY <1>3, <2>1, <2>2
  <1>7. /\ net' \in [Sockets -> SUBSET FrameType]
        /\ \A s \in Sockets : net'[s] \subseteq net[s]
        /\ \A s \in Sockets, j \in Idx \ {i} : Queued(s, j)' = Queued(s, j)
    <2>1. CASE net' = net
      BY <2>1 DEF TypeInv, BufferTypes, Queued
    <2>2. CASE f.idx = i /\ net' = [net EXCEPT !["SEC"] = net["SEC"] \ {f}]
      BY <2>2 DEF TypeInv, BufferTypes, Queued
    <2> QED
      BY <1>3, <2>1, <2>2
  <1>8. BufferTypes'
    BY <1>1, <1>2, <1>6, <1>7 DEF TypeInv, BufferTypes, Statuses
  <1>9. ThreadTypes'
    BY <1>1, <1>5 DEF TypeInv, ThreadTypes
  <1>10. WorldTypes'
    BY <1>1, <1>5 DEF TypeInv, WorldTypes
  <1>11. Local(u, i)
    BY <1>1, <1>2, <1>5, <1>6, <1>7 DEF Local, TypeInv, BufferTypes
  <1>13. IndexInv'
    BY <1>1, <1>11, IndexKept
  <1>14. Carried
    <2>1. \A t \in Threads : answer'[t] = answer[t] \/ answer'[t] = f
      BY <1>5
    <2>2. (f = rx["SEC"][i] /\ "SEC" \in Sockets) \/ f \in net["SEC"]
      BY <1>3 DEF Sockets
    <2> QED
      BY <1>1, <1>2, <1>6, <1>7, <2>1, <2>2 DEF Carried, Sockets
  <1> QED
    BY <1>8, <1>9, <1>10, <1>11, <1>13, <1>14, CarriedKeeps DEF TypeInv

\* The buffers of the index are free again.
LEMMA ReleaseStep ==
  ASSUME TypeInv, IndexInv, WorkInv, NEW u \in Threads, Release(u)
  PROVE  TypeInv' /\ IndexInv' /\ WorkInv' /\ Local(u, idx[u])
  <1> DEFINE i == idx[u]
  <1>1. /\ pc[u] = "done" /\ pc' = [pc EXCEPT ![u] = "idle"]
        /\ stat' = [s \in Sockets |-> [stat[s] EXCEPT ![i] = "EMPTY"]]
        /\ rx' = [s \in Sockets |-> [rx[s] EXCEPT ![i] = NoFrame]]
        /\ tx' = [tx EXCEPT ![i] = <<>>]
        /\ mixed' \in BOOLEAN /\ (mixed => mixed')
    BY DEF Release, Goto
  <1>2. /\ idx' = [idx EXCEPT ![u] = 0] /\ txn' = [txn EXCEPT ![u] = 0] /\ tries' = [tries EXCEPT ![u] = 0]
        /\ got' = [got EXCEPT ![u] = {}] /\ answer' = [answer EXCEPT ![u] = NoFrame]
        /\ UNCHANGED <<lastidx, broken, net, begun, executed, troubles, retries, disturbed>>
    BY DEF Release
  <1>3. i \in Idx /\ 0 \in Idx /\ 0 \in 0 .. MaxTxn
    BY <1>1, CallFacts, Sizes DEF Idx
  <1>4. BufferTypes'
    BY <1>1, <1>2, <1>3, NoFrameType, EmptySeq DEF TypeInv, BufferTypes, Statuses
  <1>5. ThreadTypes'
    BY <1>1, <1>2, <1>3, NoFrameType DEF TypeInv, ThreadTypes, Places
  <1>6. WorldTypes'
    BY <1>1, <1>2 DEF TypeInv, WorldTypes
  <1>7. Local(u, i)
    BY <1>1, <1>2, <1>3 DEF Local, Queued, TypeInv, BufferTypes, ThreadTypes
  <1>8. IndexInv'
    <2>1. pc'[u] = "idle"
      BY <1>1 DEF TypeInv, ThreadTypes
    <2>2. \A t \in Threads : pc'[t] # "idle" =>
             /\ t # u /\ pc[t] # "idle" /\ idx'[t] = idx[t] /\ txn'[t] = txn[t]
      BY <1>7, <2>1 DEF Local
    <2> QED
      BY <1>1, <1>2, <2>2 DEF IndexInv
  <1>9. Carried
    <2>1. \A t \in Threads : answer'[t] \in {NoFrame, answer[t]}
      BY <1>2 DEF TypeInv, ThreadTypes
    <2>2. \A s \in Sockets, j \in Idx : rx'[s][j] = NoFrame \/ rx'[s][j] = rx[s][j]
      BY <1>1, <1>3 DEF TypeInv, BufferTypes
    <2> QED
      BY <1>1, <1>2, <2>1, <2>2 DEF Carried
  <1> QED
    BY <1>4, <1>5, <1>6, <1>7, <1>8, <1>9, CarriedKeeps DEF TypeInv

-----------------------------------------------------------------------------
(* What the other threads see of a step                                    *)

\* Thread t, its datagram and what was done of it do not change.
Waits(t) ==
    /\ pc'[t] = pc[t] /\ idx'[t] = idx[t] /\ txn'[t] = txn[t] /\ tries'[t] = tries[t]
    /\ got'[t] = got[t] /\ answer'[t] = answer[t]
    /\ tx'[idx[t]] = tx[idx[t]] /\ executed'[txn[t]] = executed[txn[t]]

\* Nor do its frames.
Unseen(t) ==
    /\ Waits(t)
    /\ \A s \in Sockets : /\ stat'[s][idx[t]] = stat[s][idx[t]] /\ rx'[s][idx[t]] = rx[s][idx[t]]
                          /\ Queued(s, idx[t])' = Queued(s, idx[t])

\* A call that nothing of changes keeps its frames.
LEMMA UnseenFrames ==
  ASSUME NEW t \in Threads, Unseen(t), Frames(t)
  PROVE  Frames(t)'
  <1>1. \A s \in Sockets : Here(s, idx[t])' = Here(s, idx[t]) /\ Hand(t, s)' = Hand(t, s)
    BY DEF Unseen, Waits, Here, Hand
  <1>2. Nowhere(idx[t])' <=> Nowhere(idx[t])
    BY <1>1 DEF Nowhere
  <1>3. \A f : IsData(t, f)' <=> IsData(t, f)
    BY DEF Unseen, Waits, IsData
  <1>4. \A s, f : IsOurs(t, s, f)' <=> IsOurs(t, s, f)
    BY <1>3 DEF IsOurs
  <1>5. OneDummy(t) => OneDummy(t)'
    BY <1>1 DEF OneDummy, Unseen, Waits, Waits
  <1>6. Within(tx[idx[t]], executed[txn[t]])' <=> Within(tx[idx[t]], executed[txn[t]])
    BY DEF Within, Times, Unseen, Waits
  <1>7. IsData(t, answer[t])' <=> IsData(t, answer[t])
    BY DEF Unseen, Waits, IsData
  <1> QED
    BY <1>1, <1>2, <1>3, <1>4, <1>5, <1>6, <1>7 DEF Frames, Unseen, Waits, Taken, Sockets

\* And what is expected of them.
LEMMA UnseenExact ==
  ASSUME NEW t \in Threads, Unseen(t), broken' = broken, Exact(t)
  PROVE  Exact(t)'
  <1>1. \A s \in Sockets : Here(s, idx[t])' = Here(s, idx[t]) /\ Queued(s, idx[t])' = Queued(s, idx[t])
    BY DEF Unseen, Waits, Here
  <1>2. Nowhere(idx[t])' <=> Nowhere(idx[t])
    BY <1>1 DEF Nowhere
  <1>3. \A s : Executing(s)' = Executing(s) /\ Arrives(s)' = Arrives(s)
    BY DEF Executing, Arrives
  <1>4. First(t)' = First(t) /\ Probe(t)' = Probe(t) /\ Data(t, All)' = Data(t, All) /\ All' = All
    BY <1>3 DEF First, Probe, Data, Dummy, Unseen, Waits, All, SlavesFrom
  <1>5. \A s : Expected(t, s)' = Expected(t, s)
    BY <1>3, <1>4 DEF Expected
  <1>6. \A s \in Sockets : \A F : Awaited(s, idx[t], F)' <=> Awaited(s, idx[t], F)
    BY <1>1 DEF Awaited, Unseen, Waits
  <1>7. /\ pc'[t] = pc[t] /\ idx'[t] = idx[t] /\ txn'[t] = txn[t] /\ got'[t] = got[t] /\ answer'[t] = answer[t]
        /\ tx'[idx[t]] = tx[idx[t]] /\ executed'[txn[t]] = executed[txn[t]]
        /\ \A s \in Sockets : stat'[s][idx[t]] = stat[s][idx[t]] /\ rx'[s][idx[t]] = rx[s][idx[t]]
    BY DEF Unseen, Waits
  <1>8. CASE pc[t] \in {"out", "dummy"}
    <2>1. \A F : Awaited("PRIM", idx[t], F)' <=> Awaited("PRIM", idx[t], F)
      BY <1>6 DEF Sockets
    <2>2. Awaited("PRIM", idx[t], {f \in {First(t)} : "PRIM" \in Arrives("PRIM")})'
             <=> Awaited("PRIM", idx[t], {f \in {First(t)} : "PRIM" \in Arrives("PRIM")})
      BY <1>3, <1>4, <2>1 DEF Awaited
    <2> QED
      BY <1>1, <1>2, <1>3, <1>4, <1>7, <1>8, <2>2 DEF Exact, Sockets
  <1>9. CASE pc[t] = "wait"
    <2>1. \A s \in Sockets : Awaited(s, idx[t], Expected(t, s))' <=> Awaited(s, idx[t], Expected(t, s))
      BY <1>5, <1>6 DEF Awaited
    <2> QED
      BY <1>1, <1>3, <1>5, <1>7, <1>9, <2>1 DEF Exact
  <1>10. CASE pc[t] \notin {"out", "dummy", "wait"}
    <2>1. Awaited("SEC", idx[t], {Data(t, All)})' <=> Awaited("SEC", idx[t], {Data(t, All)})
      BY <1>4, <1>6 DEF Awaited, Sockets
    <2> QED
      BY <1>4, <1>7, <1>10, <2>1 DEF Exact
  <1> QED
    BY <1>8, <1>9, <1>10

\* A step of thread u that only concerns its own index.
LEMMA OthersKeep ==
  ASSUME TypeInv, IndexInv, FramesInv, ExactInv, NEW u \in Threads, NEW i \in Idx, Local(u, i),
         \/ pc[u] = "idle" /\ (~mixed' => Unused(i)) /\ executed' = executed
         \/ pc[u] # "idle" /\ i = idx[u]
  PROVE  /\ \A t \in Threads \ {u} : (~mixed' => Frames(t)') /\ (Undisturbed(t)' => Exact(t)')
         /\ \A j \in Idx \ {i} : ~mixed' /\ Unused(j)' => Nowhere(j)'
  <1> SUFFICES ASSUME ~mixed'
               PROVE  /\ \A t \in Threads \ {u} : Frames(t)' /\ (Undisturbed(t)' => Exact(t)')
                      /\ \A j \in Idx \ {i} : Unused(j)' => Nowhere(j)'
    BY DEF Undisturbed
  <1>1. ASSUME NEW t \in Threads \ {u}
        PROVE  Frames(t)' /\ (Undisturbed(t)' => Exact(t)')
    <2>1. CASE pc[t] = "idle"
      <3>1. pc'[t] = "idle"
        BY <1>1, <2>1 DEF Local
      <3> QED
        BY <3>1 DEF Frames, Exact
    <2>2. CASE pc[t] # "idle"
      <3>1. idx[t] \in Idx \ {i} /\ txn[t] \in 1 .. MaxTxn /\ (txn[t] # txn[u] \/ executed' = executed)
        <4>1. ~mixed
          BY DEF Local
        <4> QED
          BY <1>1, <2>2, <4>1, CallFacts DEF IndexInv, Unused
      <3>2. \A s \in Sockets : \A j \in Idx \ {i} : j = idx[t] => Queued(s, idx[t])' = Queued(s, j)'
        BY <1>1 DEF Queued, Local
      <3>3. Unseen(t)
        BY <1>1, <3>1, <3>2 DEF Local, Unseen, Waits
      <3>4. ~mixed' => ~mixed
        BY DEF Local
      <3>5. Undisturbed(t)' => Undisturbed(t)
        BY <1>1, <3>4 DEF Local, Undisturbed
      <3>6. broken' = broken
        BY DEF Local
      <3> QED
        BY <1>1, <3>3, <3>4, <3>5, <3>6, UnseenFrames, UnseenExact DEF FramesInv, ExactInv
    <2> QED
      BY <2>1, <2>2
  <1>2. ASSUME NEW j \in Idx \ {i}, Unused(j)'
        PROVE  Nowhere(j)'
    <2>1. \A s \in Sockets : Here(s, j)' = Here(s, j)
      BY DEF Here, Local
    <2>2. Unused(j) /\ ~mixed
      BY <1>2 DEF Local, Unused
    <2> QED
      BY <2>1, <2>2 DEF FramesInv, Nowhere
  <1> QED
    BY <1>1, <1>2

-----------------------------------------------------------------------------
(* The row of slaves                                                       *)

\* Where frames arrive: those of the two cards never at the same one.
LEMMA Arrivals ==
  ASSUME TypeInv
  PROVE  /\ "PRIM" \in Arrives("SEC") => broken = {} /\ Executing("SEC") = <<>>
         /\ \A s \in Sockets : ~(s \in Arrives("PRIM") /\ s \in Arrives("SEC"))
         /\ \A s, r \in Arrives("SEC") : s = r
         /\ \A s, r \in Arrives("PRIM") : s = r
  BY DEF Arrives, Executing, Sockets

\* One interruption: the cable, what is on its two sides, and where the frames come back.
LEMMA OneBreak ==
  ASSUME TypeInv, Cardinality(broken) <= 1
  PROVE  \/ /\ broken = {} /\ Executing("PRIM") = All
            /\ Arrives("PRIM") = {"SEC"} /\ Arrives("SEC") = {"PRIM"}
         \/ \E c \in 0 .. N :
               /\ broken = {c}
               /\ Executing("PRIM") = SlavesFrom(1, c) /\ Executing("SEC") = SlavesFrom(c + 1, N)
               /\ Arrives("PRIM") = IF c = 0 THEN {} ELSE {"PRIM"}
               /\ Arrives("SEC") = IF c = N THEN {} ELSE {"SEC"}
  <1>1. broken \subseteq 0 .. N
    BY DEF TypeInv, WorldTypes, Cables
  <1>2. IsFiniteSet(broken)
    <2>1. IsFiniteSet(0 .. N)
      BY Sizes, FS_Interval
    <2> QED
      BY <1>1, <2>1, FS_Subset
  <1>3. CASE broken = {}
    BY <1>3 DEF Executing, Arrives, Sockets, All
  <1>4. CASE broken # {}
    <2>1. Cardinality(broken) = 1
      BY <1>2, <1>4, FS_EmptySet, FS_CardinalityType
    <2>2. PICK c : broken = {c}
      BY <1>2, <2>1, FS_Singleton
    <2>3. c \in 0 .. N
      BY <1>1, <2>2
    <2>4. Min(broken) = c /\ Max(broken) = c
      BY <1>4, <2>2, BrokenBounds DEF TypeInv, WorldTypes
    <2>5. (0 \in broken <=> c = 0) /\ (N \in broken <=> c = N)
      BY <2>2
    <2> QED
      BY <2>2, <2>3, <2>4, <2>5 DEF Executing, Arrives, Sockets
  <1> QED
    BY <1>3, <1>4

\* The slaves before the first cable.
LEMMA NoSlaves == SlavesFrom(1, 0) = <<>>
  BY Sizes, SlavesFromType, EmptySeq

\* A datagram on its way.
LEMMA DataRun ==
  ASSUME TypeInv, NEW t \in Threads, txn[t] \in 1 .. MaxTxn, NEW s \in Sockets, NEW b \in Seq(1 .. N)
  PROVE  Run(s, Data(t, b)) = Data(t, b \o Executing(s))
  <1> DEFINE q == b \o Executing(s)
  <1>1. Run(s, Data(t, b)) = [Data(t, b) EXCEPT !.by = q]
    <2>1. Data(t, b).by = b
      BY OwnFrames
    <2> QED
      BY <2>1 DEF Run
  <1> HIDE DEF q
  <1>2. [Data(t, b) EXCEPT !.by = q] = Data(t, q)
    BY DEF Data
  <1> QED
    BY <1>1, <1>2 DEF q

\* The frames of an undisturbed call, and which is expected where.
LEMMA ExpectedFacts ==
  ASSUME TypeInv, NEW t \in Threads, txn[t] \in 1 .. MaxTxn
  PROVE  /\ First(t) \in FrameType /\ First(t).kind = "data" /\ First(t).sa = "PRIM" /\ First(t).txn = txn[t]
         /\ First(t).idx = idx[t] /\ First(t).by = Executing("PRIM")
         /\ First(t) = Run("PRIM", Data(t, <<>>))
         /\ Probe(t) \in FrameType /\ Probe(t).kind = "dummy" /\ Probe(t).sa = "SEC" /\ Probe(t).idx = idx[t]
         /\ Probe(t) = Run("SEC", Dummy(t))
         /\ \A s \in Sockets : \A f, g \in Expected(t, s) : f = g
  <1>1. Executing("PRIM") \in Seq(1 .. N) /\ Executing("SEC") \in Seq(1 .. N) /\ <<>> \in Seq(1 .. N)
    BY ExecutingType, EmptySeq DEF TypeInv, WorldTypes, Sockets
  <1>2. /\ First(t) \in FrameType /\ First(t).kind = "data" /\ First(t).sa = "PRIM" /\ First(t).txn = txn[t]
        /\ First(t).idx = idx[t] /\ First(t).by = Executing("PRIM")
    BY <1>1, OwnFrames DEF First
  <1>3. First(t) = Run("PRIM", Data(t, <<>>))
    BY <1>1, DataRun, ConcatEmptySeq DEF First, Sockets
  <1>4. Dummy(t) \in FrameType /\ Dummy(t).kind = "dummy" /\ Dummy(t).sa = "SEC" /\ Dummy(t).idx = idx[t]
        /\ Dummy(t).by = <<>>
    BY <1>1, OwnFrames
  <1>5. Run("SEC", Dummy(t)) = [Dummy(t) EXCEPT !.by = <<>> \o Executing("SEC")]
    BY <1>4 DEF Run
  <1>6. <<>> \o Executing("SEC") = Executing("SEC")
    BY <1>1, ConcatEmptySeq
  <1>7. Probe(t) = Run("SEC", Dummy(t))
    BY <1>5, <1>6 DEF Probe
  <1>8. Probe(t) \in FrameType /\ Probe(t).kind = "dummy" /\ Probe(t).sa = "SEC" /\ Probe(t).idx = idx[t]
    BY <1>4, <1>7, RunFacts DEF Sockets
  <1>9. \A s \in Sockets : \A f, g \in Expected(t, s) : f = g
    BY Arrivals DEF Expected
  <1> QED
    BY <1>2, <1>3, <1>7, <1>8, <1>9

\* A frame of an index is under way if it is anywhere.
LEMMA UnderWayIs ==
  ASSUME NEW i
  PROVE  UnderWay(i) <=> ~Nowhere(i)
  BY DEF UnderWay, Nowhere, Here, Queued

-----------------------------------------------------------------------------
(* The frames of the call that a step belongs to                           *)

\* A step inside a call, which the cables do not notice.
Inside(u) == /\ idx'[u] = idx[u] /\ txn'[u] = txn[u] /\ broken' = broken
             /\ mixed \in BOOLEAN /\ (mixed => mixed') /\ disturbed' = disturbed

\* The datagram stays the same, and what is expected of it.
LEMMA SameDatagram ==
  ASSUME NEW u \in Threads, Inside(u)
  PROVE  /\ All' = All
         /\ \A s : Executing(s)' = Executing(s) /\ Arrives(s)' = Arrives(s)
         /\ \A f : IsData(u, f)' <=> IsData(u, f)
         /\ \A s, f : IsOurs(u, s, f)' <=> IsOurs(u, s, f)
         /\ tries'[u] = tries[u] =>
               /\ First(u)' = First(u) /\ Probe(u)' = Probe(u) /\ Data(u, All)' = Data(u, All)
               /\ \A s : Expected(u, s)' = Expected(u, s)
         /\ Undisturbed(u)' => Undisturbed(u)
  <1>1. All' = All
    BY DEF All, SlavesFrom
  <1>2. \A s : Executing(s)' = Executing(s) /\ Arrives(s)' = Arrives(s)
    BY DEF Executing, Arrives, SlavesFrom, Inside
  <1>3. \A f : IsData(u, f)' <=> IsData(u, f)
    BY DEF IsData, Inside
  <1>4. \A s, f : IsOurs(u, s, f)' <=> IsOurs(u, s, f)
    BY <1>3 DEF IsOurs
  <1>5. tries'[u] = tries[u] => First(u)' = First(u) /\ Probe(u)' = Probe(u) /\ Data(u, All)' = Data(u, All)
    BY <1>1, <1>2 DEF First, Probe, Data, Dummy, Inside
  <1>6. tries'[u] = tries[u] => \A s : Expected(u, s)' = Expected(u, s)
    BY <1>2, <1>5 DEF Expected
  <1>7. Undisturbed(u)' => Undisturbed(u)
    BY DEF Undisturbed, Inside
  <1> QED
    BY <1>1, <1>2, <1>3, <1>4, <1>5, <1>6, <1>7

\* What there is of an index after a step, in terms of the new state.
LEMMA HereAfter ==
  ASSUME NEW u \in Threads, idx'[u] = idx[u], NEW s \in Sockets
  PROVE  /\ Queued(s, idx[u])' = {f \in net'[s] : f.idx = idx[u]}
         /\ Here(s, idx[u])' = {f \in net'[s] : f.idx = idx[u]}
                               \cup {f \in {rx'[s][idx[u]]} : stat'[s][idx[u]] = "RCVD"}
         /\ Hand(u, s)' = {f \in {rx'[s][idx[u]]} : s \in got'[u]}
  BY DEF Queued, Here, Hand

\* After a frame was sent.
LEMMA QueuedAfter ==
  ASSUME TypeInv, NEW s \in Sockets, NEW f \in FrameType, Send(s, f), NEW d \in Sockets
  PROVE  {g \in net'[d] : g.idx = f.idx} = Queued(d, f.idx) \cup {g \in {Run(s, f)} : d \in Arrives(s)}
  <1> DEFINE g == Run(s, f)
  <1>1. g.idx = f.idx /\ net'[d] = IF d \in Arrives(s) THEN net[d] \cup {g} ELSE net[d]
    BY SendFacts, RunFacts
  <1> HIDE DEF g
  <1>2. {h \in net'[d] : h.idx = f.idx} = Queued(d, f.idx) \cup {h \in {g} : d \in Arrives(s)}
    BY <1>1 DEF Queued
  <1> QED
    BY <1>2 DEF g

\* ecx_getindex: of a free index there is nothing.
LEMMA GetIndexOwn ==
  ASSUME TypeInv, IndexInv, WorkInv, FramesInv, NEW u \in Threads, GetIndex(u)
  PROVE  (~mixed' => Frames(u)') /\ (Undisturbed(u)' => Exact(u)')
  <1> DEFINE i == NextFree(lastidx)
  <1>1. i \in Idx /\ stat["PRIM"][i] = "EMPTY"
    BY IndexFound DEF GetIndex, TypeInv
  <1>2. /\ idx' = [idx EXCEPT ![u] = i] /\ pc' = [pc EXCEPT ![u] = "out"]
        /\ stat' = [s \in Sockets |-> [stat[s] EXCEPT ![i] = "ALLOC"]]
        /\ tx' = [tx EXCEPT ![i] = <<>>]
        /\ UNCHANGED <<rx, net>>
        /\ mixed' = (mixed \/ \E t \in Threads : pc[t] # "idle" /\ idx[t] = i)
    BY DEF GetIndex, Goto
  <1> HIDE DEF i
  <1>3. /\ idx'[u] = i /\ pc'[u] = "out" /\ tx'[i] = <<>> /\ net' = net /\ (~mixed' => ~mixed /\ Unused(i))
        /\ \A s \in Sockets : stat'[s][i] = "ALLOC"
    BY <1>1, <1>2 DEF TypeInv, ThreadTypes, BufferTypes, Unused
  <1>4. executed'[txn'[u]] = <<>>
    BY GetIndexStep
  <1>5. ~mixed' => Nowhere(idx[u])'
    <2>1. ~mixed' => Nowhere(i)
      BY <1>1, <1>3 DEF FramesInv
    <2>2. Nowhere(idx[u])' <=> \A s \in Sockets : Queued(s, i) = {}
      BY <1>3 DEF Nowhere, Here, Queued
    <2> QED
      BY <2>1, <2>2 DEF Nowhere, Here
  <1>6. Within(tx[idx[u]], executed[txn[u]])'
    <2>1. Within(<<>>, <<>>)
      BY WithinFacts, EmptySeq
    <2> QED
      BY <1>3, <1>4, <2>1 DEF Within, Times
  <1>7. ~mixed' => Frames(u)'
    BY <1>3, <1>5, <1>6 DEF Frames
  <1>8. ~mixed' => Exact(u)'
    BY <1>3, <1>4, <1>5 DEF Exact, Sockets
  <1> QED
    BY <1>7, <1>8 DEF Undisturbed

\* The datagram is on its way.
LEMMA OutframePrimaryOwn ==
  ASSUME TypeInv, IndexInv, FramesInv, ExactInv, NEW u \in Threads, OutframePrimary(u)
  PROVE  (~mixed' => Frames(u)') /\ (Undisturbed(u)' => Exact(u)')
  <1> DEFINE i == idx[u]
             f == Data(u, tx[i])
             g == Run("PRIM", f)
  <1>1. /\ pc[u] = "out" /\ pc' = [pc EXCEPT ![u] = "dummy"]
        /\ stat' = [stat EXCEPT !["PRIM"][i] = "TX"] /\ got' = [got EXCEPT ![u] = {}]
        /\ Send("PRIM", f)
        /\ UNCHANGED <<rx, tx, lastidx, broken, idx, txn, tries, answer, begun, troubles, retries, mixed, disturbed>>
    BY DEF OutframePrimary, Goto, SetStat
  <1>2. i \in Idx /\ txn[u] \in 1 .. MaxTxn /\ tx[i] \in Seq(1 .. N) /\ executed[txn[u]] \in Seq(1 .. N)
    BY <1>1, CallFacts DEF TypeInv, WorldTypes
  <1>3. /\ f \in FrameType /\ f.idx = i /\ f.txn = txn[u] /\ f.kind = "data"
    BY <1>2, OwnFrames
  <1>4. g.idx = i /\ g.txn = txn[u] /\ g.kind = "data"
    BY <1>3, RunFacts DEF Sockets
  <1>5. tx[i] = <<>> => g = First(u)
    BY <1>2, ExpectedFacts
  <1>6. /\ executed'[txn[u]] = executed[txn[u]] \o Executing("PRIM")
        /\ \A d \in Sockets : {h \in net'[d] : h.idx = i} = Queued(d, i) \cup {h \in {g} : d \in Arrives("PRIM")}
    <2> DEFINE r == Run("PRIM", f)
    <2>1. /\ executed'[f.txn] = executed[f.txn] \o Executing("PRIM")
          /\ \A d \in Sockets : {h \in net'[d] : h.idx = f.idx} =
                                 Queued(d, f.idx) \cup {h \in {r} : d \in Arrives("PRIM")}
      <3> HIDE DEF f
      <3> QED
        BY <1>1, <1>3, SendFacts, QueuedAfter DEF Sockets
    <2> HIDE DEF f, g, r
    <2>2. r = g
      BY DEF r, g
    <2> QED
      BY <1>3, <2>1, <2>2
  <1> HIDE DEF f, g
  <1>7. /\ pc'[u] = "dummy" /\ got'[u] = {} /\ stat'["PRIM"][i] = "TX" /\ stat'["SEC"][i] = stat["SEC"][i]
        /\ idx'[u] = i /\ Inside(u)
    BY <1>1, <1>2 DEF TypeInv, ThreadTypes, BufferTypes, WorldTypes, Sockets, Inside
  <1>8. ASSUME ~mixed
        PROVE  \A d \in Sockets : Queued(d, i)' = Here(d, i)' /\ Here(d, i)' = {h \in {g} : d \in Arrives("PRIM")}
    <2>1. \A d \in Sockets : Queued(d, i) = {} /\ stat[d][i] # "RCVD"
      BY <1>1, <1>8 DEF FramesInv, Frames, Nowhere, Here
    <2> SUFFICES ASSUME NEW d \in Sockets
                 PROVE  Queued(d, i)' = Here(d, i)' /\ Here(d, i)' = {h \in {g} : d \in Arrives("PRIM")}
      OBVIOUS
    <2>2. {h \in net'[d] : h.idx = i} = {h \in {g} : d \in Arrives("PRIM")}
      BY <1>6, <2>1
    <2>3. stat'[d][i] # "RCVD"
      BY <1>7, <2>1 DEF Sockets
    <2>4. /\ Queued(d, i)' = {h \in net'[d] : h.idx = i}
          /\ Here(d, i)' = {h \in net'[d] : h.idx = i} \cup {h \in {rx'[d][i]} : stat'[d][i] = "RCVD"}
      BY <1>7, HereAfter
    <2> QED
      BY <2>2, <2>3, <2>4
  <1>9. ~mixed' => Frames(u)'
    <2> SUFFICES ASSUME ~mixed PROVE Frames(u)'
      BY <1>1
    <2>1. \A d \in Sockets : \A h \in Here(d, i)' : IsData(u, h)
      BY <1>4, <1>8 DEF IsData
    <2>2. Within(tx[i], executed[txn[u]])
      BY <1>1 DEF FramesInv, Frames
    <2>3. Executing("PRIM") \in Seq(1 .. N)
      BY ExecutingType DEF TypeInv, WorldTypes, Sockets
    <2>4. Within(tx[i], executed'[txn[u]])
      BY <1>2, <1>6, <2>2, <2>3, WithinFacts
    <2>5. Within(tx[i], executed[txn[u]])'
      BY <1>1, <2>4 DEF Within, Times
    <2>6. \A h : IsData(u, h)' <=> IsData(u, h)
      BY <1>7, SameDatagram
    <2> QED
      BY <1>7, <2>1, <2>5, <2>6 DEF Frames
  <1>10. Undisturbed(u)' => Exact(u)'
    <2> SUFFICES ASSUME Undisturbed(u) PROVE Exact(u)'
      BY <1>7, SameDatagram
    <2>1. /\ ~mixed /\ tx[i] = <<>> /\ executed[txn[u]] = <<>> /\ stat["SEC"][i] = "ALLOC"
      BY <1>1 DEF ExactInv, Exact, Undisturbed
    <2>2. executed'[txn[u]] = Executing("PRIM")
      BY <1>6, <2>1, ConcatEmptySeq, ExecutingType DEF TypeInv, WorldTypes, Sockets
    <2>3. First(u)' = g /\ \A s : Executing(s)' = Executing(s) /\ Arrives(s)' = Arrives(s)
      BY <1>1, <1>5, <1>7, <2>1, SameDatagram
    <2>4. \A d \in Sockets : Here(d, i)' = {h \in {First(u)'} : d \in Arrives("PRIM")'}
      BY <1>8, <2>1, <2>3
    <2>5. Awaited("PRIM", i, {h \in {First(u)} : "PRIM" \in Arrives("PRIM")})'
      BY <1>7, <2>4 DEF Awaited, Sockets
    <2>6. Here("SEC", i)' = {h \in {First(u)} : "SEC" \in Arrives("PRIM")}'
      BY <2>4 DEF Sockets
    <2>7. tx'[i] = <<>> /\ stat'["SEC"][i] = "ALLOC"
      BY <1>1, <1>7, <2>1
    <2> QED
      BY <1>1, <1>7, <2>2, <2>3, <2>5, <2>6, <2>7 DEF Exact
  <1> QED
    BY <1>9, <1>10

\* The dummy follows.
LEMMA OutframeDummyOwn ==
  ASSUME TypeInv, IndexInv, FramesInv, ExactInv, NEW u \in Threads, OutframeDummy(u)
  PROVE  (~mixed' => Frames(u)') /\ (Undisturbed(u)' => Exact(u)')
  <1> DEFINE i == idx[u]
             f == Dummy(u)
             g == Probe(u)
  <1>1. /\ pc[u] = "dummy" /\ pc' = [pc EXCEPT ![u] = "wait"]
        /\ stat' = [stat EXCEPT !["SEC"][i] = "TX"]
        /\ Send("SEC", f)
        /\ UNCHANGED <<rx, tx, lastidx, broken, idx, txn, tries, got, answer, begun, troubles, retries, mixed,
                       disturbed>>
    BY DEF OutframeDummy, Goto, SetStat
  <1>2. i \in Idx /\ txn[u] \in 1 .. MaxTxn
    BY <1>1, CallFacts
  <1>3. /\ f \in FrameType /\ f.idx = i /\ f.kind = "dummy"
    BY <1>2, OwnFrames, EmptySeq
  <1>4. g.idx = i /\ g.kind = "dummy" /\ g = Run("SEC", f) /\ g.by = Executing("SEC")
    <2>1. g.idx = i /\ g.kind = "dummy" /\ g = Run("SEC", f)
      BY <1>2, ExpectedFacts
    <2>2. g.by = Executing("SEC")
      BY DEF Probe, Dummy
    <2> QED
      BY <2>1, <2>2
  <1> HIDE DEF f, g
  <1>5. \A d \in Sockets : {h \in net'[d] : h.idx = i} = Queued(d, i) \cup {h \in {g} : d \in Arrives("SEC")}
    <2>1. \A d \in Sockets : {h \in net'[d] : h.idx = f.idx} =
                               Queued(d, f.idx) \cup {h \in {Run("SEC", f)} : d \in Arrives("SEC")}
      BY <1>1, <1>3, QueuedAfter DEF Sockets
    <2> QED
      BY <1>3, <1>4, <2>1
  <1>6. executed'[txn[u]] = executed[txn[u]]
    BY <1>1, <1>2, <1>3, SendFacts DEF Sockets
  <1>7. /\ pc'[u] = "wait" /\ stat'["SEC"][i] = "TX" /\ stat'["PRIM"][i] = stat["PRIM"][i]
        /\ idx'[u] = i /\ got'[u] = got[u] /\ Inside(u)
    BY <1>1, <1>2 DEF TypeInv, ThreadTypes, BufferTypes, WorldTypes, Sockets, Inside
  <1>8. \A d \in Sockets : Queued(d, i)' = Queued(d, i) \cup {h \in {g} : d \in Arrives("SEC")}
    BY <1>5, <1>7, HereAfter
  <1>9. /\ Here("PRIM", i)' = Here("PRIM", i) \cup {h \in {g} : "PRIM" \in Arrives("SEC")}
        /\ Here("SEC", i)' = Queued("SEC", i) \cup {h \in {g} : "SEC" \in Arrives("SEC")}
    BY <1>1, <1>5, <1>7, HereAfter DEF Here, Sockets
  <1>10. ~mixed' => Frames(u)'
    <2> SUFFICES ASSUME ~mixed PROVE Frames(u)'
      BY <1>1
    <2>1. got[u] = {} /\ \A s \in Sockets : \A h \in Here(s, i) : IsData(u, h)
      BY <1>1 DEF FramesInv, Frames
    <2>2. \A s \in Sockets : \A h \in Here(s, i)' : IsData(u, h) \/ (h = g /\ s \in Arrives("SEC"))
      BY <1>9, <2>1 DEF Sockets, Here
    <2>3. \A s \in Sockets : s \in Arrives("SEC") => IsOurs(u, s, g)
      BY <1>4, Arrivals DEF IsOurs
    <2>4. \A s \in Sockets : \A h \in Here(s, i)' : IsOurs(u, s, h)
      BY <2>2, <2>3 DEF IsOurs
    <2>5. \A s \in Sockets : Hand(u, s)' = {}
      BY <1>7, <2>1, HereAfter
    <2>6. \A s \in Sockets : \A h \in Queued(s, i)' : h.kind = "dummy" => h = g /\ s \in Arrives("SEC")
      BY <1>8, <2>1 DEF Here, IsData
    <2>7. \A s \in Sockets : stat'[s][i] = "RCVD" => rx'[s][i].kind # "dummy"
      BY <1>1, <1>7, <2>1 DEF Here, IsData, Sockets
    <2>8. OneDummy(u)'
      <3>1. \A s, r \in Sockets : \A h \in Queued(s, i)', k \in Queued(r, i)' :
               h.kind = "dummy" /\ k.kind = "dummy" => s = r /\ h = k
        BY <2>6, Arrivals
      <3> QED
        BY <1>7, <2>1, <2>7, <3>1 DEF OneDummy
    <2>9. Within(tx[i], executed[txn[u]])'
      <3>1. Within(tx[i], executed[txn[u]])
        BY <1>1 DEF FramesInv, Frames
      <3> QED
        BY <1>1, <1>6, <3>1 DEF Within, Times
    <2>10. \A s, h : IsOurs(u, s, h)' <=> IsOurs(u, s, h)
      BY <1>7, SameDatagram
    <2>11. \A s \in Sockets : Taken(u, s)'
      BY <1>7, <2>1 DEF Taken
    <2> QED
      BY <1>7, <2>4, <2>5, <2>8, <2>9, <2>10, <2>11 DEF Frames
  <1>11. Undisturbed(u)' => Exact(u)'
    <2> SUFFICES ASSUME Undisturbed(u) PROVE Exact(u)'
      BY <1>7, SameDatagram
    <2>1. got[u] = {}
      BY <1>1 DEF FramesInv, Frames, Undisturbed
    <2>2. /\ tx[i] = <<>> /\ executed[txn[u]] = Executing("PRIM")
          /\ Awaited("PRIM", i, {h \in {First(u)} : "PRIM" \in Arrives("PRIM")})
          /\ Here("SEC", i) = {h \in {First(u)} : "SEC" \in Arrives("PRIM")}
          /\ stat["SEC"][i] = "ALLOC"
      BY <1>1 DEF ExactInv, Exact
    <2>3. \A s \in Sockets : Here(s, i)' = Expected(u, s)
      <3>1. Expected(u, "PRIM") = {h \in {First(u)} : "PRIM" \in Arrives("PRIM")}
                                  \cup {h \in {g} : "PRIM" \in Arrives("SEC")}
        BY DEF Expected, g
      <3>2. Expected(u, "SEC") = {h \in {First(u)} : "SEC" \in Arrives("PRIM")}
                                 \cup {h \in {g} : "SEC" \in Arrives("SEC")}
        BY DEF Expected, g
      <3>3. Here("PRIM", i)' = Expected(u, "PRIM")
        BY <1>9, <2>2, <3>1 DEF Awaited
      <3>4. Here("SEC", i) = Queued("SEC", i)
        BY <2>2 DEF Here
      <3>5. Here("SEC", i)' = Expected(u, "SEC")
        BY <1>9, <2>2, <3>2, <3>4
      <3> QED
        BY <3>3, <3>5 DEF Sockets
    <2>4. stat'["PRIM"][i] = "RCVD" => Queued("PRIM", i)' = {}
      <3> SUFFICES ASSUME stat["PRIM"][i] = "RCVD" PROVE Queued("PRIM", i)' = {}
        BY <1>7
      <3>1. Queued("PRIM", i) = {} /\ "PRIM" \in Arrives("PRIM")
        BY <2>2 DEF Awaited, Here
      <3> QED
        BY <1>8, <3>1, Arrivals DEF Sockets
    <2>5. /\ \A s \in Sockets : Expected(u, s)' = Expected(u, s)
          /\ Executing("PRIM")' = Executing("PRIM")
      BY <1>1, <1>7, SameDatagram
    <2>6. \A s \in Sockets : Awaited(s, i, Expected(u, s))'
      BY <1>7, <2>2, <2>3, <2>4, <2>5 DEF Awaited, Sockets
    <2>7. tx'[i] = <<>> /\ executed'[txn'[u]] = Executing("PRIM")'
      BY <1>1, <1>6, <2>2, <2>5
    <2> QED
      BY <1>7, <2>1, <2>6, <2>7 DEF Exact
  <1> QED
    BY <1>10, <1>11

\* A frame that is taken changes hands.
LEMMA InframeOwnOwn ==
  ASSUME TypeInv, IndexInv, FramesInv, ExactInv, NEW u \in Threads, NEW s \in Sockets, InframeOwn(u, s)
  PROVE  (~mixed' => Frames(u)') /\ (Undisturbed(u)' => Exact(u)')
  <1> DEFINE i == idx[u]
  <1>1. /\ pc[u] = "wait" /\ s \notin got[u] /\ Complete(s, i)
        /\ got' = [got EXCEPT ![u] = got[u] \cup {s}]
        /\ UNCHANGED <<tx, lastidx, broken, pc, idx, txn, tries, answer, begun, executed, troubles, retries,
                       mixed, disturbed>>
    BY DEF InframeOwn
  <1>2. i \in Idx
    BY <1>1, CallFacts
  <1>3. stat' = [stat EXCEPT ![s][i] = "COMPLETE"]
    BY <1>1 DEF Complete, SetStat
  <1>4. PICK f : /\ \/ stat[s][i] = "RCVD" /\ f = rx[s][i] /\ net' = net /\ rx' = rx
                    \/ /\ stat[s][i] # "RCVD" /\ f \in net[s] /\ f.idx = i
                       /\ net' = [net EXCEPT ![s] = net[s] \ {f}] /\ rx' = [rx EXCEPT ![s][i] = f]
    BY <1>1 DEF Complete
  <1>5. /\ got'[u] = got[u] \cup {s} /\ Inside(u) /\ stat'[s][i] = "COMPLETE"
        /\ \A r \in Sockets \ {s} : stat'[r][i] = stat[r][i]
    BY <1>1, <1>2, <1>3 DEF TypeInv, ThreadTypes, BufferTypes, WorldTypes, Inside
  <1>6. /\ f \in Here(s, i) /\ rx'[s][i] = f
        /\ Queued(s, i)' \subseteq Queued(s, i) /\ Here(s, i)' = Queued(s, i)'
        /\ \A r \in Sockets \ {s} : /\ rx'[r][i] = rx[r][i] /\ Queued(r, i)' = Queued(r, i)
                                    /\ Here(r, i)' = Here(r, i) /\ Hand(u, r)' = Hand(u, r)
        /\ Hand(u, s)' = {f}
    <2>1. CASE stat[s][i] = "RCVD" /\ f = rx[s][i] /\ net' = net /\ rx' = rx
      BY <1>1, <1>5, <2>1, HereAfter DEF Here, Queued, Hand
    <2>2. CASE /\ stat[s][i] # "RCVD" /\ f \in net[s] /\ f.idx = i
               /\ net' = [net EXCEPT ![s] = net[s] \ {f}] /\ rx' = [rx EXCEPT ![s][i] = f]
      <3>1. /\ net'[s] = net[s] \ {f} /\ rx'[s][i] = f
            /\ \A r \in Sockets \ {s} : net'[r] = net[r] /\ rx'[r][i] = rx[r][i]
        BY <1>2, <2>2 DEF TypeInv, BufferTypes
      <3> QED
        BY <1>1, <1>5, <2>2, <3>1, HereAfter DEF Here, Queued, Hand
    <2> QED
      BY <1>4, <2>1, <2>2
  <1>7. f \notin Queued(s, i)' \/ (stat[s][i] = "RCVD" /\ f = rx[s][i])
    <2>1. CASE net' = [net EXCEPT ![s] = net[s] \ {f}]
      <3>1. net'[s] = net[s] \ {f}
        BY <2>1 DEF TypeInv, BufferTypes
      <3> QED
        BY <3>1 DEF Queued
    <2> QED
      BY <1>4, <2>1
  <1>8. ~mixed' => Frames(u)'
    <2> SUFFICES ASSUME ~mixed PROVE Frames(u)'
      BY <1>1
    <2>1. /\ \A r \in Sockets : \A h \in Here(r, i) \cup Hand(u, r) : IsOurs(u, r, h)
          /\ OneDummy(u) /\ (\A r \in Sockets : Taken(u, r)) /\ Within(tx[i], executed[txn[u]])
      BY <1>1 DEF FramesInv, Frames
    <2>2. \A r \in Sockets : \A h \in Here(r, i)' \cup Hand(u, r)' : IsOurs(u, r, h)
      <3>1. \A h \in Here(s, i)' \cup Hand(u, s)' : IsOurs(u, s, h)
        BY <1>6, <2>1 DEF Here
      <3>2. \A r \in Sockets \ {s} : \A h \in Here(r, i)' \cup Hand(u, r)' : IsOurs(u, r, h)
        BY <1>6, <2>1
      <3> QED
        BY <3>1, <3>2
    <2>3. OneDummy(u)'
      <3>1. \A r, q \in Sockets : \A h \in Queued(r, i)', k \in Queued(q, i)' :
               h.kind = "dummy" /\ k.kind = "dummy" => r = q /\ h = k
        BY <1>6, <2>1 DEF OneDummy
      <3>2. \A r \in Sockets : stat'[r][i] = "RCVD" /\ rx'[r][i].kind = "dummy" =>
               \A q \in Sockets : /\ \A h \in Queued(q, i)' : h.kind # "dummy"
                                  /\ q # r /\ stat'[q][i] = "RCVD" => rx'[q][i].kind # "dummy"
        <4> SUFFICES ASSUME NEW r \in Sockets, stat'[r][i] = "RCVD", rx'[r][i].kind = "dummy",
                            NEW q \in Sockets
                     PROVE  /\ \A h \in Queued(q, i)' : h.kind # "dummy"
                            /\ q # r /\ stat'[q][i] = "RCVD" => rx'[q][i].kind # "dummy"
          OBVIOUS
        <4>1. r # s /\ stat[r][i] = "RCVD" /\ rx[r][i].kind = "dummy"
          BY <1>5, <1>6
        <4>2. /\ \A h \in Queued(q, i) : h.kind # "dummy"
              /\ q # r /\ stat[q][i] = "RCVD" => rx[q][i].kind # "dummy"
          BY <2>1, <4>1 DEF OneDummy
        <4>3. stat'[q][i] = "RCVD" => q # s
          BY <1>5
        <4>4. Queued(q, i)' \subseteq Queued(q, i)
          BY <1>6
        <4> QED
          BY <1>5, <1>6, <4>2, <4>3, <4>4
      <3>3. \A r \in Sockets : r \in got'[u] /\ rx'[r][i].kind = "dummy" =>
               \A q \in Sockets : \A h \in Here(q, i)' : h.kind # "dummy"
        <4> SUFFICES ASSUME NEW r \in Sockets, r \in got'[u], rx'[r][i].kind = "dummy",
                            NEW q \in Sockets, NEW h \in Here(q, i)', h.kind = "dummy"
                     PROVE  FALSE
          OBVIOUS
        <4>1. h \in Here(q, i)
          BY <1>6 DEF Here
        <4>2. CASE r # s
          BY <1>5, <1>6, <2>1, <4>1, <4>2 DEF OneDummy
        <4>3. CASE r = s
          <5>1. f.kind = "dummy"
            BY <1>6, <4>3
          <5>2. CASE stat[s][i] = "RCVD" /\ f = rx[s][i]
            <6>1. /\ \A k \in Queued(q, i) : k.kind # "dummy"
                  /\ q # s /\ stat[q][i] = "RCVD" => rx[q][i].kind # "dummy"
              BY <2>1, <5>1, <5>2 DEF OneDummy
            <6>2. h \in Queued(q, i) \/ (q # s /\ h = rx[q][i] /\ stat[q][i] = "RCVD")
              BY <1>6 DEF Here
            <6> QED
              BY <6>1, <6>2
          <5>3. CASE ~(stat[s][i] = "RCVD" /\ f = rx[s][i])
            <6>1. f \in Queued(s, i) /\ f \notin Queued(s, i)'
              BY <1>6, <1>7, <5>3 DEF Here
            <6>2. h \in Queued(q, i) \/ (h = rx[q][i] /\ stat[q][i] = "RCVD")
              BY <4>1 DEF Here
            <6>3. CASE h \in Queued(q, i)
              <7>1. q = s /\ h = f
                BY <2>1, <5>1, <6>1, <6>3 DEF OneDummy
              <7> QED
                BY <1>6, <6>1, <7>1
            <6>4. CASE h = rx[q][i] /\ stat[q][i] = "RCVD"
              BY <2>1, <5>1, <6>1, <6>4 DEF OneDummy
            <6> QED
              BY <6>2, <6>3, <6>4
          <5> QED
            BY <5>2, <5>3
        <4> QED
          BY <4>2, <4>3
      <3> QED
        BY <1>1, <3>1, <3>2, <3>3 DEF OneDummy
    <2>4. \A r \in Sockets : Taken(u, r)'
      BY <1>1, <1>5, <2>1 DEF Taken
    <2>5. Within(tx[i], executed[txn[u]])'
      BY <1>1, <2>1 DEF Within, Times
    <2>6. \A r, h : IsOurs(u, r, h)' <=> IsOurs(u, r, h)
      BY <1>5, SameDatagram
    <2> QED
      BY <1>1, <2>2, <2>3, <2>4, <2>5, <2>6 DEF Frames
  <1>9. Undisturbed(u)' => Exact(u)'
    <2> SUFFICES ASSUME Undisturbed(u) PROVE Exact(u)'
      BY <1>5, SameDatagram
    <2>1. /\ tx[i] = <<>> /\ executed[txn[u]] = Executing("PRIM") /\ Awaited(s, i, Expected(u, s))
          /\ \A r \in Sockets \ {s} : IF r \in got[u] THEN Here(r, i) = {} /\ rx[r][i] \in Expected(u, r)
                                                     ELSE Awaited(r, i, Expected(u, r))
      BY <1>1 DEF ExactInv, Exact
    <2>2. txn[u] \in 1 .. MaxTxn
      BY <1>1, CallFacts
    <2>3. \A g, h \in Expected(u, s) : g = h
      BY <2>2, ExpectedFacts
    <2>4. rx'[s][i] \in Expected(u, s) /\ Queued(s, i)' = {}
      <3>1. rx'[s][i] \in Expected(u, s) /\ Queued(s, i)' \subseteq {f}
        BY <1>6, <2>1, <2>3 DEF Awaited, Here
      <3>2. stat[s][i] = "RCVD" => Queued(s, i)' = {}
        BY <1>6, <2>1 DEF Awaited
      <3> QED
        BY <1>7, <3>1, <3>2
    <2>5. /\ \A r \in Sockets : Expected(u, r)' = Expected(u, r)
          /\ Executing("PRIM")' = Executing("PRIM")
      BY <1>1, <1>5, SameDatagram
    <2>6. \A r \in Sockets \ {s} : IF r \in got'[u] THEN Here(r, i)' = {} /\ rx'[r][i] \in Expected(u, r)'
                                                   ELSE Awaited(r, i, Expected(u, r))'
      <3> SUFFICES ASSUME NEW r \in Sockets \ {s}
                   PROVE  IF r \in got'[u] THEN Here(r, i)' = {} /\ rx'[r][i] \in Expected(u, r)'
                                          ELSE Awaited(r, i, Expected(u, r))'
        OBVIOUS
      <3>1. /\ r \in got'[u] <=> r \in got[u]
            /\ Here(r, i)' = Here(r, i) /\ Queued(r, i)' = Queued(r, i) /\ rx'[r][i] = rx[r][i]
            /\ stat'[r][i] = stat[r][i] /\ Expected(u, r)' = Expected(u, r)
        BY <1>5, <1>6, <2>5
      <3>2. Awaited(r, i, Expected(u, r)) => Awaited(r, i, Expected(u, r))'
        BY <1>1, <3>1 DEF Awaited
      <3> QED
        BY <2>1, <3>1, <3>2
    <2>7. s \in got'[u] /\ Here(s, i)' = {} /\ rx'[s][i] \in Expected(u, s)'
      BY <1>5, <1>6, <2>4, <2>5
    <2> QED
      BY <1>1, <2>1, <2>5, <2>6, <2>7 DEF Exact
  <1> QED
    BY <1>8, <1>9

\* What came in at a socket, by the card it was sent from.
LEMMA SourceFacts ==
  ASSUME TypeInv, NEW u \in Threads, NEW s \in Sockets
  PROVE  /\ Source(u, s) = "PRIM" <=> s \in got[u] /\ rx[s][idx[u]].kind = "data"
         /\ Source(u, s) = "SEC" <=> s \in got[u] /\ rx[s][idx[u]].kind = "dummy"
         /\ s \in got[u] => Hand(u, s) = {rx[s][idx[u]]} /\ Source(u, s) = rx[s][idx[u]].sa
         /\ s \notin got[u] => Source(u, s) = "none"
  <1>1. rx[s][idx[u]] \in FrameType
    BY DEF TypeInv, ThreadTypes, BufferTypes
  <1> QED
    BY <1>1 DEF Source, Hand, FrameType

\* A frame is not the sign that there is none.
LEMMA NoFrameIs == NoFrame.kind = "none" /\ NoFrame.by = <<>>
  BY DEF NoFrame

\* A call that ends the wait does not change what there is.
LEMMA StillThere ==
  ASSUME NEW u \in Threads, UNCHANGED <<stat, net, idx>>, NEW s \in Sockets, rx'[s] = rx[s]
  PROVE  Here(s, idx[u])' = Here(s, idx[u]) /\ Queued(s, idx[u])' = Queued(s, idx[u])
  BY DEF Here, Queued

\* The ring is whole.
LEMMA DecideWholeOwn ==
  ASSUME TypeInv, IndexInv, FramesInv, ExactInv, NEW u \in Threads, DecideWhole(u)
  PROVE  (~mixed' => Frames(u)') /\ (Undisturbed(u)' => Exact(u)')
  <1> DEFINE i == idx[u]
             f == rx["SEC"][i]
  <1>1. /\ pc[u] = "wait" /\ WaitOver(u) /\ Result(u, f)
        /\ Source(u, "SEC") = "PRIM"
        /\ UNCHANGED <<stat, tx, lastidx, broken, net, idx, txn, got, begun, executed, troubles, disturbed>>
    BY DEF DecideWhole
  <1>2. i \in Idx /\ f \in FrameType /\ txn[u] \in 1 .. MaxTxn
    BY <1>1, CallFacts DEF Sockets
  <1>3. "SEC" \in got[u] /\ f.kind = "data" /\ Hand(u, "SEC") = {f}
    BY <1>1, SourceFacts DEF Sockets
  <1>4. pc'[u] = "done" /\ answer'[u] = f /\ tries'[u] = tries[u]
    BY <1>1, <1>2, <1>3, NoFrameIs, ResultFacts
  <1>5. Inside(u)
    BY <1>1 DEF Inside, WaitOver, TypeInv, WorldTypes
  <1> HIDE DEF f
  <1>6. ~mixed' => Frames(u)'
    <2> SUFFICES ASSUME ~mixed PROVE Frames(u)'
      BY <1>5 DEF Inside
    <2>1. IsData(u, f) /\ Within(tx[i], executed[txn[u]])
      BY <1>1, <1>3 DEF FramesInv, Frames, IsOurs, Sockets
    <2>2. Within(tx[i], executed[txn[u]])'
      BY <1>1, <2>1 DEF Within, Times
    <2>3. IsData(u, answer[u])'
      BY <1>1, <1>4, <2>1 DEF IsData
    <2> QED
      BY <1>4, <2>2, <2>3 DEF Frames
  <1>7. Undisturbed(u)' => Exact(u)'
    <2> SUFFICES ASSUME Undisturbed(u) PROVE Exact(u)'
      BY <1>5, SameDatagram
    <2>1. executed[txn[u]] = Executing("PRIM") /\ f \in Expected(u, "SEC")
      BY <1>1, <1>3 DEF ExactInv, Exact, Sockets, f
    <2>2. f = First(u) /\ "SEC" \in Arrives("PRIM")
      BY <1>2, <1>3, <2>1, ExpectedFacts DEF Expected
    <2>3. Executing("PRIM") = All
      BY <2>2, OneBreak DEF Undisturbed
    <2>4. First(u) = Data(u, All)
      BY <2>3 DEF First
    <2>5. Data(u, All)' = Data(u, All) /\ All' = All
      BY <1>4, <1>5, SameDatagram
    <2> QED
      BY <1>1, <1>4, <2>1, <2>2, <2>3, <2>4, <2>5 DEF Exact
  <1> QED
    BY <1>6, <1>7

\* The second transmission takes up where the row was interrupted.
LEMMA DecideResendOwn ==
  ASSUME TypeInv, IndexInv, WorkInv, FramesInv, ExactInv, NEW u \in Threads, DecideResend(u)
  PROVE  (~mixed' => Frames(u)') /\ (Undisturbed(u)' => Exact(u)')
  <1> DEFINE i == idx[u]
  <1>1. PICK by : /\ by = IF Source(u, "PRIM") = "PRIM" THEN rx["PRIM"][i].by ELSE tx[i]
                  /\ tx' = [tx EXCEPT ![i] = by]
                  /\ Send("SEC", Data(u, by))
    BY DEF DecideResend, CarriedOver
  <1> DEFINE f == Data(u, by)
             g == Data(u, by \o Executing("SEC"))
  <1>2. /\ pc[u] = "wait" /\ pc' = [pc EXCEPT ![u] = "rewait"] /\ WaitOver(u)
        /\ Source(u, "PRIM") \in {"none", "PRIM"} /\ Source(u, "SEC") = "SEC"
        /\ stat' = [stat EXCEPT !["SEC"][i] = "TX"]
        /\ UNCHANGED <<rx, lastidx, broken, idx, txn, tries, got, answer, begun, troubles, retries, disturbed>>
    BY DEF DecideResend, Resending, Goto, SetStat
  <1>3. i \in Idx /\ txn[u] \in 1 .. MaxTxn /\ executed[txn[u]] \in Seq(1 .. N)
    BY <1>2, CallFacts DEF TypeInv, WorldTypes
  <1>4. by \in Seq(1 .. N) /\ (~mixed => Within(by, executed[txn[u]]))
    BY <1>1, <1>2, BackHonest
  <1>5. Executing("SEC") \in Seq(1 .. N) /\ by \o Executing("SEC") \in Seq(1 .. N)
    BY <1>4, ExecutingType, ConcatProperties DEF TypeInv, WorldTypes, Sockets
  <1>6. /\ f \in FrameType /\ f.idx = i /\ f.txn = txn[u] /\ f.kind = "data"
        /\ IsData(u, g) /\ Run("SEC", f) = g
    <2>1. f \in FrameType /\ f.idx = i /\ f.txn = txn[u] /\ f.kind = "data"
      BY <1>3, <1>4, OwnFrames
    <2>2. Run("SEC", f) = g
      BY <1>3, <1>4, DataRun DEF Sockets
    <2>3. g.kind = "data" /\ g.txn = txn[u]
      BY DEF Data
    <2> QED
      BY <2>1, <2>2, <2>3 DEF IsData
  <1>7. Send("SEC", f)
    BY <1>1
  <1> HIDE DEF f, g
  <1>8. executed'[txn[u]] = executed[txn[u]] \o Executing("SEC")
    BY <1>6, <1>7, SendFacts DEF Sockets
  <1>9. {h \in net'["SEC"] : h.idx = i} = Queued("SEC", i) \cup {h \in {g} : "SEC" \in Arrives("SEC")}
    <2>1. {h \in net'["SEC"] : h.idx = f.idx} =
             Queued("SEC", f.idx) \cup {h \in {Run("SEC", f)} : "SEC" \in Arrives("SEC")}
      BY <1>6, <1>7, QueuedAfter DEF Sockets
    <2> QED
      BY <1>6, <2>1
  <1>10. /\ pc'[u] = "rewait" /\ stat'["SEC"][i] = "TX" /\ stat'["PRIM"][i] = stat["PRIM"][i]
         /\ tx'[i] = by /\ idx'[u] = i /\ Inside(u)
    BY <1>1, <1>2, <1>3 DEF TypeInv, ThreadTypes, BufferTypes, WorldTypes, Sockets, Inside, WaitOver
  <1>11. /\ Queued("SEC", i)' = Queued("SEC", i) \cup {h \in {g} : "SEC" \in Arrives("SEC")}
         /\ Here("SEC", i)' = Queued("SEC", i)' /\ Hand(u, "PRIM")' = Hand(u, "PRIM")
    <2>1. "SEC" \in Sockets /\ "PRIM" \in Sockets
      BY DEF Sockets
    <2>2. /\ Queued("SEC", i)' = {h \in net'["SEC"] : h.idx = i}
          /\ Here("SEC", i)' = {h \in net'["SEC"] : h.idx = i}
                               \cup {h \in {rx'["SEC"][i]} : stat'["SEC"][i] = "RCVD"}
      BY <1>10, <2>1, HereAfter
    <2>3. Hand(u, "PRIM")' = Hand(u, "PRIM")
      BY <1>2 DEF Hand
    <2> QED
      BY <1>9, <1>10, <2>2, <2>3
  <1>12. "SEC" \in got[u] /\ rx["SEC"][i].kind = "dummy"
    BY <1>2, SourceFacts DEF Sockets
  <1>13. "PRIM" \in got[u] => rx["PRIM"][i].kind # "dummy" /\ Hand(u, "PRIM") = {rx["PRIM"][i]}
    BY <1>2, SourceFacts DEF Sockets
  <1>14. ~mixed' => Frames(u)'
    <2> SUFFICES ASSUME ~mixed PROVE Frames(u)'
      BY <1>10 DEF Inside
    <2>1. /\ \A s \in Sockets : \A h \in Here(s, i) \cup Hand(u, s) : IsOurs(u, s, h)
          /\ OneDummy(u) /\ Taken(u, "PRIM")
      BY <1>2 DEF FramesInv, Frames, Sockets
    <2>2. \A h \in Queued("SEC", i) : IsData(u, h)
      BY <1>12, <2>1 DEF OneDummy, IsOurs, Here, Sockets
    <2>3. \A h \in Hand(u, "PRIM") : IsData(u, h)
      BY <1>13, <2>1 DEF IsOurs, Hand, Sockets
    <2>4. \A h \in Here("SEC", i)' \cup Hand(u, "PRIM")' : IsData(u, h)
      BY <1>6, <1>11, <2>2, <2>3
    <2>5. Within(by, executed'[txn[u]])
      BY <1>3, <1>4, <1>5, <1>8, WithinFacts
    <2>6. Within(tx[i], executed[txn[u]])'
      BY <1>2, <1>10, <2>5 DEF Within, Times
    <2>7. Taken(u, "PRIM")'
      BY <1>2, <1>10, <2>1 DEF Taken
    <2>8. \A h : IsData(u, h)' <=> IsData(u, h)
      BY <1>10, SameDatagram
    <2> QED
      BY <1>10, <2>4, <2>6, <2>7, <2>8 DEF Frames
  <1>15. Undisturbed(u)' => Exact(u)'
    <2> SUFFICES ASSUME Undisturbed(u), ~mixed' PROVE Exact(u)'
      BY <1>10, SameDatagram DEF Undisturbed
    <2>1. /\ tx[i] = <<>> /\ executed[txn[u]] = Executing("PRIM")
          /\ Here("SEC", i) = {} /\ rx["SEC"][i] \in Expected(u, "SEC")
          /\ IF "PRIM" \in got[u] THEN rx["PRIM"][i] \in Expected(u, "PRIM")
                                  ELSE Here("PRIM", i) = Expected(u, "PRIM")
      BY <1>2, <1>12 DEF ExactInv, Exact, Awaited, Sockets
    <2>2. "SEC" \in Arrives("SEC")
      BY <1>3, <1>12, <2>1, ExpectedFacts DEF Expected
    <2>3. PICK c \in 0 .. N :
             /\ Executing("PRIM") = SlavesFrom(1, c) /\ Executing("SEC") = SlavesFrom(c + 1, N)
             /\ Arrives("PRIM") = IF c = 0 THEN {} ELSE {"PRIM"}
      BY <2>2, OneBreak DEF Undisturbed
    <2>4. by = Executing("PRIM")
      <3>1. CASE "PRIM" \in got[u]
        <4>1. rx["PRIM"][i] = First(u)
          BY <1>3, <1>13, <2>1, <3>1, ExpectedFacts DEF Expected
        <4>2. Source(u, "PRIM") = "PRIM"
          BY <1>3, <3>1, <4>1, SourceFacts, ExpectedFacts DEF Sockets
        <4> QED
          BY <1>1, <1>3, <4>1, <4>2, ExpectedFacts
      <3>2. CASE "PRIM" \notin got[u]
        <4>1. Source(u, "PRIM") = "none"
          BY <3>2, SourceFacts DEF Sockets
        <4>2. Nowhere(i)
          BY <1>2, <3>2, UnderWayIs DEF WaitOver, Sockets
        <4>3. "PRIM" \notin Arrives("PRIM")
          BY <2>1, <3>2, <4>2 DEF Nowhere, Expected, Sockets
        <4>4. Executing("PRIM") = <<>>
          BY <2>3, <4>3, NoSlaves
        <4> QED
          BY <1>1, <2>1, <4>1, <4>4
      <3> QED
        BY <3>1, <3>2
    <2>5. by \o Executing("SEC") = All
      BY <2>3, <2>4, RowParts
    <2>6. g = Data(u, All)
      BY <2>5 DEF g
    <2>7. Here("SEC", i)' = {Data(u, All)}
      BY <1>11, <2>1, <2>2, <2>6 DEF Here
    <2>8. Data(u, All)' = Data(u, All) /\ All' = All
      BY <1>2, <1>10, SameDatagram
    <2>9. Awaited("SEC", i, {Data(u, All)})'
      BY <1>10, <2>7, <2>8 DEF Awaited
    <2>10. executed'[txn'[u]] = All'
      BY <1>2, <1>8, <2>1, <2>4, <2>5, <2>8
    <2> QED
      BY <1>10, <2>9, <2>10 DEF Exact
  <1> QED
    BY <1>14, <1>15

\* The result of the primary socket, if there is one: the datagram, or a dummy that met no slave.
LEMMA StandsFrames ==
  ASSUME TypeInv, IndexInv, FramesInv, NEW u \in Threads, DecidePrimary(u) \/ ResendExpired(u)
  PROVE  ~mixed' => Frames(u)'
  <1> DEFINE i == idx[u]
             f == IF "PRIM" \in got[u] THEN rx["PRIM"][i] ELSE NoFrame
  <1>1. /\ pc[u] \in {"wait", "rewait"} /\ Result(u, f)
        /\ UNCHANGED <<stat, rx, tx, lastidx, broken, net, idx, txn, got, begun, executed, troubles, disturbed>>
    BY DEF DecidePrimary, ResendExpired
  <1>2. /\ mixed \in BOOLEAN /\ (mixed => mixed')
        /\ ~mixed' /\ got[u] # Sockets => Nowhere(i)
    BY UnderWayIs DEF DecidePrimary, ResendExpired, WaitOver, TypeInv, WorldTypes
  <1>3. f \in FrameType
    BY <1>1, CallFacts, NoFrameType DEF Sockets
  <1>4. "PRIM" \in got[u] => f \in Hand(u, "PRIM")
    BY DEF Hand
  <1>5. "PRIM" \notin got[u] => f = NoFrame
    OBVIOUS
  <1> HIDE DEF f
  <1>6. \/ pc'[u] = "done" /\ answer'[u] = f
        \/ pc'[u] = "out" /\ f = NoFrame
    BY <1>1, <1>3, ResultFacts
  <1> SUFFICES ASSUME ~mixed, ~mixed' PROVE Frames(u)'
    BY <1>2
  <1>7. /\ "PRIM" \in got[u] => IsData(u, f) \/ (f.kind = "dummy" /\ f.by = <<>>)
        /\ Within(tx[i], executed[txn[u]])
    BY <1>1, <1>4 DEF FramesInv, Frames, IsOurs, Sockets
  <1>8. Within(tx[i], executed[txn[u]])'
    BY <1>1, <1>7 DEF Within, Times
  <1>9. IsData(u, f) \/ f.by = <<>>
    BY <1>5, <1>7, NoFrameIs
  <1>10. f = NoFrame => "PRIM" \notin got[u]
    BY <1>7, NoFrameIs DEF IsData
  <1>11. CASE pc'[u] = "done" /\ answer'[u] = f
    <2>1. IsData(u, f) => IsData(u, answer[u])'
      BY <1>1, <1>11 DEF IsData
    <2> QED
      BY <1>8, <1>9, <1>11, <2>1 DEF Frames
  <1>12. CASE pc'[u] = "out" /\ f = NoFrame
    <2>1. Nowhere(i)
      BY <1>2, <1>10, <1>12 DEF Sockets
    <2>2. Nowhere(i)'
      BY <1>1, <2>1, StillThere DEF Nowhere
    <2> QED
      BY <1>8, <1>12, <2>2 DEF Frames
  <1> QED
    BY <1>6, <1>11, <1>12

\* The decision for the primary socket, undisturbed: the last cable is the one interrupted.
LEMMA DecidePrimaryOwn ==
  ASSUME TypeInv, IndexInv, FramesInv, ExactInv, NEW u \in Threads, DecidePrimary(u)
  PROVE  (~mixed' => Frames(u)') /\ (Undisturbed(u)' => Exact(u)')
  <1> DEFINE i == idx[u]
             f == IF "PRIM" \in got[u] THEN rx["PRIM"][i] ELSE NoFrame
  <1>1. /\ pc[u] = "wait" /\ WaitOver(u) /\ Result(u, f)
        /\ ~(Source(u, "PRIM") = "SEC" /\ Source(u, "SEC") = "PRIM")
        /\ ~(Source(u, "PRIM") \in {"none", "PRIM"} /\ Source(u, "SEC") = "SEC")
        /\ UNCHANGED <<stat, rx, tx, lastidx, broken, net, idx, txn, got, begun, executed, troubles, disturbed>>
    BY DEF DecidePrimary, Resending
  <1>2. txn[u] \in 1 .. MaxTxn /\ f \in FrameType
    BY <1>1, CallFacts, NoFrameType DEF Sockets
  <1>3. Inside(u)
    BY <1>1 DEF Inside, WaitOver, TypeInv, WorldTypes
  <1>4. ASSUME Undisturbed(u), ~mixed' PROVE Exact(u)'
    <2>1. /\ executed[txn[u]] = Executing("PRIM")
          /\ \A s \in Sockets : IF s \in got[u] THEN rx[s][i] \in Expected(u, s) ELSE Here(s, i) = Expected(u, s)
      BY <1>1, <1>4 DEF ExactInv, Exact, Awaited
    <2>2. got[u] # Sockets => Nowhere(i)
      BY <1>1, <1>4, UnderWayIs DEF WaitOver
    <2>3. \A s \in Sockets : s \notin got[u] => Expected(u, s) = {}
      BY <2>1, <2>2 DEF Nowhere
    <2>4. \A s \in Sockets : s \in Arrives("SEC") => Source(u, s) = "SEC"
      <3> SUFFICES ASSUME NEW s \in Sockets, s \in Arrives("SEC") PROVE Source(u, s) = "SEC"
        OBVIOUS
      <3>1. Probe(u) \in Expected(u, s)
        BY DEF Expected
      <3>2. s \in got[u] /\ rx[s][i] = Probe(u)
        BY <1>2, <2>1, <2>3, <3>1, ExpectedFacts
      <3> QED
        BY <1>2, <3>2, SourceFacts, ExpectedFacts
    <2>5. \A s \in Sockets : s \in Arrives("PRIM") =>
             s \in got[u] /\ rx[s][i] = First(u) /\ Source(u, s) = "PRIM"
      <3> SUFFICES ASSUME NEW s \in Sockets, s \in Arrives("PRIM")
                   PROVE  s \in got[u] /\ rx[s][i] = First(u) /\ Source(u, s) = "PRIM"
        OBVIOUS
      <3>1. First(u) \in Expected(u, s)
        BY DEF Expected
      <3>2. s \in got[u] /\ rx[s][i] = First(u)
        BY <1>2, <2>1, <2>3, <3>1, ExpectedFacts
      <3> QED
        BY <1>2, <3>2, SourceFacts, ExpectedFacts
    <2>6. \A s \in Sockets : s \in got[u] => s \in Arrives("PRIM") \/ s \in Arrives("SEC")
      BY <2>1 DEF Expected
    <2>7. ~(Arrives("PRIM") = {"SEC"} /\ Arrives("SEC") = {"PRIM"})
      BY <1>1, <2>4, <2>5 DEF Sockets
    <2>8. PICK c \in 0 .. N :
             /\ Executing("PRIM") = SlavesFrom(1, c)
             /\ Arrives("PRIM") = IF c = 0 THEN {} ELSE {"PRIM"}
             /\ Arrives("SEC") = IF c = N THEN {} ELSE {"SEC"}
      BY <1>4, <2>7, OneBreak DEF Undisturbed
    <2>9. c = N
      <3> SUFFICES ASSUME c # N PROVE FALSE
        OBVIOUS
      <3>1. Source(u, "SEC") = "SEC"
        BY <2>4, <2>8 DEF Sockets
      <3>2. Source(u, "PRIM") \in {"none", "PRIM"}
        <4>1. CASE c = 0
          <5>1. "PRIM" \notin got[u]
            BY <2>6, <2>8, <4>1 DEF Sockets
          <5> QED
            BY <5>1, SourceFacts DEF Sockets
        <4>2. CASE c # 0
          BY <2>5, <2>8, <4>2 DEF Sockets
        <4> QED
          BY <4>1, <4>2
      <3> QED
        BY <1>1, <3>1, <3>2
    <2>10. Executing("PRIM") = All /\ "PRIM" \in Arrives("PRIM")
      BY <2>8, <2>9, Sizes DEF All
    <2>11. f = Data(u, All)
      BY <2>5, <2>10 DEF First, Sockets
    <2>12. f.kind = "data"
      BY <1>2, <2>5, <2>10, ExpectedFacts DEF Sockets
    <2> HIDE DEF f
    <2>13. pc'[u] = "done" /\ answer'[u] = f /\ tries'[u] = tries[u]
      BY <1>1, <1>2, <2>12, NoFrameIs, ResultFacts
    <2>14. Data(u, All)' = Data(u, All) /\ All' = All
      BY <1>3, <2>13, SameDatagram
    <2> QED
      BY <1>1, <2>1, <2>10, <2>11, <2>13, <2>14 DEF Exact
  <1>5. Undisturbed(u)' => Exact(u)'
    BY <1>3, <1>4, SameDatagram DEF Undisturbed
  <1> QED
    BY <1>5, StandsFrames

\* The second transmission stays away: the call is disturbed, or one of its frames outlives a wait.
LEMMA ResendExpiredOwn ==
  ASSUME TypeInv, IndexInv, FramesInv, ExactInv, NEW u \in Threads, ResendExpired(u)
  PROVE  (~mixed' => Frames(u)') /\ (Undisturbed(u)' => Exact(u)')
  <1>1. /\ pc[u] = "rewait" /\ mixed' = (mixed \/ UnderWay(idx[u]))
        /\ UNCHANGED <<stat, rx, tx, lastidx, broken, net, idx, txn, got, begun, executed, troubles, disturbed>>
    BY DEF ResendExpired
  <1>2. Inside(u)
    BY <1>1 DEF Inside, TypeInv, WorldTypes
  <1>3. ASSUME Undisturbed(u), ~mixed' PROVE FALSE
    <2>1. Here("SEC", idx[u]) = {Data(u, All)}
      BY <1>1, <1>3 DEF ExactInv, Exact, Awaited
    <2>2. Nowhere(idx[u])
      BY <1>1, <1>3, UnderWayIs
    <2> QED
      BY <2>1, <2>2 DEF Nowhere, Sockets
  <1>4. Undisturbed(u)' => FALSE
    BY <1>2, <1>3, SameDatagram DEF Undisturbed
  <1> QED
    BY <1>4, StandsFrames

\* The second transmission is answered.
LEMMA ResendAnsweredOwn ==
  ASSUME TypeInv, IndexInv, FramesInv, ExactInv, NEW u \in Threads, ResendAnswered(u)
  PROVE  (~mixed' => Frames(u)') /\ (Undisturbed(u)' => Exact(u)')
  <1> DEFINE i == idx[u]
  <1>1. /\ pc[u] = "rewait"
        /\ UNCHANGED <<tx, lastidx, broken, idx, txn, got, begun, executed, troubles, mixed, disturbed>>
    BY DEF ResendAnswered
  <1>2. PICK f : /\ Result(u, f)
                 /\ \/ stat["SEC"][i] = "RCVD" /\ f = rx["SEC"][i]
                    \/ f \in net["SEC"] /\ f.idx = i
    BY DEF ResendAnswered
  <1>3. f \in FrameType /\ f \in Here("SEC", i)
    BY <1>1, <1>2, CallFacts DEF Here, Queued, TypeInv, BufferTypes, Sockets
  <1>4. Inside(u)
    BY <1>1 DEF Inside, TypeInv, WorldTypes
  <1>5. ASSUME ~mixed PROVE IsData(u, f) /\ pc'[u] = "done" /\ answer'[u] = f /\ tries'[u] = tries[u]
    <2>1. IsData(u, f)
      BY <1>1, <1>3, <1>5 DEF FramesInv, Frames
    <2> QED
      BY <1>2, <1>3, <2>1, NoFrameIs, ResultFacts DEF IsData
  <1>6. ~mixed' => Frames(u)'
    <2> SUFFICES ASSUME ~mixed PROVE Frames(u)'
      BY <1>1
    <2>1. Within(tx[i], executed[txn[u]])
      BY <1>1 DEF FramesInv, Frames
    <2>2. Within(tx[i], executed[txn[u]])'
      BY <1>1, <2>1 DEF Within, Times
    <2>3. IsData(u, answer[u])'
      BY <1>1, <1>5 DEF IsData
    <2> QED
      BY <1>5, <2>2, <2>3 DEF Frames
  <1>7. Undisturbed(u)' => Exact(u)'
    <2> SUFFICES ASSUME Undisturbed(u) PROVE Exact(u)'
      BY <1>4, SameDatagram
    <2>1. executed[txn[u]] = All /\ f = Data(u, All)
      BY <1>1, <1>3 DEF ExactInv, Exact, Awaited
    <2>2. pc'[u] = "done" /\ answer'[u] = f /\ tries'[u] = tries[u]
      BY <1>5 DEF Undisturbed
    <2>3. Data(u, All)' = Data(u, All) /\ All' = All
      BY <1>4, <2>2, SameDatagram
    <2> QED
      BY <1>1, <2>1, <2>2, <2>3 DEF Exact
  <1> QED
    BY <1>6, <1>7

\* Of an index that is given back there is nothing left.
LEMMA ReleaseOwn ==
  ASSUME TypeInv, IndexInv, NEW u \in Threads, Release(u)
  PROVE  Frames(u)' /\ Exact(u)' /\ (~mixed' => \A i : i = idx[u] => Nowhere(i)')
  <1>1. /\ pc[u] = "done" /\ pc' = [pc EXCEPT ![u] = "idle"]
        /\ stat' = [s \in Sockets |-> [stat[s] EXCEPT ![idx[u]] = "EMPTY"]]
        /\ mixed' = (mixed \/ UnderWay(idx[u])) /\ net' = net
    BY DEF Release, Goto
  <1>2. pc'[u] = "idle" /\ idx[u] \in Idx /\ \A s \in Sockets : stat'[s][idx[u]] = "EMPTY"
    BY <1>1, CallFacts DEF TypeInv, ThreadTypes, BufferTypes
  <1>3. ~mixed' => Nowhere(idx[u])
    BY <1>1, UnderWayIs
  <1>4. ~mixed' => \A i : i = idx[u] => Nowhere(i)'
    BY <1>1, <1>2, <1>3 DEF Nowhere, Here, Queued
  <1> QED
    BY <1>2, <1>4 DEF Frames, Exact

\* The send of thread u at socket s fails; it goes on to the place with work by in the buffer.
FailedSend(u, s, to, by, g) ==
    /\ SendFails(u, s)
    /\ to \in Places /\ pc[u] # "idle" /\ pc' = [pc EXCEPT ![u] = to]
    /\ by \in Seq(1 .. N) /\ tx' = [tx EXCEPT ![idx[u]] = by]
    /\ g \in SUBSET Sockets /\ got' = [got EXCEPT ![u] = g]
    /\ mixed' \in BOOLEAN /\ (mixed => mixed')

\* A send that fails: nothing is under way that was not, and the call is disturbed.
LEMMA SendFailsStep ==
  ASSUME TypeInv, IndexInv, WorkInv, NEW u \in Threads, NEW s \in Sockets,
         NEW to, NEW by, NEW g, FailedSend(u, s, to, by, g)
  PROVE  /\ TypeInv' /\ IndexInv' /\ WorkInv' /\ Local(u, idx[u])
         /\ pc'[u] = to /\ got'[u] = g /\ tx'[idx[u]] = by /\ idx'[u] = idx[u] /\ txn'[u] = txn[u]
         /\ \A r \in Sockets : stat'[r][idx[u]] = IF r = s THEN "EMPTY" ELSE stat[r][idx[u]]
         /\ UNCHANGED <<rx, net, executed>> /\ ~Undisturbed(u)'
         /\ \A f : IsData(u, f)' <=> IsData(u, f)
         /\ \A r, f : IsOurs(u, r, f)' <=> IsOurs(u, r, f)
         /\ \A r \in Sockets : /\ Queued(r, idx[u])' = Queued(r, idx[u])
                               /\ Here(r, idx[u])' = IF r = s THEN Queued(r, idx[u]) ELSE Here(r, idx[u])
  <1> DEFINE i == idx[u]
  <1>0. /\ SendFails(u, s) /\ to \in Places /\ pc[u] # "idle" /\ pc' = [pc EXCEPT ![u] = to]
        /\ by \in Seq(1 .. N) /\ tx' = [tx EXCEPT ![i] = by]
        /\ g \in SUBSET Sockets /\ got' = [got EXCEPT ![u] = g]
        /\ mixed' \in BOOLEAN /\ (mixed => mixed')
    BY DEF FailedSend
  <1>1. /\ stat' = [stat EXCEPT ![s][i] = "EMPTY"] /\ disturbed' = disturbed \cup {u}
        /\ UNCHANGED <<rx, lastidx, broken, net, idx, txn, tries, answer, begun, executed, retries>>
    BY <1>0 DEF SendFails, SetStat
  <1>2. i \in Idx
    BY <1>0, CallFacts
  <1>3. /\ stat' \in [Sockets -> [Idx -> Statuses]]
        /\ \A r \in Sockets, j \in Idx : stat'[r][j] = IF r = s /\ j = i THEN "EMPTY" ELSE stat[r][j]
    BY <1>1, <1>2 DEF TypeInv, BufferTypes, Statuses
  <1>4. BufferTypes'
    BY <1>0, <1>1, <1>2, <1>3 DEF TypeInv, BufferTypes
  <1>5. ThreadTypes'
    BY <1>0, <1>1 DEF TypeInv, ThreadTypes
  <1>6. WorldTypes'
    BY <1>0, <1>1 DEF TypeInv, WorldTypes
  <1>7. Local(u, i)
    BY <1>0, <1>1, <1>2, <1>3 DEF Local, Queued, TypeInv, BufferTypes, ThreadTypes
  <1>8. IndexInv'
    BY <1>0, <1>1, <1>7, IndexKept
  <1>9. Carried
    BY <1>0, <1>1 DEF Carried
  <1>10. /\ \A f : IsData(u, f)' <=> IsData(u, f)
         /\ \A r, f : IsOurs(u, r, f)' <=> IsOurs(u, r, f)
    BY <1>1 DEF IsData, IsOurs
  <1>11. \A r \in Sockets : /\ Queued(r, i)' = Queued(r, i)
                            /\ Here(r, i)' = IF r = s THEN Queued(r, i) ELSE Here(r, i)
    <2> SUFFICES ASSUME NEW r \in Sockets
                 PROVE  Queued(r, i)' = Queued(r, i) /\ Here(r, i)' = IF r = s THEN Queued(r, i) ELSE Here(r, i)
      OBVIOUS
    <2>1. /\ Queued(r, i)' = {f \in net'[r] : f.idx = i}
          /\ Here(r, i)' = {f \in net'[r] : f.idx = i} \cup {f \in {rx'[r][i]} : stat'[r][i] = "RCVD"}
      BY <1>1, HereAfter
    <2>2. Queued(r, i) = {f \in net[r] : f.idx = i}
      BY DEF Queued
    <2> QED
      BY <1>1, <1>2, <1>3, <2>1, <2>2 DEF Here
  <1>12. ~Undisturbed(u)'
    BY <1>1 DEF Undisturbed
  <1> QED
    BY <1>0, <1>1, <1>2, <1>3, <1>4, <1>5, <1>6, <1>7, <1>8, <1>9, <1>10, <1>11, <1>12, CarriedKeeps
       DEF TypeInv, ThreadTypes, BufferTypes

\* What is in hand or on its way stays what it is, and the work of the datagram was done.
LEMMA SendFailsWithin ==
  ASSUME NEW u \in Threads, NEW by, tx'[idx[u]] = by, UNCHANGED executed, idx'[u] = idx[u], txn'[u] = txn[u],
         Within(by, executed[txn[u]])
  PROVE  Within(tx[idx[u]], executed[txn[u]])'
  BY DEF Within, Times

\* Nothing leaves the primary card.
LEMMA OutframePrimaryFailsStep ==
  ASSUME TypeInv, IndexInv, WorkInv, FramesInv, NEW u \in Threads, OutframePrimaryFails(u)
  PROVE  /\ TypeInv' /\ IndexInv' /\ WorkInv' /\ Local(u, idx[u])
         /\ (~mixed' => Frames(u)') /\ ~Undisturbed(u)' /\ pc'[u] # "idle" /\ idx'[u] = idx[u]
  <1> DEFINE i == idx[u]
  <1>1. /\ pc[u] = "out" /\ pc' = [pc EXCEPT ![u] = "dummy"] /\ SendFails(u, "PRIM")
        /\ got' = [got EXCEPT ![u] = {}] /\ UNCHANGED <<tx, mixed>>
    BY DEF OutframePrimaryFails, Goto
  <1>2. tx[i] \in Seq(1 .. N) /\ tx' = [tx EXCEPT ![i] = tx[i]] /\ "dummy" \in Places /\ mixed' \in BOOLEAN
    BY <1>1, CallFacts DEF Places, TypeInv, BufferTypes, WorldTypes
  <1>3. /\ TypeInv' /\ IndexInv' /\ WorkInv' /\ Local(u, i)
        /\ pc'[u] = "dummy" /\ got'[u] = {} /\ tx'[i] = tx[i] /\ idx'[u] = i /\ txn'[u] = txn[u]
        /\ UNCHANGED executed /\ ~Undisturbed(u)'
        /\ \A r \in Sockets : Here(r, i)' = IF r = "PRIM" THEN Queued(r, i) ELSE Here(r, i)
    <2>1. FailedSend(u, "PRIM", "dummy", tx[i], {})
      BY <1>1, <1>2 DEF FailedSend
    <2>2. "PRIM" \in Sockets
      BY DEF Sockets
    <2>3. UNCHANGED executed
      BY <1>1 DEF SendFails
    <2> QED
      BY <2>1, <2>2, <2>3, SendFailsStep
  <1>4. ASSUME ~mixed' PROVE Frames(u)'
    <2>1. Nowhere(i) /\ Within(tx[i], executed[txn[u]])
      BY <1>1, <1>4 DEF FramesInv, Frames
    <2>2. \A r \in Sockets : Here(r, i)' = {}
      BY <1>3, <2>1 DEF Nowhere, Here
    <2>3. Within(tx[i], executed[txn[u]])'
      BY <1>3, <2>1, SendFailsWithin
    <2> QED
      BY <1>3, <2>2, <2>3 DEF Frames
  <1> QED
    BY <1>3, <1>4

\* No dummy leaves the secondary one.
LEMMA OutframeDummyFailsStep ==
  ASSUME TypeInv, IndexInv, WorkInv, FramesInv, NEW u \in Threads, OutframeDummyFails(u)
  PROVE  /\ TypeInv' /\ IndexInv' /\ WorkInv' /\ Local(u, idx[u])
         /\ (~mixed' => Frames(u)') /\ ~Undisturbed(u)' /\ pc'[u] # "idle" /\ idx'[u] = idx[u]
  <1> DEFINE i == idx[u]
  <1>1. /\ pc[u] = "dummy" /\ pc' = [pc EXCEPT ![u] = "wait"] /\ SendFails(u, "SEC")
        /\ UNCHANGED <<tx, got, mixed>>
    BY DEF OutframeDummyFails, Goto
  <1>2. /\ tx[i] \in Seq(1 .. N) /\ tx' = [tx EXCEPT ![i] = tx[i]] /\ "wait" \in Places /\ mixed' \in BOOLEAN
        /\ got[u] \in SUBSET Sockets /\ got' = [got EXCEPT ![u] = got[u]]
    BY <1>1, CallFacts DEF Places, TypeInv, BufferTypes, ThreadTypes, WorldTypes
  <1>3. /\ TypeInv' /\ IndexInv' /\ WorkInv' /\ Local(u, i)
        /\ pc'[u] = "wait" /\ got'[u] = got[u] /\ tx'[i] = tx[i] /\ idx'[u] = i /\ txn'[u] = txn[u]
        /\ UNCHANGED <<rx, executed>> /\ ~Undisturbed(u)'
        /\ \A r \in Sockets : stat'[r][i] = IF r = "SEC" THEN "EMPTY" ELSE stat[r][i]
        /\ \A r, f : IsOurs(u, r, f)' <=> IsOurs(u, r, f)
        /\ \A r \in Sockets : /\ Queued(r, i)' = Queued(r, i)
                              /\ Here(r, i)' = IF r = "SEC" THEN Queued(r, i) ELSE Here(r, i)
    <2>1. FailedSend(u, "SEC", "wait", tx[i], got[u])
      BY <1>1, <1>2 DEF FailedSend
    <2>2. "SEC" \in Sockets
      BY DEF Sockets
    <2>3. UNCHANGED <<rx, executed>>
      BY <1>1 DEF SendFails
    <2> QED
      BY <2>1, <2>2, <2>3, SendFailsStep
  <1>4. ASSUME ~mixed' PROVE Frames(u)'
    <2>1. /\ got[u] = {} /\ \A r \in Sockets : \A h \in Here(r, i) : IsData(u, h)
          /\ Within(tx[i], executed[txn[u]])
      BY <1>1, <1>4 DEF FramesInv, Frames
    <2>2. \A r \in Sockets : Hand(u, r)' = {}
      BY <1>3, <2>1, HereAfter
    <2>3. \A r \in Sockets : \A h \in Here(r, i)' : IsData(u, h)
      BY <1>3, <2>1 DEF Here
    <2>4. OneDummy(u)'
      <3>1. \A r \in Sockets : \A h \in Queued(r, i)' : h.kind # "dummy"
        BY <1>3, <2>1 DEF Here, IsData
      <3>2. \A r \in Sockets : stat'[r][i] = "RCVD" => rx'[r][i].kind # "dummy"
        BY <1>3, <2>1 DEF Here, IsData
      <3> QED
        BY <1>3, <2>1, <3>1, <3>2 DEF OneDummy
    <2>5. \A r \in Sockets : Taken(u, r)'
      BY <1>3, <2>1 DEF Taken
    <2>6. Within(tx[i], executed[txn[u]])'
      BY <1>3, <2>1, SendFailsWithin
    <2> QED
      BY <1>3, <2>2, <2>3, <2>4, <2>5, <2>6 DEF Frames, IsOurs
  <1> QED
    BY <1>3, <1>4

\* There is no second transmission.
LEMMA DecideResendFailsStep ==
  ASSUME TypeInv, IndexInv, WorkInv, FramesInv, NEW u \in Threads, DecideResendFails(u)
  PROVE  /\ TypeInv' /\ IndexInv' /\ WorkInv' /\ Local(u, idx[u])
         /\ (~mixed' => Frames(u)') /\ ~Undisturbed(u)' /\ pc'[u] # "idle" /\ idx'[u] = idx[u]
  <1> DEFINE i == idx[u]
  <1>1. PICK by : by = CarriedOver(u) /\ tx' = [tx EXCEPT ![i] = by]
    BY DEF DecideResendFails
  <1>2. /\ pc[u] = "wait" /\ pc' = [pc EXCEPT ![u] = "rewait"] /\ SendFails(u, "SEC") /\ got' = got
        /\ Source(u, "PRIM") \in {"none", "PRIM"} /\ Source(u, "SEC") = "SEC"
        /\ mixed' = (mixed \/ (got[u] # Sockets /\ UnderWay(i)))
    BY DEF DecideResendFails, Resending, Goto, WaitOver
  <1>3. by \in Seq(1 .. N) /\ (~mixed => Within(by, executed[txn[u]]))
    BY <1>1, <1>2, BackHonest DEF CarriedOver
  <1>4. /\ "rewait" \in Places /\ mixed' \in BOOLEAN /\ (mixed => mixed')
        /\ got[u] \in SUBSET Sockets /\ got' = [got EXCEPT ![u] = got[u]]
    BY <1>2, CallFacts DEF Places, TypeInv, ThreadTypes, WorldTypes
  <1>5. /\ TypeInv' /\ IndexInv' /\ WorkInv' /\ Local(u, i)
        /\ pc'[u] = "rewait" /\ got'[u] = got[u] /\ tx'[i] = by /\ idx'[u] = i /\ txn'[u] = txn[u]
        /\ UNCHANGED <<rx, executed>> /\ ~Undisturbed(u)'
        /\ \A r \in Sockets : stat'[r][i] = IF r = "SEC" THEN "EMPTY" ELSE stat[r][i]
        /\ \A f : IsData(u, f)' <=> IsData(u, f)
        /\ \A r \in Sockets : Here(r, i)' = IF r = "SEC" THEN Queued(r, i) ELSE Here(r, i)
    <2>1. FailedSend(u, "SEC", "rewait", by, got[u])
      BY <1>1, <1>2, <1>3, <1>4 DEF FailedSend
    <2>2. "SEC" \in Sockets
      BY DEF Sockets
    <2>3. UNCHANGED <<rx, executed>>
      BY <1>2 DEF SendFails
    <2> QED
      BY <2>1, <2>2, <2>3, SendFailsStep
  <1>6. ASSUME ~mixed' PROVE Frames(u)'
    <2>1. /\ \A s \in Sockets : \A h \in Here(s, i) \cup Hand(u, s) : IsOurs(u, s, h)
          /\ OneDummy(u) /\ Taken(u, "PRIM")
      BY <1>2, <1>4, <1>6 DEF FramesInv, Frames, Sockets
    <2>2. "SEC" \in got[u] /\ rx["SEC"][i].kind = "dummy"
      BY <1>2, SourceFacts DEF Sockets
    <2>3. \A h \in Here("SEC", i)' : IsData(u, h)
      BY <1>5, <2>1, <2>2 DEF OneDummy, IsOurs, Here, Sockets
    <2>4. \A h \in Hand(u, "PRIM")' : IsData(u, h)
      <3>1. "PRIM" \in got[u] => rx["PRIM"][i].kind # "dummy"
        BY <1>2, SourceFacts DEF Sockets
      <3>2. Hand(u, "PRIM")' = Hand(u, "PRIM")
        BY <1>5 DEF Hand
      <3> QED
        BY <2>1, <3>1, <3>2 DEF IsOurs, Hand, Sockets
    <2>5. Taken(u, "PRIM")'
      BY <1>5, <2>1 DEF Taken, Sockets
    <2>6. Within(tx[i], executed[txn[u]])'
      BY <1>3, <1>4, <1>5, <1>6, SendFailsWithin
    <2> QED
      BY <1>5, <2>3, <2>4, <2>5, <2>6 DEF Frames
  <1> QED
    BY <1>5, <1>6

-----------------------------------------------------------------------------
(* Steps that concern all calls: a frame for somebody else, the cables     *)

\* A frame of a call gets lost, or is dropped.
LEMMA FramesVanish ==
  ASSUME NEW t \in Threads, Waits(t), Frames(t),
         \A s \in Sockets : /\ stat'[s][idx[t]] = stat[s][idx[t]] /\ rx'[s][idx[t]] = rx[s][idx[t]]
                            /\ Queued(s, idx[t])' \subseteq Queued(s, idx[t])
  PROVE  Frames(t)'
  <1>1. \A s \in Sockets : Here(s, idx[t])' \subseteq Here(s, idx[t]) /\ Hand(t, s)' = Hand(t, s)
    BY DEF Waits, Here, Hand
  <1>2. Nowhere(idx[t]) => Nowhere(idx[t])'
    BY <1>1 DEF Nowhere
  <1>3. \A f : IsData(t, f)' <=> IsData(t, f)
    BY DEF Waits, IsData
  <1>4. \A s, f : IsOurs(t, s, f)' <=> IsOurs(t, s, f)
    BY <1>3 DEF IsOurs
  <1>5. OneDummy(t) => OneDummy(t)'
    BY <1>1 DEF OneDummy, Waits
  <1>6. Within(tx[idx[t]], executed[txn[t]])' <=> Within(tx[idx[t]], executed[txn[t]])
    BY DEF Within, Times, Waits
  <1>7. IsData(t, answer[t])' <=> IsData(t, answer[t])
    BY DEF Waits, IsData
  <1>8. \A s \in Sockets : Taken(t, s)' <=> Taken(t, s)
    BY DEF Waits, Taken
  <1> QED
    BY <1>1, <1>2, <1>3, <1>4, <1>5, <1>6, <1>7, <1>8 DEF Frames, Waits, Sockets

\* Frame f of index i is put from the queue of socket s into the buffer.
Moved(s, i, f) ==
    /\ f \in Queued(s, i) /\ stat[s][i] = "TX"
    /\ stat'[s][i] = "RCVD" /\ rx'[s][i] = f /\ {g \in net'[s] : g.idx = i} = Queued(s, i) \ {f}
    /\ \A r \in Sockets \ {s} : /\ stat'[r][i] = stat[r][i] /\ rx'[r][i] = rx[r][i]
                                /\ {g \in net'[r] : g.idx = i} = Queued(r, i)

\* It stays where it is, as far as its thread can see.
LEMMA MovedHere ==
  ASSUME NEW t \in Threads, Waits(t), NEW s \in Sockets, NEW f, Moved(s, idx[t], f)
  PROVE  /\ \A r \in Sockets : /\ Here(r, idx[t])' = Here(r, idx[t])
                               /\ Queued(r, idx[t])' \subseteq Queued(r, idx[t])
         /\ f \in Here(s, idx[t])
         /\ f \notin Queued(s, idx[t])'
  <1>1. /\ Here(s, idx[t])' = Here(s, idx[t]) /\ Queued(s, idx[t])' = Queued(s, idx[t]) \ {f}
        /\ f \in Here(s, idx[t])
    BY HereAfter DEF Moved, Waits, Here
  <1>2. \A r \in Sockets \ {s} : Here(r, idx[t])' = Here(r, idx[t]) /\ Queued(r, idx[t])' = Queued(r, idx[t])
    <2> SUFFICES ASSUME NEW r \in Sockets \ {s}
                 PROVE  Here(r, idx[t])' = Here(r, idx[t]) /\ Queued(r, idx[t])' = Queued(r, idx[t])
      OBVIOUS
    <2>1. /\ stat'[r][idx[t]] = stat[r][idx[t]] /\ rx'[r][idx[t]] = rx[r][idx[t]]
          /\ {g \in net'[r] : g.idx = idx[t]} = Queued(r, idx[t])
      BY DEF Moved
    <2>2. idx'[t] = idx[t]
      BY DEF Waits
    <2>3. /\ Queued(r, idx[t])' = {g \in net'[r] : g.idx = idx[t]}
          /\ Here(r, idx[t])' = {g \in net'[r] : g.idx = idx[t]}
                                 \cup {g \in {rx'[r][idx[t]]} : stat'[r][idx[t]] = "RCVD"}
      BY <2>2, HereAfter
    <2> QED
      BY <2>1, <2>3 DEF Here
  <1> QED
    BY <1>1, <1>2

\* The call goes on from there.
LEMMA MovedFrames ==
  ASSUME NEW t \in Threads, Waits(t), Frames(t), NEW s \in Sockets, NEW f, Moved(s, idx[t], f)
  PROVE  Frames(t)'
  <1> DEFINE i == idx[t]
  <1>1. \A r \in Sockets : Here(r, i)' = Here(r, i) /\ Queued(r, i)' \subseteq Queued(r, i)
    BY MovedHere
  <1>2. /\ f \in Queued(s, i) /\ f \notin Queued(s, i)' /\ f \in Here(s, i)
        /\ stat[s][i] = "TX" /\ stat'[s][i] = "RCVD" /\ rx'[s][i] = f
        /\ \A r \in Sockets \ {s} : stat'[r][i] = stat[r][i] /\ rx'[r][i] = rx[r][i]
    BY MovedHere DEF Moved
  <1>3. Nowhere(i)' <=> Nowhere(i)
    BY <1>1 DEF Nowhere
  <1>4. \A h : IsData(t, h)' <=> IsData(t, h)
    BY DEF Waits, IsData
  <1>5. \A r, h : IsOurs(t, r, h)' <=> IsOurs(t, r, h)
    BY <1>4 DEF IsOurs
  <1>6. \A r \in Sockets : Taken(t, r) => Hand(t, r)' = Hand(t, r) /\ Taken(t, r)'
    BY <1>2 DEF Taken, Hand, Waits
  <1>7. ASSUME pc[t] = "wait" PROVE OneDummy(t)'
    <2>1. OneDummy(t) /\ \A r \in Sockets : Taken(t, r)
      BY <1>7 DEF Frames
    <2>2. \A r, q \in Sockets : \A h \in Queued(r, i)', k \in Queued(q, i)' :
             h.kind = "dummy" /\ k.kind = "dummy" => r = q /\ h = k
      BY <1>1, <2>1 DEF OneDummy
    <2>3. \A r \in Sockets : stat'[r][i] = "RCVD" /\ rx'[r][i].kind = "dummy" =>
             \A q \in Sockets : /\ \A h \in Queued(q, i)' : h.kind # "dummy"
                                /\ q # r /\ stat'[q][i] = "RCVD" => rx'[q][i].kind # "dummy"
      <3> SUFFICES ASSUME NEW r \in Sockets, stat'[r][i] = "RCVD", rx'[r][i].kind = "dummy", NEW q \in Sockets
                   PROVE  /\ \A h \in Queued(q, i)' : h.kind # "dummy"
                          /\ q # r /\ stat'[q][i] = "RCVD" => rx'[q][i].kind # "dummy"
        OBVIOUS
      <3>1. CASE r = s
        <4>1. f.kind = "dummy"
          BY <1>2, <3>1
        <4>2. ASSUME NEW h \in Queued(q, i)', h.kind = "dummy" PROVE FALSE
          <5>1. h \in Queued(q, i)
            BY <1>1
          <5>2. h = f /\ q = s
            BY <1>2, <2>1, <4>1, <4>2, <5>1 DEF OneDummy
          <5> QED
            BY <1>2, <5>2
        <4>3. q # s /\ stat[q][i] = "RCVD" => rx[q][i].kind # "dummy"
          BY <1>2, <2>1, <4>1 DEF OneDummy
        <4> QED
          BY <1>2, <3>1, <4>2, <4>3
      <3>2. CASE r # s
        <4>1. stat[r][i] = "RCVD" /\ rx[r][i].kind = "dummy"
          BY <1>2, <3>2
        <4>2. /\ \A k \in Sockets : \A h \in Queued(k, i) : h.kind # "dummy"
              /\ q # r /\ stat[q][i] = "RCVD" => rx[q][i].kind # "dummy"
          BY <2>1, <4>1 DEF OneDummy
        <4> QED
          BY <1>1, <1>2, <4>2
      <3> QED
        BY <3>1, <3>2
    <2>4. \A r \in Sockets : r \in got'[t] /\ rx'[r][i].kind = "dummy" =>
             \A q \in Sockets : \A h \in Here(q, i)' : h.kind # "dummy"
      <3> SUFFICES ASSUME NEW r \in Sockets, r \in got'[t], rx'[r][i].kind = "dummy"
                   PROVE  \A q \in Sockets : \A h \in Here(q, i)' : h.kind # "dummy"
        OBVIOUS
      <3>1. r \in got[t] /\ r # s
        BY <1>2, <2>1 DEF Taken, Waits
      <3> QED
        BY <1>1, <1>2, <2>1, <3>1 DEF OneDummy
    <2>5. idx'[t] = i
      BY DEF Waits
    <2> QED
      BY <2>2, <2>3, <2>4, <2>5 DEF OneDummy
  <1>8. Within(tx[i], executed[txn[t]])' <=> Within(tx[i], executed[txn[t]])
    BY DEF Within, Times, Waits
  <1>9. IsData(t, answer[t])' <=> IsData(t, answer[t])
    BY DEF Waits, IsData
  <1>10. pc'[t] = pc[t] /\ got'[t] = got[t]
    BY DEF Waits
  <1>11. CASE pc[t] = "wait"
    BY <1>1, <1>5, <1>6, <1>7, <1>8, <1>10, <1>11 DEF Frames
  <1>12. CASE pc[t] = "rewait"
    BY <1>1, <1>4, <1>6, <1>8, <1>10, <1>12 DEF Frames, Sockets
  <1>13. CASE pc[t] = "dummy"
    BY <1>1, <1>4, <1>8, <1>10, <1>13 DEF Frames
  <1>14. CASE pc[t] \notin {"dummy", "wait", "rewait"}
    <2>1. answer'[t] = answer[t]
      BY DEF Waits
    <2> QED
      BY <1>3, <1>8, <1>9, <1>10, <1>14, <2>1 DEF Frames
  <1> QED
    BY <1>11, <1>12, <1>13, <1>14

\* A call that nothing disturbs expects the frame that is put in its buffer.
LEMMA MovedExact ==
  ASSUME TypeInv, NEW t \in Threads, pc[t] # "idle" => txn[t] \in 1 .. MaxTxn, Waits(t), broken' = broken,
         Exact(t), Frames(t), pc[t] # "dummy", NEW s \in Sockets, NEW f, Moved(s, idx[t], f)
  PROVE  Exact(t)'
  <1> DEFINE i == idx[t]
  <1>1. /\ \A r \in Sockets : Here(r, i)' = Here(r, i) /\ Queued(r, i)' \subseteq Queued(r, i)
        /\ f \in Here(s, i) /\ f \notin Queued(s, i)'
    BY MovedHere
  <1>2. /\ stat'[s][i] = "RCVD" /\ rx'[s][i] = f
        /\ \A r \in Sockets \ {s} : stat'[r][i] = stat[r][i] /\ rx'[r][i] = rx[r][i]
    BY DEF Moved
  <1>3. \A r \in Sockets : \A F : Awaited(r, i, F) /\ (\A g, h \in F : g = h) => Awaited(r, i, F)'
    <2> SUFFICES ASSUME NEW r \in Sockets, NEW F, Awaited(r, i, F), \A g, h \in F : g = h
                 PROVE  Awaited(r, i, F)'
      OBVIOUS
    <2>1. CASE r = s
      <3>1. Queued(s, i)' = {}
        BY <1>1, <2>1 DEF Awaited, Here
      <3> QED
        BY <1>1, <1>2, <2>1, <3>1 DEF Awaited, Waits
    <2>2. CASE r # s
      <3>1. Queued(r, i)' = {} \/ Queued(r, i) # {}
        BY <1>1
      <3> QED
        BY <1>1, <1>2, <2>2, <3>1 DEF Awaited, Waits
    <2> QED
      BY <2>1, <2>2
  <1>4. All' = All /\ \A r : Executing(r)' = Executing(r) /\ Arrives(r)' = Arrives(r)
    BY DEF All, SlavesFrom, Executing, Arrives
  <1>5. First(t)' = First(t) /\ Probe(t)' = Probe(t) /\ Data(t, All)' = Data(t, All)
    BY <1>4 DEF First, Probe, Data, Dummy, Waits
  <1>6. \A r : Expected(t, r)' = Expected(t, r)
    BY <1>4, <1>5 DEF Expected
  <1>7. /\ pc'[t] = pc[t] /\ idx'[t] = i /\ txn'[t] = txn[t] /\ got'[t] = got[t] /\ answer'[t] = answer[t]
        /\ tx'[i] = tx[i] /\ executed'[txn[t]] = executed[txn[t]]
    BY DEF Waits
  <1>8. CASE pc[t] = "out"
    BY <1>1, <1>8 DEF Exact, Nowhere
  <1>9. CASE pc[t] = "wait"
    <2>1. \A r \in Sockets : \A g, h \in Expected(t, r) : g = h
      BY <1>9, ExpectedFacts
    <2>2. \A r \in Sockets : IF r \in got[t] THEN Here(r, i)' = {} /\ rx'[r][i] \in Expected(t, r)'
                                             ELSE Awaited(r, i, Expected(t, r))'
      <3> SUFFICES ASSUME NEW r \in Sockets
                   PROVE  IF r \in got[t] THEN Here(r, i)' = {} /\ rx'[r][i] \in Expected(t, r)'
                                          ELSE Awaited(r, i, Expected(t, r))'
        OBVIOUS
      <3>1. CASE r \in got[t]
        <4>1. Here(r, i) = {} /\ rx[r][i] \in Expected(t, r)
          BY <1>9, <3>1 DEF Exact
        <4>2. r # s
          BY <1>1, <4>1
        <4> QED
          BY <1>1, <1>2, <1>6, <3>1, <4>1, <4>2
      <3>2. CASE r \notin got[t]
        <4>1. Awaited(r, i, Expected(t, r))
          BY <1>9, <3>2 DEF Exact
        <4>2. \A F : F = Expected(t, r) => Awaited(r, i, F)'
          BY <1>3, <2>1, <4>1
        <4> QED
          BY <1>6, <3>2, <4>2 DEF Awaited
      <3> QED
        BY <3>1, <3>2
    <2>3. tx[i] = <<>> /\ executed[txn[t]] = Executing("PRIM")
      BY <1>9 DEF Exact
    <2> QED
      BY <1>4, <1>7, <1>9, <2>2, <2>3 DEF Exact
  <1>10. CASE pc[t] = "rewait"
    <2>1. executed[txn[t]] = All /\ Awaited("SEC", i, {Data(t, All)})
      BY <1>10 DEF Exact
    <2>2. \A F : F = {Data(t, All)} => Awaited("SEC", i, F)'
      BY <1>3, <2>1 DEF Sockets
    <2>3. Awaited("SEC", i, {Data(t, All)})'
      BY <1>5, <2>2 DEF Awaited
    <2> QED
      BY <1>4, <1>7, <1>10, <2>1, <2>3 DEF Exact
  <1>11. CASE pc[t] = "done"
    BY <1>4, <1>5, <1>7, <1>11 DEF Exact
  <1>12. CASE pc[t] = "idle"
    BY <1>7, <1>12 DEF Exact
  <1> QED
    BY <1>8, <1>9, <1>10, <1>11, <1>12 DEF TypeInv, ThreadTypes, Places

\* A frame that is dropped is not one that an undisturbed call expects.
LEMMA DroppedExact ==
  ASSUME TypeInv, NEW t \in Threads, Waits(t), broken' = broken, Exact(t), pc[t] # "dummy",
         NEW s \in Sockets, NEW f \in Queued(s, idx[t]), stat[s][idx[t]] # "TX",
         \A r \in Sockets : /\ stat'[r][idx[t]] = stat[r][idx[t]] /\ rx'[r][idx[t]] = rx[r][idx[t]]
                            /\ r # s => Queued(r, idx[t])' = Queued(r, idx[t])
  PROVE  Exact(t)'
  <1> DEFINE i == idx[t]
  <1>1. f \in Here(s, i)
    BY DEF Here
  <1>2. \A F : ~Awaited(s, i, F)
    BY DEF Awaited
  <1>3. pc[t] \in {"rewait", "done", "idle"}
    BY <1>1, <1>2 DEF Exact, Nowhere, TypeInv, ThreadTypes, Places
  <1>4. All' = All /\ Data(t, All)' = Data(t, All)
    BY DEF All, SlavesFrom, Data, Waits
  <1>5. /\ pc'[t] = pc[t] /\ idx'[t] = i /\ txn'[t] = txn[t] /\ answer'[t] = answer[t]
        /\ executed'[txn[t]] = executed[txn[t]]
    BY DEF Waits
  <1>6. CASE pc[t] = "rewait"
    <2>1. executed[txn[t]] = All /\ Awaited("SEC", i, {Data(t, All)})
      BY <1>6 DEF Exact
    <2>2. "SEC" # s
      BY <1>2, <2>1
    <2>3. Queued("SEC", i)' = Queued("SEC", i) /\ Here("SEC", i)' = Here("SEC", i)
          /\ stat'["SEC"][i] = stat["SEC"][i]
      BY <1>5, <2>2 DEF Here, Sockets
    <2>4. Awaited("SEC", i, {Data(t, All)})'
      BY <1>4, <1>5, <2>1, <2>3 DEF Awaited
    <2> QED
      BY <1>4, <1>5, <1>6, <2>1, <2>4 DEF Exact
  <1>7. CASE pc[t] # "rewait"
    BY <1>3, <1>4, <1>5, <1>7 DEF Exact
  <1> QED
    BY <1>6, <1>7

\* A frame of another index.
LEMMA InframeOtherStep ==
  ASSUME RedundancyInv, NEW u \in Threads, NEW s \in Sockets, InframeOther(u, s)
  PROVE  RedundancyInv'
  <1>1. PICK f \in net[s] :
           /\ net' = [net EXCEPT ![s] = net[s] \ {f}]
           /\ IF stat[s][f.idx] = "TX"
              THEN rx' = [rx EXCEPT ![s][f.idx] = f] /\ stat' = [stat EXCEPT ![s][f.idx] = "RCVD"]
              ELSE rx' = rx /\ stat' = stat
           /\ disturbed' = disturbed \cup {t \in Threads : pc[t] = "dummy" /\ idx[t] = f.idx}
    BY DEF InframeOther, OtherFrame, SetStat
  <1>2. UNCHANGED <<tx, lastidx, broken, pc, idx, txn, tries, got, answer, begun, executed, troubles,
                    retries, mixed>>
    BY DEF InframeOther
  <1> DEFINE j == f.idx
  <1>3. f \in FrameType /\ j \in Idx
    BY DEF RedundancyInv, TypeInv, BufferTypes, FrameType
  <1>4. /\ net'[s] = net[s] \ {f} /\ \A r \in Sockets \ {s} : net'[r] = net[r]
        /\ \A r \in Sockets, i \in Idx : r # s \/ i # j => stat'[r][i] = stat[r][i] /\ rx'[r][i] = rx[r][i]
        /\ \/ stat[s][j] = "TX" /\ stat'[s][j] = "RCVD" /\ rx'[s][j] = f
           \/ stat[s][j] # "TX" /\ stat' = stat /\ rx' = rx
    BY <1>1, <1>3 DEF RedundancyInv, TypeInv, BufferTypes
  <1>5. /\ stat' \in [Sockets -> [Idx -> Statuses]] /\ rx' \in [Sockets -> [Idx -> FrameType]]
        /\ net' \in [Sockets -> SUBSET FrameType]
    <2>1. /\ stat \in [Sockets -> [Idx -> Statuses]] /\ rx \in [Sockets -> [Idx -> FrameType]]
          /\ net \in [Sockets -> SUBSET FrameType]
      BY DEF RedundancyInv, TypeInv, BufferTypes
    <2>2. net' \in [Sockets -> SUBSET FrameType]
      BY <1>1, <2>1
    <2>3. CASE rx' = [rx EXCEPT ![s][f.idx] = f] /\ stat' = [stat EXCEPT ![s][f.idx] = "RCVD"]
      <3>1. stat' \in [Sockets -> [Idx -> Statuses]]
        BY <1>3, <2>1, <2>3 DEF Statuses
      <3>2. rx' \in [Sockets -> [Idx -> FrameType]]
        <4>1. [rx[s] EXCEPT ![j] = f] \in [Idx -> FrameType]
          BY <1>3, <2>1
        <4> QED
          BY <2>1, <2>3, <4>1
      <3> QED
        BY <2>2, <3>1, <3>2
    <2> QED
      BY <1>1, <2>1, <2>2, <2>3
  <1> HIDE DEF j
  <1>6. TypeInv'
    <2>1. BufferTypes'
      BY <1>2, <1>5 DEF RedundancyInv, TypeInv, BufferTypes
    <2>2. ThreadTypes'
      BY <1>2 DEF RedundancyInv, TypeInv, ThreadTypes
    <2>3. WorldTypes'
      BY <1>1, <1>2 DEF RedundancyInv, TypeInv, WorldTypes
    <2> QED
      BY <2>1, <2>2, <2>3 DEF TypeInv
  <1>7. \A i : Unused(i)' <=> Unused(i)
    BY <1>2 DEF Unused
  <1>8. IndexInv'
    BY <1>2 DEF RedundancyInv, IndexInv
  <1>9. WorkInv'
    <2>1. \A r \in Sockets, i \in Idx : rx'[r][i] = rx[r][i] \/ rx'[r][i] \in net[s]
      BY <1>4
    <2>2. \A r \in Sockets : net'[r] \subseteq net[r]
      BY <1>4
    <2>3. Carried
      BY <1>2, <2>1, <2>2 DEF Carried
    <2> QED
      BY <2>3, CarriedKeeps DEF RedundancyInv
  <1>10. ASSUME NEW t \in Threads PROVE Waits(t)
    BY <1>2 DEF Waits
  <1>11. ASSUME NEW t \in Threads, idx[t] = j, stat[s][j] = "TX" PROVE Moved(s, idx[t], f)
    BY <1>3, <1>4, <1>11 DEF Moved, Queued, j
  <1>12. ASSUME NEW t \in Threads, idx[t] # j \/ stat[s][j] # "TX", NEW r \in Sockets
         PROVE  /\ stat'[r][idx[t]] = stat[r][idx[t]] /\ rx'[r][idx[t]] = rx[r][idx[t]]
                /\ Queued(r, idx[t])' \subseteq Queued(r, idx[t])
                /\ idx[t] # j \/ r # s => Queued(r, idx[t])' = Queued(r, idx[t])
    <2>1. idx[t] \in Idx /\ idx'[t] = idx[t]
      BY <1>2 DEF RedundancyInv, TypeInv, ThreadTypes
    <2> QED
      BY <1>4, <1>12, <2>1 DEF Queued, j
  <1>13. FramesInv'
    <2> SUFFICES ASSUME ~mixed PROVE (\A t \in Threads : Frames(t)') /\
                                    (\A i \in Idx : Unused(i)' => Nowhere(i)')
      BY <1>2 DEF FramesInv
    <2>1. ASSUME NEW t \in Threads PROVE Frames(t)'
      <3>1. Frames(t)
        BY DEF RedundancyInv, FramesInv
      <3>2. CASE idx[t] = j /\ stat[s][j] = "TX"
        BY <1>10, <1>11, <3>1, <3>2, MovedFrames
      <3>3. CASE idx[t] # j \/ stat[s][j] # "TX"
        BY <1>10, <1>12, <3>1, <3>3, FramesVanish
      <3> QED
        BY <3>2, <3>3
    <2>2. ASSUME NEW i \in Idx, Unused(i)' PROVE Nowhere(i)'
      <3>1. Nowhere(i)
        BY <1>7, <2>2 DEF RedundancyInv, FramesInv
      <3>2. i # j
        BY <3>1 DEF Nowhere, Here, Queued, j
      <3>3. \A r \in Sockets : Here(r, i)' \subseteq Here(r, i)
        BY <1>4, <3>2 DEF Here, Queued
      <3> QED
        BY <3>1, <3>3 DEF Nowhere
    <2> QED
      BY <2>1, <2>2
  <1>14. ExactInv'
    <2> SUFFICES ASSUME NEW t \in Threads, Undisturbed(t)' PROVE Exact(t)'
      BY DEF ExactInv
    <2>1. Undisturbed(t) /\ ~(pc[t] = "dummy" /\ idx[t] = j) /\ broken' = broken
      BY <1>1, <1>2 DEF Undisturbed, j
    <2>2. Exact(t) /\ Frames(t) /\ TypeInv /\ (pc[t] # "idle" => txn[t] \in 1 .. MaxTxn)
      BY <2>1, CallFacts DEF RedundancyInv, ExactInv, FramesInv, Undisturbed
    <2>3. CASE idx[t] = j /\ stat[s][j] = "TX"
      BY <1>10, <1>11, <2>1, <2>2, <2>3, MovedExact
    <2>4. CASE idx[t] = j /\ stat[s][j] # "TX"
      <3>1. f \in Queued(s, idx[t])
        BY <2>4 DEF Queued, j
      <3> QED
        BY <1>10, <1>12, <2>1, <2>2, <2>4, <3>1, DroppedExact
    <2>5. CASE idx[t] # j
      <3>1. Unseen(t)
        BY <1>10, <1>12, <2>5 DEF Unseen
      <3> QED
        BY <2>1, <2>2, <3>1, UnseenExact
    <2> QED
      BY <2>3, <2>4, <2>5
  <1> QED
    BY <1>6, <1>8, <1>9, <1>13, <1>14 DEF RedundancyInv

\* A cable breaks or is mended, or a frame gets lost: the calls under way are disturbed.
LEMMA TroubleStep ==
  ASSUME RedundancyInv, CableChanges \/ Lose
  PROVE  RedundancyInv'
  <1>1. /\ UNCHANGED <<stat, rx, tx, lastidx, pc, idx, txn, tries, got, answer, begun, executed, retries,
                       mixed>>
        /\ disturbed' = disturbed \cup {t \in Threads : pc[t] # "idle"}
    BY DEF CableChanges, Lose
  <1>2. broken' \in SUBSET Cables
    <2>1. CASE CableChanges
      <3>1. PICK c \in Cables : broken' = IF c \in broken THEN broken \ {c} ELSE broken \cup {c}
        BY <2>1 DEF CableChanges
      <3> QED
        BY <3>1 DEF RedundancyInv, TypeInv, WorldTypes
    <2>2. CASE Lose
      BY <2>2 DEF Lose, RedundancyInv, TypeInv, WorldTypes
    <2> QED
      BY <2>1, <2>2
  <1>3. net' \in [Sockets -> SUBSET FrameType] /\ \A s \in Sockets : net'[s] \subseteq net[s]
    <2>1. CASE CableChanges
      BY <2>1 DEF CableChanges, RedundancyInv, TypeInv, BufferTypes
    <2>2. CASE Lose
      <3>1. PICK s \in Sockets : \E f \in net[s] : net' = [net EXCEPT ![s] = net[s] \ {f}]
        BY <2>2 DEF Lose
      <3>2. PICK f \in net[s] : net' = [net EXCEPT ![s] = net[s] \ {f}]
        BY <3>1
      <3> QED
        BY <3>2 DEF RedundancyInv, TypeInv, BufferTypes
    <2> QED
      BY <2>1, <2>2
  <1>4. TypeInv'
    <2>1. BufferTypes'
      BY <1>1, <1>3 DEF RedundancyInv, TypeInv, BufferTypes
    <2>2. ThreadTypes'
      BY <1>1 DEF RedundancyInv, TypeInv, ThreadTypes
    <2>3. WorldTypes'
      BY <1>1, <1>2 DEF RedundancyInv, TypeInv, WorldTypes
    <2> QED
      BY <2>1, <2>2, <2>3 DEF TypeInv
  <1>5. IndexInv'
    BY <1>1 DEF RedundancyInv, IndexInv
  <1>6. WorkInv'
    <2>1. Carried
      BY <1>1, <1>3 DEF Carried
    <2> QED
      BY <2>1, CarriedKeeps DEF RedundancyInv
  <1>7. ASSUME NEW t \in Threads PROVE Waits(t)
    BY <1>1 DEF Waits
  <1>8. \A s \in Sockets : \A i : Here(s, i)' \subseteq Here(s, i) /\ Queued(s, i)' \subseteq Queued(s, i)
    BY <1>1, <1>3 DEF Here, Queued
  <1>9. FramesInv'
    <2> SUFFICES ASSUME ~mixed PROVE (\A t \in Threads : Frames(t)') /\
                                    (\A i \in Idx : Unused(i)' => Nowhere(i)')
      BY <1>1 DEF FramesInv
    <2>1. ASSUME NEW t \in Threads PROVE Frames(t)'
      <3>1. Frames(t)
        BY DEF RedundancyInv, FramesInv
      <3>2. \A s \in Sockets : Queued(s, idx[t])' \subseteq Queued(s, idx[t])
        BY <1>1, <1>3 DEF Queued
      <3> QED
        BY <1>1, <1>7, <3>1, <3>2, FramesVanish
    <2>2. ASSUME NEW i \in Idx, Unused(i)' PROVE Nowhere(i)'
      <3>1. Unused(i)
        BY <1>1, <2>2 DEF Unused
      <3> QED
        BY <1>8, <3>1 DEF RedundancyInv, FramesInv, Nowhere
    <2> QED
      BY <2>1, <2>2
  <1>10. ExactInv'
    <2> SUFFICES ASSUME NEW t \in Threads, Undisturbed(t)' PROVE Exact(t)'
      BY DEF ExactInv
    <2>1. pc'[t] = "idle"
      BY <1>1 DEF Undisturbed
    <2> QED
      BY <2>1 DEF Exact
  <1> QED
    BY <1>4, <1>5, <1>6, <1>9, <1>10 DEF RedundancyInv

-----------------------------------------------------------------------------
(* The invariant                                                           *)

\* Nothing is under way before the first datagram.
LEMMA Initially == Init => RedundancyInv
  <1> SUFFICES ASSUME Init PROVE RedundancyInv
    OBVIOUS
  <1>1. 0 \in Idx /\ 0 \in 0 .. MaxTxn /\ 0 \in Nat /\ <<>> \in Seq(1 .. N)
    BY Sizes, EmptySeq DEF Idx
  <1>2. BufferTypes
    BY <1>1, NoFrameType DEF Init, BufferTypes, Statuses
  <1>3. ThreadTypes
    BY <1>1, NoFrameType DEF Init, ThreadTypes, Places
  <1>4. WorldTypes
    BY <1>1 DEF Init, WorldTypes
  <1>5. IndexInv
    BY DEF Init, IndexInv
  <1>6. WorkInv
    BY NoFrameIs DEF Init, WorkInv, Honest
  <1>7. FramesInv
    <2>1. \A t \in Threads : Frames(t)
      BY DEF Init, Frames
    <2>2. \A i \in Idx : Nowhere(i)
      BY DEF Init, Nowhere, Here, Queued
    <2> QED
      BY <2>1, <2>2 DEF FramesInv
  <1>8. ExactInv
    BY DEF Init, ExactInv, Exact
  <1> QED
    BY <1>2, <1>3, <1>4, <1>5, <1>6, <1>7, <1>8 DEF RedundancyInv, TypeInv

\* What a step of thread u gives when its own call and its own index are right again.
LEMMA StepTogether ==
  ASSUME RedundancyInv, NEW u \in Threads, NEW i \in Idx, Local(u, i), TypeInv', IndexInv', WorkInv',
         \/ pc[u] = "idle" /\ (~mixed' => Unused(i)) /\ executed' = executed
         \/ pc[u] # "idle" /\ i = idx[u],
         ~mixed' => Frames(u)', Undisturbed(u)' => Exact(u)',
         ~mixed' /\ Unused(i)' => Nowhere(i)'
  PROVE  RedundancyInv'
  <1>1. /\ \A t \in Threads \ {u} : (~mixed' => Frames(t)') /\ (Undisturbed(t)' => Exact(t)')
        /\ \A j \in Idx \ {i} : ~mixed' /\ Unused(j)' => Nowhere(j)'
    BY OthersKeep DEF RedundancyInv
  <1>2. FramesInv'
    BY <1>1 DEF FramesInv
  <1>3. ExactInv'
    BY <1>1 DEF ExactInv
  <1> QED
    BY <1>2, <1>3 DEF RedundancyInv

\* A step inside a call leaves its index in use.
LEMMA CallTogether ==
  ASSUME RedundancyInv, NEW u \in Threads, pc[u] # "idle", Local(u, idx[u]), TypeInv', IndexInv', WorkInv',
         ~mixed' => Frames(u)', Undisturbed(u)' => Exact(u)', pc'[u] # "idle", idx'[u] = idx[u]
  PROVE  RedundancyInv'
  <1>1. ~Unused(idx[u])' /\ idx[u] \in Idx
    BY DEF Unused, RedundancyInv, TypeInv, ThreadTypes
  <1> QED
    BY <1>1, StepTogether

\* After the decisions a call is not idle.
LEMMA ResultPlace ==
  ASSUME NEW u \in Threads, NEW f, TypeInv, Result(u, f)
  PROVE  pc'[u] # "idle"
  BY DEF Result, TypeInv, ThreadTypes

\* Every step keeps the invariant.
LEMMA StepKeeps ==
  ASSUME RedundancyInv, [Next]_vars
  PROVE  RedundancyInv'
  <1> USE DEF RedundancyInv
  <1>1. ASSUME NEW u \in Threads, GetIndex(u) PROVE RedundancyInv'
    <2>1. /\ TypeInv' /\ IndexInv' /\ WorkInv' /\ Local(u, idx'[u]) /\ (~mixed' => Unused(idx'[u]))
          /\ (~mixed' => Frames(u)') /\ (Undisturbed(u)' => Exact(u)')
      BY <1>1, GetIndexStep, GetIndexOwn
    <2>2. /\ pc[u] = "idle" /\ pc'[u] # "idle" /\ executed' = executed
      BY <1>1 DEF GetIndex, Goto, TypeInv, ThreadTypes
    <2>3. idx'[u] \in Idx /\ \A i : i = idx'[u] => ~Unused(i)'
      BY <2>1, <2>2 DEF TypeInv, ThreadTypes, Unused
    <2> QED
      BY <2>1, <2>2, <2>3, StepTogether
  <1>2. ASSUME NEW u \in Threads, OutframePrimary(u) PROVE RedundancyInv'
    <2>1. pc[u] # "idle" /\ pc'[u] # "idle" /\ idx'[u] = idx[u]
      BY <1>2 DEF OutframePrimary, Goto, TypeInv, ThreadTypes
    <2> QED
      BY <1>2, <2>1, OutframePrimaryStep, OutframePrimaryOwn, CallTogether
  <1>3. ASSUME NEW u \in Threads, OutframeDummy(u) PROVE RedundancyInv'
    <2>1. pc[u] # "idle" /\ pc'[u] # "idle" /\ idx'[u] = idx[u]
      BY <1>3 DEF OutframeDummy, Goto, TypeInv, ThreadTypes
    <2> QED
      BY <1>3, <2>1, OutframeDummyStep, OutframeDummyOwn, CallTogether
  <1>4. ASSUME NEW u \in Threads, NEW s \in Sockets, InframeOwn(u, s) PROVE RedundancyInv'
    <2>1. pc[u] # "idle" /\ pc'[u] # "idle" /\ idx'[u] = idx[u]
      BY <1>4 DEF InframeOwn
    <2> QED
      BY <1>4, <2>1, InframeOwnStep, InframeOwnOwn, CallTogether
  <1>5. ASSUME NEW u \in Threads, DecideWhole(u) PROVE RedundancyInv'
    <2>1. pc[u] # "idle" /\ pc'[u] # "idle" /\ idx'[u] = idx[u]
      BY <1>5, ResultPlace DEF DecideWhole
    <2> QED
      BY <1>5, <2>1, DecideWholeStep, DecideWholeOwn, CallTogether
  <1>6. ASSUME NEW u \in Threads, DecideResend(u) PROVE RedundancyInv'
    <2>1. pc[u] # "idle" /\ pc'[u] # "idle" /\ idx'[u] = idx[u]
      BY <1>6 DEF DecideResend, Goto, TypeInv, ThreadTypes
    <2> QED
      BY <1>6, <2>1, DecideResendStep, DecideResendOwn, CallTogether
  <1>7. ASSUME NEW u \in Threads, DecidePrimary(u) PROVE RedundancyInv'
    <2>1. pc[u] # "idle" /\ pc'[u] # "idle" /\ idx'[u] = idx[u]
      BY <1>7, ResultPlace DEF DecidePrimary
    <2> QED
      BY <1>7, <2>1, StandsStep, DecidePrimaryOwn, CallTogether
  <1>8. ASSUME NEW u \in Threads, ResendAnswered(u) PROVE RedundancyInv'
    <2>1. pc[u] # "idle" /\ pc'[u] # "idle" /\ idx'[u] = idx[u]
      BY <1>8, ResultPlace DEF ResendAnswered
    <2> QED
      BY <1>8, <2>1, ResendAnsweredStep, ResendAnsweredOwn, CallTogether
  <1>9. ASSUME NEW u \in Threads, ResendExpired(u) PROVE RedundancyInv'
    <2>1. pc[u] # "idle" /\ pc'[u] # "idle" /\ idx'[u] = idx[u]
      BY <1>9, ResultPlace DEF ResendExpired
    <2> QED
      BY <1>9, <2>1, StandsStep, ResendExpiredOwn, CallTogether
  <1>10. ASSUME NEW u \in Threads, Release(u) PROVE RedundancyInv'
    <2>1. pc[u] # "idle" /\ idx[u] \in Idx
      BY <1>10 DEF Release, Goto, TypeInv, ThreadTypes
    <2>2. /\ TypeInv' /\ IndexInv' /\ WorkInv' /\ Local(u, idx[u])
          /\ (~mixed' => Frames(u)') /\ (Undisturbed(u)' => Exact(u)')
          /\ \A i : i = idx[u] => (~mixed' /\ Unused(i)' => Nowhere(i)')
      BY <1>10, ReleaseStep, ReleaseOwn
    <2> QED
      BY <2>1, <2>2, StepTogether
  <1>11. ASSUME UNCHANGED vars PROVE RedundancyInv'
    <2>1. TypeInv' /\ IndexInv'
      BY <1>11 DEF vars, TypeInv, BufferTypes, ThreadTypes, WorldTypes, IndexInv
    <2>2. WorkInv'
      BY <1>11 DEF vars, WorkInv, Honest, Within, Times
    <2>3. \A t \in Threads : Unseen(t)
      BY <1>11 DEF vars, Unseen, Waits, Queued
    <2>4. \A i \in Idx : Nowhere(i)' <=> Nowhere(i)
      BY <1>11 DEF vars, Nowhere, Here, Queued
    <2>7. \A i \in Idx : Unused(i)' <=> Unused(i)
      BY <1>11 DEF vars, Unused
    <2>5. FramesInv'
      BY <1>11, <2>3, <2>4, <2>7, UnseenFrames DEF FramesInv, vars
    <2>6. ExactInv'
      BY <1>11, <2>3, UnseenExact DEF ExactInv, Undisturbed, vars
    <2> QED
      BY <2>1, <2>2, <2>5, <2>6
  <1>a. ASSUME NEW u \in Threads, OutframePrimaryFails(u) \/ OutframeDummyFails(u) \/ DecideResendFails(u)
        PROVE  RedundancyInv'
    <2>1. pc[u] # "idle"
      BY <1>a DEF OutframePrimaryFails, OutframeDummyFails, DecideResendFails, Goto
    <2> QED
      BY <1>a, <2>1, OutframePrimaryFailsStep, OutframeDummyFailsStep, DecideResendFailsStep, CallTogether
  <1>12. CASE Next
    <2>1. ASSUME NEW u \in Threads,
                 \/ GetIndex(u)
                 \/ OutframePrimary(u) \/ OutframePrimaryFails(u)
                 \/ OutframeDummy(u) \/ OutframeDummyFails(u)
                 \/ waitinframe_red(u) \/ Release(u)
          PROVE  RedundancyInv'
      <3>2. CASE waitinframe_red(u)
        BY <1>4, <1>5, <1>6, <1>7, <1>8, <1>9, <1>a, <3>2, InframeOtherStep DEF waitinframe_red
      <3> QED
        BY <1>1, <1>2, <1>3, <1>10, <1>a, <2>1, <3>2
    <2>2. CASE CableChanges \/ Lose
      BY <2>2, TroubleStep
    <2>3. CASE Rest
      BY <1>11, <2>3 DEF Rest
    <2> QED
      BY <1>12, <2>1, <2>2, <2>3 DEF Next
  <1> QED
    BY <1>11, <1>12

\* The invariant: what is under way of every call is known, as long as no frame outlives a
\* wait and no index is given out while a call whose send failed goes on with it.
THEOREM Invariance == Spec => []RedundancyInv
  <1>1. Init => RedundancyInv
    BY Initially
  <1>2. RedundancyInv /\ [Next]_vars => RedundancyInv'
    BY StepKeeps
  <1> QED
    BY <1>1, <1>2, PTL DEF Spec

-----------------------------------------------------------------------------
(* What it is for                                                          *)

\* ecx_waitinframe_red: whatever the cables do, whichever frames are lost and whichever sends fail, an
\* answer with a positive working counter is the datagram of the call, with work that was done; the
\* dummy is never taken for it.
THEOREM AnswersAreGenuine == Spec => []AnswerGenuine
  <1>1. RedundancyInv => AnswerGenuine
    <2> SUFFICES ASSUME RedundancyInv, ~mixed, NEW t \in Threads, pc[t] = "done", Len(answer[t].by) > 0
                 PROVE  /\ answer[t].kind = "data" /\ answer[t].txn = txn[t]
                        /\ \A i \in 1 .. Len(answer[t].by) :
                              Times(answer[t].by, answer[t].by[i]) <= Times(executed[txn[t]], answer[t].by[i])
      BY DEF AnswerGenuine, Times
    <2>1. answer[t] \in FrameType /\ answer[t].by \in Seq(1 .. N)
      BY DEF RedundancyInv, TypeInv, ThreadTypes, FrameType
    <2>2. answer[t].by # <<>>
      BY EmptySeq
    <2>3. answer[t].kind = "data" /\ answer[t].txn = txn[t]
      BY <2>2 DEF RedundancyInv, FramesInv, Frames, IsData
    <2>4. Within(answer[t].by, executed[txn[t]])
      <3>1. Honest(answer[t])
        <4>1. WorkInv
          BY DEF RedundancyInv
        <4> QED
          BY <4>1 DEF WorkInv
      <3> QED
        BY <2>3, <3>1 DEF Honest
    <2>5. \A i \in 1 .. Len(answer[t].by) : answer[t].by[i] \in 1 .. N
      BY <2>1, ElementOfSeq
    <2> QED
      BY <2>3, <2>4, <2>5 DEF Within
  <1> QED
    BY <1>1, Invariance, PTL

\* One interruption of the row is not noticed: a datagram that nothing disturbs is executed by every
\* slave once, in the order of the row, and the answer carries all their work.
THEOREM BreaksAreHidden == Spec => []OneBreakHidden
  <1>1. RedundancyInv => OneBreakHidden
    <2> SUFFICES ASSUME RedundancyInv, NEW t \in Threads, pc[t] = "done", Undisturbed(t)
                 PROVE  /\ executed[txn[t]] = SlavesFrom(1, N)
                        /\ answer[t].by = SlavesFrom(1, N) /\ answer[t].kind = "data" /\ answer[t].txn = txn[t]
      BY DEF OneBreakHidden, Undisturbed
    <2>1. executed[txn[t]] = All /\ answer[t] = Data(t, All)
      BY DEF RedundancyInv, ExactInv, Exact
    <2>2. Data(t, All).by = All /\ Data(t, All).kind = "data" /\ Data(t, All).txn = txn[t]
      BY DEF Data
    <2> QED
      BY <2>1, <2>2 DEF All
  <1> QED
    BY <1>1, Invariance, PTL

=============================================================================
