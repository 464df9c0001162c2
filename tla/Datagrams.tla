------------------------------ MODULE Datagrams ------------------------------
(***************************************************************************)
(* The blocking primitives of ethercatbase.c, down to the bytes of the     *)
(* frame: a frame may hold several datagrams, the first of them behind the *)
(* length of all, and what comes back lies where it was sent less the      *)
(* ethernet header.  A buffer is a sequence of bytes, and a byte a tuple    *)
(* whose first component tells what it holds.  Indexes and loss are the business of NicDriver: here a frame    *)
(* passes through the slaves of a ring and comes back.                     *)
(***************************************************************************)
EXTENDS Integers, Sequences, FiniteSets, FiniteSetsExt, SequencesExt

ETH_HEADERSIZE == 14
EC_ELENGTHSIZE == 2
EC_HEADERSIZE == 12   \* length of all, command, index, ADP, ADO, length, interrupt
EC_WKCSIZE == 2
PointerSize == 8      \* what ecx_LRWDC sends of the time: the size of a pointer, here of 64 bits
MaxLength == 80       \* bound: bytes of a transmit buffer

-----------------------------------------------------------------------------
(* Building a frame                                                        *)

ReadOnly == {"APRD", "FPRD", "BRD", "LRD"}

ecx_writedatagramdata(com, data) ==
    IF com \in ReadOnly THEN [k \in DOMAIN data |-> <<"zero">>] ELSE data

\* A datagram from its command to its working counter.
Datagram(com, follows, adr, data) ==
    <<<<"command", com>>, <<"index">>, <<"ADP", adr>>, <<"ADP", adr>>, <<"ADO">>, <<"ADO">>,
      <<"dlength", Len(data), follows>>, <<"dlength">>, <<"irpt">>, <<"irpt">>>>
        \o ecx_writedatagramdata(com, data) \o <<<<"wkc", 0>>, <<"wkc", 0>>>>

\* Byte p of a buffer, from 0; and the buffer with new bytes from byte p on.
At(bytes, p) == bytes[p + 1]
Put(bytes, p, new) == SubSeq(bytes, 1, p) \o new \o SubSeq(bytes, p + Len(new) + 1, Len(bytes))

\* The buffer holds what was sent from it before.
ecx_setupdatagram(com, adr, data) ==
    LET used == [k \in 1 .. MaxLength |-> <<"used">>]
        headed == Put(used, ETH_HEADERSIZE, <<<<"elength", EC_HEADERSIZE + Len(data)>>>>)
    IN  [bytes |-> Put(headed, ETH_HEADERSIZE + EC_ELENGTHSIZE, Datagram(com, FALSE, adr, data)),
         txbuflength |-> ETH_HEADERSIZE + EC_HEADERSIZE + EC_WKCSIZE + Len(data)]

\* Forgets that only the first datagram of a frame has the length of all in front.
RxOffset_WholeHeader(frame) == frame.txbuflength + EC_HEADERSIZE - ETH_HEADERSIZE

\* Where the data of the next datagram will be in the received frame.
RxOffset(frame) == frame.txbuflength + EC_HEADERSIZE - EC_ELENGTHSIZE - ETH_HEADERSIZE

\* Only the first datagram is told that another follows; a later one says so itself (more).
ecx_adddatagram(frame, com, more, adr, data) ==
    LET elength == At(frame.bytes, ETH_HEADERSIZE)[2] + EC_HEADERSIZE + Len(data)
        dlength == At(frame.bytes, ETH_HEADERSIZE + 8)[2]
        first == Put(Put(frame.bytes, ETH_HEADERSIZE, <<<<"elength", elength>>>>),
                     ETH_HEADERSIZE + 8, <<<<"dlength", dlength, TRUE>>>>)
    IN  [bytes |-> Put(first, frame.txbuflength, Datagram(com, more, adr, data)),
         txbuflength |-> frame.txbuflength + EC_HEADERSIZE - EC_ELENGTHSIZE + EC_WKCSIZE + Len(data)]

-----------------------------------------------------------------------------
(* The ring.  Slave s is at position s and has station address s; it maps  *)
(* byte s of the logical image, outputs and inputs.                        *)

\* The k-th byte of what the given slaves hold, all of them at once for a broadcast.
Held(slaves, k) == <<"slaves", slaves, k>>

Addressed(s, com, adr) ==
    CASE com \in {"APRD", "APWR", "ARMW"} -> adr + s - 1 = 0
      [] com \in {"FPRD", "FPWR", "FRMW"} -> adr = s
      [] OTHER -> TRUE

\* In ARMW and FRMW the slaves behind the addressed one write.
Behind(s, com, adr) ==
    \/ com = "ARMW" /\ adr + s - 1 > 0
    \/ com = "FRMW" /\ s > adr

Reads(s, com, adr) == com \notin {"APWR", "FPWR", "BWR", "LWR"} /\ Addressed(s, com, adr)
Writes(s, com, adr) ==
    IF com \in {"ARMW", "FRMW"} THEN Behind(s, com, adr) ELSE com \notin ReadOnly /\ Addressed(s, com, adr)

\* The bytes of a datagram of the given length that slave s reads or writes.
Own(s, com, length) == IF com \in {"LRD", "LRW", "LWR"} THEN (1 .. length) \cap {s} ELSE 1 .. length

\* Those that read byte k of it, and the byte when it has passed them: a broadcast collects them all.
Readers(com, adr, length, k, n) == {s \in 1 .. n : Reads(s, com, adr) /\ k \in Own(s, com, length)}
Passed(com, adr, old, n) ==
    [k \in DOMAIN old |-> LET readers == Readers(com, adr, Len(old), k, n) IN
                           IF readers = {} THEN old[k] ELSE Held(readers, k)]

\* What slave s takes: the byte as it was sent, or as the slave before it that reads has made it.
TakenBy(s, com, adr, old, n) ==
    {<<k, IF com \in {"ARMW", "FRMW"} THEN Passed(com, adr, old, n)[k] ELSE old[k]>> :
        k \in {m \in Own(s, com, Len(old)) : Writes(s, com, adr)}}

\* A slave that reads counts one, one that writes counts one, or two in an LRW.
Counted(com, adr, length, n) ==
    LET busy == {s \in 1 .. n : Own(s, com, length) # {}} IN
    Cardinality({s \in busy : Reads(s, com, adr)})
        + (IF com = "LRW" THEN 2 ELSE 1) * Cardinality({s \in busy : Writes(s, com, adr)})

\* The places of the commands in a frame, from the one at p on, found by the flags that one follows.
RECURSIVE Commands(_, _)
Commands(rx, p) ==
    LET dlength == At(rx, p + 6) IN
    {p} \cup (IF dlength[3] THEN Commands(rx, p + EC_HEADERSIZE - EC_ELENGTHSIZE + dlength[2] + EC_WKCSIZE)
                            ELSE {})

\* The datagram with its command at p, and the frame after it has passed slaves 1 to n.
Com(rx, p) == At(rx, p)[2]
Adr(rx, p) == At(rx, p + 2)[2]
Data(rx, p) == LET start == p + EC_HEADERSIZE - EC_ELENGTHSIZE IN SubSeq(rx, start + 1, start + At(rx, p + 6)[2])
Through(rx, n) ==
    [rx |-> FoldSet(LAMBDA p, acc :
                LET data == Data(rx, p)
                    wkc == Counted(Com(rx, p), Adr(rx, p), Len(data), n)
                IN  Put(acc, p + EC_HEADERSIZE - EC_ELENGTHSIZE,
                        Passed(Com(rx, p), Adr(rx, p), data, n) \o <<<<"wkc", wkc>>>>),
                rx, Commands(rx, EC_ELENGTHSIZE)),
     taken |-> [s \in 1 .. n |-> UNION {TakenBy(s, Com(rx, p), Adr(rx, p), Data(rx, p), n) :
                                            p \in Commands(rx, EC_ELENGTHSIZE)}]]

-----------------------------------------------------------------------------
(* Sending and confirming                                                  *)

\* The received frame starts behind the ethernet header; its working counter is the one at the end.
ecx_srconfirm(frame, n) ==
    LET rx == SubSeq(frame.bytes, ETH_HEADERSIZE + 1, frame.txbuflength)
        back == Through(rx, n)
    IN  [rx |-> back.rx, taken |-> back.taken, wkc |-> At(back.rx, At(back.rx, 0)[2])[2]]

Copied(rx, p, length) == SubSeq(rx, p + 1, p + length)

Written(com, adr, data, n) ==
    LET answer == ecx_srconfirm(ecx_setupdatagram(com, adr, data), n)
    IN  [wkc |-> answer.wkc, data |-> data, taken |-> answer.taken]

Transferred(com, adr, data, n) ==
    LET answer == ecx_srconfirm(ecx_setupdatagram(com, adr, data), n) IN
    [wkc |-> answer.wkc,
     data |-> IF answer.wkc > 0 THEN Copied(answer.rx, EC_HEADERSIZE, Len(data)) ELSE data,
     taken |-> answer.taken]

ecx_BWR(data, n) == Written("BWR", 0, data, n)
ecx_BRD(data, n) == Transferred("BRD", 0, data, n)
ecx_APRD(adp, data, n) == Transferred("APRD", adp, data, n)
ecx_ARMW(adp, data, n) == Transferred("ARMW", adp, data, n)
ecx_FRMW(adp, data, n) == Transferred("FRMW", adp, data, n)
ecx_FPRD(adp, data, n) == Transferred("FPRD", adp, data, n)
ecx_APWR(adp, data, n) == Written("APWR", adp, data, n)
ecx_FPWR(adp, data, n) == Written("FPWR", adp, data, n)
ecx_LRW(data, n) == Transferred("LRW", 0, data, n)
ecx_LRD(data, n) == Transferred("LRD", 0, data, n)
ecx_LWR(data, n) == Written("LWR", 0, data, n)

\* The word primitives return the word, which is zero when nobody answered, and no counter.
Zeros(length) == [k \in 1 .. length |-> <<"zero">>]
ecx_APRDw(adp, n) == ecx_APRD(adp, Zeros(2), n).data
ecx_FPRDw(adp, n) == ecx_FPRD(adp, Zeros(2), n).data

\* An LRW and an FRMW of the reference clock in one frame; the counter returned is the first one's.
ecx_LRWDC(data, DCrs, DCtime, n) ==
    LET setup == ecx_setupdatagram("LRW", 0, data)
        answer == ecx_srconfirm(ecx_adddatagram(setup, "FRMW", FALSE, DCrs, SubSeq(DCtime, 1, PointerSize)), n)
    IN  IF answer.wkc > 0 /\ At(answer.rx, EC_ELENGTHSIZE)[2] = "LRW"
        THEN [wkc |-> At(answer.rx, EC_HEADERSIZE + Len(data))[2],
              data |-> Copied(answer.rx, EC_HEADERSIZE, Len(data)),
              DCtime |-> Copied(answer.rx, RxOffset(setup), Len(DCtime)),
              taken |-> answer.taken]
        ELSE [wkc |-> answer.wkc, data |-> data, DCtime |-> DCtime, taken |-> answer.taken]

\* The same register of several slaves in one frame.
ecx_FPRD_multi(configlst, slstatlst, n) ==
    LET add(acc, i) ==
            [frame |-> ecx_adddatagram(acc.frame, "FPRD", i < Len(configlst), configlst[i], slstatlst[i]),
             sldatapos |-> Append(acc.sldatapos, RxOffset(acc.frame))]
        first == [frame |-> ecx_setupdatagram("FPRD", configlst[1], slstatlst[1]),
                  sldatapos |-> <<EC_HEADERSIZE>>]
        all == FoldLeft(add, first, [i \in 1 .. Len(configlst) - 1 |-> i + 1])
        answer == ecx_srconfirm(all.frame, n)
    IN  [wkc |-> answer.wkc,
         slstatlst |-> [i \in DOMAIN slstatlst |->
                           Copied(answer.rx, all.sldatapos[i], Len(slstatlst[i]))]]

-----------------------------------------------------------------------------
(* Property                                                                *)

Master(length) == [k \in 1 .. length |-> <<"master", k>>]
From(slaves, length) == [k \in 1 .. length |-> Held(slaves, k)]
Taken(bytes) == {<<k, bytes[k]>> : k \in DOMAIN bytes}

\* What a primitive should return and the slaves should take: the answer of the slave that was
\* asked, or the caller's data as they were when there is none.
ReadOf(s, n, length) ==
    [wkc |-> IF s \in 1 .. n THEN 1 ELSE 0,
     data |-> IF s \in 1 .. n THEN From({s}, length) ELSE Master(length),
     taken |-> [t \in 1 .. n |-> {}]]
WriteTo(slaves, n, length) ==
    [wkc |-> Cardinality(slaves),
     data |-> Master(length),
     taken |-> [t \in 1 .. n |-> IF t \in slaves THEN Taken(Master(length)) ELSE {}]]
\* Slave s reads and those behind it write what it read.
Distributed(s, n, length) ==
    [wkc |-> IF s \in 1 .. n THEN n - s + 1 ELSE 0,
     data |-> IF s \in 1 .. n THEN From({s}, length) ELSE Master(length),
     taken |-> [t \in 1 .. n |-> IF s < t THEN Taken(From({s}, length)) ELSE {}]]
Image(n, length) == [k \in 1 .. length |-> IF k <= n THEN Held({k}, k) ELSE <<"master", k>>]

\* Of every primitive, for rings of up to three slaves and slaves that are there or not, each slave
\* takes the data meant for it and no other, the caller gets the data of the slave it asked, with
\* nothing of a header or a neighbour in it, and the counter of its own datagram, when several share
\* a frame too.  FPRD_multi gives zeros for a slave that is not there, and the counter of the last.
EveryFrame ==
    \A n \in 1 .. 3, s \in 1 .. 4, length \in 1 .. 3 :
        /\ ecx_APRD(1 - s, Master(length), n) = ReadOf(s, n, length)
        /\ ecx_FPRD(s, Master(length), n) = ReadOf(s, n, length)
        /\ ecx_APRDw(1 - s, n) = (IF s <= n THEN From({s}, 2) ELSE Zeros(2))
        /\ ecx_FPRDw(s, n) = (IF s <= n THEN From({s}, 2) ELSE Zeros(2))
        /\ ecx_APWR(1 - s, Master(length), n) = WriteTo({s} \cap 1 .. n, n, length)
        /\ ecx_FPWR(s, Master(length), n) = WriteTo({s} \cap 1 .. n, n, length)
        /\ ecx_ARMW(1 - s, Master(length), n) = Distributed(s, n, length)
        /\ ecx_FRMW(s, Master(length), n) = Distributed(s, n, length)
        /\ ecx_BWR(Master(length), n) = WriteTo(1 .. n, n, length)
        /\ ecx_BRD(Master(length), n).wkc = n
        /\ ecx_BRD(Master(length), n).data = From(1 .. n, length)
        /\ LET mapped == (1 .. length) \cap (1 .. n)
               lwr == ecx_LWR(Master(length), n)
               lrw == ecx_LRW(Master(length), n)
               lrd == ecx_LRD(Master(length), n)
               dc == ecx_LRWDC(Master(length), s, Master(8), n)
           IN  /\ lwr.wkc = Cardinality(mapped) /\ lrd.wkc = Cardinality(mapped)
               /\ lrw.wkc = 3 * Cardinality(mapped) /\ lrw.data = Image(n, length)
               /\ \A k \in mapped : lrd.data[k] = Held({k}, k) /\ lwr.taken[k] = {<<k, <<"master", k>>>>}
               /\ lrw.taken = lwr.taken
               /\ s <= n => /\ dc.wkc = lrw.wkc /\ dc.data = lrw.data /\ dc.DCtime = From({s}, 8)
                            /\ \A t \in 1 .. n : dc.taken[t] = lrw.taken[t] \cup (IF t > s THEN Taken(From({s}, 8)) ELSE {})
               /\ s > n => dc = [wkc |-> 0, data |-> Master(length), DCtime |-> Master(8), taken |-> lrw.taken]
        /\ \A configlst \in [1 .. length -> {1, s}] :
              LET multi == ecx_FPRD_multi(configlst, [i \in 1 .. length |-> Master(2)], n) IN
              /\ multi.wkc = (IF configlst[length] <= n THEN 1 ELSE 0)
              /\ \A i \in 1 .. length :
                    multi.slstatlst[i] = (IF configlst[i] <= n THEN From({configlst[i]}, 2) ELSE Zeros(2))

=============================================================================
