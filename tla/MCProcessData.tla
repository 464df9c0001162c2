---------------------------- MODULE MCProcessData ----------------------------
(***************************************************************************)
(* Groups for the checks of ProcessData, and every ring of slaves of the   *)
(* given kinds for those of IOMap: before the first cycle the ring may     *)
(* grow, one slave at a time, as ecx_config_init finds it, and is mapped   *)
(* again each time.  With segments of three bytes the groups need one to   *)
(* seven datagrams per cycle.                                              *)
(***************************************************************************)
EXTENDS ProcessData

CONSTANTS
    Kinds,      \* slaves of a ring
    MaxSlaves   \* bound: length of the ring

VARIABLE ring   \* the slaves found so far; none while a group of Configs is exchanged

OneSM(bits) == IF bits = 0 THEN <<>> ELSE <<[bytes |-> (bits + 7) \div 8, apart |-> FALSE]>>
Slave(o, i) == [Obits |-> o, Osms |-> OneSM(o), Ibits |-> i, Isms |-> OneSM(i)]
S(o, i) == Slave(8 * o, 8 * i)
TwoSMs(apart) == <<[bytes |-> 1, apart |-> FALSE], [bytes |-> 1, apart |-> apart]>>
Split(s, apart) == [s EXCEPT !.Isms = TwoSMs(apart)]
C(slaves, overlap, blockLRW, hasdc) ==
    [slaves |-> slaves, overlap |-> overlap, blockLRW |-> blockLRW, hasdc |-> hasdc]

\* Groups of one to seven datagrams, with LRW or with LRD and LWR, with and without a distributed
\* clock; overlapping maps; a group whose frames of two cycles take all indexes, one for which there
\* are too few of them, one with more datagrams than there are indexes, and one without process data.
MCConfigs ==
    {C(<<S(1, 1)>>, FALSE, FALSE, TRUE),
     C(<<S(0, 2), S(0, 2)>>, FALSE, FALSE, TRUE),
     C(<<S(1, 1), S(1, 1)>>, FALSE, FALSE, FALSE),
     C(<<S(1, 1)>>, FALSE, TRUE, FALSE),
     C(<<S(1, 2), S(0, 1)>>, FALSE, TRUE, FALSE),
     C(<<S(2, 2), S(2, 2)>>, TRUE, FALSE, FALSE),
     C(<<S(2, 1), S(1, 2)>>, TRUE, FALSE, FALSE),
     C(<<S(0, 2)>>, TRUE, FALSE, FALSE),
     C(<<S(2, 2), S(1, 2)>>, FALSE, TRUE, FALSE),
     C(<<S(2, 0), S(0, 3), S(0, 2)>>, FALSE, FALSE, FALSE),
     C(<<S(1, 0), S(0, 3)>>, FALSE, FALSE, TRUE),
     C(<<S(3, 0), S(2, 0), S(2, 1)>>, FALSE, FALSE, TRUE),
     C(<<S(2, 0), S(2, 0), S(2, 0), S(1, 2), S(0, 2), S(0, 2)>>, FALSE, TRUE, FALSE),
     C(<<S(1, 2)>>, FALSE, TRUE, TRUE),
     C(<<S(0, 0)>>, FALSE, FALSE, FALSE)}

\* Groups with a distributed clock and datagrams of different lengths.
ClockConfigs ==
    {C(<<S(1, 0), S(0, 3)>>, FALSE, FALSE, TRUE),
     C(<<S(3, 0), S(2, 0), S(2, 1)>>, FALSE, FALSE, TRUE)}

\* Bit and byte oriented slaves, among them ones that share a byte or cross one; slaves with as many
\* bytes as a datagram may have, and with more; and slaves with two sync managers in a direction,
\* connected or apart.
MCKinds ==
    {Slave(o, i) : o \in {0, 3, 6, 8, 16}, i \in {0, 3, 6, 8, 16}}
        \cup {Slave(24, 3), Slave(32, 0), Slave(3, 32), Slave(32, 32)}
        \cup {Split(Slave(3, 16), FALSE), Split(Slave(8, 16), TRUE)}
        \cup {[Slave(16, 0) EXCEPT !.Osms = TwoSMs(TRUE)]}

\* The hypothesis of the proofs about the exchange.
ASSUME GroupsAssumption == GroupsMapped

-----------------------------------------------------------------------------
(* The ring                                                                *)

MCInit == CyclicInit /\ ring = <<>>

AddSlave ==
    /\ cycle = 0
    /\ Len(ring) < MaxSlaves
    /\ \E s \in Kinds : ring' = Append(ring, s)
    /\ group' = MappedGroup(C(ring', FALSE, FALSE, FALSE))
    /\ image' = [b \in 0 .. group'.Obytes + group'.Ibytes - 1 |-> Old]
    /\ delivered' = [s \in DOMAIN ring' |-> 0]
    /\ UNCHANGED <<phase, cycle, job, idxstack, rxbufstat, lastidx, wire, DCl, DCtime, received, result>>

Exchange == ring = <<>> /\ CyclicNext /\ UNCHANGED ring

MCNext == AddSlave \/ Exchange

MCSpec == MCInit /\ [][MCNext]_<<ring, cyclicVars>>

-----------------------------------------------------------------------------
(* Properties of the maps                                                  *)

Overlap == ConfigOverlapMapGroup(ring) @@ [overlap |-> TRUE]

\* The segments were enough for all data.
Enough(g) == g.nsegments < EC_MAXIOSEGMENTS

\* Segment k is the data of one slave in one direction, and perhaps the byte that bit oriented slaves
\* before it have begun; in the overlapping map nothing but the data.
OfOneSlave(g, k) ==
    \E i \in DOMAIN ring : \E fmmus \in {g.outputs[i], g.inputs[i]} :
        g.IOsegment[k] - MapThenSumSet(LAMBDA j : fmmus[j].length, DOMAIN fmmus)
            \in (IF g.overlap THEN {0} ELSE {0, 1})

\* As long as the segments suffice they cover the image exactly, so that the senders, which stop
\* when all bytes are sent, send each byte once; the inputs start where the sender of LRD datagrams
\* looks for them: Ioffset bytes into segment Isegment; the data of a byte oriented slave travels in
\* one datagram, which the slave counts once; and a segment is longer than a datagram may be only
\* where the data of one slave is, with the byte begun before it: never because another slave was
\* added to it (the IOsegment list of ecx_config_map_group, which checks a segment but not a slave).
SegmentsCover ==
    LET o == Overlap IN
    ring # <<>> =>
        /\ \A g \in {group, o} : \A k \in DOMAIN g.IOsegment :
              g.IOsegment[k] <= SegmentLimit \/ OfOneSlave(g, k)
        /\ Enough(group) =>
              /\ Tiled(group)
              /\ \A i \in DOMAIN ring :
                    /\ SlaveBytes(ring[i].Obits) > 0 => InOneSegment(group, group.outputs[i])
                    /\ SlaveBytes(ring[i].Ibits) > 0 => InOneSegment(group, group.inputs[i])
        /\ Enough(o) => Tiled(o)

\* The bits of FMMUs in the logical address space, numbered from its start.
BitsOf(fmmus) ==
    UNION {fmmus[k].start * 8 + fmmus[k].startbit .. (fmmus[k].start + fmmus[k].length - 1) * 8 + fmmus[k].endbit
              : k \in DOMAIN fmmus}
Width(bits) == IF bits > 7 THEN 8 * SlaveBytes(bits) ELSE bits

\* The FMMU k has the bytes of the sync managers from its own to that of the next FMMU.
FitsSMs(fmmus, k, sms) ==
    fmmus[k].length = MapThenSumSet(LAMBDA m : sms[m].bytes,
        {m \in DOMAIN sms : fmmus[k].sm <= m /\ (k < Len(fmmus) => m < fmmus[k + 1].sm)})

\* No bit of the logical address space belongs to two slaves, nor (in the map without overlap) to
\* an output and an input; bit oriented slaves may share a byte.  The FMMUs of a slave have the width
\* of its data, lie within the image of their direction, and each maps the bytes of its own sync
\* managers and no others, for up to two FMMUs.
BitsExclusive ==
    LET all == group.outputs \o group.inputs
        bits == [i \in DOMAIN all |-> BitsOf(all[i])]
        o == Overlap
        both == [i \in DOMAIN ring |-> BitsOf(o.outputs[i]) \cup BitsOf(o.inputs[i])]
    IN
    ring # <<>> =>
        /\ \A i \in DOMAIN ring :
            /\ Cardinality(BitsOf(group.outputs[i])) = Width(ring[i].Obits)
            /\ Cardinality(BitsOf(group.inputs[i])) = Width(ring[i].Ibits)
            /\ BitsOf(group.outputs[i]) \subseteq 0 .. 8 * group.Obytes - 1
            /\ BitsOf(group.inputs[i]) \subseteq 8 * group.Obytes .. 8 * IOmapSize(group) - 1
            /\ SlaveBytes(ring[i].Obits) > 0 =>
                  \A k \in DOMAIN group.outputs[i] : FitsSMs(group.outputs[i], k, ring[i].Osms)
            /\ SlaveBytes(ring[i].Ibits) > 0 =>
                  \A k \in DOMAIN group.inputs[i] : FitsSMs(group.inputs[i], k, ring[i].Isms)
        /\ \A i, j \in DOMAIN all : i # j => bits[i] \cap bits[j] = {}
        /\ \A i, j \in DOMAIN ring : i # j => both[i] \cap both[j] = {}

\* What the tutorial says of the expected working counter: it tells whether all went well.
CounterTells == CycleDone /\ Rotates /\ ExpectedWKC > 0 /\ result = ExpectedWKC => AllNew

\* The expected working counter counts every FMMU once, which is what comes back only if the data of
\* every slave, bit oriented ones included, travels in one datagram.
FmmusNotSplit ==
    Enough(group) =>
        \A i \in DOMAIN ring :
            InOneSegment(group, group.outputs[i]) /\ InOneSegment(group, group.inputs[i])

-----------------------------------------------------------------------------
(* The frames                                                              *)

Frames == INSTANCE Datagrams

\* The offsets of ethercatbase.c agree with those of ecx_srconfirm and of the slaves: every blocking
\* primitive, also those with several datagrams in a frame (ecx_LRWDC, ecx_FPRD_multi), brings the
\* data, the clock and the counter of the right slave, and each slave takes what was meant for it.
\* A fact of the constants, examined once, before the first cycle of the group without process data.
FramesGenuine == ring = <<>> /\ cycle = 0 /\ phase = "app" /\ IOmapSize(group) = 0 => Frames!EveryFrame

=============================================================================
