----------------------------- MODULE MCStartup -----------------------------
(***************************************************************************)
(* Networks and devices for Startup: every tree of up to four slaves with  *)
(* every choice of those that have a clock, and rows of slaves of          *)
(* different kinds.  An EEPROM image is written from a description of the  *)
(* device, with which the properties compare what the master made of it.   *)
(***************************************************************************)
EXTENDS Startup, SlaveInfo

CONSTANT MaxSlaves   \* bound: slaves of a tree

\* Trees: the parent and its port of every slave, numbered as the frame passes.
PassedBefore(parent, port, i) == \A j \in 2 .. i - 1 : parent[j] = parent[i] => Rank(port[j]) < Rank(port[i])
Ancestors(parent, i) ==
    LET Up[c \in Nat] == IF c = 0 THEN {} ELSE {c} \cup Up[parent[c]] IN Up[i]
IsTree(parent, port) ==
    \A i \in 2 .. Len(parent) : parent[i] \in Ancestors(parent, i - 1) /\ PassedBefore(parent, port, i)
Parents(n) == [1 .. n -> 0 .. n - 1]
Trees(n) ==
    {t \in {[parent |-> <<0>> \o par, port |-> <<3>> \o por] :
             par \in [1 .. n - 1 -> 1 .. n - 1], por \in [1 .. n - 1 -> {3, 1, 2}]} :
        (\A i \in 2 .. n : t.parent[i] < i) /\ IsTree(t.parent, t.port)}
Row(n) == [parent |-> [i \in 1 .. n |-> i - 1], port |-> [i \in 1 .. n |-> 3]]

Delays == <<0, 1, 4, 2, 3>>
Network(tree, kinds, clock, offset, lost, usetable, pulses) ==
    [kind |-> kinds, parent |-> tree.parent, port |-> tree.port, delay |-> Delays, clock |-> clock,
     offset |-> [i \in 1 .. Len(kinds) |-> offset], losses |-> lost,
     start |-> [usetable |-> usetable, manual |-> usetable, pulses |-> pulses, time |-> 7]]
AllOf(k, n) == [i \in 1 .. n |-> k]

\* Every tree, with a clock in every choice of slaves; and with clocks that run over.
Forest ==
    UNION {{Network(t, AllOf("plain", n), clock, 0, 0, FALSE, FALSE) : t \in Trees(n), clock \in SUBSET (1 .. n)}
              \cup {Network(t, AllOf("plain", n), 1 .. n, 118, 0, FALSE, FALSE) : t \in Trees(n)} : n \in 1 .. MaxSlaves}
\* Small trees, with a lost read.
Disturbed ==
    UNION {{Network(t, AllOf("plain", n), 1 .. n, 0, 1, FALSE, FALSE) : t \in Trees(n)} : n \in 1 .. 3}
\* Rows of slaves of different kinds, with a lost read.
Mixed ==
    {Network(Row(3), k, {1, 3}, 0, 1, FALSE, FALSE) : k \in [1 .. 3 -> {"plain", "coupler", "modular"}]}
        \cup {Network(Row(2), k, {2}, 0, 1, FALSE, FALSE) : k \in [1 .. 2 -> {"drive", "coupler", "old", "counted"}]}
\* Slaves from the table; and the pulses.
Listed == {Network(Row(2), k, {1, 2}, 0, 1, TRUE, FALSE) : k \in [1 .. 2 -> {"plain", "listed"}]}
Pulsed ==
    {Network(Row(2), AllOf("plain", 2), {1, 2}, 0, 0, FALSE, TRUE), Network(Row(1), AllOf("listed", 1), {1}, 0, 1, TRUE, TRUE)}

MCNetworks == Forest \cup Disturbed \cup Mixed \cup Listed \cup Pulsed

-----------------------------------------------------------------------------
(* Devices                                                                 *)

Low(w) == w % 256
High(w) == w \div 256
WordBytes(w) == <<Low(w), High(w)>>
Flat(seqs) == LET F[i \in 0 .. Len(seqs)] == IF i = 0 THEN <<>> ELSE F[i - 1] \o seqs[i] IN F[Len(seqs)]
\* A section; there are no empty ones (ecx_siiPDO would take what follows one for a PDO).
Section(cat, bytes) ==
    IF bytes = <<>> THEN <<>>
    ELSE WordBytes(cat) \o WordBytes((Len(bytes) + 1) \div 2) \o bytes
            \o IF Len(bytes) % 2 = 1 THEN <<0>> ELSE <<>>

SMBytes(sm) == WordBytes(sm.StartAddr) \o WordBytes(sm.SMlength) \o <<sm.Creg, 0, sm.Activate, 0>>
\* An entry of 4 bits is a filler.
Entry(e, bits) == (IF bits = 4 THEN <<0, 0, 0>> ELSE <<0, 112, e>>) \o <<0, 0, bits, 0, 0>>
PdoBytes(pdo) ==
    <<0, 26, Len(pdo.bits), pdo.sm, 0, 0, 0, 0>>
        \o Flat([e \in 1 .. Len(pdo.bits) |-> Entry(e, pdo.bits[e])])
Image(d) ==
    LET bytes ==
            Section(ECT_SII_STRING, <<2, Len(d.name)>> \o d.name \o <<1, 88>>)
            \o Section(ECT_SII_GENERAL, <<1, 2, 3, 4, 5>> \o d.details \o <<0, 0, IF d.blockLRW = 1 THEN 2 ELSE 0>>
                                          \o WordBytes(d.Ebuscurrent) \o <<0, 0>>)
            \o Section(ECT_SII_FMMU, d.fmmu)
            \o Section(ECT_SII_SM, Flat([m \in 1 .. Len(d.sm) |-> SMBytes(d.sm[m])]))
            \o Section(ECT_SII_PDO, Flat([p \in 1 .. Len(d.tx) |-> PdoBytes(d.tx[p])]))
            \o Section(ECT_SII_PDO + 1, Flat([p \in 1 .. Len(d.rx) |-> PdoBytes(d.rx[p])]))
            \o <<255, 255>>
    IN  [a \in 2 * ECT_SII_START .. 2 * ECT_SII_START + Len(bytes) - 1 |-> bytes[a - 2 * ECT_SII_START + 1]]

SM(start, length, creg) == [StartAddr |-> start, SMlength |-> length, Creg |-> creg, Activate |-> 1]
Off(sm) == [sm EXCEPT !.Activate = 0]
Pdo(sm, bits) == [sm |-> sm, bits |-> bits]
Identity(man, id, rev, rx, tx, proto) ==
    (MANUF :> <<man, 0>>) @@ (ID :> <<id, 1>>) @@ (REV :> <<rev, 0>>) @@ (RXMBXADR :> rx)
        @@ (TXMBXADR :> tx) @@ (MBXPROTO :> <<proto, 0>>)
NoMailbox(man, id, rev) == Identity(man, id, rev, Nothing, Nothing, 0)

\* Two couplers with the same EEPROM report different mappings: they carry different modules.
Coupler == [name |-> <<67, 80>>, details |-> <<37, 1, 1, 0>>, blockLRW |-> 1, Ebuscurrent |-> 0,
            fmmu |-> <<1, 2, 3, 255>>,
            sm |-> <<SM(4096, 64, 38), SM(4352, 64, 34), SM(4608, 4, 36), SM(5120, 4, 32)>>,
            rx |-> <<>>, tx |-> <<>>]
Described ==
    [plain |-> [name |-> <<80>>, details |-> <<0, 0, 0, 0>>, blockLRW |-> 0, Ebuscurrent |-> 300,
                fmmu |-> <<1, 2>>, sm |-> <<SM(3840, 1, 68), SM(4096, 1, 32)>>,
                rx |-> <<Pdo(0, <<1, 1>>)>>, tx |-> <<Pdo(255, <<16, 8, 8>>), Pdo(1, <<8, 4>>), Pdo(1, <<8>>)>>],
     coupler |-> Coupler,
     modular |-> Coupler,
     drive |-> [name |-> <<68>>, details |-> <<0, 0, 0, 7>>, blockLRW |-> 0, Ebuscurrent |-> 20,
                fmmu |-> <<1, 2, 3>>,
                sm |-> <<SM(6144, 32, 38), SM(6400, 32, 34), Off(SM(6656, 0, 36)), Off(SM(6912, 0, 32))>>,
                rx |-> <<>>, tx |-> <<>>],
     counted |-> [name |-> <<68>>, details |-> <<1, 0, 0, 0>>, blockLRW |-> 0, Ebuscurrent |-> 20,
                  fmmu |-> <<1, 2, 3>>,
                  sm |-> <<SM(6144, 32, 38), SM(6400, 32, 34), SM(6656, 2, 36), SM(6912, 1, 32)>>,
                  rx |-> <<>>, tx |-> <<>>],
     old |-> [name |-> <<67>>, details |-> <<0, 0, 0, 0>>, blockLRW |-> 0, Ebuscurrent |-> 10,
              fmmu |-> <<1, 2>>, sm |-> <<SM(3840, 1, 68), SM(4096, 1, 32)>>,
              rx |-> <<Pdo(0, <<8, 8>>)>>, tx |-> <<>>],
     listed |-> [name |-> <<76>>, details |-> <<0, 0, 0, 0>>, blockLRW |-> 0, Ebuscurrent |-> 10,
                 fmmu |-> <<2, 1>>, sm |-> <<>>, rx |-> <<>>, tx |-> <<>>]]
Kinds == DOMAIN Described

Words ==
    [plain |-> NoMailbox(1, 1, 1),
     coupler |-> Identity(1, 2, 1, <<4096, 64>>, <<4352, 64>>, ECT_MBXPROT_COE),
     modular |-> Identity(1, 2, 1, <<4096, 64>>, <<4352, 64>>, ECT_MBXPROT_COE),
     drive |-> Identity(2, 2, 1, <<6144, 32>>, <<6400, 0>>, ECT_MBXPROT_SOE),
     counted |-> Identity(1, 2, 2, <<6144, 32>>, <<6400, 32>>, ECT_MBXPROT_COE),
     old |-> NoMailbox(1, 2, 0),
     listed |-> NoMailbox(5, 5, 1)]

\* Dictionaries: the types of the sync managers, the PDOs assigned to the third and the fourth, the
\* bits of the PDOs.  "counted" is a slave that counts the types from 0.
Dictionary(types, out, in) ==
    (ECT_SDO_SMCOMMTYPE :> types) @@ (ECT_SDO_PDOASSIGN + 2 :> out) @@ (ECT_SDO_PDOASSIGN + 3 :> in)
        @@ (5632 :> <<8, 8>>) @@ (5633 :> <<4>>) @@ (6656 :> <<8>>) @@ (6657 :> <<16, 8>>)
Ods ==
    [k \in Kinds |-> CASE k = "coupler" -> Dictionary(<<1, 2, 3, 4>>, <<5632>>, <<6656>>)
                       [] k = "modular" -> Dictionary(<<1, 2, 3, 4>>, <<>>, <<6657>>)
                       [] k = "counted" -> Dictionary(<<0, 1, 2, 3>>, <<5632, 5633>>, <<6656>>)
                       [] OTHER -> [index \in {} |-> <<>>]]
\* What they report.
ByCoE == [k \in Kinds |-> CASE k = "coupler" -> <<16, 8>> [] k = "modular" -> <<0, 24>>
                            [] k = "counted" -> <<20, 8>> [] OTHER -> <<0, 0>>]
\* A drive with two words and one of 32 bits.
Drives == [k \in Kinds |-> IF k = "drive" THEN <<[out |-> <<1>>, in |-> <<1, 2>>]>> ELSE <<>>]
BySoE == [k \in Kinds |-> IF k = "drive" THEN <<32, 64>> ELSE <<0, 0>>]
Images == [k \in Kinds |-> Image(Described[k])]
MCDevice == [k \in Kinds |-> [words |-> Words[k], image |-> Images[k], od |-> Ods[k], drives |-> Drives[k]]]

MCTable ==
    <<[man |-> <<5, 0>>, id |-> <<5, 1>>, name |-> <<76, 49>>, Obits |-> 4, Ibits |-> 16,
       SM |-> [m \in {2, 3} |-> IF m = 3 THEN [StartAddr |-> 4608, Creg |-> 32, Activate |-> 1]
                                ELSE [StartAddr |-> 0, Creg |-> 0, Activate |-> 0]]]>>

-----------------------------------------------------------------------------
(* Properties                                                              *)

\* Slave i has been through the last loop of ecx_config_init; the mappings are programmed.
Configured(i) ==
    i \in DOMAIN sl /\ (pc \in {"map", "mapped", "latch", "clocks", "ready"} \/ (pc = "setup" /\ i < slave))
Mapped == pc \in {"latch", "clocks", "ready"}

\* The link states of all slaves were read.
Placed == \A i \in Slaves : Configured(i) => sl[i].activeports # {}

\* The search over the slaves before finds the slave that each one really hangs on, whatever the
\* tree, unless a link state was not read.
ParentsFound == Placed => \A i \in Slaves : Configured(i) => sl[i].parent = net.parent[i]

\* The delay that ecx_configdc calculates for a slave and writes into it is the time the frame takes
\* from the first clock to it, whatever the tree and wherever slaves without a clock hang in it.  It
\* takes that none of the datagrams for it was lost (the one that latches the times, the reads of the
\* times and of the support for clocks, the writes of the delays: the code looks at no result of them),
\* that no clock ran over, that the first clock is above all others, and that no slave without one
\* forks.
FirstClock == Min(net.clock)
Measurable ==
    /\ \A i \in net.clock : FirstClock \in Ancestors(net.parent, i) /\ ~RanOver(i)
    /\ \A i \in Slaves \ net.clock : Cardinality(Behind(i)) <= 1
DelaysMeasured ==
    pc = "ready" /\ Placed /\ untimed = {} /\ Measurable
        => \A i \in net.clock :
                sl[i].pdelay = Arrival[i] - Arrival[FirstClock] /\ esc[i].sysdelay = sl[i].pdelay

\* What the master keeps of a slave is what the slave's own EEPROM says, also when it was copied from
\* another one "with the same ID", and the sums over the slaves are kept.  Only a slave whose identity
\* was misread can be taken for another, or be copied for another; and a lost read of the image, kept
\* as zeros, spoils no slave but its own and those that are copied from it.
Own(i) ==
    LET d == Described[net.kind[i]]
        s == sl[i]
    IN  /\ s.details = d.details /\ s.blockLRW = d.blockLRW /\ s.Ebuscurrent = d.Ebuscurrent
        /\ s.name = d.name
        /\ \A f \in 1 .. Len(d.fmmu) : d.fmmu[f] # 255 => s.FMMUfunc[f - 1] = d.fmmu[f]
        /\ \A m \in 1 .. Len(d.sm) : s.SM[m - 1].StartAddr = d.sm[m].StartAddr /\ s.SM[m - 1].Creg = d.sm[m].Creg
OwnConfiguration ==
    /\ \A i \in Slaves \ unread :
            Configured(i) /\ sl[i].configindex = 0 /\ (\A j \in 1 .. i : j \notin misread) => Own(i)
    /\ (\A i \in Slaves : Configured(i)) /\ ~net.start.usetable
        => /\ all.blockLRW = MapThenSumSet(LAMBDA i : sl[i].blockLRW, Slaves)
           /\ all.Ebuscurrent = MapThenSumSet(LAMBDA i : sl[i].Ebuscurrent, Slaves)

\* The sizes of a slave's process data are those it reports itself, or its EEPROM describes, or the
\* table lists, and its sync managers are programmed for them, enabled when they have a length.  It
\* takes that nobody's identity was misread, and that no datagram about the slave's mailbox, image or
\* mapping was lost for good, nor one about the slave that it was copied from.  A direction to which
\* nothing is assigned keeps the length of the EEPROM.  What slaveinfo finds with its own loops, and
\* puts its lines at, are the same bits; it does not know of SoE.
Total(pdos, m) ==
    MapThenSumSet(LAMBDA p : IF pdos[p].sm = m THEN MapThenSumSet(LAMBDA e : pdos[p].bits[e], 1 .. Len(pdos[p].bits)) ELSE 0,
                  1 .. Len(pdos))
BySii(k) == <<Total(Described[k].rx, 0), Total(Described[k].tx, 1)>>
OwnSizes(i) ==
    LET k == net.kind[i]
    IN  IF sl[i].configindex > 0 THEN <<MCTable[sl[i].configindex].Obits, MCTable[sl[i].configindex].Ibits>>
        ELSE IF ByCoE[k] # <<0, 0>> THEN ByCoE[k] ELSE IF BySoE[k] # <<0, 0>> THEN BySoE[k] ELSE BySii(k)
Lengths(i, type) == MapThenSumSet(LAMBDA m : esc[i].sm[m].SMlength, {m \in 0 .. EC_MAXSM - 1 : sl[i].SMtype[m] = type})
Listings ==
    [k \in Kinds |-> IF Has(Words[k][MBXPROTO][1], ECT_MBXPROT_COE) THEN si_map_sdo(Ods[k], {}, <<0, 0>>)
                     ELSE si_map_sii(Images[k], <<0, 0>>)]
FirstBit(line) == 8 * line.offset + line.bit
EndBit(line) == FirstBit(line) + line.bits
\* No device here ends with a filler.
InOrder(lines, bits) ==
    /\ bits = IF lines = <<>> THEN 0 ELSE EndBit(lines[Len(lines)])
    /\ \A e \in 2 .. Len(lines) : EndBit(lines[e - 1]) <= FirstBit(lines[e])
ListedAlike(i) ==
    LET k == net.kind[i]
    IN  sl[i].configindex = 0 /\ BySoE[k] = <<0, 0>> =>
        \A d \in 1 .. 2 : Listings[k][d].bits = OwnSizes(i)[d] /\ InOrder(Listings[k][d].lines, OwnSizes(i)[d])
MappingGenuine ==
    Mapped /\ misread = {} => \A i \in Slaves \ (unread \cup unmapped) :
        /\ <<sl[i].Obits, sl[i].Ibits>> = OwnSizes(i)
        /\ ListedAlike(i)
        /\ \A d \in 1 .. 2 : OwnSizes(i)[d] > 0 => Lengths(i, d + 2) = Bytes(OwnSizes(i)[d])
        /\ \A m \in 2 .. EC_MAXSM - 1 : esc[i].sm[m].Activate = 1 <=> esc[i].sm[m].SMlength > 0
=============================================================================
