------------------------------ MODULE Startup ------------------------------
(***************************************************************************)
(* From the first datagram to slaves that are configured and have their    *)
(* clocks set: ecx_config_init and ecx_config_find_mappings                *)
(* (ethercatconfig.c), ecx_configdc and ecx_dcsync0 (ethercatdc.c).        *)
(*                                                                         *)
(* A network is a tree of slaves numbered in the order the frame passes    *)
(* them, entered at port 0, that leave a frame by their ports 3, 1 and 2;  *)
(* a slave is a device of some kind with the EEPROM image of this kind.    *)
(* A step is one pass of a loop over the slaves.  A datagram may be lost   *)
(* in spite of its retries: a read leaves the master with what it had      *)
(* before, or with 0, a write leaves the slave as it was, and the master   *)
(* goes on.  Those that set the slaves to their defaults and give them     *)
(* their addresses are not lost.                                           *)
(***************************************************************************)
EXTENDS PdoMap, Clocks, TLC

CONSTANTS
    Networks,    \* the networks: [kind, parent, port, delay, offset, clock, losses, start]
    Device,      \* what a kind of device is: [words, image, od, drives]
    Table,       \* ec_configlist: the kinds it lists, by manufacturer and product, and their sizes
    Cycles       \* cycle times that the application asks for

ASSUME StartupAssumption == Cycles \subseteq Nat

VARIABLES
    net,        \* the network that is plugged in
    pc, slave,  \* the master's place in the code and its loop variable
    sl,         \* slavelist, from 1
    all,        \* slavelist[0]: blockLRW, Ebuscurrent, hasdc, DCnext
    esc,        \* the slaves' registers
    esi,        \* the cache of EEPROM bytes: the slave it is for, and those read as 0 for a lost read
    ht, parenthold, prevDCslave,    \* locals of ecx_configdc
    sync,       \* the pulses set in the slaves
    losses,     \* datagrams lost so far
    misread, untimed, unread, unmapped   \* history: slaves whose identity, times, EEPROM image or
                                         \* mapping were lost, or came from such a slave

vars == <<net, pc, slave, sl, all, esc, esi, ht, parenthold, prevDCslave, sync, losses,
          misread, untimed, unread, unmapped>>
clockVars == <<ht, parenthold, prevDCslave, sync>>
historyVars == <<misread, untimed, unread, unmapped>>

Slaves == 1 .. Len(net.kind)
Dev(i) == Device[net.kind[i]]

MANUF == "man"
ID == "id"
REV == "rev"
RXMBXADR == "rxmbx"
TXMBXADR == "txmbx"
MBXPROTO == "proto"

INIT == 1
PRE_OP == 2

Nothing == <<0, 0>>   \* an EEPROM word of 32 bits is its low and its high half
Unused == [StartAddr |-> 0, SMlength |-> 0, Creg |-> 0, Activate |-> 0]

\* memset of slavelist.
Blank ==
    [configadr |-> 0, man |-> Nothing, id |-> Nothing, rev |-> Nothing, mbx_wo |-> 0, mbx_l |-> 0,
     mbx_ro |-> 0, mbx_rl |-> 0, mbx_proto |-> 0, hasdc |-> FALSE, topology |-> 0, activeports |-> {},
     parent |-> 0, configindex |-> 0, SMtype |-> [m \in 0 .. EC_MAXSM - 1 |-> 0],
     SM |-> [m \in 0 .. EC_MAXSM - 1 |-> Unused], FMMUfunc |-> [f \in 0 .. 3 |-> 0],
     details |-> <<0, 0, 0, 0>>, blockLRW |-> 0, Ebuscurrent |-> 0, name |-> <<>>,
     Obits |-> 0, Ibits |-> 0, Obytes |-> 0, Ibytes |-> 0,
     consumedports |-> {}, entryport |-> 0, parentport |-> 0, pdelay |-> 0,
     DCrt |-> [p \in Ports |-> 0], DCnext |-> 0, DCprevious |-> 0]

\* ecx_init_context.
Init ==
    /\ net \in Networks
    /\ pc = "detect"
    /\ slave = 1
    /\ sl = <<>>
    /\ all = [blockLRW |-> 0, Ebuscurrent |-> 0, hasdc |-> FALSE, DCnext |-> 0]
    /\ esc = [i \in Slaves |-> [adr |-> 0, al |-> PRE_OP, eepdat |-> Nothing,
                                sm |-> [m \in 0 .. EC_MAXSM - 1 |-> Unused], latched |-> FALSE,
                                sysdelay |-> 0]]
    /\ esi = [slave |-> 0, zeros |-> {}]
    /\ ht = 0
    /\ parenthold = 0
    /\ prevDCslave = 0
    /\ sync = [i \in {} |-> 0]
    /\ losses = 0
    /\ misread = {}
    /\ untimed = {}
    /\ unread = {}
    /\ unmapped = {}

\* At most one of the datagrams of a step is lost.
Lost(datagrams) == {"none"} \cup IF losses < net.losses THEN datagrams ELSE {}
Counted(lost) == losses' = IF lost = "none" THEN losses ELSE losses + 1

NextSlave(this, next) ==
    IF slave < Len(sl) THEN slave' = slave + 1 /\ pc' = this ELSE slave' = 1 /\ pc' = next

-----------------------------------------------------------------------------
(* Detection and identification                                            *)

\* ecx_detect_slaves and ecx_set_slaves_to_default.
Detect ==
    /\ pc = "detect"
    /\ pc' = "address"
    /\ sl' = [i \in Slaves |-> Blank]
    /\ esc' = [i \in Slaves |-> [esc[i] EXCEPT !.al = INIT, !.sm = [m \in 0 .. EC_MAXSM - 1 |-> Unused]]]
    /\ UNCHANGED <<net, slave, all, esi, clockVars, losses, historyVars>>

\* ecx_readeeprom1: the EEPROM fetches a word, unless the command was lost.
\* ecx_readeeprom2: what it fetched last, or 0.
Fetch(word, lost) == esc' = IF lost = "ask" THEN esc ELSE [esc EXCEPT ![slave].eepdat = Dev(slave).words[word]]
Fetched(lost) == IF lost = "get" THEN Nothing ELSE esc[slave].eepdat
Misreads(words, lost) == misread' = IF lost \in words THEN misread \cup {slave} ELSE misread
Unmaps(words, lost) == unmapped' = IF lost \in words THEN unmapped \cup {slave} ELSE unmapped

\* The station address.
SetAddress ==
    /\ pc = "address"
    /\ \E lost \in Lost({"ask"}) :
        /\ sl' = [sl EXCEPT ![slave].configadr = slave]
        /\ esc' = [esc EXCEPT ![slave].adr = slave,
                              ![slave].eepdat = IF lost = "ask" THEN @ ELSE Dev(slave).words[MANUF]]
        /\ Misreads({"ask"}, lost)
        /\ Counted(lost)
    /\ NextSlave("address", "man")
    /\ UNCHANGED <<net, all, esi, clockVars, untimed, unread, unmapped>>

ReadManufacturer ==
    /\ pc = "man"
    /\ \E lost \in Lost({"get", "ask"}) :
        /\ sl' = [sl EXCEPT ![slave].man = Fetched(lost)]
        /\ Fetch(ID, lost)
        /\ Misreads({"get", "ask"}, lost)
        /\ Counted(lost)
    /\ NextSlave("man", "id")
    /\ UNCHANGED <<net, all, esi, clockVars, untimed, unread, unmapped>>

ReadProduct ==
    /\ pc = "id"
    /\ \E lost \in Lost({"get", "ask"}) :
        /\ sl' = [sl EXCEPT ![slave].id = Fetched(lost)]
        /\ Fetch(REV, lost)
        /\ Misreads({"get", "ask"}, lost)
        /\ Counted(lost)
    /\ NextSlave("id", "rev")
    /\ UNCHANGED <<net, all, esi, clockVars, untimed, unread, unmapped>>

ReadRevision ==
    /\ pc = "rev"
    /\ \E lost \in Lost({"get", "ask"}) :
        /\ sl' = [sl EXCEPT ![slave].rev = Fetched(lost)]
        /\ Fetch(RXMBXADR, lost)
        /\ Misreads({"get"}, lost)
        /\ Unmaps({"ask"}, lost)
        /\ Counted(lost)
    /\ NextSlave("rev", "mbx")
    /\ UNCHANGED <<net, all, esi, clockVars, untimed, unread>>

\* Only a slave that seems to have a mailbox is asked for the other one.
ReadMailbox ==
    /\ pc = "mbx"
    /\ \E lost \in Lost({"get", "ask"}) :
        /\ sl' = [sl EXCEPT ![slave].mbx_wo = Fetched(lost)[1], ![slave].mbx_l = Fetched(lost)[2]]
        /\ IF Fetched(lost)[2] > 0 THEN Fetch(TXMBXADR, lost) ELSE lost # "ask" /\ UNCHANGED esc
        /\ Unmaps({"get", "ask"}, lost)
        /\ Counted(lost)
    /\ NextSlave("mbx", "setup")
    /\ UNCHANGED <<net, all, esi, clockVars, misread, untimed, unread>>

-----------------------------------------------------------------------------
(* The configuration of a slave (the last loop of ecx_config_init)         *)

\* The ports of slave i in the network that lead somewhere.
OpenPorts(i) == {0} \cup {net.port[j] : j \in {k \in Slaves : net.parent[k] = i}}

WithTopology(s, ports) == [s EXCEPT !.activeports = ports, !.topology = Cardinality(ports)]

\* Mutant: the ends of branches are not counted.
EndpointCount_NoEnds(topology) == CASE topology = 3 -> 1 [] topology = 4 -> 2 [] OTHER -> 0

\* What a slave passed on the way back adds to topoc.
EndpointCount(topology) ==
    CASE topology = 1 -> -1 [] topology = 3 -> 1 [] topology = 4 -> 2 [] OTHER -> 0

\* The search for the parent: back over the slaves before, until more forks than ends were passed.
FindParent(i) ==
    LET Count[c \in 1 .. i - 1] ==
            EndpointCount(sl[c].topology) + IF c = i - 1 THEN 0 ELSE Count[c + 1]
    IN  IF i = 1 THEN 0 ELSE Max({c \in 1 .. i - 1 : (Count[c] >= 0 /\ sl[c].topology > 1) \/ c = 1})

EC_DEFAULTMBXSM0 == [Creg |-> 38, Activate |-> 1]
EC_DEFAULTMBXSM1 == [Creg |-> 34, Activate |-> 1]
MailboxSM(start, length, flags) ==
    [StartAddr |-> start, SMlength |-> length, Creg |-> flags.Creg, Activate |-> flags.Activate]

WithMailbox(s, tx, proto) ==
    LET rl == IF tx[2] = 0 THEN s.mbx_l ELSE tx[2]
    IN  IF s.mbx_l = 0 THEN s
        ELSE [s EXCEPT !.mbx_ro = tx[1], !.mbx_rl = rl, !.mbx_proto = proto[1],
                       !.SMtype = [m \in DOMAIN @ |-> IF m < 4 THEN m + 1 ELSE @[m]],
                       !.SM[0] = MailboxSM(s.mbx_wo, s.mbx_l, EC_DEFAULTMBXSM0),
                       !.SM[1] = MailboxSM(tx[1], rl, EC_DEFAULTMBXSM1)]

\* ec_findconfig and ecx_config_from_table: the entry of the table, and the slave configured by it.
ec_findconfig(s) ==
    LET found == {c \in DOMAIN Table : Table[c].man = s.man /\ Table[c].id = s.id}
    IN  IF found = {} THEN 0 ELSE Min(found)
\* The sync manager of a direction: the one of a slave without mailbox, or the one of the table.
Outputs == [simple |-> 0, complex |-> 2, type |-> 3, sm |-> [StartAddr |-> 3840, Creg |-> 68, Activate |-> 1]]
Inputs == [simple |-> 1, complex |-> 3, type |-> 4, sm |-> [StartAddr |-> 4096, Creg |-> 0, Activate |-> 0]]
ProcessSM(s, bits, dir, sm) ==
    LET simple == bits > 0 /\ sm[dir.complex].StartAddr = 0
        used == IF simple THEN dir.simple ELSE dir.complex
        set == IF simple THEN dir.sm ELSE sm[dir.complex]
        listed == [s EXCEPT !.SM[dir.complex] = sm[dir.complex] @@ @]
    IN  [listed EXCEPT !.SM[used] = [SMlength |-> Bytes(bits)] @@ set, !.SMtype[used] = dir.type]
ecx_config_from_table(s, c) ==
    LET t == Table[c]
        sized == [s EXCEPT !.configindex = c, !.name = t.name, !.Ibits = t.Ibits, !.Obits = t.Obits,
                           !.FMMUfunc[0] = IF t.Obits > 0 THEN 1 ELSE @,
                           !.FMMUfunc[1] = IF t.Ibits > 0 THEN 2 ELSE @]
    IN  ProcessSM(ProcessSM(sized, t.Obits, Outputs, t.SM), t.Ibits, Inputs, t.SM)

\* Mutant: the revision is not compared.
SameId_NoRevision(s, r) == s.man = r.man /\ s.id = r.id

SameId(s, r) == s.man = r.man /\ s.id = r.id /\ s.rev = r.rev

\* The first slave before i with the same identity, 0 if there is none.
Twin(i) ==
    LET twins == {j \in 1 .. i - 1 : SameId(sl[j], sl[i])}
    IN  IF twins = {} THEN 0 ELSE Min(twins)

\* ecx_lookup_prev_sii.
CopySii(s, from) ==
    [s EXCEPT !.details = from.details, !.blockLRW = IF from.blockLRW > 0 THEN 1 ELSE @,
              !.Ebuscurrent = from.Ebuscurrent, !.name = from.name, !.SM = from.SM,
              !.FMMUfunc = from.FMMUfunc]

NoName == <<63>>   \* stands for the name made of the identity
ReadSii(s, img) ==
    LET general == ecx_siifind(img, ECT_SII_GENERAL)
        sms == SyncManagers(img)
        fmmu == ecx_siiFMMU(img)
        Kept(f) == fmmu.nFMMU = 0 \/ fmmu.func[f] = 255
        Detail(k) == GetByte(img, general + 6 + k)
    IN  [s EXCEPT
            !.details = IF general > 0 THEN [k \in 1 .. 4 |-> Detail(k)] ELSE @,
            !.blockLRW = IF general > 0 /\ (GetByte(img, general + 13) \div 2) % 2 = 1 THEN 1 ELSE @,
            !.Ebuscurrent = IF general > 0 THEN GetWord(img, general + 14) ELSE @,
            !.name = IF ecx_siifind(img, ECT_SII_STRING) > 0 THEN ecx_siistring(img, 1, <<>>) ELSE NoName,
            !.SM = [m \in DOMAIN @ |-> IF m \in DOMAIN sms THEN sms[m] ELSE @[m]],
            !.FMMUfunc = [f \in DOMAIN @ |-> IF Kept(f) THEN @[f] ELSE fmmu.func[f]]]

\* A mailbox without addresses gets the default ones.
ProperMailbox(s) ==
    LET Default(sm, start, flags) == IF sm.StartAddr = 0 THEN MailboxSM(start, 128, flags) ELSE sm
    IN  IF s.mbx_l = 0 THEN s
        ELSE [s EXCEPT !.SM[0] = Default(@, 4096, EC_DEFAULTMBXSM0),
                       !.SM[1] = Default(@, 4224, EC_DEFAULTMBXSM1),
                       !.SMtype[0] = IF s.SM[0].StartAddr = 0 THEN 1 ELSE @,
                       !.SMtype[1] = IF s.SM[1].StartAddr = 0 THEN 2 ELSE @]

\* What ecx_siigetbyte finds in the image of slave i: a read that is lost puts four zeros into the
\* cache, which is kept until another slave is read.  "lost" is the address of this read, 0 for none.
ReadAddresses(i) == {a \in DOMAIN Dev(i).image : a % 2 = 0}
Cached(i, lost) ==
    [slave |-> i, zeros |-> (IF esi.slave = i THEN esi.zeros ELSE {})
                                \cup IF lost = 0 THEN {} ELSE lost .. lost + 3]
ImageOf(i, cache) ==
    LET img == Dev(i).image IN IF cache.zeros = {} THEN img
                               ELSE [a \in DOMAIN img |-> IF a \in cache.zeros THEN 0 ELSE img[a]]
LostSii(i) == {0} \cup IF losses < net.losses THEN ReadAddresses(i) ELSE {}

\* The pass of the loop: the other half of the mailbox, topology, parent, configuration by the table,
\* an earlier slave or the image, sync managers, PRE_OP.
FromTable == IF net.start.usetable THEN ec_findconfig(sl[slave]) ELSE 0
ReadsSii == FromTable = 0 /\ Twin(slave) = 0
Configure(s, cache) ==
    CASE FromTable > 0 -> ecx_config_from_table(s, FromTable)
      [] FromTable = 0 /\ ~ReadsSii -> CopySii(s, sl[Twin(slave)])
      [] ReadsSii -> ReadSii(s, ImageOf(slave, cache))

\* What the pass makes of the slave when one of its datagrams is lost.
MailboxDatagrams == {"txmbx", "askproto", "proto", "sm"}
SetUp(lost, cache) ==
    LET tx == IF lost = "txmbx" THEN Nothing ELSE esc[slave].eepdat
        proto == CASE lost = "proto" -> Nothing
                   [] lost = "askproto" -> esc[slave].eepdat
                   [] OTHER -> Dev(slave).words[MBXPROTO]
        ports == IF lost = "dlstat" THEN {} ELSE OpenPorts(slave)
        placed == [WithTopology(sl[slave], ports) EXCEPT
                    !.hasdc = slave \in net.clock /\ lost # "escsup", !.parent = FindParent(slave)]
    IN  Configure(WithMailbox(placed, tx, proto), cache)

ConfigureSlave ==
    /\ pc = "setup"
    /\ \E lost \in Lost({"escsup", "dlstat"} \cup (IF net.start.manual THEN {} ELSE {"preop"})
                            \cup IF sl[slave].mbx_l > 0 THEN MailboxDatagrams ELSE {}),
          lostSii \in IF ReadsSii THEN LostSii(slave) ELSE {0} :
        LET cache == IF ReadsSii THEN Cached(slave, lostSii) ELSE esi
            s == SetUp(lost, cache)
            ready == ProperMailbox(s)
            programmed == {m \in 0 .. 1 : ready.mbx_l > 0 /\ lost # "sm"}
            from == IF FromTable = 0 /\ ~ReadsSii THEN {Twin(slave)} ELSE {}
        IN  /\ lost = "none" \/ lostSii = 0
            /\ sl' = [sl EXCEPT ![slave] = ready]
            /\ all' = IF FromTable > 0 THEN all
                      ELSE [all EXCEPT !.blockLRW = @ + s.blockLRW, !.Ebuscurrent = @ + s.Ebuscurrent]
            /\ esc' = [esc EXCEPT ![slave].sm = [m \in DOMAIN @ |-> IF m \in programmed THEN ready.SM[m] ELSE @[m]],
                                  ![slave].al = IF net.start.manual \/ lost = "preop" THEN @ ELSE PRE_OP]
            /\ esi' = cache
            /\ losses' = IF lost = "none" /\ lostSii = 0 THEN losses ELSE losses + 1
            /\ untimed' = IF lost = "escsup" THEN untimed \cup {slave} ELSE untimed
            /\ unread' = IF lostSii # 0 \/ from \cap unread # {} THEN unread \cup {slave} ELSE unread
            /\ Unmaps(MailboxDatagrams \cup {"preop"}, lost)
    /\ NextSlave("setup", "map")
    /\ UNCHANGED <<net, clockVars, misread>>

-----------------------------------------------------------------------------
(* ecx_config_find_mappings                                                *)

ECT_MBXPROT_COE == 4
ECT_MBXPROT_SOE == 16
ECT_COEDET_SDOCA == 32
Has(word, bit) == (word \div bit) % 2 = 1
WithLengths(s, bits) ==
    [s EXCEPT !.SM = [m \in DOMAIN @ |-> IF m \in DOMAIN bits THEN [@[m] EXCEPT !.SMlength = Bytes(bits[m])]
                                         ELSE @[m]]]

\* The CoE part: Complete Access if the slave offers it, entry by entry if that found nothing.
MapByCoE(s, od, silent) ==
    LET whole == IF Has(s.details[1], ECT_COEDET_SDOCA) THEN ecx_readPDOmapCA(s, od, silent)
                 ELSE [slave |-> s, bits |-> <<0, 0>>]
    IN  IF whole.bits = <<0, 0>> THEN ecx_readPDOmap(whole.slave, od, silent) ELSE whole

\* The slave is in PRE_OP and answers in the mailbox that it has.
Answers(i) ==
    /\ esc[i].al = PRE_OP
    /\ <<sl[i].mbx_wo, sl[i].mbx_l>> = Dev(i).words[RXMBXADR]
    /\ sl[i].mbx_ro = Dev(i).words[TXMBXADR][1]
    /\ \A m \in {0, 1} : esc[i].sm[m] = sl[i].SM[m]

\* The reads that get no answer: none; one of them; or all.
Silences(i) ==
    LET coe == {r \in CoEReads(Dev(i).od) : r[2] = CA <=> Has(sl[i].details[1], ECT_COEDET_SDOCA)}
        reads == (IF Has(sl[i].mbx_proto, ECT_MBXPROT_COE) THEN coe ELSE {})
                    \cup (IF Has(sl[i].mbx_proto, ECT_MBXPROT_SOE) THEN SoEReads(Dev(i).drives) ELSE {})
        allReads == CoEReads(Dev(i).od) \cup SoEReads(Dev(i).drives)
    IN  IF sl[i].mbx_proto = 0 \/ sl[i].configindex > 0 THEN {{}}
        ELSE IF ~Answers(i) THEN {allReads}
        ELSE {{}} \cup IF losses = net.losses THEN {} ELSE {{r} : r \in reads} \cup {allReads}

\* Silences that the mapping does not suffer from: a Complete Access to the list of types is made good
\* for by reading entry by entry.
MadeGood(silent) == silent \subseteq {<<ECT_SDO_SMCOMMTYPE, CA>>}

\* ecx_map_coe_soe: the sizes from CoE, else from SoE.
MapCoeSoe ==
    /\ pc = "map"
    /\ \E silent \in Silences(slave) :
        LET s == sl[slave]
            coe == IF Has(s.mbx_proto, ECT_MBXPROT_COE) THEN MapByCoE(s, Dev(slave).od, silent)
                   ELSE [slave |-> s, bits |-> <<0, 0>>]
            bySoe == coe.bits = <<0, 0>> /\ Has(s.mbx_proto, ECT_MBXPROT_SOE)
            bits == IF bySoe THEN ecx_readIDNmap(Dev(slave).drives, silent) ELSE coe.bits
            mapped == IF bySoe THEN WithLengths(coe.slave, (2 :> bits[1]) @@ (3 :> bits[2])) ELSE coe.slave
        IN  /\ sl' = IF s.configindex > 0 THEN sl
                     ELSE [sl EXCEPT ![slave] = [mapped EXCEPT !.Obits = bits[1], !.Ibits = bits[2]]]
            /\ unmapped' = IF MadeGood(silent) THEN unmapped ELSE unmapped \cup {slave}
            /\ losses' = IF silent = {} \/ ~Answers(slave) THEN losses ELSE losses + 1
    /\ NextSlave("map", "mapped")
    /\ UNCHANGED <<net, all, esc, esi, clockVars, misread, untimed, unread>>

\* ecx_lookup_mapping.
CopyMapping(s, from) ==
    [s EXCEPT !.SM = [m \in DOMAIN @ |-> [@[m] EXCEPT !.SMlength = from.SM[m].SMlength]],
              !.SMtype = from.SMtype, !.Obits = from.Obits, !.Ibits = from.Ibits]

\* The mapping that the image describes.
MapBySii(s, img) ==
    LET in == ecx_siiPDO(img, 0)
        out == ecx_siiPDO(img, 1)
        Length(m) == IF out.SMbitsize[m] > 0 THEN Bytes(out.SMbitsize[m])
                     ELSE IF in.SMbitsize[m] > 0 THEN Bytes(in.SMbitsize[m]) ELSE s.SM[m].SMlength
        Type(m) == IF out.SMbitsize[m] > 0 THEN 3 ELSE IF in.SMbitsize[m] > 0 THEN 4 ELSE s.SMtype[m]
    IN  [s EXCEPT !.SM = [m \in DOMAIN @ |-> [@[m] EXCEPT !.SMlength = Length(m)]],
                  !.SMtype = [m \in DOMAIN @ |-> Type(m)], !.Obits = out.Size, !.Ibits = in.Size]

\* Mutant: a slave without outputs counts as one whose mapping is not known.
Unknown_OutputsOnly(s) == s.Obits = 0

Unknown(s) == s.Obits = 0 /\ s.Ibits = 0

\* ecx_map_sii: an unknown mapping is copied from the slave before with the same identity, and read
\* from the image if it is still unknown.
Copies(i) == Unknown(sl[i]) /\ Twin(i) > 0
Copied(i) == IF Copies(i) THEN CopyMapping(sl[i], sl[Twin(i)]) ELSE sl[i]
ecx_map_sii(i, cache) == IF Unknown(Copied(i)) THEN MapBySii(Copied(i), ImageOf(i, cache)) ELSE Copied(i)

\* A sync manager is enabled when it has a length.
Enabled(sm) == [sm EXCEPT !.Activate = IF sm.SMlength = 0 THEN 0 ELSE 1]

\* ecx_map_sm: the sync managers are programmed, and the bytes counted.
ecx_map_sm(s) ==
    [s EXCEPT !.SM = [m \in DOMAIN @ |-> IF m > 1 /\ @[m].StartAddr > 0 THEN Enabled(@[m]) ELSE @[m]],
              !.Ibytes = IF s.Ibits > 7 THEN Bytes(s.Ibits) ELSE @,
              !.Obytes = IF s.Obits > 7 THEN Bytes(s.Obits) ELSE @]
ProgrammedSMs(s) == {m \in DOMAIN s.SM : s.SM[m].StartAddr > 0 /\ (m > 1 \/ s.mbx_l = 0)}

\* No result of a write is looked at.
MapSlave ==
    /\ pc = "mapped"
    /\ \E lostSii \in IF Unknown(Copied(slave)) THEN LostSii(slave) ELSE {0} :
        LET cache == IF Unknown(Copied(slave)) THEN Cached(slave, lostSii) ELSE esi
            s == ecx_map_sm(ecx_map_sii(slave, cache))
        IN  \E lost \in {{}} \cup IF losses < net.losses /\ lostSii = 0 THEN {{m} : m \in ProgrammedSMs(s)} ELSE {} :
            /\ sl' = [sl EXCEPT ![slave] = s]
            /\ esc' = [esc EXCEPT ![slave].sm = [m \in DOMAIN @ |->
                          IF m \in ProgrammedSMs(s) \ lost THEN s.SM[m] ELSE @[m]]]
            /\ esi' = cache
            /\ unmapped' = IF lostSii # 0 \/ lost # {} \/ (Copies(slave) /\ Twin(slave) \in unmapped)
                           THEN unmapped \cup {slave} ELSE unmapped
            /\ losses' = IF lostSii = 0 /\ lost = {} THEN losses ELSE losses + 1
    /\ NextSlave("mapped", "latch")
    /\ UNCHANGED <<net, all, clockVars, misread, untimed, unread>>

-----------------------------------------------------------------------------
(* The clocks                                                              *)

\* How the frame that latches the times travels: what slave i and those behind it take, and when the
\* frame comes to a slave and back to its ports.
Behind(i) == {j \in Slaves : net.parent[j] = i}
Rank(port) == CASE port = 3 -> 1 [] port = 1 -> 2 [] port = 2 -> 3
Trip[i \in 1 .. 9] == MapThenSumSet(LAMBDA j : 2 * net.delay[j] + Trip[j], Behind(i))
Before(i) == {j \in Behind(net.parent[i]) : Rank(net.port[j]) < Rank(net.port[i])}
Arrival[i \in 1 .. 9] ==
    IF i = 1 THEN 0
    ELSE Arrival[net.parent[i]] + net.delay[i]
            + MapThenSumSet(LAMBDA j : 2 * net.delay[j] + Trip[j], Before(i))
Return(i) == Arrival[i] + Trip[i] + net.delay[i]

\* The register of a port: the time of the slave's own clock; ports that lead nowhere keep 0.
Latched(i, p) ==
    IF p = 0 THEN Signed(Arrival[i] + net.offset[i])
    ELSE LET behind == {j \in Behind(i) : net.port[j] = p}
         IN  IF behind = {} THEN 0 ELSE Signed(Return(CHOOSE j \in behind : TRUE) + net.offset[i])

\* What the master reads: nothing was latched when the datagram that latches was lost.
PortTime(i, p) == IF esc[i].latched THEN Latched(i, p) ELSE 0

\* The clock of a slave ran over the largest signed number while the frame was behind it.
RanOver(i) == \E p \in OpenPorts(i) : Latched(i, p) < Latched(i, 0)

StartClocks ==
    /\ pc = "latch"
    /\ pc' = "clocks"
    /\ all' = [all EXCEPT !.hasdc = FALSE]
    /\ ht' = 0
    /\ \E lost \in Lost({"latch"}) :
        /\ esc' = IF lost = "latch" THEN esc ELSE [i \in Slaves |-> [esc[i] EXCEPT !.latched = TRUE]]
        /\ untimed' = IF lost = "latch" THEN Slaves ELSE untimed
        /\ Counted(lost)
    /\ UNCHANGED <<net, slave, sl, esi, parenthold, prevDCslave, sync, misread, unread, unmapped>>

\* The times of the four ports are read into one variable, in the order 0, 1, 2, 3: a lost read gives
\* the time before it once more.
DCTIME(p) == <<"time0", "time1", "time2", "time3">>[p + 1]
TimesRead(i, lost) ==
    [p \in Ports |-> IF DCTIME(p) = lost THEN (IF p = 0 THEN ht ELSE PortTime(i, p - 1)) ELSE PortTime(i, p)]

Chained(i) ==
    [j \in DOMAIN sl |->
        IF j = prevDCslave THEN [sl[j] EXCEPT !.DCnext = i]
        ELSE IF j = i THEN [sl[j] EXCEPT !.DCprevious = prevDCslave, !.consumedports = sl[j].activeports]
        ELSE sl[j]]

MeasureClock ==
    /\ pc = "clocks"
    /\ sl[slave].hasdc
    /\ \E lost \in Lost({DCTIME(p) : p \in Ports} \cup {"delay"}) :
        LET timed == [Chained(slave) EXCEPT ![slave].DCrt = TimesRead(slave, lost)]
        IN  \E entry \in EntryPorts(timed[slave]) :
            LET done == WithClock(timed, slave, entry)
            IN  /\ sl' = done
                /\ ht' = IF DCParent(timed, slave).parent > 0 THEN done[slave].pdelay
                         ELSE done[slave].DCrt[3]
                /\ esc' = IF DCParent(timed, slave).parent > 0 /\ lost # "delay"
                          THEN [esc EXCEPT ![slave].sysdelay = done[slave].pdelay] ELSE esc
                /\ untimed' = IF lost = "none" THEN untimed ELSE untimed \cup {slave}
                /\ Counted(lost)
    /\ all' = IF all.hasdc THEN all ELSE [all EXCEPT !.hasdc = TRUE, !.DCnext = slave]
    /\ parenthold' = 0
    /\ prevDCslave' = slave
    /\ NextSlave("clocks", "ready")
    /\ UNCHANGED <<net, esi, sync, misread, unread, unmapped>>

PassClockless ==
    /\ pc = "clocks"
    /\ ~sl[slave].hasdc
    /\ LET open == [sl EXCEPT ![slave].consumedports = sl[slave].activeports]
       IN  /\ sl' = WithoutClock(open, slave, parenthold)
           /\ parenthold' = IF BranchEnds(open, slave, parenthold) THEN 0
                            ELSE HeldParent(open, slave, parenthold)
    /\ NextSlave("clocks", "ready")
    /\ UNCHANGED <<net, all, esc, esi, ht, prevDCslave, sync, losses, historyVars>>

-----------------------------------------------------------------------------
(* The application sets the pulses of the slaves, one after the other      *)

\* The system time, in the slaves that have one, when the pulses of slave i are set.
SystemTime(i) == net.start.time + 3 * i

SetSync ==
    /\ pc = "ready"
    /\ slave \in Slaves
    /\ net.start.pulses
    /\ slave' = slave + 1
    /\ \E lost \in Lost({"time"}), act \in BOOLEAN, cycle0 \in Cycles, shift \in {0, 1} :
       \E pulses \in {ecx_dcsync0(IF lost = "none" THEN SystemTime(slave) ELSE 0, act, cycle0, shift)}
                \cup {ecx_dcsync01(IF lost = "none" THEN SystemTime(slave) ELSE 0, act, cycle0, cycle1, shift)
                        : cycle1 \in IF cycle0 > 0 THEN Cycles ELSE {}} :
        /\ sync' = IF slave \in net.clock THEN (slave :> [pulses |-> pulses, shift |-> shift]) @@ sync ELSE sync
        /\ untimed' = IF lost = "none" THEN untimed ELSE untimed \cup {slave}
        /\ Counted(lost)
    /\ UNCHANGED <<net, pc, sl, all, esc, esi, ht, parenthold, prevDCslave, misread, unread, unmapped>>

Rest ==
    /\ pc = "ready"
    /\ slave \notin Slaves \/ ~net.start.pulses
    /\ UNCHANGED vars

-----------------------------------------------------------------------------

ecx_config_init ==
    Detect \/ SetAddress \/ ReadManufacturer \/ ReadProduct \/ ReadRevision \/ ReadMailbox \/ ConfigureSlave
ecx_config_find_mappings == MapCoeSoe \/ MapSlave
ecx_configdc == StartClocks \/ MeasureClock \/ PassClockless

Next == ecx_config_init \/ ecx_config_find_mappings \/ ecx_configdc \/ SetSync \/ Rest

Spec == Init /\ [][Next]_vars
=============================================================================
