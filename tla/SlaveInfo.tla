----------------------------- MODULE SlaveInfo -----------------------------
(***************************************************************************)
(* The mapping that slaveinfo lists (slaveinfo.c, option -map): it reads   *)
(* the object dictionary, or the EEPROM of a slave without CoE, a second   *)
(* time, with loops of its own.  A listing is the lines printed for one    *)
(* direction and the bits counted; a line is the place that the listing    *)
(* gives an entry in the I/O map, in bytes from "map", where the slave's   *)
(* data start, and its bits.                                               *)
(***************************************************************************)
EXTENDS PdoMap
LOCAL INSTANCE SequencesExt

\* Entries are [bits, shown]; each one comes behind the one before, shown or not.
Listing(entries, map) ==
    LET Before(e) == SumOver(e - 1, LAMBDA k : entries[k].bits)
        Line(e) == [offset |-> map + Before(e) \div 8, bit |-> Before(e) % 8, bits |-> entries[e].bits]
        shown == SelectSeq([e \in DOMAIN entries |-> e], LAMBDA e : entries[e].shown)
    IN  [lines |-> [k \in DOMAIN shown |-> Line(shown[k])],
         bits |-> SumOver(Len(entries), LAMBDA k : entries[k].bits)]

\* The entries of the PDOs that are assigned, fillers included.
si_PDOassign(od, silent, assign) ==
    LET Pdo(k) == ReadEntry(od, silent, assign, k)
        Entries(pdo) ==
            [e \in 1 .. ReadCount(od, silent, pdo) |-> [bits |-> ReadEntry(od, silent, pdo, e), shown |-> TRUE]]
    IN  FlattenSeq([k \in 1 .. ReadCount(od, silent, assign) |-> IF Pdo(k) > 0 THEN Entries(Pdo(k)) ELSE <<>>])

\* The sync managers from the third one: less than three count as none, and a type that gets no answer
\* lists nothing.  Unlike ecx_readPDOmap it takes type 0 as it is.
si_map_sdo(od, silent, map) ==
    LET nSM == ReadCount(od, silent, ECT_SDO_SMCOMMTYPE)
        last == IF nSM > 2 THEN Min({nSM - 1, EC_MAXSM}) ELSE 1
        reported == [m \in 2 .. EC_MAXSM |-> IF m > last THEN 0 ELSE ReadEntry(od, silent, ECT_SDO_SMCOMMTYPE, m + 1)]
        Assigned(type, m) ==
            IF SmType(reported, m) = type THEN si_PDOassign(od, silent, ECT_SDO_PDOASSIGN + m) ELSE <<>>
        Direction(type) == FlattenSeq([k \in 1 .. last - 1 |-> Assigned(type, k + 1)])
    IN  <<Listing(Direction(3), map[1]), Listing(Direction(4), map[2])>>

\* The entries of the PDOs of a section that belong to a sync manager, one after the other, whichever
\* sync manager it is; a filler, index 0 and subindex 0, is not shown.
si_siiPDO(img, t) ==
    LET a == ecx_siifind(img, ECT_SII_PDO + t)
        first == a + 2
        length == GetWord(img, a)
        Entry(at) == [bits |-> GetByte(img, at + 5), shown |-> GetWord(img, at) # 0 \/ GetByte(img, at + 2) # 0]
        Entries(at) == IF PdoSyncM(img, at) >= EC_MAXSM THEN <<>>
                       ELSE [er \in 1 .. GetByte(img, at + 2) |-> Entry(at + 8 * er)]
        From[at \in Nat, k \in Nat] ==
            Entries(at) \o IF PdosEnd(img, first, length, at, k) THEN <<>> ELSE From[PdoNext(img, at), k + 1]
    IN  IF a = 0 THEN <<>> ELSE From[first, 1]

si_map_sii(img, map) == <<Listing(si_siiPDO(img, 1), map[1]), Listing(si_siiPDO(img, 0), map[2])>>

=============================================================================
