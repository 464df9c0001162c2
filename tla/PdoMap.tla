------------------------------- MODULE PdoMap -------------------------------
(***************************************************************************)
(* What the master makes of the mapping a slave reports itself: the object *)
(* dictionary through CoE (ecx_readPDOmap and ecx_readPDOmapCA of          *)
(* ethercatcoe.c), the lists of IDNs through SoE (ecx_readIDNmap of        *)
(* ethercatsoe.c).                                                         *)
(*                                                                         *)
(* A dictionary od gives an index the sequence of its entries from         *)
(* subindex 1, an entry of a PDO being the bits it maps; drives gives each *)
(* drive its lists [out, in] of IDN lengths.  "silent" are the reads that  *)
(* get no answer: <<index, subindex>>, the subindex of a Complete Access   *)
(* being CA.  Each operator returns the bits found, <<outputs, inputs>>,   *)
(* with the slave as it leaves it.                                         *)
(***************************************************************************)
EXTENDS Sii

ECT_SDO_SMCOMMTYPE == 7168  \* 0x1c00
ECT_SDO_PDOASSIGN == 7184   \* 0x1c10
CA == -1

Bytes(bits) == (bits + 7) \div 8

\* ecx_SDOread of the number of entries and of an entry, 0 when there is no answer; and of a whole
\* object, empty then.
ReadCount(od, silent, index) == IF <<index, 0>> \in silent \/ index \notin DOMAIN od THEN 0 ELSE Len(od[index])
ReadEntry(od, silent, index, sub) == IF <<index, sub>> \in silent THEN 0 ELSE od[index][sub]
ReadWhole(od, silent, index) == IF <<index, CA>> \in silent \/ index \notin DOMAIN od THEN <<>> ELSE od[index]

SumOver(n, F(_)) == MapThenSumSet(F, 1 .. n)

\* The bits of the PDOs that are assigned: an entry that gets no answer counts nothing.
ecx_readPDOassign(od, silent, assign) ==
    LET Pdo(k) == ReadEntry(od, silent, assign, k)
        BitsOf(pdo) == SumOver(ReadCount(od, silent, pdo), LAMBDA e : ReadEntry(od, silent, pdo, e))
    IN  SumOver(ReadCount(od, silent, assign), LAMBDA k : IF Pdo(k) > 0 THEN BitsOf(Pdo(k)) ELSE 0)

ecx_readPDOassignCA(od, silent, assign) ==
    LET assigned == ReadWhole(od, silent, assign)
        BitsOf(pdo) == LET w == ReadWhole(od, silent, pdo) IN SumOver(Len(w), LAMBDA e : w[e])
    IN  SumOver(Len(assigned), LAMBDA k : IF assigned[k] > 0 THEN BitsOf(assigned[k]) ELSE 0)

\* The type of sync manager m from those reported: slaves that count the types from 0 are corrected.
SmType(types, m) ==
    LET add == IF types[2] = 2 THEN 1 ELSE 0 IN IF types[m] > 0 THEN types[m] + add ELSE 0

\* The loop over the sync managers from the third one whose type is known: Assigned(m) are the bits of
\* the PDOs assigned to it.
OverSyncManagers(s, types, Assigned(_)) ==
    LET bits == [m \in DOMAIN types |-> IF types[m] \in {3, 4} THEN Assigned(m) ELSE 0]
        Total(t) == MapThenSumSet(LAMBDA m : IF types[m] = t THEN bits[m] ELSE 0, DOMAIN types)
        typed == [s EXCEPT
            !.SMtype = [m \in DOMAIN @ |-> IF m \in DOMAIN types THEN types[m] ELSE @[m]],
            !.SM = [m \in DOMAIN @ |->
                IF m \notin DOMAIN types THEN @[m]
                ELSE [@[m] EXCEPT !.Activate = IF types[m] = 0 THEN 0 ELSE @,
                                  !.SMlength = IF bits[m] > 0 THEN Bytes(bits[m]) ELSE @]]]
    IN  [slave |-> typed, bits |-> <<Total(3), Total(4)>>]

\* The sync managers that a count of them lets the loop reach.
Reached(nSM) == 2 .. Min({nSM, EC_MAXSM}) - 1

\* Without Complete Access a type that gets no answer leaves its sync manager alone, and type 0 of the
\* third and the fourth stands for outputs and inputs.
ecx_readPDOmap(s, od, silent) ==
    LET nSM == ReadCount(od, silent, ECT_SDO_SMCOMMTYPE)
        known == {m \in Reached(nSM) : <<ECT_SDO_SMCOMMTYPE, m + 1>> \notin silent}
        reported == [m \in 2 .. EC_MAXSM - 1 |-> IF m \in known THEN od[ECT_SDO_SMCOMMTYPE][m + 1] ELSE 0]
        Type(m) == LET t == SmType(reported, m) IN
                   IF t = 0 /\ m = 2 THEN 3 ELSE IF t = 0 /\ m = 3 THEN 4 ELSE t
    IN  OverSyncManagers(s, [m \in known |-> Type(m)],
                         LAMBDA m : ecx_readPDOassign(od, silent, ECT_SDO_PDOASSIGN + m))

ecx_readPDOmapCA(s, od, silent) ==
    LET whole == ReadWhole(od, silent, ECT_SDO_SMCOMMTYPE)
        reported == [m \in 2 .. EC_MAXSM - 1 |-> IF m < Len(whole) THEN whole[m + 1] ELSE 0]
    IN  OverSyncManagers(s, [m \in Reached(Len(whole)) |-> SmType(reported, m)],
                         LAMBDA m : ecx_readPDOassignCA(od, silent, ECT_SDO_PDOASSIGN + m))

\* The bits of the IDNs in a list: 8 times a power of two each, and a word that is always there; none
\* if the list got no answer or is empty.  "kind" tells the two lists of a drive apart.
ListBits(list, silent, drive, kind) ==
    IF <<drive, kind, 0>> \in silent \/ list = <<>> THEN 0
    ELSE 16 + SumOver(Len(list), LAMBDA k : IF <<drive, kind, k>> \in silent THEN 0 ELSE 8 * 2 ^ list[k])

\* The last drive that has a list sets the size; those before it are forgotten.
ecx_readIDNmap(drives, silent) ==
    LET Of(kind, list) ==
            LET sizes == [d \in 1 .. Len(drives) |-> ListBits(list[d], silent, d, kind)]
                found == {d \in DOMAIN sizes : sizes[d] > 0}
            IN  IF found = {} THEN 0 ELSE sizes[Max(found)]
    IN  <<Of("out", [d \in DOMAIN drives |-> drives[d].out]), Of("in", [d \in DOMAIN drives |-> drives[d].in])>>

\* The reads it takes.
CoEReads(od) ==
    {<<i, CA>> : i \in DOMAIN od} \cup UNION {{<<i, k>> : k \in 0 .. Len(od[i])} : i \in DOMAIN od}
SoEReads(drives) ==
    UNION {{<<d, "out", k>> : k \in 0 .. Len(drives[d].out)} \cup {<<d, "in", k>> : k \in 0 .. Len(drives[d].in)}
            : d \in DOMAIN drives}

=============================================================================
