-------------------------------- MODULE Sii --------------------------------
(***************************************************************************)
(* The slave information that ethercatmain.c finds in an EEPROM image: the *)
(* ecx_sii functions.  An image is a function from byte addresses to       *)
(* bytes; what it does not hold reads as 0xff, as erased memory and every  *)
(* address behind the cache do (ecx_siigetbyte).  How the bytes get into   *)
(* the cache is the subject of Eeprom.                                     *)
(***************************************************************************)
EXTENDS Integers, Sequences, FiniteSetsExt

ECT_SII_START == 64
ECT_SII_STRING == 10
ECT_SII_GENERAL == 30
ECT_SII_FMMU == 40
ECT_SII_SM == 41
ECT_SII_PDO == 50
NoMoreSections == 65535

EC_MAXSM == 8
EC_MAXNAME == 40
EC_MAXEEPDO == 512

GetByte(img, a) == IF a \in DOMAIN img THEN img[a] ELSE 255
GetWord(img, a) == GetByte(img, a) + 256 * GetByte(img, a + 1)

\* The address of the length of the first section of a category, 0 if there is none.  Addresses have
\* 16 bits.
ecx_siifind(img, cat) ==
    LET Skip[a \in Nat] ==
            IF GetWord(img, a) \in {cat, NoMoreSections} THEN a
            ELSE Skip[(a + 4 + 2 * GetWord(img, a + 2)) % 65536]
        found == Skip[2 * ECT_SII_START]
    IN  IF GetWord(img, found) = cat THEN found + 2 ELSE 0

\* String number Sn of the strings section; "keep" is what the caller's buffer held, which stays when
\* there is no such section.
ecx_siistring(img, Sn, keep) ==
    LET a == ecx_siifind(img, ECT_SII_STRING)
        \* the address of the length of string i
        At[i \in Nat] == IF i = 1 THEN a + 3 ELSE At[i - 1] + 1 + GetByte(img, At[i - 1])
        length == Min({GetByte(img, At[Sn]), EC_MAXNAME})
    IN  IF a = 0 THEN keep
        ELSE IF Sn > GetByte(img, a + 2) THEN <<>>
        ELSE [j \in 1 .. length |-> GetByte(img, At[Sn] + j)]

\* The functions of up to four FMMUs and how many the section defines.
ecx_siiFMMU(img) ==
    LET a == ecx_siifind(img, ECT_SII_FMMU)
        n == 2 * GetWord(img, a)
        read == IF n > 2 THEN 0 .. 3 ELSE 0 .. 1
    IN  IF a = 0 THEN [nFMMU |-> 0, func |-> [f \in 0 .. 3 |-> 0]]
        ELSE [nFMMU |-> n, func |-> [f \in 0 .. 3 |-> IF f \in read THEN GetByte(img, a + 2 + f) ELSE 0]]

\* Sync manager n of the section that starts at a.
SyncManagerAt(img, a, n) ==
    LET at == a + 2 + 8 * n
    IN  [StartAddr |-> GetWord(img, at), SMlength |-> GetWord(img, at + 2),
         Creg |-> GetByte(img, at + 4), Activate |-> GetByte(img, at + 6)]

\* ecx_siiSM gives the number of sync managers and the first one, ecx_siiSMnext the others.
ecx_siiSM(img) ==
    LET a == ecx_siifind(img, ECT_SII_SM)
    IN  [Startpos |-> a, nSM |-> IF a = 0 THEN 0 ELSE GetWord(img, a) \div 4]

ecx_siiSMnext(img, sm, n) == SyncManagerAt(img, sm.Startpos, n)

\* The sync managers that ecx_config_init takes from the image.
SyncManagers(img) ==
    LET sm == ecx_siiSM(img)
    IN  [n \in 0 .. Min({sm.nSM, EC_MAXSM}) - 1 |-> ecx_siiSMnext(img, sm, n)]

\* The PDOs of the transmit (t = 0) or receive (t = 1) section: the size in bits of those that belong
\* to a sync manager, per sync manager and altogether.  The loop counts in words from 1 and runs at
\* least once.
PdoBits(img, at) == MapThenSumSet(LAMBDA er : GetByte(img, at + 8 * er + 5), 1 .. GetByte(img, at + 2)) % 65536
PdoSyncM(img, at) == GetByte(img, at + 3)
PdoNext(img, at) == at + 8 + 8 * GetByte(img, at + 2)
PdosEnd(img, first, length, at, k) == 1 + (PdoNext(img, at) - first) \div 2 >= length \/ k >= EC_MAXEEPDO - 1

ecx_siiPDO(img, t) ==
    LET a == ecx_siifind(img, ECT_SII_PDO + t)
        first == a + 2
        length == GetWord(img, a)
        From[at \in Nat, k \in Nat] ==
            IF PdosEnd(img, first, length, at, k) THEN {at} ELSE {at} \cup From[PdoNext(img, at), k + 1]
        pdos == IF a = 0 THEN {} ELSE From[first, 1]
        Of(m) == {at \in pdos : PdoSyncM(img, at) = m}
        Bits(S) == MapThenSumSet(LAMBDA at : PdoBits(img, at), S) % 65536
    IN  [Size |-> Bits(UNION {Of(m) : m \in 0 .. EC_MAXSM - 1}),
         SMbitsize |-> [m \in 0 .. EC_MAXSM - 1 |-> Bits(Of(m))]]

=============================================================================
