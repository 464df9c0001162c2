---------------------------- MODULE RegisterProofs ----------------------------
(***************************************************************************)
(* Proofs about what the master does with the registers of the slaves one  *)
(* datagram at a time: the access to the EEPROM (Eeprom), for any number   *)
(* of slaves, of words, of retries, of calls and of lost datagrams, and    *)
(* the recovery of slaves (SlaveStates), for any number of slaves, faults  *)
(* and lost datagrams.                                                     *)
(*                                                                         *)
(* Of the recovery: it never gives a slave's address to another device.    *)
(* The address is given to whatever is at the temporary address, so that   *)
(* the invariant says who can be there.                                    *)
(***************************************************************************)
EXTENDS Eeprom, SlaveStates, SequenceTheorems, FiniteSetTheorems, TLAPS

-----------------------------------------------------------------------------
(* The inductive invariant                                                 *)

Datum == {Zero, NotAvailable} \cup (Slaves \X Nat \X Nat)
ReadKinds == {"sii", "dump", "read"}
Kinds == ReadKinds \cup {"idle", "read1", "read2", "write", "alias", "pdi"}
Places == {"idle", "force", "tomaster", "topdi", "wait1", "clear", "data", "command", "wait2", "fetch", "end",
           "byte", "piece", "done"}
OpType == [kind : Kinds, s : Slaves \cup {None}, a : Word, data : Datum, eectl : BOOLEAN, out : Seq(Datum),
           rval : {0, 1}]
CommandType == [what : {"none", "read", "write"}, a : Word]

\* The registers of the slaves, the cache and the locals have their types.
RegistersOK ==
    /\ ee \in [Slaves -> [Word -> Datum]]
    /\ dat \in [Slaves -> Seq(Datum) \ {<<>>}] /\ \A s \in Slaves : Len(dat[s]) >= Width(s)
    /\ cmd \in [Slaves -> CommandType]
    /\ nack \in [Slaves -> BOOLEAN]
    /\ cfg \in [Slaves -> {"master", "pdi"}]
    /\ held \in [Slaves -> BOOLEAN]

LocalsOK ==
    /\ eep_pdi \in [Slaves -> BOOLEAN]
    /\ esislave \in Slaves \cup {None}
    /\ esimap \in SUBSET Buf
    /\ esibuf \in [Buf -> Datum]
    /\ tool \in BOOLEAN
    /\ op \in OpType
    /\ calls \in Nat
    /\ pc \in Places
    /\ nackcnt \in 0 .. 3
    /\ pending \in [Slaves -> [a : 0 .. MaxWord + 1, failed : BOOLEAN]]
    /\ failed \in BOOLEAN

\* Which calls are at which place.
ShapeInv ==
    /\ pc # "idle" => op.s \in Slaves /\ op.kind # "idle"
    /\ pc = "idle" => op.kind = "idle"
    /\ pc \in {"force", "tomaster", "wait1"} => op.kind \notin {"pdi", "idle"}
    /\ pc \in {"force", "tomaster"} => op.kind # "read2"
    /\ pc \in {"clear", "command"} => op.kind \in ReadKinds \cup {"read1", "write", "alias"}
    /\ pc = "data" => op.kind \in {"write", "alias"}
    /\ pc = "wait2" => op.kind \in ReadKinds \cup {"write", "alias"}
    /\ pc = "fetch" => op.kind \in ReadKinds \cup {"read2"}
    /\ pc = "end" => op.kind # "pdi"
    /\ pc = "byte" => op.kind = "sii"
    /\ pc = "piece" => op.kind \in {"sii", "dump"}
    /\ pc = "topdi" => op.kind \in {"pdi", "sii", "dump"}
    /\ pc \notin {"topdi", "end", "piece", "done"} => nackcnt < 3
    /\ op.kind = "sii" /\ pc \notin {"piece", "topdi", "done"} => op.out = Zero \/ Len(op.out) = Width(op.s)
    /\ op.kind = "sii" /\ pc \notin {"byte", "piece", "topdi", "done"} => op.a \in Buf
    /\ op.kind = "alias" => op.a \in {AliasWord, ChecksumWord}
    /\ tool => op.kind \in {"idle", "read", "write", "alias"}
    /\ op.kind = "alias" => tool

\* The master's note agrees with the register of the slave, except where a call is about to change both.
Settled(s) ==
    /\ eep_pdi[s] <=> cfg[s] = "pdi"
    /\ cfg[s] = "master" => ~held[s]
ControlInv ==
    ~tool => \A s \in Slaves \ unsure :
        \/ op.s = s /\ pc = "force"
        \/ op.s = s /\ pc = "tomaster" /\ Free(s)
        \/ op.s = s /\ pc = "topdi" /\ (eep_pdi[s] => cfg[s] = "pdi")
        \/ op.s # s /\ Settled(s)
        \/ pc \notin {"force", "tomaster", "topdi"} /\ Settled(s)

\* A call that looks for data takes the control and gives it back at its end.
RestoreInv ==
    op.kind \in {"sii", "dump"} =>
        /\ pc \notin {"topdi", "done"} => (eep_pdi[op.s] => op.eectl)
        /\ pc = "topdi" => op.eectl
        /\ pc = "done" => eep_pdi[op.s] = op.eectl

\* While the master works on an EEPROM it has the control of it.
AccessInv ==
    /\ pc \in {"tomaster", "wait1", "clear", "data", "command", "wait2", "fetch", "end"}
          \/ (pc = "piece" /\ op.kind = "dump")
    /\ op.kind # "read2"
    /\ op.s \notin unsure
    => Free(op.s)

\* The slave has a read command for a, or has refused it, or shows what it has read.
Commanded(s, w, a) == cmd[s] = [what |-> w, a |-> a]
Idles(s) == cmd[s] = NoCommand
Served(s, a) == Commanded(s, "read", a) \/ (Idles(s) /\ (nack[s] \/ dat[s] = Words(s, a)))

ReadingInv ==
    /\ op.kind \in ReadKinds \cup {"read1"} =>
        /\ pc = "clear" => Idles(op.s)
        /\ pc = "command" => Idles(op.s) \/ Commanded(op.s, "read", op.a)
        /\ pc = "wait2" => Served(op.s, op.a)
    /\ op.kind = "read2" /\ pc = "wait1" => Served(op.s, op.a)
    /\ pc = "fetch" => Idles(op.s) /\ dat[op.s] = Words(op.s, op.a)
    /\ \/ pc = "end" /\ op.kind \in ReadKinds \cup {"read2"}
       \/ pc = "piece" /\ op.kind = "dump"
       \/ pc = "done" /\ op.kind \in {"read", "read2"}
       => Idles(op.s) /\ op.out = Words(op.s, op.a)

WritingInv ==
    Writes =>
        /\ pc \in {"clear", "data"} => Idles(op.s)
        /\ pc \in {"command", "wait2"} => Head(dat[op.s]) = op.data
        /\ pc = "command" => Idles(op.s) \/ Commanded(op.s, "write", op.a)
        /\ pc = "wait2" => Commanded(op.s, "write", op.a)
                              \/ (Idles(op.s) /\ (nack[op.s] \/ ee[op.s][op.a] = op.data))
        /\ pc \in {"end", "done"} => Idles(op.s) /\ op.rval = 1 /\ ee[op.s][op.a] = op.data
        /\ op.kind = "alias" /\ op.a = ChecksumWord =>
              /\ Idles(op.s) \/ Commanded(op.s, "write", ChecksumWord)
              /\ ee[op.s][AliasWord] = op.data

\* An access that has not failed, to a slave whose control is certain.
TransferInv == ~failed /\ op.s \notin unsure => ReadingInv /\ WritingInv

\* The halves of parallel reads.
PendingInv ==
    /\ pc \notin {"idle", "done"} => pending[op.s] = NotPending
    /\ \A s \in Slaves :
        pending[s] # NotPending =>
            /\ ~tool /\ pending[s].a \in Word
            /\ ~pending[s].failed /\ s \notin unsure => Served(s, pending[s].a)

\* The words of the cache are those of its slave; no write that is under way changes one of them.
Trusted == esimap \ doubtful
CacheInv ==
    /\ tool \/ esislave \notin Slaves => esimap = {}
    /\ \A w \in Trusted : esislave \in unsure \/ esibuf[w] = ee[esislave][w]
    /\ \A s \in Slaves : s = esislave /\ cmd[s].what = "write" => cmd[s].a \notin Trusted
    /\ op.kind = "write" /\ op.s = esislave => op.a \notin Trusted
    /\ op.kind = "sii" /\ pc # "byte" => esislave = op.s
    /\ op.kind = "sii" /\ pc = "piece" =>
          \/ op.a \in esimap /\ op.out = <<esibuf[op.a]>>
          \/ op.a \notin Buf /\ op.out = <<NotAvailable>>

EepromInv ==
    /\ RegistersOK /\ LocalsOK
    /\ ShapeInv /\ ControlInv /\ RestoreInv /\ AccessInv /\ TransferInv /\ PendingInv /\ CacheInv

-----------------------------------------------------------------------------
(* Lemmas about the data                                                   *)

\* A datagram whose answer counts was executed.
LEMMA DatagramFacts ==
  ASSUME NEW r \in Results, Datagram(r)
  PROVE  r.done \in BOOLEAN /\ r.wkc \in {-1, 0, 1} /\ (r.wkc > 0 => r.done)
  BY DEF Results, Datagram, Outcomes

\* The cache holds the first words of an EEPROM.
LEMMA BufFacts == /\ Buf \subseteq Word
                  /\ 0 \in Buf
                  /\ \A w \in Buf : w \in Int
                  /\ Zero \in Datum /\ NotAvailable \in Datum
  BY EepromAssumption DEF Buf, Word, Datum

\* A read shows 4 or 8 bytes: the words from a on, round the end of the EEPROM.
LEMMA WordsFacts ==
  ASSUME RegistersOK, NEW s \in Slaves, NEW a \in Word
  PROVE  /\ Width(s) \in {2, 4}
         /\ Words(s, a) \in Seq(Datum) \ {<<>>}
         /\ Len(Words(s, a)) = Width(s)
         /\ \A i \in 1 .. Width(s) : a + i - 1 <= MaxWord => Words(s, a)[i] = ee[s][a + i - 1]
  <1> USE EepromAssumption
  <1>1. Width(s) \in {2, 4}
    BY DEF Width
  <1>2. \A i \in 1 .. Width(s) : (a + i - 1) % (MaxWord + 1) \in Word
    BY <1>1 DEF Word
  <1>3. \A i \in 1 .. Width(s) : ee[s][(a + i - 1) % (MaxWord + 1)] \in Datum
    BY <1>2 DEF RegistersOK
  <1>4. Words(s, a) \in Seq(Datum) /\ Len(Words(s, a)) = Width(s)
    BY <1>1, <1>3 DEF Words
  <1>5. ASSUME NEW i \in 1 .. Width(s), a + i - 1 <= MaxWord PROVE Words(s, a)[i] = ee[s][a + i - 1]
    <2>1. a + i - 1 \in Nat /\ MaxWord + 1 \in Nat /\ a + i - 1 < MaxWord + 1
      BY <1>1, <1>5 DEF Word
    <2>2. (a + i - 1) % (MaxWord + 1) = a + i - 1
      BY <2>1
    <2> QED
      BY <2>2 DEF Words
  <1> QED
    BY <1>1, <1>4, <1>5

\* Words depends on the EEPROM of its slave.
LEMMA WordsSame ==
  ASSUME NEW s \in Slaves, NEW a, ee'[s] = ee[s]
  PROVE  Words(s, a)' = Words(s, a)
  BY DEF Words

\* The first words of the data register, all of what was read.
LEMMA FetchedWords ==
  ASSUME RegistersOK, NEW s \in Slaves, NEW a \in Word, dat[s] = Words(s, a)
  PROVE  SubSeq(dat[s], 1, Width(s)) = Words(s, a)
  <1>1. Words(s, a) \in Seq(Datum) /\ Len(Words(s, a)) = Width(s) /\ Width(s) \in Nat
    BY WordsFacts
  <1> HIDE DEF Words
  <1> QED
    BY <1>1, SubSeqProperties

\* What a call is.
LEMMA CallFields ==
  ASSUME NEW k, NEW s, NEW a
  PROVE  LET o == Call(k, s, a) IN
         /\ o.kind = k /\ o.s = s /\ o.a = a /\ o.data = <<s, a, calls + 1>> /\ o.eectl = eep_pdi[s]
         /\ o.out = Zero /\ o.rval = 0
  BY DEF Call

\* Its type.
LEMMA CallType ==
  ASSUME LocalsOK, NEW k \in Kinds, NEW s \in Slaves, NEW a \in Word
  PROVE  Call(k, s, a) \in OpType
  <1>1. <<s, a, calls + 1>> \in Datum
    BY EepromAssumption DEF Datum, LocalsOK, Word
  <1>2. eep_pdi[s] \in BOOLEAN /\ Zero \in Seq(Datum)
    BY EmptySeq DEF LocalsOK, Zero
  <1> QED
    BY <1>1, <1>2 DEF Call, OpType

-----------------------------------------------------------------------------
(* What the steps do                                                       *)

\* The call under way, with one or two fields changed.
LEMMA OpUpdates ==
  ASSUME op \in OpType, NEW x \in Word, NEW y \in Seq(Datum), NEW v \in {0, 1}
  PROVE  /\ LET o == [op EXCEPT !.rval = v] IN
            o \in OpType /\ o.kind = op.kind /\ o.s = op.s /\ o.a = op.a /\ o.data = op.data
            /\ o.eectl = op.eectl /\ o.out = op.out /\ o.rval = v
         /\ LET o == [op EXCEPT !.out = y] IN
            o \in OpType /\ o.kind = op.kind /\ o.s = op.s /\ o.a = op.a /\ o.data = op.data
            /\ o.eectl = op.eectl /\ o.out = y /\ o.rval = op.rval
         /\ LET o == [op EXCEPT !.a = x, !.rval = v] IN
            o \in OpType /\ o.kind = op.kind /\ o.s = op.s /\ o.a = x /\ o.data = op.data
            /\ o.eectl = op.eectl /\ o.out = op.out /\ o.rval = v
         /\ LET o == [op EXCEPT !.a = x, !.out = y] IN
            o \in OpType /\ o.kind = op.kind /\ o.s = op.s /\ o.a = x /\ o.data = op.data
            /\ o.eectl = op.eectl /\ o.out = y /\ o.rval = op.rval
  BY DEF OpType

\* The calls: k is the kind of call, s its slave, a its address.
StartsAt(k, s) ==
    IF k = "sii" THEN "byte" ELSE IF k = "pdi" THEN "topdi" ELSE IF k = "read2" THEN "wait1"
    ELSE IF tool THEN "force" ELSE To2master(s)
Opens(k, s, a) ==
    /\ pc = "idle" /\ op' = Call(k, s, a) /\ pc' = StartsAt(k, s)
    /\ tool => k \in {"read", "write", "alias"}
    /\ k = "alias" => tool /\ a = AliasWord
    /\ doubtful' = IF k = "write" /\ s = esislave THEN doubtful \cup {a} ELSE doubtful
    /\ k = "read2" => /\ pending[s] # NotPending /\ a = pending[s].a /\ failed' = pending[s].failed
                      /\ pending' = [pending EXCEPT ![s] = NotPending]
    /\ k # "read2" => pending' = pending /\ failed' = FALSE /\ (k = "alias" \/ pending[s] = NotPending)
    /\ UNCHANGED <<ee, dat, cmd, nack, cfg, held, eep_pdi, esislave, esimap, esibuf, tool, unsure,
                   nackcnt>>
    /\ calls' = calls + 1

Calls ==
    \/ ecx_readeeprom \/ ecx_writeeeprom \/ eeprom_writealias \/ ecx_readeeprom1 \/ ecx_readeeprom2
    \/ ecx_esidump \/ ecx_eeprom2pdi_Call \/ SiiFunction

\* Every call is one of these.
LEMMA CallSteps ==
  ASSUME EepromInv, Calls
  PROVE  \E k \in Kinds \ {"idle"}, s \in Slaves, a \in Word : Opens(k, s, a)
  <1> USE DEF EepromInv, StartsAt, Opens, Begin, slaveVars, cacheVars, Kinds, ReadKinds
  <1>0. Addresses \subseteq Word /\ AliasWord \in Word
    BY EepromAssumption DEF Word, AliasWord
  <1>1. CASE ecx_readeeprom
    <2>1. PICK s \in Slaves, a \in Addresses :
             pending[s] = NotPending /\ Begin(Call("read", s, a), IF tool THEN "force" ELSE To2master(s), FALSE)
      BY <1>1 DEF ecx_readeeprom
    <2>2. Opens("read", s, a)
      BY <1>1, <2>1 DEF ecx_readeeprom
    <2> QED
      BY <1>0, <2>2, Zenon DEF Kinds, ReadKinds
  <1>2. CASE ecx_writeeeprom
    <2>1. PICK s \in Slaves, a \in Addresses :
             /\ pending[s] = NotPending
             /\ Begin(Call("write", s, a), IF tool THEN "force" ELSE To2master(s), FALSE)
             /\ doubtful' = IF s = esislave THEN doubtful \cup {a} ELSE doubtful
      BY <1>2 DEF ecx_writeeeprom
    <2>2. Opens("write", s, a)
      BY <1>2, <2>1 DEF ecx_writeeeprom
    <2> QED
      BY <1>0, <2>2, Zenon DEF Kinds, ReadKinds
  <1>3. CASE eeprom_writealias
    <2>1. PICK s \in Slaves : Begin(Call("alias", s, AliasWord), "force", FALSE)
      BY <1>3 DEF eeprom_writealias
    <2>2. Opens("alias", s, AliasWord)
      BY <1>3, <2>1 DEF eeprom_writealias
    <2> QED
      BY <1>0, <2>2, Zenon DEF Kinds, ReadKinds
  <1>4. CASE ecx_readeeprom1
    <2>1. PICK s \in Slaves, a \in Addresses :
             pending[s] = NotPending /\ Begin(Call("read1", s, a), To2master(s), FALSE)
      BY <1>4 DEF ecx_readeeprom1
    <2>2. Opens("read1", s, a)
      BY <1>4, <2>1 DEF ecx_readeeprom1
    <2> QED
      BY <1>0, <2>2, Zenon DEF Kinds, ReadKinds
  <1>5. CASE ecx_readeeprom2
    <2>1. PICK s \in Slaves :
             /\ pending[s] # NotPending
             /\ Begin(Call("read2", s, pending[s].a), "wait1", pending[s].failed)
             /\ pending' = [pending EXCEPT ![s] = NotPending]
      BY <1>5 DEF ecx_readeeprom2
    <2>2. pending[s].a \in Word /\ ~tool
      BY <2>1 DEF PendingInv
    <2>3. Opens("read2", s, pending[s].a)
      BY <1>5, <2>1, <2>2 DEF ecx_readeeprom2
    <2> QED
      BY <2>2, <2>3, Zenon DEF Kinds, ReadKinds
  <1>6. CASE ecx_esidump
    <2>1. PICK s \in Slaves : pending[s] = NotPending /\ Begin(Call("dump", s, 0), To2master(s), FALSE)
      BY <1>6 DEF ecx_esidump
    <2>2. Opens("dump", s, AliasWord)
      BY <1>6, <2>1 DEF ecx_esidump, AliasWord
    <2> QED
      BY <1>0, <2>2, Zenon DEF Kinds, ReadKinds
  <1>7. CASE ecx_eeprom2pdi_Call
    <2>1. PICK s \in Slaves : pending[s] = NotPending /\ Begin(Call("pdi", s, 0), "topdi", FALSE)
      BY <1>7 DEF ecx_eeprom2pdi_Call
    <2>2. Opens("pdi", s, AliasWord)
      BY <1>7, <2>1 DEF ecx_eeprom2pdi_Call, AliasWord
    <2> QED
      BY <1>0, <2>2, Zenon DEF Kinds, ReadKinds
  <1>8. CASE SiiFunction
    <2>1. PICK s \in Slaves, a \in Addresses : pending[s] = NotPending /\ Begin(Call("sii", s, a), "byte", FALSE)
      BY <1>8 DEF SiiFunction
    <2>2. Opens("sii", s, a)
      BY <1>8, <2>1 DEF SiiFunction
    <2> QED
      BY <1>0, <2>2, Zenon DEF Kinds, ReadKinds
  <1> QED
    BY <1>1, <1>2, <1>3, <1>4, <1>5, <1>6, <1>7, <1>8 DEF Calls

-----------------------------------------------------------------------------
(* Each step keeps the invariant                                           *)

\* The beginning of a call.
LEMMA OpenKeeps ==
  ASSUME EepromInv, NEW k \in Kinds \ {"idle"}, NEW s \in Slaves, NEW a \in Word, Opens(k, s, a)
  PROVE  EepromInv'
  <1> USE DEF EepromInv
  <1>1. /\ op'.kind = k /\ op'.s = s /\ op'.a = a /\ op'.data = <<s, a, calls + 1>>
        /\ op'.eectl = eep_pdi[s] /\ op'.out = Zero /\ op'.rval = 0
        /\ op' \in OpType
    BY CallFields, CallType DEF Opens
  <1>2. /\ pc = "idle" /\ pc' \in {"byte", "topdi", "wait1", "force"}
        /\ pc' = "byte" <=> k = "sii"
        /\ pc' = "topdi" <=> k = "pdi"
        /\ k = "read2" => pc' = "wait1"
        /\ pc' = "wait1" => k = "read2" \/ (~tool /\ ~eep_pdi[s])
        /\ pc' = "force" => k # "read2" /\ (tool \/ eep_pdi[s])
    BY DEF Opens, StartsAt, To2master
  <1>3. /\ tool => k \in {"read", "write", "alias"}
        /\ k = "alias" => tool /\ a = AliasWord
        /\ doubtful' = IF k = "write" /\ s = esislave THEN doubtful \cup {a} ELSE doubtful
        /\ UNCHANGED <<ee, dat, cmd, nack, cfg, held, eep_pdi, esislave, esimap, esibuf, tool, unsure,
                       nackcnt>>
    BY DEF Opens
  <1>4. /\ k = "read2" => /\ pending[s] # NotPending /\ a = pending[s].a /\ failed' = pending[s].failed
                          /\ pending' = [pending EXCEPT ![s] = NotPending]
        /\ k # "read2" => pending' = pending /\ failed' = FALSE /\ (k = "alias" \/ pending[s] = NotPending)
    BY DEF Opens
  <1>5. RegistersOK'
    BY <1>3 DEF RegistersOK, Width
  <1>6. LocalsOK'
    <2> DEFINE P == [a : 0 .. MaxWord + 1, failed : BOOLEAN]
    <2>0. NotPending \in P /\ pending \in [Slaves -> P] /\ pending[s] \in P
      BY EepromAssumption DEF LocalsOK, NotPending
    <2>3. pending[s].failed \in BOOLEAN
      BY <2>0
    <2> HIDE DEF P
    <2>4. pending' \in [Slaves -> P]
      BY <1>4, <2>0
    <2>5. failed' \in BOOLEAN
      BY <1>4, <2>3
    <2>1. pending' \in [Slaves -> [a : 0 .. MaxWord + 1, failed : BOOLEAN]] /\ failed' \in BOOLEAN
      BY <2>4, <2>5 DEF P
    <2>2. calls' \in Nat
      BY DEF Opens, LocalsOK
    <2> QED
      BY <1>1, <1>2, <1>3, <2>1, <2>2 DEF LocalsOK, Places
  <1>7. ShapeInv'
    <2>1. nackcnt < 3
      BY <1>2 DEF ShapeInv
    <2> QED
      BY <1>1, <1>2, <1>3, <2>1 DEF ShapeInv, Kinds, ReadKinds
  <1>8. ControlInv'
    BY <1>1, <1>2, <1>3 DEF ControlInv, Settled, Free
  <1>9. RestoreInv'
    BY <1>1, <1>2, <1>3 DEF RestoreInv
  <1>10. AccessInv'
    BY <1>1, <1>2, <1>3 DEF AccessInv, ControlInv, Settled, Free, LocalsOK, RegistersOK
  <1>11. TransferInv'
    <2>1. ASSUME k = "read2", ~failed', s \notin unsure PROVE Served(s, a)'
      BY <1>3, <1>4, <2>1, WordsSame DEF PendingInv, Served, Commanded, Idles
    <2>2. AliasWord # ChecksumWord
      BY DEF AliasWord, ChecksumWord
    <2>3. ~failed' /\ s \notin unsure => ReadingInv'
      BY <1>1, <1>2, <1>3, <2>1 DEF ReadingInv, ReadKinds
    <2>4. WritingInv'
      BY <1>1, <1>2, <1>3, <2>2 DEF WritingInv, Writes
    <2> QED
      BY <1>1, <1>3, <2>3, <2>4 DEF TransferInv
  <1>12. PendingInv'
    <2>1. \A q \in Slaves : pending'[q] # NotPending => pending'[q] = pending[q]
      BY <1>4 DEF LocalsOK
    <2>2. \A q \in Slaves : \A b : Served(q, b)' <=> Served(q, b)
      BY <1>3, WordsSame DEF Served, Commanded, Idles
    <2>3. pending'[s] = NotPending
      BY <1>3, <1>4 DEF PendingInv, LocalsOK
    <2> QED
      BY <1>1, <1>2, <1>3, <2>1, <2>2, <2>3 DEF PendingInv
  <1>13. CacheInv'
    <2>1. Trusted' \subseteq Trusted /\ (k = "write" /\ s = esislave => a \notin Trusted')
      BY <1>3 DEF Trusted
    <2> QED
      BY <1>1, <1>2, <1>3, <2>1 DEF CacheInv
  <1> QED
    BY <1>5, <1>6, <1>7, <1>8, <1>9, <1>10, <1>11, <1>12, <1>13

\* What the slave does with a command: it is as before for all other slaves.
LEMMA FinishKeeps ==
  ASSUME EepromInv, NEW s \in Slaves, SlaveFinishes(s)
  PROVE  EepromInv'
  <1> USE DEF EepromInv
  <1>1. /\ cmd[s] # NoCommand /\ cmd' = [cmd EXCEPT ![s] = NoCommand]
        /\ UNCHANGED <<cfg, held, eep_pdi, esislave, esimap, esibuf, tool, op, calls, pc, nackcnt,
                       pending,
                       failed, doubtful, unsure>>
    BY DEF SlaveFinishes
  <1>2. \/ cmd[s].what = "read" /\ dat' = [dat EXCEPT ![s] = Words(s, cmd[s].a)] /\ UNCHANGED <<ee,
                                                                                                nack>>
        \/ cmd[s].what = "write" /\ ee' = [ee EXCEPT ![s][cmd[s].a] = Head(dat[s])] /\ UNCHANGED <<dat,
                                                                                                   nack>>
        \/ nack' = [nack EXCEPT ![s] = TRUE] /\ UNCHANGED <<ee, dat>>
    BY DEF SlaveFinishes
  <1>3. cmd[s] \in CommandType /\ cmd[s].a \in Word /\ Head(dat[s]) \in Datum
    BY HeadTailProperties DEF RegistersOK, CommandType
  <1>4. Words(s, cmd[s].a) \in Seq(Datum) \ {<<>>}
    BY <1>3, WordsFacts
  <1>5. RegistersOK'
    <2>1. ee' \in [Slaves -> [Word -> Datum]]
      <3>1. ee[s] \in [Word -> Datum]
        BY DEF RegistersOK
      <3>2. [ee[s] EXCEPT ![cmd[s].a] = Head(dat[s])] \in [Word -> Datum]
        BY <1>3, <3>1
      <3>3. [ee EXCEPT ![s] = [ee[s] EXCEPT ![cmd[s].a] = Head(dat[s])]] \in [Slaves -> [Word -> Datum]]
        BY <3>2 DEF RegistersOK
      <3> QED
        BY <1>2, <3>3 DEF RegistersOK
    <2>2. dat' \in [Slaves -> Seq(Datum) \ {<<>>}] /\ \A q \in Slaves : Len(dat'[q]) >= Width(q)
      <3>1. Len(Words(s, cmd[s].a)) >= Width(s)
        BY <1>3, WordsFacts
      <3> QED
        BY <1>2, <1>4, <3>1 DEF RegistersOK
    <2>3. NoCommand \in CommandType
      BY EepromAssumption DEF CommandType, NoCommand, Word
    <2>4. cmd' \in [Slaves -> CommandType]
      BY <1>1, <2>3 DEF RegistersOK
    <2>5. nack' \in [Slaves -> BOOLEAN]
      BY <1>2 DEF RegistersOK
    <2> QED
      BY <1>1, <2>1, <2>2, <2>4, <2>5 DEF RegistersOK, Width
  <1>6. LocalsOK' /\ ShapeInv' /\ RestoreInv'
    BY <1>1 DEF LocalsOK, ShapeInv, RestoreInv, Width
  <1>7. ControlInv' /\ AccessInv'
    BY <1>1 DEF ControlInv, AccessInv, Settled, Free
  <1>8. \A q \in Slaves : q # s => /\ cmd'[q] = cmd[q] /\ dat'[q] = dat[q] /\ ee'[q] = ee[q] /\ nack'[q] = nack[q]
    BY <1>1, <1>2 DEF RegistersOK
  <1>9. cmd'[s] = NoCommand
    BY <1>1 DEF RegistersOK
  <1>10. ASSUME NEW q \in Slaves, NEW b \in Word, Served(q, b) PROVE Served(q, b)'
    <2>1. CASE q # s
      BY <1>8, <1>10, <2>1, WordsSame DEF Served, Commanded, Idles
    <2>2. CASE q = s
      <3>1. cmd[s].what = "read" /\ cmd[s].a = b
        BY <1>1, <1>10, <2>2 DEF Served, Commanded, Idles
      <3>2. ee' = ee /\ (nack'[s] \/ dat'[s] = Words(s, b))
        BY <1>2, <3>1 DEF RegistersOK
      <3>3. Words(s, b)' = Words(s, b)
        BY <3>2, WordsSame
      <3> QED
        BY <1>9, <2>2, <3>2, <3>3 DEF Served, Idles
    <2> QED
      BY <2>1, <2>2
  <1>11. TransferInv'
    <2> SUFFICES ASSUME ~failed, op.s \notin unsure PROVE ReadingInv' /\ WritingInv'
      BY <1>1 DEF TransferInv
    <2>1. ReadingInv /\ WritingInv /\ op' = op /\ pc' = pc /\ op.a \in Word
      BY <1>1 DEF TransferInv, LocalsOK, OpType
    <2>2. CASE op.s # s
      <3>1. pc # "idle" => op.s \in Slaves
        BY DEF ShapeInv
      <3>2. op.s \in Slaves => (Words(op.s, op.a))' = Words(op.s, op.a)
        BY <1>8, <2>1, <2>2, WordsSame
      <3>3. ReadingInv'
        BY <1>8, <2>1, <2>2, <3>1, <3>2 DEF ReadingInv, Served, Commanded, Idles
      <3>4. WritingInv'
        BY <1>8, <2>1, <2>2, <3>1, <3>2 DEF WritingInv, Writes, Commanded, Idles, ShapeInv
      <3> QED
        BY <3>3, <3>4
    <2>3. CASE op.s = s
      <3>1. ReadingInv'
        BY <1>1, <1>9, <1>10, <2>1, <2>3 DEF ReadingInv, Idles, Commanded
      <3>2. WritingInv'
        <4> SUFFICES ASSUME Writes PROVE WritingInv'
          BY <2>1 DEF WritingInv, Writes
        <4>1. Idles(s)'
          BY <1>9 DEF Idles
        <4>2. ASSUME pc \in {"command", "wait2"} PROVE Head(dat'[s]) = op.data
          <5>1. Commanded(s, "write", op.a) /\ Head(dat[s]) = op.data
            BY <1>1, <2>1, <2>3, <4>2 DEF WritingInv, Idles
          <5>2. dat'[s] = dat[s]
            BY <1>2, <5>1 DEF Commanded
          <5> QED
            BY <5>1, <5>2
        <4>3. ASSUME pc = "wait2" PROVE nack'[s] \/ ee'[s][op.a] = op.data
          <5>1. Commanded(s, "write", op.a) /\ Head(dat[s]) = op.data
            BY <1>1, <2>1, <2>3, <4>3 DEF WritingInv, Idles
          <5> QED
            BY <1>2, <2>1, <5>1 DEF Commanded, RegistersOK
        <4>4. ASSUME op.kind = "alias", op.a = ChecksumWord PROVE ee'[s][AliasWord] = op.data
          <5>1. Commanded(s, "write", ChecksumWord) /\ ee[s][AliasWord] = op.data
            BY <1>1, <2>1, <2>3, <4>4 DEF WritingInv, Idles
          <5> QED
            BY <1>2, <1>3, <5>1, EepromAssumption DEF Commanded, RegistersOK, AliasWord, ChecksumWord,
                                                      Word
        <4>5. pc \notin {"end", "done"}
          BY <1>1, <2>1, <2>3 DEF WritingInv, Idles
        <4> QED
          BY <2>1, <2>3, <4>1, <4>2, <4>3, <4>4, <4>5 DEF WritingInv, Writes
      <3> QED
        BY <3>1, <3>2
    <2> QED
      BY <2>2, <2>3
  <1>12. PendingInv'
    BY <1>1, <1>10 DEF PendingInv
  <1>13. CacheInv'
    <2>1. Trusted' = Trusted
      BY <1>1 DEF Trusted
    <2>2. ASSUME NEW w \in Trusted, esislave \in Slaves PROVE ee'[esislave][w] = ee[esislave][w]
      <3>1. w \in Word
        BY <2>2, BufFacts DEF Trusted, LocalsOK
      <3>2. CASE esislave # s \/ ee' = ee
        BY <1>8, <2>2, <3>2
      <3>3. CASE esislave = s /\ ee' # ee
        <4>1. cmd[s].what = "write" /\ ee' = [ee EXCEPT ![s][cmd[s].a] = Head(dat[s])]
          BY <1>2, <3>3
        <4>2. w # cmd[s].a
          BY <2>2, <3>3, <4>1 DEF CacheInv
        <4> QED
          BY <1>3, <3>1, <3>3, <4>1, <4>2 DEF RegistersOK
      <3> QED
        BY <3>2, <3>3
    <2>3. \A q \in Slaves : cmd'[q].what = "write" => cmd'[q] = cmd[q]
      BY <1>8, <1>9 DEF NoCommand
    <2>4. Trusted # {} => esislave \in Slaves
      BY DEF Trusted, CacheInv, LocalsOK
    <2> QED
      BY <1>1, <2>1, <2>2, <2>3, <2>4 DEF CacheInv
  <1> QED
    BY <1>5, <1>6, <1>7, <1>11, <1>12, <1>13

\* A step that touches none of the variables of the invariant.
LEMMA FrameKeeps ==
  ASSUME EepromInv,
         UNCHANGED <<ee, dat, cmd, nack, cfg, held, eep_pdi, esislave, esimap, esibuf, tool, op, calls,
                     pc, nackcnt,
                     pending, failed, doubtful, unsure>>
  PROVE  EepromInv'
  <1> USE DEF EepromInv
  <1>1. RegistersOK' /\ LocalsOK' /\ ShapeInv'
    BY DEF RegistersOK, Width, LocalsOK, ShapeInv
  <1>2. ControlInv' /\ RestoreInv' /\ AccessInv'
    BY DEF ControlInv, RestoreInv, AccessInv, Settled, Free
  <1>3. (\A s \in Slaves : \A b : Words(s, b)' = Words(s, b)) /\ (\A s, b : Served(s, b)' = Served(s, b))
    BY DEF Words, Served, Commanded, Idles
  <1>4. TransferInv'
    <2>1. ReadingInv' = ReadingInv /\ WritingInv' = WritingInv
      BY DEF ReadingInv, WritingInv, Writes, Served, Commanded, Idles, Words
    <2> QED
      BY <2>1 DEF TransferInv
  <1>5. PendingInv' /\ CacheInv'
    BY <1>3 DEF PendingInv, CacheInv, Trusted
  <1> QED
    BY <1>1, <1>2, <1>4, <1>5

\* The PDI takes only what was left to it.
LEMMA PdiKeeps ==
  ASSUME EepromInv, NEW s \in Slaves, PdiTakes(s)
  PROVE  EepromInv'
  <1> USE DEF EepromInv
  <1>1. /\ cfg[s] = "pdi" /\ held' = [held EXCEPT ![s] = TRUE]
        /\ UNCHANGED <<ee, dat, cmd, nack, cfg, eep_pdi, esislave, esimap, esibuf, tool, op, calls, pc,
                       nackcnt,
                       pending, failed, doubtful, unsure>>
    BY DEF PdiTakes
  <1>2. held' \in [Slaves -> BOOLEAN] /\ \A q \in Slaves : cfg[q] = "master" => held'[q] = held[q]
    BY <1>1 DEF RegistersOK
  <1>3. RegistersOK' /\ LocalsOK' /\ ShapeInv' /\ RestoreInv'
    BY <1>1, <1>2 DEF RegistersOK, Width, LocalsOK, ShapeInv, RestoreInv
  <1>4. \A q \in Slaves : Settled(q)' = Settled(q) /\ Free(q)' = Free(q)
    BY <1>1, <1>2 DEF Settled, Free
  <1>5. ControlInv' /\ AccessInv'
    BY <1>1, <1>4 DEF ControlInv, AccessInv, ShapeInv
  <1>6. (\A q \in Slaves : \A b : Words(q, b)' = Words(q, b)) /\ (\A q, b : Served(q, b)' = Served(q, b))
    BY <1>1 DEF Words, Served, Commanded, Idles
  <1>7. TransferInv'
    <2>1. ReadingInv' = ReadingInv /\ WritingInv' = WritingInv
      BY <1>1 DEF ReadingInv, WritingInv, Writes, Served, Commanded, Idles, Words
    <2> QED
      BY <1>1, <2>1 DEF TransferInv
  <1>8. PendingInv' /\ CacheInv'
    BY <1>1, <1>6 DEF PendingInv, CacheInv, Trusted
  <1> QED
    BY <1>3, <1>5, <1>7, <1>8

\* A datagram is repeated, or its result is known.
LEMMA RetriedFacts ==
  ASSUME NEW r \in Results, NEW here, NEW next, failed \in BOOLEAN, Retried(r, here, next)
  PROVE  /\ failed' \in BOOLEAN
         /\ \/ pc' = here /\ failed' = failed
            \/ pc' = next /\ (failed' <=> failed \/ r.wkc <= 0)
  BY DEF Retried

\* What the change of the control does to the registers.
LEMMA ControlWritten ==
  ASSUME RegistersOK, op.s \in Slaves, NEW r \in Results, Datagram(r), NEW c \in {0, 1, 2}, WriteEepcfg(r, c)
  PROVE  /\ cfg' \in [Slaves -> {"master", "pdi"}] /\ held' \in [Slaves -> BOOLEAN]
         /\ \A q \in Slaves \ {op.s} : cfg'[q] = cfg[q] /\ held'[q] = held[q]
         /\ r.done => /\ cfg'[op.s] = IF c = 1 THEN "pdi" ELSE "master"
                      /\ held'[op.s] = (held[op.s] /\ c # 2)
         /\ ~r.done => cfg' = cfg /\ held' = held
  <1>1. r.done \in BOOLEAN
    BY DEF Results
  <1>2. CASE ~r.done
    BY <1>2 DEF WriteEepcfg, RegistersOK
  <1>3. CASE r.done
    <2>1. /\ cfg' = [cfg EXCEPT ![op.s] = IF c = 1 THEN "pdi" ELSE "master"]
          /\ held' = [held EXCEPT ![op.s] = held[op.s] /\ c # 2]
      BY <1>3 DEF WriteEepcfg
    <2>2. held[op.s] \in BOOLEAN
      BY DEF RegistersOK
    <2>3. (held[op.s] /\ c # 2) \in BOOLEAN
      BY Zenon
    <2> QED
      BY <1>3, <2>1, <2>2, <2>3 DEF RegistersOK
  <1> QED
    BY <1>1, <1>2, <1>3

\* The change of the control leaves the rest of the invariant alone.
LEMMA ControlFrame ==
  ASSUME EepromInv,
         UNCHANGED <<ee, dat, cmd, nack, esislave, esimap, esibuf, doubtful, tool, op, nackcnt, pending,
                     calls>>,
         unsure \subseteq unsure', failed' \in BOOLEAN, failed => failed',
         cfg' \in [Slaves -> {"master", "pdi"}], held' \in [Slaves -> BOOLEAN], eep_pdi' \in [Slaves -> BOOLEAN],
         \/ pc = "force" /\ pc' \in {"force", "tomaster"}
         \/ pc = "tomaster" /\ pc' \in {"tomaster", "wait1"}
         \/ pc = "topdi" /\ pc' \in {"topdi", "done"},
         ControlInv', RestoreInv', AccessInv'
  PROVE  EepromInv'
  <1> USE DEF EepromInv
  <1>1. RegistersOK'
    BY DEF RegistersOK, Width
  <1>2. LocalsOK' /\ ShapeInv'
    BY DEF LocalsOK, ShapeInv, Places
  <1>3. (\A q \in Slaves : \A b : Words(q, b)' = Words(q, b)) /\ (\A q, b : Served(q, b)' = Served(q, b))
    BY DEF Words, Served, Commanded, Idles
  <1>4. TransferInv'
    <2> SUFFICES ASSUME ~failed', op.s \notin unsure' PROVE ReadingInv' /\ WritingInv'
      BY DEF TransferInv
    <2>1. WritingInv
      BY DEF TransferInv
    <2>2. ReadingInv'
      BY DEF ReadingInv, ShapeInv, ReadKinds
    <2>3. WritingInv'
      BY <2>1 DEF WritingInv, Writes, ShapeInv, Commanded, Idles
    <2> QED
      BY <2>2, <2>3
  <1>5. PendingInv'
    BY <1>3 DEF PendingInv
  <1>6. CacheInv'
    BY DEF CacheInv, Trusted, ShapeInv
  <1> QED
    BY <1>1, <1>2, <1>4, <1>5, <1>6

\* eepctl 2.
LEMMA ForceKeeps ==
  ASSUME EepromInv, ForceMaster
  PROVE  EepromInv'
  <1> USE DEF EepromInv
  <1>1. PICK r \in Results :
           /\ Datagram(r) /\ WriteEepcfg(r, 2)
           /\ IF tool
              THEN pc' = "tomaster" /\ cnt' = 0 /\ failed' = (failed \/ r.wkc <= 0)
              ELSE Retried(r, "force", "tomaster")
           /\ Doubt(r)
    BY DEF ForceMaster
  <1>2. /\ pc = "force"
        /\ UNCHANGED <<ee, dat, cmd, nack, esislave, esimap, esibuf, doubtful, tool, op, nackcnt,
                       pending, calls,
                       eep_pdi>>
    BY DEF ForceMaster, cacheVars
  <1>3. op.s \in Slaves /\ failed \in BOOLEAN /\ eep_pdi \in [Slaves -> BOOLEAN] /\ tool \in BOOLEAN
    BY <1>2 DEF ShapeInv, LocalsOK
  <1>4. /\ failed' \in BOOLEAN
        /\ \/ pc' = "force" /\ failed' = failed
           \/ pc' = "tomaster" /\ (failed' <=> failed \/ r.wkc <= 0)
    <2>1. CASE tool
      <3>1. pc' = "tomaster" /\ failed' = (failed \/ r.wkc <= 0)
        BY <1>1, <2>1
      <3> QED
        BY <3>1, Zenon
    <2>2. CASE ~tool
      BY <1>1, <1>3, <2>2, RetriedFacts
    <2> QED
      BY <2>1, <2>2
  <1>5. /\ cfg' \in [Slaves -> {"master", "pdi"}] /\ held' \in [Slaves -> BOOLEAN]
        /\ \A q \in Slaves \ {op.s} : cfg'[q] = cfg[q] /\ held'[q] = held[q]
        /\ r.done => cfg'[op.s] = "master" /\ ~held'[op.s]
    BY <1>1, <1>3, ControlWritten
  <1>6. r.wkc > 0 \/ r.wkc <= 0
    BY DEF Results
  <1>7. unsure \subseteq unsure' /\ (pc' = "tomaster" => op.s \in unsure' \/ r.wkc > 0)
    BY <1>1, <1>2, <1>6 DEF Doubt
  <1>8. pc' = "tomaster" /\ op.s \notin unsure' => cfg'[op.s] = "master" /\ ~held'[op.s]
    BY <1>1, <1>5, <1>7, DatagramFacts
  <1>9. ControlInv'
    BY <1>2, <1>3, <1>4, <1>5, <1>7, <1>8 DEF ControlInv, Settled, Free
  <1>10. RestoreInv' /\ AccessInv'
    BY <1>2, <1>3, <1>4, <1>8 DEF RestoreInv, AccessInv, Free
  <1> QED
    BY <1>2, <1>3, <1>4, <1>5, <1>7, <1>9, <1>10, ControlFrame

\* eepctl 0.
LEMMA GiveKeeps ==
  ASSUME EepromInv, GiveToMaster
  PROVE  EepromInv'
  <1> USE DEF EepromInv
  <1>1. PICK r \in Results :
           /\ Datagram(r) /\ WriteEepcfg(r, 0)
           /\ IF tool
              THEN pc' = "wait1" /\ cnt' = 0 /\ failed' = (failed \/ r.wkc <= 0)
              ELSE Retried(r, "tomaster", "wait1")
           /\ eep_pdi' = (IF pc' = "wait1" THEN [eep_pdi EXCEPT ![op.s] = FALSE] ELSE eep_pdi)
           /\ Doubt(r)
    BY DEF GiveToMaster
  <1>2. /\ pc = "tomaster"
        /\ UNCHANGED <<ee, dat, cmd, nack, esislave, esimap, esibuf, doubtful, tool, op, nackcnt,
                       pending, calls>>
    BY DEF GiveToMaster, cacheVars
  <1>3. op.s \in Slaves /\ failed \in BOOLEAN /\ eep_pdi \in [Slaves -> BOOLEAN] /\ tool \in BOOLEAN
    BY <1>2 DEF ShapeInv, LocalsOK
  <1>4. /\ failed' \in BOOLEAN
        /\ \/ pc' = "tomaster" /\ failed' = failed
           \/ pc' = "wait1" /\ (failed' <=> failed \/ r.wkc <= 0)
    <2>1. CASE tool
      <3>1. pc' = "wait1" /\ failed' = (failed \/ r.wkc <= 0)
        BY <1>1, <2>1
      <3> QED
        BY <3>1, Zenon
    <2>2. CASE ~tool
      BY <1>1, <1>3, <2>2, RetriedFacts
    <2> QED
      BY <2>1, <2>2
  <1>5. /\ cfg' \in [Slaves -> {"master", "pdi"}] /\ held' \in [Slaves -> BOOLEAN]
        /\ \A q \in Slaves \ {op.s} : cfg'[q] = cfg[q] /\ held'[q] = held[q]
        /\ r.done => cfg'[op.s] = "master" /\ held'[op.s] = held[op.s]
        /\ ~r.done => cfg'[op.s] = cfg[op.s] /\ held'[op.s] = held[op.s]
    <2>1. held[op.s] \in BOOLEAN
      BY <1>3 DEF RegistersOK
    <2> QED
      BY <1>1, <1>3, <2>1, ControlWritten
  <1>6. r.done \in BOOLEAN
    BY DEF Results
  <1>7. unsure \subseteq unsure'
    BY <1>1 DEF Doubt
  <1>8. Free(op.s) /\ op.s \notin unsure => cfg'[op.s] = "master" /\ ~held'[op.s]
    BY <1>5, <1>6 DEF Free
  <1>9. op.s \notin unsure => Free(op.s)
    BY <1>2 DEF AccessInv, ShapeInv
  <1>10. eep_pdi' \in [Slaves -> BOOLEAN] /\ (\A q \in Slaves \ {op.s} : eep_pdi'[q] = eep_pdi[q])
         /\ (pc' = "wait1" => ~eep_pdi'[op.s]) /\ (pc' = "tomaster" => eep_pdi' = eep_pdi)
    BY <1>1, <1>3
  <1>11. ControlInv'
    BY <1>2, <1>3, <1>4, <1>5, <1>7, <1>8, <1>9, <1>10 DEF ControlInv, Settled, Free
  <1>12. RestoreInv' /\ AccessInv'
    BY <1>2, <1>3, <1>4, <1>7, <1>8, <1>9, <1>10 DEF RestoreInv, AccessInv, Free
  <1> QED
    BY <1>2, <1>3, <1>4, <1>5, <1>7, <1>10, <1>11, <1>12, ControlFrame

\* eepctl 1.
LEMMA ToPdiKeeps ==
  ASSUME EepromInv, ecx_eeprom2pdi
  PROVE  EepromInv'
  <1> USE DEF EepromInv
  <1>1. /\ pc = "topdi"
        /\ UNCHANGED <<ee, dat, cmd, nack, esislave, esimap, esibuf, doubtful, tool, op, nackcnt,
                       pending, calls>>
    BY DEF ecx_eeprom2pdi, cacheVars, slaveVars
  <1>2. op.s \in Slaves /\ failed \in BOOLEAN /\ eep_pdi \in [Slaves -> BOOLEAN] /\ op.kind \in {"pdi", "sii", "dump"}
    BY <1>1 DEF ShapeInv, LocalsOK
  <1>3. CASE eep_pdi[op.s]
    <2>1. pc' = "done" /\ UNCHANGED <<cfg, held, failed, eep_pdi, unsure>>
      BY <1>3 DEF ecx_eeprom2pdi, slaveVars
    <2>2. RegistersOK' /\ LocalsOK'
      BY <1>1, <2>1 DEF RegistersOK, Width, LocalsOK, Places
    <2>3. ControlInv'
      BY <1>1, <1>3, <2>1 DEF ControlInv, Settled
    <2>4. RestoreInv' /\ AccessInv'
      BY <1>1, <1>2, <1>3, <2>1 DEF RestoreInv, AccessInv, RegistersOK, LocalsOK, OpType
    <2> QED
      BY <1>1, <1>2, <2>1, <2>2, <2>3, <2>4, ControlFrame DEF RegistersOK
  <1>4. CASE ~eep_pdi[op.s]
    <2>1. PICK r \in Results :
             /\ Datagram(r) /\ WriteEepcfg(r, 1) /\ Retried(r, "topdi", "done")
             /\ eep_pdi' = (IF pc' = "done" THEN [eep_pdi EXCEPT ![op.s] = TRUE] ELSE eep_pdi)
             /\ Doubt(r)
      BY <1>4 DEF ecx_eeprom2pdi
    <2>2. /\ failed' \in BOOLEAN
          /\ \/ pc' = "topdi" /\ failed' = failed
             \/ pc' = "done" /\ (failed' <=> failed \/ r.wkc <= 0)
      BY <1>2, <2>1, RetriedFacts
    <2>3. /\ cfg' \in [Slaves -> {"master", "pdi"}] /\ held' \in [Slaves -> BOOLEAN]
          /\ \A q \in Slaves \ {op.s} : cfg'[q] = cfg[q] /\ held'[q] = held[q]
          /\ r.done => cfg'[op.s] = "pdi"
      BY <1>2, <2>1, ControlWritten
    <2>4. r.wkc > 0 \/ r.wkc <= 0
      BY DEF Results
    <2>5. unsure \subseteq unsure' /\ (pc' = "done" => op.s \in unsure' \/ r.wkc > 0)
      BY <1>1, <2>1, <2>4 DEF Doubt
    <2>6. pc' = "done" /\ op.s \notin unsure' => cfg'[op.s] = "pdi"
      BY <2>1, <2>3, <2>5, DatagramFacts
    <2>7. eep_pdi' \in [Slaves -> BOOLEAN] /\ (\A q \in Slaves \ {op.s} : eep_pdi'[q] = eep_pdi[q])
          /\ (pc' = "done" => eep_pdi'[op.s]) /\ (pc' = "topdi" => ~eep_pdi'[op.s])
      BY <1>2, <1>4, <2>1
    <2>8. ControlInv'
      BY <1>1, <1>2, <2>2, <2>3, <2>5, <2>6, <2>7 DEF ControlInv, Settled, Free
    <2>9. op.eectl \in BOOLEAN
      BY DEF LocalsOK, OpType
    <2>10. RestoreInv' /\ AccessInv'
      BY <1>1, <1>2, <2>2, <2>7, <2>9 DEF RestoreInv, AccessInv
    <2> QED
      BY <1>1, <1>2, <2>2, <2>3, <2>5, <2>7, <2>8, <2>10, ControlFrame
  <1> QED
    BY <1>3, <1>4

\* A step of an access to the slave of the call: no register of another slave changes, and no control.
Accessing == {"wait1", "clear", "data", "command", "wait2", "fetch", "end"}
AccessStep ==
    /\ UNCHANGED <<ee, cfg, held, eep_pdi, esislave, esimap, esibuf, doubtful, tool, calls, unsure>>
    /\ pc \in Accessing /\ pc' \in Accessing \cup {"done"} /\ (pc' = "done" => op.kind = "read1")
    /\ op' \in OpType /\ op'.kind = op.kind /\ op'.s = op.s /\ op'.data = op.data /\ op'.eectl = op.eectl
    /\ op'.a = op.a \/ op.kind = "alias"
    /\ dat' \in [Slaves -> Seq(Datum) \ {<<>>}] /\ \A s \in Slaves : Len(dat'[s]) >= Width(s)
    /\ cmd' \in [Slaves -> CommandType] /\ nack' \in [Slaves -> BOOLEAN]
    /\ \A q \in Slaves \ {op.s} : cmd'[q] = cmd[q] /\ dat'[q] = dat[q] /\ nack'[q] = nack[q]
    /\ cmd'[op.s] # cmd[op.s] => cmd'[op.s].what # "write" \/ (Writes /\ cmd'[op.s].a = op.a)
    /\ nackcnt' \in 0 .. 3 /\ failed' \in BOOLEAN
    /\ \/ pc' # "done" /\ pending' = pending
       \/ /\ pc' = "done" /\ pending' = [pending EXCEPT ![op.s] = [a |-> op.a, failed |-> failed']]
          /\ ~failed' /\ op.s \notin unsure => Served(op.s, op.a)'

\* Such a step leaves the rest of the invariant alone.
LEMMA AccessFrame ==
  ASSUME EepromInv, AccessStep, ShapeInv', TransferInv'
  PROVE  EepromInv'
  <1> USE DEF EepromInv
  <1>1. op.s \in Slaves /\ op \in OpType /\ op.a \in Word
    BY DEF AccessStep, Accessing, ShapeInv, LocalsOK, OpType
  <1>2. RegistersOK'
    BY DEF AccessStep, RegistersOK, Width
  <1>3. LocalsOK'
    <2> DEFINE P == [a : 0 .. MaxWord + 1, failed : BOOLEAN]
    <2>1. [a |-> op.a, failed |-> failed'] \in P /\ pending \in [Slaves -> P]
      BY <1>1, EepromAssumption DEF AccessStep, LocalsOK, Word
    <2> HIDE DEF P
    <2>2. pending' \in [Slaves -> P]
      BY <2>1 DEF AccessStep
    <2>3. pending' \in [Slaves -> [a : 0 .. MaxWord + 1, failed : BOOLEAN]]
      BY <2>2 DEF P
    <2> QED
      BY <2>3 DEF AccessStep, Accessing, LocalsOK, Places
  <1>4. ControlInv' /\ RestoreInv' /\ AccessInv'
    BY <1>1 DEF AccessStep, Accessing, ControlInv, RestoreInv, AccessInv, Settled, Free
  <1>5. PendingInv'
    <2>1. \A q \in Slaves \ {op.s} : \A b : Served(q, b)' = Served(q, b)
      BY DEF AccessStep, Served, Commanded, Idles, Words
    <2>2. pending[op.s] = NotPending
      BY DEF AccessStep, Accessing, PendingInv
    <2>3. CASE pc' # "done" /\ pending' = pending
      BY <2>1, <2>2, <2>3 DEF PendingInv, AccessStep
    <2>4. CASE /\ pc' = "done" /\ pending' = [pending EXCEPT ![op.s] = [a |-> op.a, failed |-> failed']]
               /\ ~failed' /\ op.s \notin unsure => Served(op.s, op.a)'
      <3>1. op.kind = "read1" /\ ~tool
        BY <2>4 DEF AccessStep, ShapeInv
      <3>2. pending'[op.s] = [a |-> op.a, failed |-> failed'] /\ \A q \in Slaves \ {op.s} : pending'[q] = pending[q]
        BY <1>1, <2>4 DEF LocalsOK
      <3> QED
        BY <1>1, <2>1, <2>4, <3>1, <3>2 DEF PendingInv, AccessStep
    <2> QED
      BY <2>3, <2>4 DEF AccessStep
  <1>6. CacheInv'
    <2>1. Trusted' = Trusted
      BY DEF Trusted, AccessStep
    <2>2. \A q \in Slaves : q = esislave /\ cmd'[q].what = "write" => cmd'[q].a \notin Trusted
      BY <1>1 DEF CacheInv, AccessStep, Writes, ShapeInv, Trusted
    <2>3. pc' # "piece" /\ pc # "byte" /\ pc' # "byte"
      BY DEF AccessStep, Accessing
    <2> QED
      BY <2>1, <2>2, <2>3 DEF CacheInv, AccessStep
  <1> QED
    BY <1>2, <1>3, <1>4, <1>5, <1>6

\* What the access is at.
LEMMA AccessFacts ==
  ASSUME EepromInv, pc \in Accessing
  PROVE  /\ op.s \in Slaves /\ op \in OpType /\ op.a \in Word /\ op.data \in Datum /\ op.rval \in {0, 1}
         /\ op.out \in Seq(Datum) /\ failed \in BOOLEAN /\ nackcnt \in 0 .. 3 /\ dat[op.s] \in Seq(Datum) \ {<<>>}
         /\ cmd[op.s] \in CommandType /\ nack[op.s] \in BOOLEAN
         /\ dat \in [Slaves -> Seq(Datum) \ {<<>>}] /\ \A s \in Slaves : Len(dat[s]) >= Width(s)
         /\ cmd \in [Slaves -> CommandType] /\ nack \in [Slaves -> BOOLEAN]
  BY DEF EepromInv, RegistersOK, LocalsOK, ShapeInv, OpType, Accessing

\* The poll is answered.
LEMMA PollKeeps ==
  ASSUME EepromInv, PollAnswered
  PROVE  EepromInv'
  <1> USE DEF EepromInv
  <1>1. /\ pc \in {"wait1", "wait2"} /\ cmd[op.s] = NoCommand
        /\ UNCHANGED <<ee, dat, cmd, nack, cfg, held, eep_pdi, esislave, esimap, esibuf, doubtful, tool,
                       calls,
                       pending, unsure>>
    BY DEF PollAnswered, slaveVars, cacheVars
  <1>2. /\ op.s \in Slaves /\ op \in OpType /\ op.a \in Word /\ op.data \in Datum
        /\ failed \in BOOLEAN /\ nackcnt \in 0 .. 3 /\ nack[op.s] \in BOOLEAN
        /\ dat \in [Slaves -> Seq(Datum) \ {<<>>}] /\ \A s \in Slaves : Len(dat[s]) >= Width(s)
        /\ cmd \in [Slaves -> CommandType] /\ nack \in [Slaves -> BOOLEAN]
    BY <1>1, AccessFacts DEF Accessing
  <1>4. CASE pc = "wait1"
    <2>1. /\ pc' = (IF nack[op.s] /\ op.kind # "read2" THEN "clear" ELSE Transfer)
          /\ failed' = (failed \/ (nack[op.s] /\ op.kind = "read2"))
          /\ nackcnt' = nackcnt /\ op' = op
      BY <1>4 DEF PollAnswered
    <2>2. failed' \in BOOLEAN
      BY <2>1, Zenon
    <2>3. op.kind \notin {"pdi", "idle"} /\ nackcnt < 3
      BY <1>4 DEF ShapeInv
    <2>4. AccessStep
      BY <1>1, <1>2, <1>4, <2>1, <2>2 DEF AccessStep, Accessing, Transfer
    <2>5. ShapeInv'
      BY <1>1, <1>2, <1>4, <2>1, <2>3 DEF ShapeInv, Width, Transfer, Writes, LocalsOK, OpType, Kinds,
                                          ReadKinds
    <2>6. TransferInv'
      <3> SUFFICES ASSUME ~failed', op.s \notin unsure PROVE ReadingInv' /\ WritingInv'
        BY <1>1, <2>1 DEF TransferInv
      <3>1. ~failed /\ (op.kind = "read2" => ~nack[op.s]) /\ ReadingInv /\ WritingInv
        BY <2>1 DEF TransferInv
      <3>2. Words(op.s, op.a)' = Words(op.s, op.a)
        BY <1>1, <2>1 DEF Words
      <3>3. ReadingInv'
        BY <1>1, <1>4, <2>1, <3>1, <3>2
           DEF ReadingInv, Transfer, Writes, Served, Idles, Commanded, ReadKinds, NoCommand
      <3>4. WritingInv'
        BY <1>1, <1>4, <2>1, <3>1 DEF WritingInv, Transfer, Writes, Idles, Commanded
      <3> QED
        BY <3>3, <3>4
    <2> QED
      BY <2>4, <2>5, <2>6, AccessFrame
  <1>5. CASE pc = "wait2"
    <2>1. /\ nackcnt' = (IF nack[op.s] THEN nackcnt + 1 ELSE 0)
          /\ op' = (IF Writes /\ ~nack[op.s] THEN [op EXCEPT !.rval = 1] ELSE op)
          /\ pc' = (IF nack[op.s] THEN (IF nackcnt' < 3 THEN Transfer ELSE "end")
                    ELSE IF Writes THEN "end" ELSE "fetch")
          /\ failed' = (failed \/ (nack[op.s] /\ nackcnt' = 3))
      BY <1>5 DEF PollAnswered
    <2>2. failed' \in BOOLEAN
      BY <2>1, Zenon
    <2>3. op.kind \in ReadKinds \cup {"write", "alias"} /\ nackcnt < 3
      BY <1>5 DEF ShapeInv
    <2>4. nackcnt' \in 0 .. 3
      BY <1>2, <2>1, <2>3
    <2>5. /\ op' \in OpType /\ op'.kind = op.kind /\ op'.s = op.s /\ op'.a = op.a /\ op'.data = op.data
          /\ op'.eectl = op.eectl /\ op'.out = op.out /\ (Writes /\ ~nack[op.s] => op'.rval = 1)
      BY <1>2, <2>1, OpUpdates
    <2>6. AccessStep
      BY <1>1, <1>2, <1>5, <2>1, <2>2, <2>4, <2>5 DEF AccessStep, Accessing, Transfer
    <2>7. ShapeInv'
      BY <1>1, <1>2, <1>5, <2>1, <2>3, <2>4, <2>5 DEF ShapeInv, Width, Transfer, Writes, ReadKinds
    <2>8. TransferInv'
      <3> SUFFICES ASSUME ~failed', op.s \notin unsure PROVE ReadingInv' /\ WritingInv'
        BY <1>1, <2>5 DEF TransferInv
      <3>1. ~failed /\ (nack[op.s] => nackcnt' < 3) /\ ReadingInv /\ WritingInv
        <4>1. ~failed /\ ~(nack[op.s] /\ nackcnt' = 3)
          BY <2>1
        <4> QED
          BY <1>1, <2>4, <2>5, <4>1 DEF TransferInv
      <3>2. Words(op.s, op.a)' = Words(op.s, op.a)
        BY <1>1, <2>5 DEF Words
      <3>3. ReadingInv'
        BY <1>1, <1>5, <2>1, <2>3, <2>5, <3>1, <3>2
           DEF ReadingInv, Transfer, Writes, Served, Idles, Commanded, ReadKinds, NoCommand
      <3>4. WritingInv'
        BY <1>1, <1>5, <2>1, <2>3, <2>5, <3>1 DEF WritingInv, Transfer, Writes, Idles, Commanded,
                                                  NoCommand
      <3> QED
        BY <3>3, <3>4
    <2> QED
      BY <2>6, <2>7, <2>8, AccessFrame
  <1> QED
    BY <1>1, <1>4, <1>5

\* The time is over.
LEMMA ExpiryKeeps ==
  ASSUME EepromInv, WaitExpires
  PROVE  EepromInv'
  <1> USE DEF EepromInv
  <1>1. /\ pc \in {"wait1", "wait2"} /\ failed' = TRUE
        /\ UNCHANGED <<ee, dat, cmd, nack, cfg, held, eep_pdi, esislave, esimap, esibuf, doubtful, tool,
                       calls,
                       pending, unsure>>
    BY DEF WaitExpires, slaveVars, cacheVars
  <1>2. /\ op.s \in Slaves /\ op \in OpType /\ op.a \in Word /\ nackcnt \in 0 .. 3
        /\ dat \in [Slaves -> Seq(Datum) \ {<<>>}] /\ \A s \in Slaves : Len(dat[s]) >= Width(s)
        /\ cmd \in [Slaves -> CommandType] /\ nack \in [Slaves -> BOOLEAN]
    BY <1>1, AccessFacts DEF Accessing
  <1>3. /\ op' = op \/ op' = [op EXCEPT !.rval = 1]
        /\ nackcnt' \in {0, nackcnt}
        /\ \/ pc' = IF pc = "wait1" THEN Transfer ELSE IF Writes THEN "end" ELSE "fetch"
           \/ pc' = IF pc = "wait1" THEN "end" ELSE Repeat
    BY DEF WaitExpires
  <1>4. /\ op' \in OpType /\ op'.kind = op.kind /\ op'.s = op.s /\ op'.a = op.a /\ op'.data = op.data
        /\ op'.eectl = op.eectl /\ op'.out = op.out
    BY <1>2, <1>3, OpUpdates, ZenonT(30)
  <1>5. nackcnt' \in 0 .. 3 /\ nackcnt' < 3
    BY <1>1, <1>2, <1>3 DEF ShapeInv
  <1>6. AccessStep
    BY <1>1, <1>2, <1>3, <1>4, <1>5 DEF AccessStep, Accessing, Transfer, Repeat
  <1>7. ShapeInv'
    BY <1>1, <1>2, <1>3, <1>4, <1>5
       DEF ShapeInv, Width, Transfer, Repeat, Writes, ReadKinds, LocalsOK, OpType, Kinds
  <1>8. TransferInv'
    BY <1>1 DEF TransferInv
  <1> QED
    BY <1>6, <1>7, <1>8, AccessFrame

\* What a datagram of the call leaves alone, and what is known before it.
LEMMA StepFacts ==
  ASSUME EepromInv, pc \in {"clear", "data", "command", "fetch"}
  PROVE  /\ op.s \in Slaves /\ op \in OpType /\ op.a \in Word /\ op.data \in Datum
         /\ failed \in BOOLEAN /\ nackcnt \in 0 .. 3 /\ nackcnt < 3
         /\ dat \in [Slaves -> Seq(Datum) \ {<<>>}] /\ (\A s \in Slaves : Len(dat[s]) >= Width(s))
         /\ cmd \in [Slaves -> CommandType] /\ nack \in [Slaves -> BOOLEAN]
         /\ (op.kind # "read2" /\ op.s \notin unsure => Free(op.s))
         /\ (~failed /\ op.s \notin unsure => ReadingInv /\ WritingInv)
  BY AccessFacts DEF Accessing, EepromInv, ShapeInv, AccessInv, TransferInv

\* The error bits are cleared.
LEMMA ClearKeeps ==
  ASSUME EepromInv, ClearErrors
  PROVE  EepromInv'
  <1>1. PICK r \in Results :
           /\ Datagram(r)
           /\ nack' = IF r.done THEN [nack EXCEPT ![op.s] = FALSE] ELSE nack
           /\ failed' = (failed \/ ~r.done)
    BY DEF ClearErrors
  <1>2. /\ pc = "clear" /\ pc' = Transfer
        /\ UNCHANGED <<ee, dat, cmd, cfg, held, eep_pdi, esislave, esimap, esibuf, doubtful, tool, op,
                       calls,
                       nackcnt, pending, unsure>>
    BY DEF ClearErrors, Moves, cacheVars
  <1>3. op.s \in Slaves /\ op \in OpType /\ failed \in BOOLEAN /\ nackcnt \in 0 .. 3 /\ nackcnt < 3
    BY <1>2, StepFacts
  <1>4. op.kind \in ReadKinds \cup {"read1", "write", "alias"}
    BY <1>2 DEF EepromInv, ShapeInv, Width
  <1>5. failed' \in BOOLEAN
    BY <1>1, Zenon
  <1>6. AccessStep
    BY <1>1, <1>2, <1>3, <1>5, StepFacts DEF AccessStep, Accessing, Transfer
  <1>7. ShapeInv'
    BY <1>2, <1>3, <1>4 DEF EepromInv, ShapeInv, Width, Transfer, Writes, ReadKinds
  <1>8. TransferInv'
    <2> SUFFICES ASSUME ~failed', op.s \notin unsure PROVE ReadingInv' /\ WritingInv'
      BY <1>2 DEF TransferInv
    <2>1. ReadingInv /\ WritingInv
      BY <1>1, <1>2, StepFacts
    <2>2. ReadingInv'
      BY <1>2, <1>4, <2>1 DEF ReadingInv, Transfer, Writes, Idles, ReadKinds
    <2>3. WritingInv'
      BY <1>2, <1>4, <2>1 DEF WritingInv, Transfer, Writes, Idles, Commanded
    <2> QED
      BY <2>2, <2>3
  <1> QED
    BY <1>6, <1>7, <1>8, AccessFrame

\* The word goes into the data register.
LEMMA PutKeeps ==
  ASSUME EepromInv, PutData
  PROVE  EepromInv'
  <1>1. PICK r \in Results :
           /\ Datagram(r)
           /\ dat' = (IF r.done /\ Free(op.s) THEN [dat EXCEPT ![op.s] = <<op.data>> \o Tail(dat[op.s])] ELSE dat)
           /\ Retried(r, "data", "command")
    BY DEF PutData
  <1>2. /\ pc = "data"
        /\ UNCHANGED <<ee, cmd, nack, cfg, held, eep_pdi, esislave, esimap, esibuf, doubtful, tool, op,
                       calls,
                       nackcnt, pending, unsure>>
    BY DEF PutData, cacheVars
  <1>3. /\ op.s \in Slaves /\ op \in OpType /\ failed \in BOOLEAN /\ nackcnt \in 0 .. 3 /\ nackcnt < 3
        /\ op.data \in Datum
        /\ dat \in [Slaves -> Seq(Datum) \ {<<>>}] /\ \A s \in Slaves : Len(dat[s]) >= Width(s)
    BY <1>2, StepFacts
  <1>4. op.kind \in {"write", "alias"}
    BY <1>2 DEF EepromInv, ShapeInv, Width
  <1>5. /\ failed' \in BOOLEAN
        /\ \/ pc' = "data" /\ failed' = failed
           \/ pc' = "command" /\ (failed' <=> failed \/ r.wkc <= 0)
    BY <1>1, <1>3, RetriedFacts
  <1>6. /\ <<op.data>> \o Tail(dat[op.s]) \in Seq(Datum) \ {<<>>}
        /\ Len(<<op.data>> \o Tail(dat[op.s])) = Len(dat[op.s])
        /\ Head(<<op.data>> \o Tail(dat[op.s])) = op.data
    <2>1. Tail(dat[op.s]) \in Seq(Datum) /\ Len(Tail(dat[op.s])) = Len(dat[op.s]) - 1 /\ Len(dat[op.s]) \in Nat
      BY <1>3, HeadTailProperties, LenProperties
    <2>2. <<op.data>> \in Seq(Datum) /\ Len(<<op.data>>) = 1 /\ <<op.data>>[1] = op.data
      BY <1>3
    <2> HIDE DEF Datum
    <2>3. /\ <<op.data>> \o Tail(dat[op.s]) \in Seq(Datum)
          /\ Len(<<op.data>> \o Tail(dat[op.s])) = Len(dat[op.s])
          /\ (<<op.data>> \o Tail(dat[op.s]))[1] = op.data
      BY <2>1, <2>2, ConcatProperties
    <2> QED
      BY <2>1, <2>3, <1>3
  <1>7. dat' \in [Slaves -> Seq(Datum) \ {<<>>}] /\ (\A s \in Slaves : Len(dat'[s]) >= Width(s))
        /\ (\A q \in Slaves \ {op.s} : dat'[q] = dat[q])
    <2> DEFINE d == <<op.data>> \o Tail(dat[op.s])
    <2>1. d \in Seq(Datum) \ {<<>>} /\ Len(d) = Len(dat[op.s])
      BY <1>6
    <2>2. dat' = [dat EXCEPT ![op.s] = d] \/ dat' = dat
      BY <1>1
    <2> HIDE DEF d
    <2> QED
      BY <1>3, <2>1, <2>2
  <1>8. AccessStep
    BY <1>1, <1>2, <1>3, <1>5, <1>7, StepFacts DEF AccessStep, Accessing
  <1>9. ShapeInv'
    BY <1>2, <1>3, <1>4, <1>5 DEF EepromInv, ShapeInv, Width, ReadKinds
  <1>10. TransferInv'
    <2> SUFFICES ASSUME ~failed', op.s \notin unsure PROVE ReadingInv' /\ WritingInv'
      BY <1>2 DEF TransferInv
    <2>1. ReadingInv /\ WritingInv /\ Free(op.s)
      BY <1>2, <1>4, <1>5, StepFacts
    <2>2. ReadingInv'
      BY <1>2, <1>4, <1>5, <2>1 DEF ReadingInv, ReadKinds
    <2>3. pc' = "command" => Head(dat'[op.s]) = op.data
      <3>1. SUFFICES ASSUME pc' = "command" PROVE Head(dat'[op.s]) = op.data
        OBVIOUS
      <3>2. r.done
        BY <1>1, <1>5, <3>1, DatagramFacts
      <3>3. dat'[op.s] = <<op.data>> \o Tail(dat[op.s])
        BY <1>1, <1>3, <2>1, <3>2
      <3> QED
        BY <1>6, <3>3
    <2>4. WritingInv'
      BY <1>2, <1>4, <1>5, <2>1, <2>3 DEF WritingInv, Writes, Idles, Commanded
    <2> QED
      BY <2>2, <2>4
  <1> QED
    BY <1>8, <1>9, <1>10, AccessFrame

\* The command is given.
LEMMA CommandKeeps ==
  ASSUME EepromInv, GiveCommand
  PROVE  EepromInv'
  <1> DEFINE what == IF Writes THEN "write" ELSE "read"
             c == [what |-> what, a |-> op.a]
  <1>1. PICK r \in Results :
           /\ Datagram(r)
           /\ Command(r, c)
           /\ Retried(r, "command", IF op.kind = "read1" THEN "done" ELSE IF r.wkc = 0 THEN Repeat ELSE "wait2")
    BY DEF GiveCommand
  <1>2. /\ pc = "command"
        /\ pending' = (IF pc' = "done" THEN [pending EXCEPT ![op.s] = [a |-> op.a, failed |-> failed']] ELSE pending)
        /\ UNCHANGED <<ee, dat, cfg, held, eep_pdi, esislave, esimap, esibuf, doubtful, tool, op, calls,
                       nackcnt,
                       unsure>>
    BY DEF GiveCommand, cacheVars
  <1>3. /\ op.s \in Slaves /\ op \in OpType /\ op.a \in Word /\ failed \in BOOLEAN /\ nackcnt \in 0 .. 3 /\ nackcnt < 3
        /\ cmd \in [Slaves -> CommandType] /\ nack \in [Slaves -> BOOLEAN]
    BY <1>2, StepFacts
  <1>4. op.kind \in ReadKinds \cup {"read1", "write", "alias"}
    BY <1>2 DEF EepromInv, ShapeInv, Width
  <1>5. /\ failed' \in BOOLEAN
        /\ \/ pc' = "command" /\ failed' = failed
           \/ /\ pc' = IF op.kind = "read1" THEN "done" ELSE IF r.wkc = 0 THEN Repeat ELSE "wait2"
              /\ failed' <=> failed \/ r.wkc <= 0
    BY <1>1, <1>3, RetriedFacts
  <1>6. c \in CommandType /\ c.what = what /\ c.a = op.a
    BY <1>3 DEF CommandType
  <1>7. /\ cmd' \in [Slaves -> CommandType] /\ nack' \in [Slaves -> BOOLEAN]
        /\ \A q \in Slaves \ {op.s} : cmd'[q] = cmd[q] /\ nack'[q] = nack[q]
        /\ cmd'[op.s] = cmd[op.s] \/ cmd'[op.s] = c
        /\ r.done /\ Free(op.s) /\ Idles(op.s) => cmd'[op.s] = c
        /\ ~Idles(op.s) => cmd'[op.s] = cmd[op.s]
    <2> HIDE DEF c
    <2> QED
      BY <1>1, <1>3, <1>6 DEF Command, Idles
  <1>8. cmd'[op.s] # cmd[op.s] => cmd'[op.s].what # "write" \/ (Writes /\ cmd'[op.s].a = op.a)
    BY <1>6, <1>7
  <1>9. ASSUME ~failed', op.s \notin unsure
        PROVE  /\ ReadingInv /\ WritingInv
               /\ Idles(op.s)' \/ Commanded(op.s, what, op.a)'
               /\ pc' # "command" => Commanded(op.s, what, op.a)'
    <2>1. ReadingInv /\ WritingInv /\ Free(op.s)
      BY <1>2, <1>4, <1>5, <1>9, StepFacts DEF ReadKinds
    <2>2. Idles(op.s) \/ cmd[op.s] = c
      BY <1>2, <1>4, <2>1 DEF ReadingInv, WritingInv, Commanded, Writes, ReadKinds
    <2>3. cmd'[op.s] = c \/ (cmd'[op.s] = cmd[op.s] /\ Idles(op.s))
      BY <1>7, <2>2
    <2>4. pc' # "command" => r.done
      BY <1>1, <1>5, <1>9, DatagramFacts
    <2> QED
      BY <1>2, <1>7, <2>1, <2>2, <2>3, <2>4 DEF Commanded, Idles, Writes
  <1>10. AccessStep
    <2>1. pc' \in Accessing \cup {"done"} /\ (pc' = "done" => op.kind = "read1")
      BY <1>5 DEF Accessing, Repeat, Transfer
    <2>2. pc' = "done" /\ ~failed' /\ op.s \notin unsure => Served(op.s, op.a)'
      BY <1>2, <1>9, <2>1 DEF Served, Writes, Commanded
    <2> HIDE DEF c
    <2> QED
      BY <1>2, <1>3, <1>5, <1>7, <1>8, <2>1, <2>2, StepFacts DEF AccessStep, Accessing
  <1>11. ShapeInv'
    BY <1>2, <1>3, <1>4, <1>5 DEF EepromInv, ShapeInv, Width, Repeat, Transfer, Writes, ReadKinds
  <1>12. TransferInv'
    <2> SUFFICES ASSUME ~failed', op.s \notin unsure PROVE ReadingInv' /\ WritingInv'
      BY <1>2 DEF TransferInv
    <2>1. pc' = "command" \/ (op.kind = "read1" /\ pc' = "done") \/ pc' = "wait2"
      BY <1>5
    <2>2. Words(op.s, op.a)' = Words(op.s, op.a)
      BY <1>2 DEF Words
    <2>3. ReadingInv'
      BY <1>2, <1>4, <1>9, <2>1, <2>2 DEF ReadingInv, Served, Writes, ReadKinds, Commanded, Idles
    <2>4. WritingInv'
      BY <1>2, <1>4, <1>9, <2>1 DEF WritingInv, Writes, ReadKinds, Commanded, Idles
    <2> QED
      BY <2>3, <2>4
  <1> QED
    BY <1>10, <1>11, <1>12, AccessFrame

\* The data are fetched.
LEMMA FetchKeeps ==
  ASSUME EepromInv, FetchData
  PROVE  EepromInv'
  <1>1. PICK r \in Results :
           /\ Datagram(r)
           /\ op' = (IF r.wkc > 0 THEN [op EXCEPT !.out = SubSeq(dat[op.s], 1, Width(op.s))] ELSE op)
           /\ Retried(r, "fetch", "end")
    BY DEF FetchData
  <1>2. /\ pc = "fetch"
        /\ UNCHANGED <<ee, dat, cmd, nack, cfg, held, eep_pdi, esislave, esimap, esibuf, doubtful, tool,
                       calls,
                       nackcnt, pending, unsure>>
    BY DEF FetchData, slaveVars, cacheVars
  <1>3. /\ op.s \in Slaves /\ op \in OpType /\ op.a \in Word /\ failed \in BOOLEAN /\ nackcnt \in 0 .. 3 /\ nackcnt < 3
        /\ dat \in [Slaves -> Seq(Datum) \ {<<>>}] /\ \A s \in Slaves : Len(dat[s]) >= Width(s)
    BY <1>2, StepFacts
  <1>4. op.kind \in ReadKinds \cup {"read2"}
    BY <1>2 DEF EepromInv, ShapeInv, Width
  <1>5. /\ failed' \in BOOLEAN
        /\ \/ pc' = "fetch" /\ failed' = failed
           \/ pc' = "end" /\ (failed' <=> failed \/ r.wkc <= 0)
    BY <1>1, <1>3, RetriedFacts
  <1>6. /\ SubSeq(dat[op.s], 1, Width(op.s)) \in Seq(Datum)
        /\ Len(SubSeq(dat[op.s], 1, Width(op.s))) = Width(op.s)
    <2>1. dat[op.s] \in Seq(Datum) /\ Width(op.s) \in {2, 4} /\ Len(dat[op.s]) >= Width(op.s) /\ Len(dat[op.s]) \in Nat
      BY <1>3, LenProperties DEF Width
    <2> HIDE DEF Datum
    <2> QED
      BY <2>1, SubSeqProperties
  <1>7. /\ op' \in OpType /\ op'.kind = op.kind /\ op'.s = op.s /\ op'.a = op.a /\ op'.data = op.data
        /\ op'.eectl = op.eectl /\ (op'.out = op.out \/ Len(op'.out) = Width(op.s))
        /\ (r.wkc > 0 => op'.out = SubSeq(dat[op.s], 1, Width(op.s)))
    BY <1>1, <1>3, <1>6, OpUpdates
  <1>8. AccessStep
    BY <1>1, <1>2, <1>3, <1>5, <1>7, StepFacts DEF AccessStep, Accessing
  <1>9. ShapeInv'
    <2>1. op.kind = "sii" => op'.out = Zero \/ Len(op'.out) = Width(op'.s)
      BY <1>2, <1>7 DEF EepromInv, ShapeInv, Width
    <2> QED
      BY <1>2, <1>3, <1>4, <1>5, <1>7, <2>1 DEF EepromInv, ShapeInv, Width, ReadKinds, Width
  <1>10. TransferInv'
    <2> SUFFICES ASSUME ~failed', op.s \notin unsure PROVE ReadingInv' /\ WritingInv'
      BY <1>2, <1>7 DEF TransferInv
    <2>1. ReadingInv /\ WritingInv
      BY <1>2, <1>5, StepFacts
    <2>2. Idles(op.s) /\ dat[op.s] = Words(op.s, op.a)
      BY <1>2, <2>1 DEF ReadingInv
    <2>3. Words(op.s, op.a)' = Words(op.s, op.a)
      BY <1>2, <1>7 DEF Words
    <2>4. r.wkc > 0 => op'.out = Words(op.s, op.a)
      BY <1>3, <1>7, <2>2, FetchedWords DEF EepromInv
    <2>5. r.wkc > 0 \/ r.wkc <= 0
      BY DEF Results
    <2>6. ReadingInv'
      BY <1>2, <1>4, <1>5, <1>7, <2>2, <2>3, <2>4, <2>5 DEF ReadingInv, ReadKinds, Idles
    <2>7. WritingInv'
      BY <1>4, <1>7 DEF WritingInv, Writes, ReadKinds
    <2> QED
      BY <2>6, <2>7
  <1> QED
    BY <1>8, <1>9, <1>10, AccessFrame

\* The tool's second word.
LEMMA SecondKeeps ==
  ASSUME EepromInv, SecondWrite
  PROVE  EepromInv'
  <1>1. /\ pc = "end" /\ op.kind = "alias" /\ op.a = AliasWord /\ op.rval = 1
        /\ op' = [op EXCEPT !.a = ChecksumWord, !.rval = 0]
        /\ pc' = "wait1" /\ nackcnt' = 0
        /\ UNCHANGED <<ee, dat, cmd, nack, cfg, held, eep_pdi, esislave, esimap, esibuf, doubtful, tool,
                       calls,
                       pending, failed, unsure>>
    BY DEF SecondWrite, slaveVars, cacheVars
  <1>2. ChecksumWord \in Word /\ AliasWord # ChecksumWord
    BY EepromAssumption DEF ChecksumWord, AliasWord, Word
  <1>3. op.s \in Slaves /\ op \in OpType
    BY <1>1, AccessFacts DEF Accessing
  <1>4. /\ op' \in OpType /\ op'.kind = op.kind /\ op'.s = op.s /\ op'.a = ChecksumWord /\ op'.data = op.data
        /\ op'.eectl = op.eectl
    <2>1. Zero \in Seq(Datum)
      BY EmptySeq DEF Zero
    <2> QED
      BY <1>1, <1>2, <1>3, <2>1, OpUpdates
  <1>5. AccessStep
    BY <1>1, <1>4, AccessFacts DEF AccessStep, Accessing
  <1>6. ShapeInv'
    BY <1>1, <1>3, <1>4 DEF EepromInv, ShapeInv, Width
  <1>7. TransferInv'
    BY <1>1, <1>2, <1>4 DEF EepromInv, TransferInv, ReadingInv, WritingInv, Writes, ReadKinds, Idles,
                            Commanded
  <1> QED
    BY <1>5, <1>6, <1>7, AccessFrame

\* A byte is looked for in the cache.
LEMMA ByteKeeps ==
  ASSUME EepromInv, ecx_siigetbyte
  PROVE  EepromInv'
  <1> USE DEF EepromInv
  <1>1. /\ pc = "byte" /\ esislave' = op.s
        /\ (op.s = esislave => esimap' = esimap /\ doubtful' = doubtful)
        /\ (op.s # esislave => esimap' = {} /\ doubtful' = {})
        /\ \/ op.a \notin Buf /\ pc' = "piece" /\ op' = [op EXCEPT !.out = <<NotAvailable>>]
           \/ op.a \in esimap' /\ pc' = "piece" /\ op' = [op EXCEPT !.out = <<esibuf[op.a]>>]
           \/ op.a \in Buf /\ pc' = To2master(op.s) /\ op' = op
        /\ UNCHANGED <<ee, dat, cmd, nack, cfg, held, eep_pdi, esibuf, tool, calls, nackcnt, pending,
                       failed, unsure>>
    BY DEF ecx_siigetbyte, Lookup, slaveVars
  <1>2. op.kind = "sii" /\ op.s \in Slaves /\ op \in OpType /\ op.a \in Word /\ ~tool /\ nackcnt < 3 /\ tool \in BOOLEAN
    BY <1>1 DEF ShapeInv, LocalsOK, OpType
  <1>3. /\ op' \in OpType /\ op'.kind = "sii" /\ op'.s = op.s /\ op'.a = op.a /\ op'.eectl = op.eectl
        /\ \/ pc' = "piece" /\ op'.out = <<esibuf'[op.a]>> /\ op.a \in esimap'
           \/ pc' = "piece" /\ op'.out = <<NotAvailable>> /\ op.a \notin Buf
           \/ pc' \in {"force", "wait1"} /\ op' = op /\ (pc' = "wait1" => ~eep_pdi[op.s]) /\ op.a \in Buf
    <2>1. \A d \in Datum : <<d>> \in Seq(Datum)
      <3> HIDE DEF Datum
      <3> QED
        OBVIOUS
    <2>2. CASE op.a \notin Buf /\ pc' = "piece" /\ op' = [op EXCEPT !.out = <<NotAvailable>>]
      <3>1. <<NotAvailable>> \in Seq(Datum)
        BY <2>1, BufFacts
      <3> QED
        BY <1>1, <1>2, <2>2, <3>1, OpUpdates, ZenonT(30)
    <2>3. CASE op.a \in esimap' /\ pc' = "piece" /\ op' = [op EXCEPT !.out = <<esibuf[op.a]>>]
      <3>1. op.a \in Buf
        BY <1>1, <2>3 DEF LocalsOK
      <3>2. <<esibuf[op.a]>> \in Seq(Datum)
        BY <2>1, <3>1 DEF LocalsOK
      <3> QED
        BY <1>1, <1>2, <2>3, <3>2, OpUpdates, ZenonT(30)
    <2>4. CASE op.a \in Buf /\ pc' = To2master(op.s) /\ op' = op
      BY <1>2, <2>4 DEF To2master
    <2> QED
      BY <1>1, <2>2, <2>3, <2>4
  <1>4. RegistersOK' /\ LocalsOK'
    BY <1>1, <1>2, <1>3 DEF RegistersOK, LocalsOK, Places, Width
  <1>5. ShapeInv'
    BY <1>1, <1>2, <1>3 DEF ShapeInv, Width
  <1>6. \A q \in Slaves \ unsure : Settled(q)
    BY <1>1, <1>2 DEF ControlInv
  <1>7. ControlInv'
    BY <1>1, <1>3, <1>6 DEF ControlInv, Settled
  <1>8. RestoreInv'
    BY <1>1, <1>2, <1>3 DEF RestoreInv
  <1>9. AccessInv'
    BY <1>1, <1>2, <1>3, <1>6 DEF AccessInv, Settled, Free, LocalsOK, RegistersOK
  <1>10. TransferInv'
    BY <1>1, <1>3 DEF TransferInv, ReadingInv, WritingInv, Writes, ReadKinds
  <1>11. PendingInv'
    <2>1. \A q \in Slaves : \A b : Served(q, b)' = Served(q, b)
      BY <1>1 DEF Served, Commanded, Idles, Words
    <2> QED
      BY <1>1, <1>3, <2>1 DEF PendingInv
  <1>12. CacheInv'
    <2>1. Trusted' = (IF op.s = esislave THEN Trusted ELSE {})
      BY <1>1 DEF Trusted
    <2> QED
      BY <1>1, <1>2, <1>3, <2>1 DEF CacheInv
  <1> QED
    BY <1>4, <1>5, <1>7, <1>8, <1>9, <1>10, <1>11, <1>12

\* What was read is put into the cache.
LEMMA FillKeeps ==
  ASSUME EepromInv, FillCache
  PROVE  EepromInv'
  <1> USE DEF EepromInv
  <1> DEFINE answer == op.a .. op.a + Width(op.s) - 1
             filled == answer \cap Buf
  <1>1. /\ pc = "end" /\ pc' = "piece" /\ op.kind = "sii"
        /\ IF answer \subseteq Buf THEN esimap' = esimap \cup filled
           ELSE \E spoilt \in SUBSET Buf : esimap' = spoilt \cup filled
        /\ esibuf' = [w \in Buf |-> IF w \notin filled THEN esibuf[w]
                                   ELSE IF op.out = Zero THEN Zero ELSE op.out[w - op.a + 1]]
        /\ LET before == IF answer \subseteq Buf THEN doubtful ELSE Buf
           IN  doubtful' = IF failed \/ op.s \in unsure THEN before \cup filled ELSE before \ filled
        /\ op' = [op EXCEPT !.out = <<esibuf'[op.a]>>]
        /\ UNCHANGED <<ee, dat, cmd, nack, cfg, held, eep_pdi, esislave, tool, calls, nackcnt, pending,
                       failed, unsure>>
    BY DEF FillCache, Moves, slaveVars
  <1>2. /\ op.s \in Slaves /\ op \in OpType /\ op.a \in Buf /\ op.a \in Word /\ ~tool /\ tool \in BOOLEAN
        /\ op.out \in Seq(Datum)
        /\ (op.out = Zero \/ Len(op.out) = Width(op.s)) /\ esislave = op.s /\ Width(op.s) \in {2, 4}
    BY <1>1, BufFacts DEF ShapeInv, LocalsOK, OpType, CacheInv, Width
  <1>3. /\ filled \subseteq Buf /\ op.a \in filled
        /\ \A w \in filled : w \in Buf /\ w - op.a + 1 \in 1 .. Width(op.s)
    BY <1>2, BufFacts
  <1>0. /\ esimap' \in SUBSET Buf /\ op.a \in esimap'
        /\ Trusted' \subseteq Trusted \cup filled
        /\ failed \/ op.s \in unsure => Trusted' \subseteq Trusted \ filled
    <2>1. esimap \in SUBSET Buf
      BY DEF LocalsOK
    <2>2. CASE answer \subseteq Buf
      <3>1. /\ esimap' = esimap \cup filled
            /\ doubtful' = IF failed \/ op.s \in unsure THEN doubtful \cup filled ELSE doubtful \ filled
        BY <1>1, <2>2
      <3> HIDE DEF filled, answer
      <3> QED
        BY <1>3, <2>1, <3>1 DEF Trusted
    <2>3. CASE ~(answer \subseteq Buf)
      <3>1. /\ \E spoilt \in SUBSET Buf : esimap' = spoilt \cup filled
            /\ doubtful' = IF failed \/ op.s \in unsure THEN Buf \cup filled ELSE Buf \ filled
        BY <1>1, <2>3
      <3> HIDE DEF filled, answer
      <3>2. esimap' \in SUBSET Buf
        BY <1>3, <3>1
      <3> QED
        BY <1>3, <3>1, <3>2 DEF Trusted
    <2> QED
      BY <2>2, <2>3
  <1>13. /\ pc = "end" /\ pc' = "piece" /\ op.kind = "sii"
         /\ esibuf' = [w \in Buf |-> IF w \notin filled THEN esibuf[w]
                                    ELSE IF op.out = Zero THEN Zero ELSE op.out[w - op.a + 1]]
         /\ op' = [op EXCEPT !.out = <<esibuf'[op.a]>>]
         /\ UNCHANGED <<ee, dat, cmd, nack, cfg, held, eep_pdi, esislave, tool, calls, nackcnt, pending,
                        failed, unsure>>
    BY <1>1
  <1> HIDE DEF filled, answer
  <1>4. esibuf' \in [Buf -> Datum]
    <2>1. ASSUME NEW w \in Buf, w \in filled, op.out # Zero PROVE op.out[w - op.a + 1] \in Datum
      BY <1>2, <1>3, <2>1
    <2>2. Zero \in Datum /\ \A w \in Buf : esibuf[w] \in Datum
      BY BufFacts DEF LocalsOK
    <2> QED
      BY <1>13, <2>1, <2>2
  <1>5. /\ op' \in OpType /\ op'.kind = "sii" /\ op'.s = op.s /\ op'.a = op.a /\ op'.eectl = op.eectl
        /\ op'.out = <<esibuf'[op.a]>>
    <2>1. esibuf'[op.a] \in Datum
      BY <1>2, <1>4
    <2>2. <<esibuf'[op.a]>> \in Seq(Datum)
      <3> HIDE DEF Datum
      <3> QED
        BY <2>1
    <2> QED
      BY <1>13, <1>2, <2>2, OpUpdates, ZenonT(30)
  <1>6. RegistersOK' /\ LocalsOK'
    BY <1>13, <1>2, <1>0, <1>4, <1>5 DEF RegistersOK, LocalsOK, Places, Width
  <1>7. ShapeInv'
    BY <1>13, <1>2, <1>5 DEF ShapeInv
  <1>8. ControlInv'
    BY <1>13, <1>5 DEF ControlInv, Settled
  <1>9. RestoreInv' /\ AccessInv'
    BY <1>13, <1>5 DEF RestoreInv, AccessInv
  <1>10. TransferInv'
    BY <1>13, <1>5 DEF TransferInv, ReadingInv, WritingInv, Writes, ReadKinds
  <1>11. PendingInv'
    <2>1. \A q \in Slaves : \A b : Served(q, b)' = Served(q, b)
      BY <1>13 DEF Served, Commanded, Idles, Words
    <2> QED
      BY <1>13, <1>5, <2>1 DEF PendingInv
  <1>12. CacheInv'
    <2>1. CASE failed \/ op.s \in unsure
      <3>1. Trusted' \subseteq Trusted /\ \A w \in Trusted' : w \notin filled
        BY <1>0, <2>1
      <3>2. \A w \in Trusted' : w \in Buf /\ esibuf'[w] = esibuf[w]
        BY <1>0, <1>13, <3>1 DEF Trusted
      <3> QED
        BY <1>13, <1>2, <1>0, <1>5, <3>1, <3>2 DEF CacheInv
    <2>2. CASE ~failed /\ op.s \notin unsure
      <3>1. \A w \in Trusted' : w \in filled \/ w \in Trusted
        BY <1>0
      <3>2. Idles(op.s) /\ op.out = Words(op.s, op.a)
        BY <1>13, <2>2 DEF TransferInv, ReadingInv, ReadKinds
      <3>3. op.out # Zero
        BY <1>2, <3>2, WordsFacts DEF Zero
      <3>4. ASSUME NEW w \in filled PROVE esibuf'[w] = ee[op.s][w]
        <4>1. w \in Buf /\ w - op.a + 1 \in 1 .. Width(op.s) /\ op.a \in Word /\ op.a \in Int /\ w \in Int /\ w <= MaxWord
          BY <1>2, <1>3, <3>4, BufFacts, EepromAssumption DEF Word
        <4>2. esibuf'[w] = op.out[w - op.a + 1]
          BY <1>13, <3>3, <3>4, <4>1
        <4>3. op.a + (w - op.a + 1) - 1 = w
          BY <4>1
        <4>4. Words(op.s, op.a)[w - op.a + 1] = ee[op.s][op.a + (w - op.a + 1) - 1]
          BY <1>2, <4>1, <4>3, WordsFacts
        <4> QED
          BY <3>2, <4>2, <4>3, <4>4
      <3>5. \A w \in Trusted' : w \in Buf
        BY <1>0 DEF Trusted
      <3>6. \A w \in Trusted' : esislave \in unsure \/ esibuf'[w] = ee[esislave][w]
        BY <1>13, <1>2, <3>1, <3>4, <3>5 DEF CacheInv
      <3>7. cmd[op.s].what # "write"
        BY <3>2 DEF Idles, NoCommand
      <3> QED
        BY <1>13, <1>2, <1>0, <1>5, <3>6, <3>7 DEF CacheInv
    <2> QED
      BY <2>1, <2>2 DEF LocalsOK
  <1> QED
    BY <1>6, <1>7, <1>8, <1>9, <1>10, <1>11, <1>12

\* One access is over.
LEMMA EndsKeeps ==
  ASSUME EepromInv, Ends
  PROVE  EepromInv'
  <1> USE DEF EepromInv
  <1>1. /\ pc = "end" /\ op.kind # "sii" /\ pc' = (IF op.kind = "dump" THEN "piece" ELSE "done")
        /\ ~(op.kind = "alias" /\ op.a = AliasWord /\ op.rval = 1)
        /\ pending' = (IF op.kind = "read1" THEN [pending EXCEPT ![op.s] = [a |-> op.a, failed |-> TRUE]] ELSE pending)
        /\ UNCHANGED <<ee, dat, cmd, nack, cfg, held, eep_pdi, esislave, esimap, esibuf, doubtful, tool,
                       op, calls,
                       nackcnt, failed, unsure>>
    BY DEF Ends, slaveVars, cacheVars
  <1>2. op.s \in Slaves /\ op \in OpType /\ op.a \in Word /\ op.kind \notin {"pdi", "idle"}
    BY <1>1 DEF ShapeInv, LocalsOK, OpType
  <1>3. RegistersOK'
    BY <1>1 DEF RegistersOK, Width
  <1>4. LocalsOK'
    <2> DEFINE P == [a : 0 .. MaxWord + 1, failed : BOOLEAN]
    <2>1. [a |-> op.a, failed |-> TRUE] \in P /\ pending \in [Slaves -> P]
      BY <1>2, EepromAssumption DEF LocalsOK, Word
    <2> HIDE DEF P
    <2>2. pending' \in [Slaves -> P]
      BY <1>1, <2>1
    <2>3. pending' \in [Slaves -> [a : 0 .. MaxWord + 1, failed : BOOLEAN]]
      BY <2>2 DEF P
    <2> QED
      BY <1>1, <2>3 DEF LocalsOK, Places
  <1>5. ShapeInv'
    BY <1>1, <1>2 DEF ShapeInv, Width
  <1>6. ControlInv'
    BY <1>1 DEF ControlInv, Settled
  <1>7. RestoreInv' /\ AccessInv'
    BY <1>1 DEF RestoreInv, AccessInv, Free
  <1>8. TransferInv'
    <2> SUFFICES ASSUME ~failed, op.s \notin unsure PROVE ReadingInv' /\ WritingInv'
      BY <1>1 DEF TransferInv
    <2>1. ReadingInv /\ WritingInv
      BY DEF TransferInv
    <2>2. Words(op.s, op.a)' = Words(op.s, op.a)
      BY <1>1 DEF Words
    <2>3. ReadingInv'
      BY <1>1, <1>2, <2>1, <2>2 DEF ReadingInv, ReadKinds, Idles
    <2>4. WritingInv'
      BY <1>1, <2>1 DEF WritingInv, Writes, Idles, Commanded
    <2> QED
      BY <2>3, <2>4
  <1>9. PendingInv'
    <2>1. \A q \in Slaves : \A b : Served(q, b)' = Served(q, b)
      BY <1>1 DEF Served, Commanded, Idles, Words
    <2>2. pending[op.s] = NotPending
      BY <1>1 DEF PendingInv
    <2>3. CASE op.kind = "read1"
      <3>1. ~tool
        BY <2>3 DEF ShapeInv
      <3>2. /\ pending'[op.s] = [a |-> op.a, failed |-> TRUE]
            /\ \A q \in Slaves \ {op.s} : pending'[q] = pending[q]
        BY <1>1, <1>2, <2>3 DEF LocalsOK
      <3> QED
        BY <1>1, <1>2, <2>1, <2>3, <3>1, <3>2 DEF PendingInv
    <2>4. CASE op.kind # "read1"
      BY <1>1, <2>1, <2>2, <2>4 DEF PendingInv
    <2> QED
      BY <2>3, <2>4
  <1>10. CacheInv'
    BY <1>1 DEF CacheInv, Trusted
  <1> QED
    BY <1>3, <1>4, <1>5, <1>6, <1>7, <1>8, <1>9, <1>10

\* The next byte, or the next words of a dump.
LEMMA NextKeeps ==
  ASSUME EepromInv, NextPiece
  PROVE  EepromInv'
  <1> USE DEF EepromInv
  <1>1. PICK a \in Word : op' = [op EXCEPT !.a = a, !.out = Zero]
    BY DEF NextPiece
  <1>2. /\ pc = "piece" /\ pc' = (IF op.kind = "dump" THEN "wait1" ELSE "byte") /\ nackcnt' = 0 /\ failed' = FALSE
        /\ UNCHANGED <<ee, dat, cmd, nack, cfg, held, eep_pdi, esislave, esimap, esibuf, doubtful, tool,
                       calls,
                       pending, unsure>>
    BY DEF NextPiece, slaveVars, cacheVars
  <1>3. op.s \in Slaves /\ op \in OpType /\ op.kind \in {"sii", "dump"}
    BY <1>2 DEF ShapeInv, LocalsOK
  <1>4. /\ op' \in OpType /\ op'.kind = op.kind /\ op'.s = op.s /\ op'.a = a /\ op'.data = op.data
        /\ op'.eectl = op.eectl /\ op'.out = Zero
    <2>1. Zero \in Seq(Datum)
      BY EmptySeq DEF Zero
    <2> QED
      BY <1>1, <1>3, <2>1, OpUpdates
  <1>5. RegistersOK' /\ LocalsOK'
    <2>1. RegistersOK'
      BY <1>2 DEF RegistersOK, Width
    <2>2. LocalsOK'
      <3>1. pc' \in Places /\ nackcnt' \in 0 .. 3
        BY <1>2 DEF Places
      <3>2. failed' \in BOOLEAN
        BY <1>2
      <3> QED
        BY <3>1, <3>2, <1>2, <1>4 DEF LocalsOK
    <2> QED
      BY <2>1, <2>2
  <1>6. ShapeInv'
    BY <1>2, <1>3, <1>4 DEF ShapeInv, LocalsOK
  <1>7. ControlInv'
    BY <1>2, <1>4 DEF ControlInv, Settled
  <1>8. RestoreInv' /\ AccessInv'
    BY <1>2, <1>3, <1>4 DEF RestoreInv, AccessInv, Free
  <1>9. TransferInv'
    BY <1>2, <1>3, <1>4 DEF TransferInv, ReadingInv, WritingInv, Writes, ReadKinds
  <1>10. PendingInv'
    <2>1. \A q \in Slaves : \A b : Served(q, b)' = Served(q, b)
      BY <1>2 DEF Served, Commanded, Idles, Words
    <2> QED
      BY <1>2, <1>4, <2>1 DEF PendingInv
  <1>11. CacheInv'
    BY <1>2, <1>3, <1>4 DEF CacheInv, Trusted
  <1> QED
    BY <1>5, <1>6, <1>7, <1>8, <1>9, <1>10, <1>11

\* After the last piece.
LEMMA LastKeeps ==
  ASSUME EepromInv, LastPiece
  PROVE  EepromInv'
  <1> USE DEF EepromInv
  <1>1. /\ pc = "piece" /\ pc' = (IF op.eectl THEN "topdi" ELSE "done")
        /\ UNCHANGED <<ee, dat, cmd, nack, cfg, held, eep_pdi, esislave, esimap, esibuf, doubtful, tool,
                       op, calls,
                       nackcnt, pending, failed, unsure>>
    BY DEF LastPiece, Moves, slaveVars, cacheVars
  <1>2. op.s \in Slaves /\ op.kind \in {"sii", "dump"} /\ op.eectl \in BOOLEAN /\ eep_pdi[op.s] \in BOOLEAN
    BY <1>1 DEF ShapeInv, LocalsOK, OpType
  <1>3. RegistersOK' /\ LocalsOK' /\ ShapeInv'
    BY <1>1, <1>2 DEF RegistersOK, LocalsOK, ShapeInv, Places, Width
  <1>4. ControlInv'
    BY <1>1 DEF ControlInv, Settled
  <1>5. RestoreInv' /\ AccessInv'
    BY <1>1, <1>2 DEF RestoreInv, AccessInv
  <1>6. TransferInv'
    BY <1>1, <1>2 DEF TransferInv, ReadingInv, WritingInv, Writes, ReadKinds
  <1>7. PendingInv'
    <2>1. \A q \in Slaves : \A b : Served(q, b)' = Served(q, b)
      BY <1>1 DEF Served, Commanded, Idles, Words
    <2> QED
      BY <1>1, <2>1 DEF PendingInv
  <1>8. CacheInv'
    BY <1>1 DEF CacheInv, Trusted
  <1> QED
    BY <1>3, <1>4, <1>5, <1>6, <1>7, <1>8

\* The call is over.
LEMMA ReturnKeeps ==
  ASSUME EepromInv, Return
  PROVE  EepromInv'
  <1> USE DEF EepromInv
  <1>1. /\ pc = "done" /\ pc' = "idle" /\ op' = Idle /\ nackcnt' = 0 /\ failed' = FALSE
        /\ UNCHANGED <<ee, dat, cmd, nack, cfg, held, eep_pdi, esislave, esimap, esibuf, doubtful, tool,
                       calls,
                       pending, unsure>>
    BY DEF Return, Moves, slaveVars, cacheVars
  <1>2. op' \in OpType /\ op'.kind = "idle" /\ op'.out = Zero
    <2>1. Zero \in Seq(Datum) /\ Zero \in Datum
      BY EmptySeq DEF Zero, Datum
    <2> QED
      BY <1>1, <2>1, EepromAssumption DEF Idle, OpType, Kinds, Word
  <1>3. RegistersOK' /\ LocalsOK' /\ ShapeInv'
    <2>1. RegistersOK'
      BY <1>1 DEF RegistersOK, Width
    <2>2. LocalsOK'
      <3>1. pc' \in Places /\ nackcnt' \in 0 .. 3
        BY <1>1 DEF Places
      <3>2. failed' \in BOOLEAN
        BY <1>1
      <3> QED
        BY <3>1, <3>2, <1>1, <1>2 DEF LocalsOK
    <2>3. ShapeInv'
      BY <1>1, <1>2 DEF ShapeInv, LocalsOK
    <2> QED
      BY <2>1, <2>2, <2>3
  <1>4. ControlInv'
    BY <1>1 DEF ControlInv, Settled
  <1>5. RestoreInv' /\ AccessInv'
    BY <1>1, <1>2 DEF RestoreInv, AccessInv
  <1>6. TransferInv'
    BY <1>1, <1>2 DEF TransferInv, ReadingInv, WritingInv, Writes, ReadKinds
  <1>7. PendingInv'
    <2>1. \A q \in Slaves : \A b : Served(q, b)' = Served(q, b)
      BY <1>1 DEF Served, Commanded, Idles, Words
    <2> QED
      BY <1>1, <2>1 DEF PendingInv
  <1>8. CacheInv'
    BY <1>1, <1>2 DEF CacheInv, Trusted
  <1> QED
    BY <1>3, <1>4, <1>5, <1>6, <1>7, <1>8

-----------------------------------------------------------------------------
(* A write changes no other word                                           *)

\* The number of the call a datum belongs to.
Age(d) == IF d \in Slaves \X Nat \X Nat THEN d[3] ELSE 0

\* No datum is of a call to come.
AgeInv ==
    /\ \A s \in Slaves, w \in Word : Age(ee[s][w]) <= calls
    /\ \A s \in Slaves : Age(Head(dat[s])) <= calls
    /\ Age(op.data) <= calls

\* What a write is to put into its words stands in no other word, and a command that is still under
\* way for another word does not find it in the data register.
OthersInv ==
    Writes /\ ~failed /\ op.s \notin unsure =>
        /\ \A w \in Word \ Targets : ee[op.s][w] # op.data
        /\ cmd[op.s].what = "write" /\ cmd[op.s].a \notin Targets => Head(dat[op.s]) # op.data

\* The ages are numbers.
LEMMA AgeFacts ==
  ASSUME NEW d \in Datum
  PROVE  Age(d) \in Nat
  <1>1. CASE d \in Slaves \X Nat \X Nat
    <2>1. PICK x \in Slaves, y \in Nat, z \in Nat : d = <<x, y, z>>
      BY <1>1
    <2> QED
      BY <2>1 DEF Age
  <1>2. CASE d \notin Slaves \X Nat \X Nat
    BY <1>2 DEF Age
  <1> QED
    BY <1>1, <1>2

\* The types the arguments below need.
LEMMA DataTypes ==
  ASSUME EepromInv
  PROVE  /\ calls \in Nat /\ op.data \in Datum /\ op.a \in Word
         /\ \A s \in Slaves : /\ Head(dat[s]) \in Datum /\ cmd[s].a \in Word
                              /\ \A w \in Word : ee[s][w] \in Datum
         /\ Writes => op.s \in Slaves
  <1>1. \A s \in Slaves : Head(dat[s]) \in Datum
    BY HeadTailProperties DEF EepromInv, RegistersOK
  <1>2. Writes => op.s \in Slaves
    BY DEF EepromInv, ShapeInv, Writes
  <1> QED
    BY <1>1, <1>2 DEF EepromInv, RegistersOK, LocalsOK, OpType, CommandType

\* A step that changes neither the registers nor the write.
LEMMA OthersFrame ==
  ASSUME AgeInv, OthersInv, UNCHANGED <<ee, dat, calls>>,
         op'.data = op.data \/ op'.data = Zero,
         \/ ~Writes'
         \/ /\ op'.s = op.s /\ op'.kind = op.kind /\ op'.data = op.data /\ Targets \subseteq Targets'
            /\ ~failed' => ~failed
            /\ op.s \notin unsure' => op.s \notin unsure
            /\ cmd'[op.s].what = "write" => cmd'[op.s] = cmd[op.s] \/ cmd'[op.s].a \in Targets',
         calls \in Nat
  PROVE  AgeInv' /\ OthersInv'
  <1>1. Age(Zero) = 0
    BY DEF Age, Zero
  <1>2. AgeInv'
    BY <1>1 DEF AgeInv, Age
  <1>3. CASE ~Writes'
    BY <1>2, <1>3 DEF OthersInv, Writes
  <1>4. CASE Writes'
    <2>1. /\ op'.s = op.s /\ op'.kind = op.kind /\ op'.data = op.data /\ Targets \subseteq Targets'
          /\ ~failed' => ~failed
          /\ op.s \notin unsure' => op.s \notin unsure
          /\ cmd'[op.s].what = "write" => cmd'[op.s] = cmd[op.s] \/ cmd'[op.s].a \in Targets'
      BY <1>4
    <2> SUFFICES ASSUME ~failed', op.s \notin unsure'
                 PROVE  /\ \A w \in Word \ Targets' : ee[op.s][w] # op.data
                        /\ cmd'[op.s].what = "write" /\ cmd'[op.s].a \notin Targets' => Head(dat[op.s]) # op.data
      BY <1>2, <2>1 DEF OthersInv
    <2>2. Writes
      BY <1>4, <2>1 DEF Writes
    <2> QED
      BY <2>1, <2>2 DEF OthersInv
  <1> QED
    BY <1>2, <1>3, <1>4

\* A call begins with a datum that nobody has yet.
LEMMA OthersBegin ==
  ASSUME EepromInv, AgeInv, NEW k \in Kinds \ {"idle"}, NEW s \in Slaves, NEW a \in Word, Opens(k, s, a)
  PROVE  AgeInv' /\ OthersInv'
  <1>1. /\ op'.s = s /\ op'.data = <<s, a, calls + 1>> /\ UNCHANGED <<ee, dat>> /\ calls' = calls + 1
    BY CallFields DEF Opens
  <1>2. Age(<<s, a, calls + 1>>) = calls + 1
    BY DataTypes, EepromAssumption DEF Age, Word
  <1>3. AgeInv'
    <2>1. \A q \in Slaves, w \in Word : Age(ee[q][w]) <= calls + 1
      BY DataTypes, AgeFacts DEF AgeInv
    <2>2. \A q \in Slaves : Age(Head(dat[q])) <= calls + 1
      BY DataTypes, AgeFacts DEF AgeInv
    <2> QED
      BY <1>1, <1>2, <2>1, <2>2, DataTypes DEF AgeInv, Age
  <1>4. \A d : Age(d) <= calls => d # <<s, a, calls + 1>>
    BY <1>2, DataTypes
  <1>5. OthersInv'
    BY <1>1, <1>4 DEF AgeInv, OthersInv
  <1> QED
    BY <1>3, <1>5

\* The slave carries out a command.
LEMMA OthersFinish ==
  ASSUME EepromInv, AgeInv, OthersInv, NEW s \in Slaves, SlaveFinishes(s)
  PROVE  AgeInv' /\ OthersInv'
  <1>1. /\ cmd' = [cmd EXCEPT ![s] = NoCommand] /\ UNCHANGED <<op, calls, failed, unsure>>
        /\ \/ cmd[s].what = "read" /\ dat' = [dat EXCEPT ![s] = Words(s, cmd[s].a)] /\ ee' = ee
           \/ cmd[s].what = "write" /\ ee' = [ee EXCEPT ![s][cmd[s].a] = Head(dat[s])] /\ dat' = dat
           \/ ee' = ee /\ dat' = dat
    BY DEF SlaveFinishes
  <1>2. cmd'[s].what # "write" /\ cmd[s].a \in Word /\ \A q \in Slaves \ {s} : cmd'[q] = cmd[q]
    BY <1>1, DataTypes DEF NoCommand, EepromInv, RegistersOK
  <1>3. Targets' = Targets /\ Writes' = Writes
    BY <1>1 DEF Targets, Writes
  <1>4. CASE cmd[s].what = "read" /\ dat' = [dat EXCEPT ![s] = Words(s, cmd[s].a)] /\ ee' = ee
    <2>1. Head(dat'[s]) = ee[s][cmd[s].a]
      <3>1. /\ Words(s, cmd[s].a) \in Seq(Datum) \ {<<>>} /\ 1 \in 1 .. Width(s)
            /\ cmd[s].a + 1 - 1 = cmd[s].a /\ cmd[s].a <= MaxWord
            /\ \A i \in 1 .. Width(s) :
                  cmd[s].a + i - 1 <= MaxWord => Words(s, cmd[s].a)[i] = ee[s][cmd[s].a + i - 1]
        <4>1. cmd[s].a \in Word /\ RegistersOK
          BY DataTypes DEF EepromInv
        <4>2. /\ Words(s, cmd[s].a) \in Seq(Datum) \ {<<>>} /\ Width(s) \in {2, 4}
              /\ \A i \in 1 .. Width(s) :
                    cmd[s].a + i - 1 <= MaxWord => Words(s, cmd[s].a)[i] = ee[s][cmd[s].a + i - 1]
          BY <4>1, WordsFacts
        <4>3. cmd[s].a + 1 - 1 = cmd[s].a /\ cmd[s].a <= MaxWord
          BY <4>1, EepromAssumption DEF Word
        <4> QED
          BY <4>2, <4>3
      <3>2. Words(s, cmd[s].a)[1] = ee[s][cmd[s].a]
        BY <3>1
      <3>3. dat'[s] = Words(s, cmd[s].a)
        BY <1>4 DEF EepromInv, RegistersOK
      <3> HIDE DEF Words
      <3> QED
        BY <3>1, <3>2, <3>3
    <2>2. \A q \in Slaves \ {s} : dat'[q] = dat[q]
      BY <1>4 DEF EepromInv, RegistersOK
    <2>3. AgeInv'
      <3>1. \A q \in Slaves : Age(Head(dat'[q])) <= calls
        BY <1>2, <2>1, <2>2, DataTypes DEF AgeInv
      <3> QED
        BY <1>1, <1>4, <3>1 DEF AgeInv, Age
    <2>4. OthersInv'
      BY <1>1, <1>2, <1>3, <1>4, <2>2, DataTypes DEF OthersInv
    <2> QED
      BY <2>3, <2>4
  <1>5. CASE cmd[s].what = "write" /\ ee' = [ee EXCEPT ![s][cmd[s].a] = Head(dat[s])] /\ dat' = dat
    <2>1. \A q \in Slaves, w \in Word :
             ee'[q][w] = IF q = s /\ w = cmd[s].a THEN Head(dat[s]) ELSE ee[q][w]
      BY <1>2, <1>5 DEF EepromInv, RegistersOK
    <2>2. AgeInv'
      BY <1>1, <1>5, <2>1 DEF AgeInv, Age
    <2>3. OthersInv'
      BY <1>1, <1>2, <1>3, <1>5, <2>1, DataTypes DEF OthersInv
    <2> QED
      BY <2>2, <2>3
  <1>6. CASE ee' = ee /\ dat' = dat
    <2>1. AgeInv'
      BY <1>1, <1>6 DEF AgeInv, Age
    <2>2. OthersInv'
      BY <1>1, <1>2, <1>3, <1>6, DataTypes DEF OthersInv
    <2> QED
      BY <2>1, <2>2
  <1> QED
    BY <1>1, <1>4, <1>5, <1>6

\* The word is put into the data register: no command is under way then.
LEMMA OthersPut ==
  ASSUME EepromInv, AgeInv, OthersInv, PutData
  PROVE  AgeInv' /\ OthersInv'
  <1>1. PICK r \in Results :
           /\ dat' = (IF r.done /\ Free(op.s) THEN [dat EXCEPT ![op.s] = <<op.data>> \o Tail(dat[op.s])] ELSE dat)
           /\ Retried(r, "data", "command")
    BY DEF PutData
  <1>2. pc = "data" /\ UNCHANGED <<ee, cmd, op, calls, unsure>>
    BY DEF PutData, cacheVars
  <1>3. op.s \in Slaves /\ op.data \in Datum /\ dat[op.s] \in Seq(Datum) \ {<<>>}
    BY <1>2, StepFacts
  <1>4. Head(<<op.data>> \o Tail(dat[op.s])) = op.data
    <2>1. Tail(dat[op.s]) \in Seq(Datum)
      BY <1>3, HeadTailProperties
    <2>2. <<op.data>> \in Seq(Datum) /\ Len(<<op.data>>) = 1 /\ <<op.data>>[1] = op.data
      BY <1>3
    <2> HIDE DEF Datum
    <2>3. /\ <<op.data>> \o Tail(dat[op.s]) \in Seq(Datum)
          /\ (<<op.data>> \o Tail(dat[op.s]))[1] = op.data
      BY <2>1, <2>2, ConcatProperties
    <2> QED
      BY <2>3
  <1>5. \A s \in Slaves : Head(dat'[s]) = Head(dat[s]) \/ Head(dat'[s]) = op.data
    <2> DEFINE d == <<op.data>> \o Tail(dat[op.s])
    <2>1. dat' = [dat EXCEPT ![op.s] = d] \/ dat' = dat
      BY <1>1
    <2>2. Head(d) = op.data
      BY <1>4
    <2> HIDE DEF d
    <2> QED
      BY <1>3, <2>1, <2>2 DEF EepromInv, RegistersOK
  <1>6. AgeInv'
    BY <1>2, <1>5 DEF AgeInv, Age
  <1>7. OthersInv'
    <2> SUFFICES ASSUME Writes, ~failed', op.s \notin unsure
                 PROVE  /\ \A w \in Word \ Targets : ee[op.s][w] # op.data
                        /\ cmd[op.s].what # "write"
      BY <1>2 DEF OthersInv, Targets, Writes
    <2>1. ~failed
      BY <1>1, <1>3, RetriedFacts, StepFacts, <1>2
    <2>2. Idles(op.s)
      BY <1>2, <2>1, StepFacts DEF WritingInv
    <2> QED
      BY <2>1, <2>2 DEF OthersInv, Idles, NoCommand
  <1> QED
    BY <1>6, <1>7

\* The command is for the word of the call.
LEMMA OthersCommand ==
  ASSUME EepromInv, AgeInv, OthersInv, GiveCommand
  PROVE  AgeInv' /\ OthersInv'
  <1> DEFINE c == [what |-> IF Writes THEN "write" ELSE "read", a |-> op.a]
  <1>1. PICK r \in Results :
           /\ Command(r, c)
           /\ Retried(r, "command", IF op.kind = "read1" THEN "done" ELSE IF r.wkc = 0 THEN Repeat ELSE "wait2")
    BY DEF GiveCommand
  <1>2. pc = "command" /\ UNCHANGED <<ee, dat, op, calls, unsure>>
    BY DEF GiveCommand, cacheVars
  <1>3. op.s \in Slaves /\ cmd \in [Slaves -> CommandType] /\ c.a = op.a /\ failed \in BOOLEAN
    BY <1>2, StepFacts
  <1>4. cmd'[op.s] = cmd[op.s] \/ cmd'[op.s] = c
    <2> HIDE DEF c
    <2> QED
      BY <1>1, <1>3 DEF Command
  <1>5. Targets' = Targets /\ op.a \in Targets /\ (~failed' => ~failed)
    BY <1>1, <1>2, <1>3, RetriedFacts DEF Targets
  <1> HIDE DEF c
  <1> QED
    BY <1>2, <1>3, <1>4, <1>5, DataTypes, OthersFrame

\* Every step keeps it.
LEMMA OthersKeep ==
  ASSUME EepromInv, AgeInv, OthersInv, [Next]_vars
  PROVE  AgeInv' /\ OthersInv'
  <1> DEFINE Same == UNCHANGED <<ee, dat, cmd, calls>> /\ op'.s = op.s /\ op'.kind = op.kind /\ op'.data = op.data
             Grows == (~failed' => ~failed) /\ (op.s \notin unsure' => op.s \notin unsure)
  <1>0. calls \in Nat /\ failed \in BOOLEAN /\ op \in OpType
    BY DEF EepromInv, LocalsOK
  <1>1. ASSUME Same, op'.a = op.a, Grows PROVE AgeInv' /\ OthersInv'
    <2>1. Targets' = Targets
      BY <1>1 DEF Targets
    <2> QED
      BY <1>0, <1>1, <2>1, OthersFrame
  <1>2. ASSUME Same, ~Writes PROVE AgeInv' /\ OthersInv'
    <2>1. ~Writes'
      BY <1>2 DEF Writes
    <2> QED
      BY <1>0, <1>2, <2>1, OthersFrame
  <1>3. CASE \E s \in Slaves : SlaveFinishes(s)
    BY <1>3, OthersFinish
  <1>4. CASE (\E s \in Slaves : PdiTakes(s) \/ SlaveVanishes(s)) \/ PollLost \/ Ends \/ LastPiece \/ UNCHANGED vars
    BY <1>1, <1>4 DEF PdiTakes, SlaveVanishes, PollLost, Ends, LastPiece, slaveVars, vars
  <1>5. CASE Calls
    BY <1>5, CallSteps, OthersBegin
  <1>6. CASE ForceMaster \/ GiveToMaster \/ ecx_eeprom2pdi
    <2>1. Same /\ op'.a = op.a
      BY <1>6 DEF ForceMaster, GiveToMaster, ecx_eeprom2pdi, slaveVars
    <2>2. Grows
      BY <1>6 DEF ForceMaster, GiveToMaster, ecx_eeprom2pdi, Retried, Doubt
    <2> QED
      BY <1>1, <2>1, <2>2
  <1>7. CASE PollAnswered \/ WaitExpires \/ ClearErrors \/ FetchData
    <2>1. Same /\ op'.a = op.a
      BY <1>0, <1>7 DEF PollAnswered, WaitExpires, ClearErrors, FetchData, slaveVars, OpType
    <2>2. Grows
      BY <1>7 DEF PollAnswered, WaitExpires, ClearErrors, FetchData, Retried
    <2> QED
      BY <1>1, <2>1, <2>2
  <1>8. CASE ecx_siigetbyte \/ FillCache \/ NextPiece
    <2>1. Same
      BY <1>0, <1>8 DEF ecx_siigetbyte, Lookup, FillCache, NextPiece, slaveVars, OpType
    <2>2. ~Writes
      BY <1>8 DEF ecx_siigetbyte, FillCache, NextPiece, EepromInv, ShapeInv, Writes
    <2> QED
      BY <1>2, <2>1, <2>2
  <1>9. CASE SecondWrite
    <2>1. Same /\ Grows /\ Targets \subseteq Targets'
      BY <1>0, <1>9 DEF SecondWrite, slaveVars, OpType, Targets
    <2> QED
      BY <1>0, <2>1, OthersFrame
  <1>10. CASE Return
    <2>1. UNCHANGED <<ee, dat, cmd, calls>> /\ op'.data = Zero /\ ~Writes'
      BY <1>10 DEF Return, Idle, Writes, slaveVars
    <2> QED
      BY <1>0, <2>1, OthersFrame
  <1> QED
    BY <1>3, <1>4, <1>5, <1>6, <1>7, <1>8, <1>9, <1>10, OthersPut, OthersCommand
       DEF Next, Rest, Calls, Transaction, ecx_eeprom2master, ecx_readeepromFP, ecx_readeepromAP,
           ecx_writeeepromFP, ecx_writeeepromAP, ecx_readeeprom1_Steps, ecx_readeeprom2_Steps

-----------------------------------------------------------------------------
(* The theorems                                                            *)

\* The invariant holds at the beginning.
LEMMA InitHolds ==
  ASSUME Init
  PROVE  EepromInv
  <1> USE DEF EepromInv
  <1>1. /\ ee = [s \in Slaves |-> [w \in Word |-> Factory(s, w)]]
        /\ dat = [s \in Slaves |-> <<Zero, Zero, Zero, Zero>>]
        /\ cmd = [s \in Slaves |-> NoCommand] /\ nack = [s \in Slaves |-> FALSE] /\ tool \in BOOLEAN
        /\ cfg \in IF tool THEN {[s \in Slaves |-> c] : c \in {"master", "pdi"}} ELSE {[s \in Slaves |-> "master"]}
        /\ held = [s \in Slaves |-> FALSE] /\ eep_pdi = [s \in Slaves |-> FALSE]
        /\ esislave = None /\ esimap = {} /\ esibuf = [w \in Buf |-> Zero] /\ op = Idle /\ calls = 0 /\ pc = "idle"
        /\ nackcnt = 0 /\ pending = [s \in Slaves |-> NotPending] /\ failed = FALSE /\ doubtful = {} /\ unsure = {}
    BY DEF Init
  <1>2. Zero \in Seq(Datum) /\ Zero \in Datum
    BY EmptySeq DEF Zero, Datum
  <1>3. op \in OpType /\ op.kind = "idle" /\ op.out = Zero
    BY <1>1, <1>2, EepromAssumption DEF Idle, OpType, Kinds, Word
  <1>4. RegistersOK
    <2>1. \A s \in Slaves, w \in Word : Factory(s, w) \in Datum
      BY EepromAssumption DEF Factory, Datum, Word
    <2>2. <<Zero, Zero, Zero, Zero>> \in Seq(Datum) \ {<<>>} /\ Len(<<Zero, Zero, Zero, Zero>>) = 4
      BY <1>2
    <2>3. NoCommand \in CommandType
      BY EepromAssumption DEF CommandType, NoCommand, Word
    <2>4. cfg \in [Slaves -> {"master", "pdi"}]
      BY <1>1
    <2> QED
      BY <1>1, <2>1, <2>2, <2>3, <2>4 DEF RegistersOK, Width
  <1>5. LocalsOK
    <2>1. NotPending \in [a : 0 .. MaxWord + 1, failed : BOOLEAN]
      BY EepromAssumption DEF NotPending
    <2>2. pending \in [Slaves -> [a : 0 .. MaxWord + 1, failed : BOOLEAN]]
      BY <1>1, <2>1
    <2>3. esimap \in SUBSET Buf /\ esibuf \in [Buf -> Datum] /\ esislave \in Slaves \cup {None}
      BY <1>1, <1>2
    <2>4. eep_pdi \in [Slaves -> BOOLEAN] /\ failed \in BOOLEAN /\ tool \in BOOLEAN
      BY <1>1
    <2> QED
      BY <1>1, <1>3, <2>2, <2>3, <2>4 DEF LocalsOK, Places
  <1>6. ShapeInv /\ RestoreInv /\ AccessInv
    BY <1>1, <1>3 DEF ShapeInv, RestoreInv, AccessInv
  <1>7. ControlInv
    BY <1>1 DEF ControlInv, Settled
  <1>8. TransferInv
    BY <1>1, <1>3 DEF TransferInv, ReadingInv, WritingInv, Writes, ReadKinds
  <1>9. PendingInv
    BY <1>1 DEF PendingInv
  <1>10. CacheInv
    BY <1>1, <1>3 DEF CacheInv, Trusted, NoCommand
  <1> QED
    BY <1>4, <1>5, <1>6, <1>7, <1>8, <1>9, <1>10

\* Every step keeps the invariant.
LEMMA StepKeeps ==
  ASSUME EepromInv, [Next]_vars
  PROVE  EepromInv'
  <1>1. CASE \E s \in Slaves : SlaveFinishes(s) \/ PdiTakes(s) \/ SlaveVanishes(s)
    <2>1. PICK s \in Slaves : SlaveFinishes(s) \/ PdiTakes(s) \/ SlaveVanishes(s)
      BY <1>1
    <2>2. CASE SlaveVanishes(s)
      BY <2>2, FrameKeeps DEF SlaveVanishes
    <2> QED
      BY <2>1, <2>2, FinishKeeps, PdiKeeps
  <1>2. CASE Calls
    BY <1>2, CallSteps, OpenKeeps
  <1>3. CASE ecx_eeprom2master \/ ecx_eeprom2pdi
    BY <1>3, ForceKeeps, GiveKeeps, ToPdiKeeps DEF ecx_eeprom2master
  <1>4. CASE Transaction \/ PutData \/ FetchData
    <2>1. CASE PollLost
      BY <2>1, FrameKeeps DEF PollLost, slaveVars, cacheVars
    <2> QED
      BY <1>4, <2>1, PollKeeps, ExpiryKeeps, ClearKeeps, CommandKeeps, PutKeeps,
         FetchKeeps DEF Transaction
  <1>5. CASE ecx_siigetbyte \/ FillCache \/ SecondWrite
    BY <1>5, ByteKeeps, FillKeeps, SecondKeeps
  <1>6. CASE Ends \/ NextPiece \/ LastPiece \/ Return
    BY <1>6, EndsKeeps, NextKeeps, LastKeeps, ReturnKeeps
  <1>7. CASE UNCHANGED vars
    BY <1>7, FrameKeeps DEF vars
  <1> QED
    BY <1>1, <1>2, <1>3, <1>4, <1>5, <1>6, <1>7
       DEF Next, Rest, Calls, Transaction, ecx_readeepromFP, ecx_readeepromAP, ecx_writeeepromFP,
           ecx_writeeepromAP,
           ecx_readeeprom1_Steps, ecx_readeeprom2_Steps

\* The inductive invariant: it says of every place of every call what stands in the registers of
\* the slave and in the cache, for any number of slaves, words, retries, calls and troubles.
THEOREM Invariance == Spec => []EepromInv
  <1>1. Init => EepromInv
    BY InitHolds
  <1>2. EepromInv /\ [Next]_vars => EepromInv'
    BY StepKeeps
  <1> QED
    BY <1>1, <1>2, PTL DEF Spec

\* What a read returns, from the cache or from the slave, is what stands in the EEPROM: lost
\* datagrams and refusals do not show (ecx_siigetbyte, ecx_readeepromFP, ecx_readeeprom1 and 2).
THEOREM ReadsAreTrue == Spec => []ReadsTrue
  <1>1. EepromInv => ReadsTrue
    <2> SUFFICES ASSUME EepromInv PROVE ReadsTrue
      OBVIOUS
    <2> USE DEF EepromInv
    <2>1. ASSUME pc = "piece", op.kind = "sii"
          PROVE  \/ op.a \in doubtful \/ op.s \in unsure
                 \/ op.out = <<IF op.a \in Buf THEN ee[op.s][op.a] ELSE NotAvailable>>
      <3>1. op.a \in esimap => op.a \in Buf
        BY DEF LocalsOK
      <3> QED
        BY <2>1, <3>1 DEF CacheInv, Trusted
    <2>2. ASSUME ~Excused PROVE ReadingInv
      BY <2>2 DEF Excused, TransferInv
    <2> QED
      BY <2>1, <2>2 DEF ReadsTrue, ReadingInv
  <1> QED
    BY <1>1, Invariance, PTL

\* What a call has to write stands nowhere but in the words it is to write.
THEOREM NothingElseIsWritten == Spec => [](EepromInv /\ AgeInv /\ OthersInv)
  <1>1. Init => AgeInv /\ OthersInv
    <2> SUFFICES ASSUME Init PROVE AgeInv /\ OthersInv
      OBVIOUS
    <2>1. /\ ee = [s \in Slaves |-> [w \in Word |-> Factory(s, w)]]
          /\ dat = [s \in Slaves |-> <<Zero, Zero, Zero, Zero>>] /\ op = Idle /\ calls = 0
      BY DEF Init
    <2>2. Age(Zero) = 0 /\ \A s \in Slaves, w \in Word : Age(Factory(s, w)) = 0
      BY EepromAssumption DEF Age, Zero, Factory, Word
    <2>3. \A s \in Slaves : Head(dat[s]) = Zero
      BY <2>1
    <2> QED
      BY <2>1, <2>2, <2>3 DEF AgeInv, OthersInv, Idle, Writes
  <1> QED
    BY <1>1, Invariance, OthersKeep, PTL DEF Spec

\* A write that is reported as done has put its datum into the words it was asked to write, the alias
\* and its checksum, and into no other (ecx_writeeepromFP, ecx_writeeepromAP, eeprom_writealias).
THEOREM WritesAreConfirmed == Spec => []WriteConfirmed
  <1>1. EepromInv /\ OthersInv => WriteConfirmed
    <2> SUFFICES ASSUME EepromInv, OthersInv, pc = "done", Writes, ~Excused
                 PROVE  op.rval = 1 /\ {w \in Word : ee[op.s][w] = op.data} = Targets
      BY DEF WriteConfirmed
    <2> USE DEF EepromInv
    <2>1. WritingInv
      BY DEF Excused, TransferInv
    <2>2. op.kind = "alias" => op.a \in {AliasWord, ChecksumWord}
      BY DEF ShapeInv
    <2>3. op.rval = 1 /\ ee[op.s][op.a] = op.data /\ (op.kind = "alias" => ee[op.s][AliasWord] = op.data)
      BY <2>1, <2>2 DEF WritingInv
    <2>4. op.a \in Word /\ AliasWord \in Word
      BY EepromAssumption DEF LocalsOK, OpType, AliasWord, Word
    <2>5. \A w \in Word \ Targets : ee[op.s][w] # op.data
      BY DEF Excused, OthersInv
    <2> QED
      BY <2>3, <2>4, <2>5 DEF Targets
  <1> QED
    BY <1>1, NothingElseIsWritten, PTL

\* Between two calls the master's note of who has the EEPROM is right, and a call that only looks
\* for data gives it back (ecx_eeprom2master, ecx_eeprom2pdi and the eectl of the ecx_sii functions).
THEOREM ControlsAreRestored == Spec => []ControlRestored
  <1>1. EepromInv => ControlRestored
    <2> SUFFICES ASSUME EepromInv, pc = "done", ~tool, op.s \notin unsure
                 PROVE  /\ eep_pdi[op.s] <=> cfg[op.s] = "pdi"
                        /\ op.kind \in {"sii", "dump"} => eep_pdi[op.s] = op.eectl
      BY DEF ControlRestored
    <2> USE DEF EepromInv
    <2>1. op.s \in Slaves
      BY DEF ShapeInv
    <2>2. Settled(op.s)
      BY <2>1 DEF ControlInv
    <2> QED
      BY <2>2 DEF RestoreInv, Settled
  <1> QED
    BY <1>1, Invariance, PTL

-----------------------------------------------------------------------------
(* SlaveStates: the inductive invariant                                    *)

DeviceType == [kind : {"own", "foreign", "none"}, adr : 0 .. N + 1, al : Nat, sm : BOOLEAN, fmmu : BOOLEAN]

TypeInv ==
    /\ on \in SUBSET Positions
    /\ dev \in [Positions -> DeviceType]
    /\ slave \in Positions
    /\ addressLosses \in Nat

\* The devices at the temporary address.
Temporary == {i \in Positions : dev[i].adr = EC_TEMPNODE}

\* The places of ecx_recover_slave at which the temporary address is in use.
Using == {"identify", "adopt", "remove"}

\* Without a lost address write there is a device only while the recovery uses it, the one at the
\* position that is recovered.  After one, another may have been left there, but not when the
\* recovery has cleared the address.  What is adopted is the right device.
TemporaryInv ==
    /\ addressLosses = 0 /\ mon \notin Using => Temporary = {}
    /\ addressLosses < 2 /\ mon = "temp" => Temporary = {}
    /\ addressLosses < 2 /\ mon \in Using => Temporary \subseteq {slave}
    /\ addressLosses < 2 /\ mon = "adopt" => \A i \in Temporary : dev[i].kind = "own"

\* A device without power has no address.
OffInv == \A i \in Positions \ on : dev[i].adr = NoAddress

AddressInv == TypeInv /\ TemporaryInv /\ OffInv /\ AddressesKept

-----------------------------------------------------------------------------
(* What the steps do to the addresses                                      *)

\* Addresses and devices are as before.
SameAddresses ==
    /\ dev' \in [Positions -> DeviceType]
    /\ \A i \in Positions : dev'[i].adr = dev[i].adr /\ dev'[i].kind = dev[i].kind

\* The states of a slave are numbers.
LEMMA States ==
  {INIT, PRE_OP, BOOT, SAFE_OP, OPERATIONAL, PRE_OP + ERROR, SAFE_OP + ERROR} \subseteq Nat
  BY DEF INIT, PRE_OP, BOOT, SAFE_OP, OPERATIONAL, ERROR

\* A state request changes nothing but the state.
LEMMA RequestKeeps ==
  ASSUME NEW r \in DeviceType, NEW v
  PROVE  /\ AfterRequest(r, v) \in DeviceType
         /\ AfterRequest(r, v).adr = r.adr /\ AfterRequest(r, v).kind = r.kind
  <1>1. ASSUME NEW x \in Nat
        PROVE  /\ [r EXCEPT !.al = x] \in DeviceType
               /\ [r EXCEPT !.al = x].adr = r.adr /\ [r EXCEPT !.al = x].kind = r.kind
    BY DEF DeviceType
  <1>2. AfterRequest(r, v) = r \/ \E x \in Nat : AfterRequest(r, v) = [r EXCEPT !.al = x]
    BY States DEF AfterRequest
  <1>3. CASE AfterRequest(r, v) = r
    BY <1>3
  <1>4. CASE \E x \in Nat : AfterRequest(r, v) = [r EXCEPT !.al = x]
    <2>1. PICK x \in Nat : AfterRequest(r, v) = [r EXCEPT !.al = x]
      BY <1>4
    <2> QED
      BY <1>1, <2>1
  <1> QED
    BY <1>2, <1>3, <1>4

\* Nor does the request of the master.
LEMMA RequestSame ==
  ASSUME TypeInv, NEW d, NEW v, Request(d, v)
  PROVE  SameAddresses
  BY RequestKeeps DEF Request, WriteAll, SameAddresses, TypeInv

\* Nor do the sync managers and FMMUs.
LEMMA ConfigureSame ==
  ASSUME TypeInv, NEW d,
         \/ WriteAll(d, LAMBDA r : [r EXCEPT !.sm = TRUE])
         \/ WriteAll(d, LAMBDA r : [r EXCEPT !.fmmu = TRUE])
  PROVE  SameAddresses
  <1>1. ASSUME NEW r \in DeviceType
        PROVE  /\ LET q == [r EXCEPT !.sm = TRUE] IN q \in DeviceType /\ q.adr = r.adr /\ q.kind = r.kind
               /\ LET q == [r EXCEPT !.fmmu = TRUE] IN q \in DeviceType /\ q.adr = r.adr /\ q.kind = r.kind
    BY DEF DeviceType
  <1>2. CASE WriteAll(d, LAMBDA r : [r EXCEPT !.sm = TRUE])
    <2>1. dev' = [i \in Positions |-> IF i \in d.to THEN [dev[i] EXCEPT !.sm = TRUE] ELSE dev[i]]
      BY <1>2, Zenon DEF WriteAll
    <2>2. dev' \in [Positions -> DeviceType]
      BY <1>1, <2>1, ZenonT(30) DEF TypeInv
    <2>3. \A i \in Positions : dev'[i].adr = dev[i].adr /\ dev'[i].kind = dev[i].kind
      BY <1>1, <2>1, ZenonT(30) DEF TypeInv
    <2> QED
      BY <2>2, <2>3 DEF SameAddresses
  <1>3. CASE WriteAll(d, LAMBDA r : [r EXCEPT !.fmmu = TRUE])
    <2>1. dev' = [i \in Positions |-> IF i \in d.to THEN [dev[i] EXCEPT !.fmmu = TRUE] ELSE dev[i]]
      BY <1>3, Zenon DEF WriteAll
    <2>2. dev' \in [Positions -> DeviceType]
      BY <1>1, <2>1, ZenonT(30) DEF TypeInv
    <2>3. \A i \in Positions : dev'[i].adr = dev[i].adr /\ dev'[i].kind = dev[i].kind
      BY <1>1, <2>1, ZenonT(30) DEF TypeInv
    <2> QED
      BY <2>2, <2>3 DEF SameAddresses
  <1> QED
    BY <1>2, <1>3

\* An address is written to the devices the datagram reaches.
LEMMA AddressWritten ==
  ASSUME TypeInv, NEW d, NEW a \in 0 .. N + 1, WriteAll(d, LAMBDA r : [r EXCEPT !.adr = a])
  PROVE  /\ dev' \in [Positions -> DeviceType]
         /\ \A i \in Positions : dev'[i].kind = dev[i].kind /\ dev'[i].adr = IF i \in d.to THEN a ELSE dev[i].adr
  <1>1. ASSUME NEW r \in DeviceType
        PROVE  LET q == [r EXCEPT !.adr = a] IN q \in DeviceType /\ q.adr = a /\ q.kind = r.kind
    BY DEF DeviceType
  <1> QED
    BY <1>1 DEF WriteAll, TypeInv

\* What becomes of a datagram.
LEMMA DeliveryFacts ==
  ASSUME NEW to, NEW d \in Deliveries(to)
  PROVE  (d.to = to \/ d.to = {}) /\ (~d.lost => d.to = to /\ d.answered) /\ (d.answered => ~d.lost)
  <1>1. \/ d = [to |-> to, answered |-> TRUE, lost |-> FALSE]
        \/ d = [to |-> {}, answered |-> FALSE, lost |-> TRUE]
        \/ d = [to |-> to, answered |-> FALSE, lost |-> TRUE]
    BY DEF Deliveries
  <1> QED
    BY <1>1

-----------------------------------------------------------------------------
(* Each step keeps the invariant                                           *)

\* A step that changes no address, and does not begin or end the use of the temporary one.
LEMMA PlainKeeps ==
  ASSUME AddressInv, SameAddresses, on' = on, addressLosses' = addressLosses, slave' \in Positions,
         \/ mon \notin Using \cup {"temp"} /\ mon' \notin Using \cup {"temp"}
         \/ mon' = mon /\ slave' = slave
  PROVE  AddressInv'
  <1>1. TypeInv'
    BY DEF AddressInv, TypeInv, SameAddresses
  <1>2. Temporary' = Temporary
    BY DEF Temporary, SameAddresses
  <1>3. TemporaryInv'
    BY <1>2 DEF AddressInv, TemporaryInv, Using, SameAddresses, Temporary
  <1>4. AddressesKept'
    BY DEF AddressInv, AddressesKept, SameAddresses
  <1>5. OffInv'
    BY DEF AddressInv, OffInv, SameAddresses
  <1> QED
    BY <1>1, <1>3, <1>4, <1>5 DEF AddressInv

\* A device that loses its power, or comes back, has no address.
LEMMA PowerKeeps ==
  ASSUME AddressInv, NEW i \in Positions, NEW kind \in {"own", "foreign", "none"},
         dev' = [dev EXCEPT ![i] = Fresh(kind)], on' = on \ {i} \/ on' = on \cup {i},
         UNCHANGED <<mon, slave, addressLosses>>
  PROVE  AddressInv'
  <1>1. Fresh(kind) \in DeviceType /\ Fresh(kind).adr = NoAddress
    BY SlaveStatesAssumption DEF Fresh, DeviceType, NoAddress, INIT
  <1>2. dev' \in [Positions -> DeviceType] /\ dev'[i].adr = NoAddress
        /\ \A j \in Positions \ {i} : dev'[j] = dev[j]
    BY <1>1 DEF AddressInv, TypeInv
  <1>3. Temporary' \subseteq Temporary /\ i \notin Temporary'
    BY <1>2, SlaveStatesAssumption DEF Temporary, NoAddress, EC_TEMPNODE
  <1>4. TypeInv' /\ AddressesKept'
    BY <1>2 DEF AddressInv, TypeInv, AddressesKept
  <1>5. TemporaryInv'
    BY <1>2, <1>3 DEF AddressInv, TemporaryInv, Temporary
  <1>6. OffInv'
    BY <1>2 DEF AddressInv, OffInv
  <1> QED
    BY <1>4, <1>5, <1>6 DEF AddressInv

\* The bus.
LEMMA BusKeeps ==
  ASSUME AddressInv, PowerFails \/ PowerReturns \/ FallsOut \/ Cycle
  PROVE  AddressInv'
  <1>1. CASE PowerFails
    <2>1. PICK i \in on : on' = on \ {i} /\ dev' = [dev EXCEPT ![i] = Fresh("none")]
      BY <1>1 DEF PowerFails
    <2> QED
      BY <1>1, <2>1, PowerKeeps DEF PowerFails, historyVars, AddressInv, TypeInv
  <1>2. CASE PowerReturns
    <2>1. PICK i \in Positions \ on, kind \in {"own", "foreign"} :
             on' = on \cup {i} /\ dev' = [dev EXCEPT ![i] = Fresh(kind)]
      BY <1>2 DEF PowerReturns
    <2> QED
      BY <1>2, <2>1, PowerKeeps DEF PowerReturns, AddressInv, TypeInv
  <1>3. CASE FallsOut
    <2>1. PICK i \in on : dev' = [dev EXCEPT ![i].al = SAFE_OP + ERROR]
      BY <1>3 DEF FallsOut
    <2>2. i \in Positions /\ dev[i] \in DeviceType
      BY DEF AddressInv, TypeInv
    <2> DEFINE r == [dev[i] EXCEPT !.al = SAFE_OP + ERROR]
    <2>3. r \in DeviceType /\ r.adr = dev[i].adr /\ r.kind = dev[i].kind
      BY <2>2, States DEF DeviceType
    <2>4. dev' = [dev EXCEPT ![i] = r]
      BY <2>1
    <2> HIDE DEF r
    <2>5. SameAddresses
      BY <2>2, <2>3, <2>4 DEF SameAddresses, AddressInv, TypeInv
    <2> QED
      BY <1>3, <2>5, PlainKeeps DEF FallsOut, historyVars, AddressInv, TypeInv
  <1>4. CASE Cycle
    BY <1>4, PlainKeeps DEF Cycle, historyVars, AddressInv, TypeInv, SameAddresses
  <1> QED
    BY <1>1, <1>2, <1>3, <1>4

\* The scan of the states.
LEMMA ScanKeeps ==
  ASSUME AddressInv, ecx_readstate \/ ecatcheck
  PROVE  AddressInv'
  <1>1. /\ on' = on /\ addressLosses' = addressLosses
        /\ mon \notin Using \cup {"temp"} /\ mon' \notin Using \cup {"temp"}
    BY DEF ecx_readstate, ecatcheck, Wake, ReadStateBroadcast, ReadStateEach, ScanOperational,
           ScanWriteState, ScanReconfig, ScanRecheck, ScanLost, Scan, LostOrFound, NextSlave,
           Goto, historyVars, Using
  <1>2. slave' \in Positions
    <2>1. slave' = 1 \/ slave' = slave \/ (slave' = slave + 1 /\ slave # N)
      BY DEF ecx_readstate, ecatcheck, Wake, ReadStateBroadcast, ReadStateEach, ScanOperational,
             ScanWriteState, ScanReconfig, ScanRecheck, ScanLost, Scan, LostOrFound, NextSlave
    <2> QED
      BY <2>1, SlaveStatesAssumption DEF AddressInv, TypeInv, Positions
  <1>3. dev' = dev \/ \E d, v : Request(d, v)
    BY DEF ecx_readstate, ecatcheck, Wake, ReadStateBroadcast, ReadStateEach, ScanOperational,
           ScanWriteState, ScanReconfig, ScanRecheck, ScanLost, Scan, LostOrFound, NextSlave
  <1>4. SameAddresses
    BY <1>3, RequestSame DEF SameAddresses, AddressInv, TypeInv
  <1> QED
    BY <1>1, <1>2, <1>4, PlainKeeps DEF AddressInv, TypeInv

\* The reconfiguration.
LEMMA ReconfigKeeps ==
  ASSUME AddressInv, ecx_reconfig_slave
  PROVE  AddressInv'
  <1>1. /\ on' = on /\ addressLosses' = addressLosses /\ slave' = slave
        /\ mon \notin Using \cup {"temp"} /\ mon' \notin Using \cup {"temp"}
    BY DEF ecx_reconfig_slave, ReconfigInit, CheckInit, ReconfigSM, ReconfigPreOp, CheckPreOp,
           ReconfigSafeOp, CheckSafeOp, ReconfigFMMU, RequestState, Checked, Goto, historyVars, Using
  <1>2. \/ dev' = dev
        \/ \E d, v : Request(d, v)
        \/ \E d : \/ WriteAll(d, LAMBDA r : [r EXCEPT !.sm = TRUE])
                  \/ WriteAll(d, LAMBDA r : [r EXCEPT !.fmmu = TRUE])
    BY DEF ecx_reconfig_slave, ReconfigInit, CheckInit, ReconfigSM, ReconfigPreOp, CheckPreOp,
           ReconfigSafeOp, CheckSafeOp, ReconfigFMMU, RequestState, Checked
  <1>3. SameAddresses
    BY <1>2, RequestSame, ConfigureSame DEF SameAddresses, AddressInv, TypeInv
  <1> QED
    BY <1>1, <1>3, PlainKeeps DEF AddressInv, TypeInv

\* The address at the position, and the identity of what is at the temporary address.
LEMMA LookKeeps ==
  ASSUME AddressInv, RecoverAddress \/ Identify
  PROVE  AddressInv'
  <1>1. CASE RecoverAddress
    BY <1>1, PlainKeeps DEF RecoverAddress, Using, historyVars, SameAddresses, AddressInv, TypeInv
  <1>2. CASE Identify
    <2>1. PICK d \in Deliveries(At(EC_TEMPNODE)), same \in BOOLEAN :
             /\ same => d.answered /\ \E i \in d.to : dev[i].kind = "own"
             /\ mon' = IF same THEN "adopt" ELSE "remove"
      BY <1>2 DEF Identify
    <2>2. mon = "identify" /\ UNCHANGED <<on, dev, slave, addressLosses>>
      BY <1>2 DEF Identify, historyVars
    <2>3. d.to \subseteq Temporary
      BY <2>1, DeliveryFacts DEF At, Reached, Temporary
    <2>4. Temporary' = Temporary
      BY <2>2 DEF Temporary
    <2>5. addressLosses < 2 => Temporary \subseteq {slave}
      BY <2>2 DEF AddressInv, TemporaryInv, Using
    <2>6. addressLosses < 2 /\ mon' = "adopt" => \A i \in Temporary : dev[i].kind = "own"
      BY <2>1, <2>3, <2>5
    <2>7. TemporaryInv'
      BY <2>1, <2>2, <2>4, <2>5, <2>6 DEF TemporaryInv, Using, Temporary
    <2> QED
      BY <2>2, <2>7 DEF AddressInv, TypeInv, OffInv, AddressesKept
  <1> QED
    BY <1>1, <1>2

\* An address write to the devices at the temporary address: unless it is counted as lost, nobody is
\* left there.
LEMMA ClearedAddress ==
  ASSUME AddressInv, NEW d \in Deliveries(At(EC_TEMPNODE)), NEW a \in 0 .. N, SetAddress(d, a)
  PROVE  /\ dev' \in [Positions -> DeviceType]
         /\ \A i \in Positions : dev'[i].kind = dev[i].kind
                                 /\ dev'[i].adr = IF i \in d.to THEN a ELSE dev[i].adr
         /\ d.to \subseteq Temporary
         /\ Temporary' \subseteq Temporary
         /\ addressLosses' \in {addressLosses, addressLosses + 1}
         /\ addressLosses' = addressLosses => Temporary' = {}
  <1>1. /\ dev' \in [Positions -> DeviceType]
        /\ \A i \in Positions : dev'[i].kind = dev[i].kind
                                /\ dev'[i].adr = IF i \in d.to THEN a ELSE dev[i].adr
    BY AddressWritten, SlaveStatesAssumption DEF SetAddress, AddressInv
  <1>2. d.to \subseteq Temporary
    BY DeliveryFacts DEF At, Reached, Temporary
  <1>3. a # EC_TEMPNODE
    BY SlaveStatesAssumption DEF EC_TEMPNODE
  <1>4. Temporary' \subseteq Temporary /\ \A i \in Temporary' : i \notin d.to
    BY <1>1, <1>3 DEF Temporary, EC_TEMPNODE
  <1>5. addressLosses' = IF d.lost \/ \E i \in on \ Reached : dev[i].adr = EC_TEMPNODE
                         THEN addressLosses + 1 ELSE addressLosses
    BY DEF SetAddress
  <1>6. ASSUME addressLosses' = addressLosses PROVE Temporary' = {}
    <2>1. ~d.lost /\ \A i \in on \ Reached : dev[i].adr # EC_TEMPNODE
      BY <1>5, <1>6 DEF AddressInv, TypeInv
    <2>2. d.to = At(EC_TEMPNODE)
      BY <2>1, DeliveryFacts
    <2>3. \A i \in Temporary : i \in on
      BY SlaveStatesAssumption DEF AddressInv, OffInv, Temporary, EC_TEMPNODE, NoAddress
    <2> QED
      BY <1>4, <2>1, <2>2, <2>3 DEF At, Temporary
  <1> QED
    BY <1>1, <1>2, <1>4, <1>5, <1>6

\* The temporary address is cleared, before its use, after it and instead of it.
LEMMA ClearingKeeps ==
  ASSUME AddressInv, ClearTemporary \/ GiveUp \/ Remove
  PROVE  AddressInv'
  <1>1. PICK d \in Deliveries(At(EC_TEMPNODE)) : SetAddress(d, NoAddress)
    BY DEF ClearTemporary, GiveUp, Remove, Clear
  <1>2. on' = on /\ slave' = slave
    BY DEF ClearTemporary, GiveUp, Remove, Clear
  <1>3. (mon = "clear" /\ mon' = "temp") \/ (mon \in {"unset", "remove"} /\ mon' = "next")
    BY DEF ClearTemporary, GiveUp, Remove, Clear, Goto
  <1>4. NoAddress \in 0 .. N
    BY SlaveStatesAssumption DEF NoAddress
  <1>5. /\ dev' \in [Positions -> DeviceType]
        /\ \A i \in Positions : dev'[i].kind = dev[i].kind
                                /\ dev'[i].adr = IF i \in d.to THEN NoAddress ELSE dev[i].adr
        /\ Temporary' \subseteq Temporary
        /\ addressLosses' \in {addressLosses, addressLosses + 1}
        /\ addressLosses' = addressLosses => Temporary' = {}
    BY <1>1, <1>4, ClearedAddress
  <1>6. TypeInv'
    BY <1>2, <1>5 DEF AddressInv, TypeInv
  <1>7. OffInv'
    BY <1>2, <1>5 DEF AddressInv, OffInv
  <1>8. AddressesKept'
    BY <1>5 DEF AddressInv, TypeInv, AddressesKept
  <1>9. TemporaryInv'
    <2>1. addressLosses' < 2 /\ mon = "clear" => Temporary' = {}
      BY <1>5 DEF AddressInv, TypeInv, TemporaryInv, Using
    <2> QED
      BY <1>3, <1>5, <2>1 DEF TemporaryInv, Using, AddressInv, TypeInv
  <1> QED
    BY <1>6, <1>7, <1>8, <1>9 DEF AddressInv

\* The slave that was found without an address gets the temporary one.
LEMMA SetKeeps ==
  ASSUME AddressInv, SetTemporary
  PROVE  AddressInv'
  <1>1. PICK d \in Deliveries({slave} \cap Reached) :
           SetAddress(d, EC_TEMPNODE) /\ mon' = IF Wkc(d) <= 0 THEN "unset" ELSE "identify"
    BY DEF SetTemporary
  <1>2. mon = "temp" /\ on' = on /\ slave' = slave
    BY DEF SetTemporary
  <1>3. EC_TEMPNODE \in 0 .. N + 1
    BY SlaveStatesAssumption DEF EC_TEMPNODE
  <1>4. /\ dev' \in [Positions -> DeviceType]
        /\ \A i \in Positions : dev'[i].kind = dev[i].kind
                                /\ dev'[i].adr = IF i \in d.to THEN EC_TEMPNODE ELSE dev[i].adr
    BY <1>1, <1>3, AddressWritten DEF SetAddress, AddressInv
  <1>5. d.to \subseteq {slave} \cap Reached
    BY <1>1, DeliveryFacts
  <1>6. /\ addressLosses' \in {addressLosses, addressLosses + 1}
        /\ addressLosses' = addressLosses => ~d.lost
    BY <1>1 DEF SetAddress, AddressInv, TypeInv
  <1>7. Temporary' \subseteq Temporary \cup d.to
    BY <1>4 DEF Temporary, EC_TEMPNODE
  <1>8. ~d.lost /\ mon' = "unset" => d.to = {}
    <2> SUFFICES ASSUME ~d.lost, mon' = "unset", d.to # {} PROVE FALSE
      OBVIOUS
    <2>1. d.answered
      BY <1>1, DeliveryFacts
    <2>2. d.to = {slave}
      BY <1>5
    <2>3. Wkc(d) = 1
      BY <2>1, <2>2, FS_Singleton DEF Wkc
    <2> QED
      BY <1>1, <2>3
  <1>9. TypeInv'
    BY <1>2, <1>4, <1>6 DEF AddressInv, TypeInv
  <1>10. OffInv'
    <2>1. slave \in Reached => slave \in on
      BY SlaveStatesAssumption DEF Reached, Positions
    <2> QED
      BY <1>2, <1>4, <1>5, <2>1 DEF AddressInv, OffInv
  <1>11. AddressesKept'
    BY <1>4, <1>6 DEF AddressInv, TypeInv, AddressesKept
  <1>12. TemporaryInv'
    <2>1. addressLosses' < 2 => Temporary = {}
      BY <1>2, <1>6 DEF AddressInv, TypeInv, TemporaryInv
    <2>2. addressLosses' = 0 => addressLosses' = addressLosses
      BY <1>6 DEF AddressInv, TypeInv
    <2>3. addressLosses' = 0 /\ mon' = "unset" => Temporary' = {}
      BY <1>6, <1>7, <1>8, <2>1, <2>2
    <2>4. addressLosses' < 2 => Temporary' \subseteq {slave}'
      BY <1>2, <1>5, <1>7, <2>1
    <2> QED
      BY <1>1, <2>3, <2>4 DEF TemporaryInv, Using
  <1> QED
    BY <1>9, <1>10, <1>11, <1>12 DEF AddressInv

\* The device at the temporary address gets the slave's.
LEMMA AdoptKeeps ==
  ASSUME AddressInv, Adopt
  PROVE  AddressInv'
  <1>1. PICK d \in Deliveries(At(EC_TEMPNODE)) : SetAddress(d, slave)
    BY DEF Adopt
  <1>2. on' = on /\ slave' = slave /\ mon = "adopt" /\ mon' = "next"
    BY DEF Adopt, Goto
  <1>3. slave \in 0 .. N
    BY SlaveStatesAssumption DEF AddressInv, TypeInv, Positions
  <1>4. /\ dev' \in [Positions -> DeviceType]
        /\ \A i \in Positions : dev'[i].kind = dev[i].kind
                                /\ dev'[i].adr = IF i \in d.to THEN slave ELSE dev[i].adr
        /\ d.to \subseteq Temporary
        /\ Temporary' \subseteq Temporary
        /\ addressLosses' \in {addressLosses, addressLosses + 1}
        /\ addressLosses' = addressLosses => Temporary' = {}
    BY <1>1, <1>3, ClearedAddress
  <1>5. TypeInv'
    BY <1>2, <1>4 DEF AddressInv, TypeInv
  <1>6. OffInv'
    <2>1. \A i \in Temporary : i \in on
      BY SlaveStatesAssumption DEF AddressInv, OffInv, Temporary, EC_TEMPNODE, NoAddress
    <2> QED
      BY <1>2, <1>4, <2>1 DEF AddressInv, OffInv
  <1>7. AddressesKept'
    <2>1. addressLosses' < 2 => addressLosses < 2
      BY <1>4 DEF AddressInv, TypeInv
    <2>2. addressLosses < 2 => \A i \in d.to : i = slave /\ dev[i].kind = "own"
      BY <1>2, <1>4 DEF AddressInv, TemporaryInv, Using
    <2> QED
      BY <1>4, <2>1, <2>2 DEF AddressInv, AddressesKept
  <1>8. TemporaryInv'
    BY <1>2, <1>4 DEF TemporaryInv, Using, AddressInv, TypeInv
  <1> QED
    BY <1>5, <1>6, <1>7, <1>8 DEF AddressInv

-----------------------------------------------------------------------------
(* The theorems                                                            *)

\* In the beginning every slave is at its address.
LEMMA AddressInit == StatesInit => AddressInv
  <1> SUFFICES ASSUME StatesInit PROVE AddressInv
    OBVIOUS
  <1> DEFINE r(i) == [kind |-> "own", adr |-> i, al |-> OPERATIONAL, sm |-> TRUE, fmmu |-> TRUE]
  <1>1. \A i \in Positions : r(i) \in DeviceType /\ r(i).adr = i /\ r(i).kind = "own" /\ i # EC_TEMPNODE
    BY States, SlaveStatesAssumption DEF DeviceType, Positions, EC_TEMPNODE
  <1>2. dev = [i \in Positions |-> r(i)]
    BY DEF StatesInit
  <1> HIDE DEF r
  <1>3. dev \in [Positions -> DeviceType]
        /\ \A i \in Positions : dev[i].adr = i /\ dev[i].kind = "own" /\ i # EC_TEMPNODE
    BY <1>1, <1>2
  <1>4. TypeInv
    BY <1>3, SlaveStatesAssumption DEF StatesInit, TypeInv, Positions
  <1>5. Temporary = {}
    BY <1>3 DEF Temporary
  <1> QED
    BY <1>3, <1>4, <1>5 DEF AddressInv, TemporaryInv, OffInv, AddressesKept, StatesInit, Using

\* Every step keeps the invariant.
LEMMA AddressStep == AddressInv /\ [StatesNext]_statesVars => AddressInv'
  <1> SUFFICES ASSUME AddressInv, [StatesNext]_statesVars PROVE AddressInv'
    OBVIOUS
  <1>1. CASE UNCHANGED statesVars
    BY <1>1, PlainKeeps DEF statesVars, SameAddresses, AddressInv, TypeInv
  <1>2. CASE PowerFails \/ PowerReturns \/ FallsOut \/ Cycle
    BY <1>2, BusKeeps
  <1>3. CASE ecx_readstate \/ ecatcheck
    BY <1>3, ScanKeeps
  <1>4. CASE ecx_reconfig_slave
    BY <1>4, ReconfigKeeps
  <1>5. CASE ecx_recover_slave
    BY <1>5, LookKeeps, ClearingKeeps, SetKeeps, AdoptKeeps DEF ecx_recover_slave
  <1> QED
    BY <1>1, <1>2, <1>3, <1>4, <1>5 DEF StatesNext, Monitor

\* The invariant holds always: the recovery knows which device is at the temporary address.
THEOREM AddressInvariance == StatesSpec => []AddressInv
  BY AddressInit, AddressStep, PTL DEF StatesSpec

\* No recovery brings two devices to one address, or a foreign device to a slave's, before two of its
\* address writes have missed their slave (ecx_recover_slave).
THEOREM AddressesAreKept == StatesSpec => []AddressesKept
  <1>1. AddressInv => AddressesKept
    BY DEF AddressInv
  <1> QED
    BY <1>1, AddressInvariance, PTL

=============================================================================
