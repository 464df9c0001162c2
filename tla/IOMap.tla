-------------------------------- MODULE IOMap --------------------------------
(***************************************************************************)
(* The mapping of the slaves' process data to the IOmap of a group         *)
(* (ecx_config_map_group and ecx_config_overlap_map_group in               *)
(* ethercatconfig.c), as functions of the list of the group's slaves.      *)
(*                                                                         *)
(* A slave is, per direction, the number of its bits and its sync managers *)
(* in the order of their numbers: their bytes, and whether one begins      *)
(* behind the end of the one before or connects to it.  FMMUs are records  *)
(* with the fields of the code, sm the sync manager they begin with.       *)
(* Logical addresses are relative to logstartaddr.                         *)
(***************************************************************************)
EXTENDS Integers, Sequences, FiniteSets, SequencesExt

CONSTANTS
    SegmentLimit,      \* EC_MAXLRWDATA - EC_FIRSTDCDATAGRAM: bytes in one datagram
    EC_MAXIOSEGMENTS   \* segments of a group

ASSUME IOMapAssumption == SegmentLimit \in Nat \ {0} /\ EC_MAXIOSEGMENTS \in Nat \ {0}

\* F(x), with x evaluated only once.
Once(F(_), x) == CHOOSE y \in {F(v) : v \in {x}} : TRUE

\* Obytes and Ibytes of a slave (ecx_map_sm): 0 for a bit oriented one.
SlaveBytes(bits) == IF bits > 7 THEN (bits + 7) \div 8 ELSE 0

\* BitPos beyond the byte moves on to the next one.
Carry(pos) == IF pos.bit > 7 THEN [adr |-> pos.adr + 1, bit |-> pos.bit - 8] ELSE pos

\* A begun byte is left for the next one.
NextByte(pos) == IF pos.bit > 0 THEN [adr |-> pos.adr + 1, bit |-> 0] ELSE pos

\* The FMMU of a direction of a slave with the given bits, mapped at pos: [start, startbit, length,
\* endbit], and the position after it.
MapBits(pos, bits) ==
    Once(LAMBDA last :
             [fmmus |-> <<[start |-> pos.adr, startbit |-> pos.bit,
                           length |-> last.adr - pos.adr + 1, endbit |-> last.bit, sm |-> 1]>>,
              pos |-> Carry([last EXCEPT !.bit = @ + 1])],
         Carry([pos EXCEPT !.bit = @ + bits - 1]))

\* The FMMUs of a byte oriented slave: one for every run of connected sync managers, as long as bits
\* are missing.  count adds up the bytes of ALL sync managers so far, also of those of other FMMUs; what
\* that is too much is cut off by the slave's own size.  open is the sync manager the FMMU that is
\* being made begins with, 0 when there is none.
CloseFMMU(run, bytes) ==
    LET size == IF run.count + run.done > bytes THEN bytes - run.done ELSE run.count
    IN [run EXCEPT !.done = @ + size, !.open = 0,
                   !.fmmus = Append(@, [start |-> run.from + run.done, startbit |-> 0,
                                        length |-> size, endbit |-> 7, sm |-> run.open])]

AddSM(run, sm, bits) ==
    LET bytes == SlaveBytes(bits)
        moved == [run EXCEPT !.next = @ + 1]
        more == [moved EXCEPT !.count = @ + sm.bytes]
    IN CASE run.next = 1 -> [moved EXCEPT !.count = sm.bytes, !.open = 1]
         [] run.next > 1 /\ (run.count * 8 >= bits \/ run.open = 0) -> moved
         [] run.next > 1 /\ run.count * 8 < bits /\ run.open # 0 /\ ~sm.apart -> more
         [] OTHER -> Once(LAMBDA closed :
                              IF closed.done >= bytes THEN closed
                              ELSE [closed EXCEPT !.count = @ + sm.bytes, !.open = run.next],
                          CloseFMMU(moved, bytes))

MapRuns(from, bits, sms) ==
    Once(LAMBDA run : [fmmus |-> run.fmmus, pos |-> [adr |-> from.adr + run.done, bit |-> 0]],
         Once(LAMBDA run : IF run.open # 0 THEN CloseFMMU(run, SlaveBytes(bits)) ELSE run,
              FoldLeft(LAMBDA run, sm : Once(LAMBDA r : AddSM(r, sm, bits), run),
                       [from |-> from.adr, next |-> 1, count |-> 0, done |-> 0, open |-> 0,
                        fmmus |-> <<>>], sms)))

\* Mutant: a byte oriented slave does not leave the byte that bit oriented ones have begun.
MapBytes_BitsKept(pos, bits, sms) == MapRuns([pos EXCEPT !.bit = 0], bits, sms)

MapBytes(pos, bits, sms) == MapRuns(NextByte(pos), bits, sms)

\* ecx_config_create_output_mappings and ecx_config_create_input_mappings.
CreateMapping(pos, bits, sms) ==
    IF SlaveBytes(bits) = 0 THEN MapBits(pos, bits) ELSE MapBytes(pos, bits, sms)

-----------------------------------------------------------------------------
(* Segments: consecutive parts of the logical address range, one datagram  *)
(* each.                                                                   *)

NoSegments == [IOsegment |-> [i \in 0 .. EC_MAXIOSEGMENTS - 1 |-> 0], cur |-> 0, size |-> 0]

\* diff more bytes: in the current segment, or in a new one if there it would be too long.  In the
\* last segment the bytes that do not fit are not counted at all.
Extend(seg, diff) ==
    IF seg.size + diff <= SegmentLimit
      THEN [seg EXCEPT !.size = @ + diff]
      ELSE LET closed == [seg EXCEPT !.IOsegment[seg.cur] = seg.size]
           IN IF seg.cur < EC_MAXIOSEGMENTS - 1
                THEN [closed EXCEPT !.cur = @ + 1, !.size = diff]
                ELSE closed

\* The state of the mapping loops: position, address already in segments, segments, FMMUs by slave.
Start == [pos |-> [adr |-> 0, bit |-> 0], old |-> 0, seg |-> NoSegments, fmmus |-> <<>>]

\* One slave of a mapping loop; a slave without data in this direction has no FMMU.
MapSlave(st, bits, sms) ==
    IF bits = 0
      THEN [st EXCEPT !.fmmus = Append(@, <<>>)]
      ELSE Once(LAMBDA m : [pos |-> m.pos, old |-> m.pos.adr,
                            seg |-> Extend(st.seg, m.pos.adr - st.old),
                            fmmus |-> Append(st.fmmus, m.fmmus)],
                CreateMapping(st.pos, bits, sms))

\* Mutant: the begun byte is left, and not counted.
CloseByte_NotCounted(st) ==
    IF st.pos.bit = 0 THEN st ELSE [st EXCEPT !.pos = NextByte(@), !.old = NextByte(st.pos).adr]

\* The end of a loop: a begun byte is left and counted.
CloseByte(st) ==
    IF st.pos.bit = 0
      THEN st
      ELSE LET p == NextByte(st.pos)
           IN [st EXCEPT !.pos = p, !.old = p.adr, !.seg = Extend(@, 1)]

\* Number of datagrams' counters expected: one per FMMU.
Used(fmmus) == Len(FlattenSeq(fmmus))

\* The mapping loops.
MapOutputs(slaves) ==
    CloseByte(FoldLeft(LAMBDA st, s : Once(LAMBDA v : MapSlave(v, s.Obits, s.Osms), st), Start, slaves))
MapInputs(outs, slaves) ==
    CloseByte(FoldLeft(LAMBDA st, s : Once(LAMBDA v : MapSlave(v, s.Ibits, s.Isms), st),
                       [outs EXCEPT !.fmmus = <<>>], slaves))

Mapped(outs, ins) ==
    [Obytes |-> outs.pos.adr, Ibytes |-> ins.pos.adr - outs.pos.adr,
     IOsegment |-> [ins.seg.IOsegment EXCEPT ![ins.seg.cur] = ins.seg.size],
     nsegments |-> ins.seg.cur + 1,
     Isegment |-> outs.seg.cur, Ioffset |-> outs.seg.size,
     outputs |-> outs.fmmus, inputs |-> ins.fmmus,
     outputsWKC |-> Used(outs.fmmus), inputsWKC |-> Used(ins.fmmus)]

\* ecx_config_map_group: all outputs, then all inputs.
ConfigMapGroup(slaves) ==
    Once(LAMBDA outs : Once(LAMBDA ins : Mapped(outs, ins), MapInputs(outs, slaves)), MapOutputs(slaves))

\* One slave of ecx_config_overlap_map_group: outputs and inputs start at the same address, and the
\* next slave where the longer of them ends.
Unmapped(pos) == [fmmus |-> <<>>, pos |-> pos]
Ends(m) == [fmmus |-> m.fmmus, adr |-> NextByte(m.pos).adr]
Overlaid(st, o, i) ==
    LET adr == IF i.adr > o.adr THEN i.adr ELSE o.adr
    IN [adr |-> adr, so |-> o.adr, si |-> i.adr, seg |-> Extend(st.seg, adr - st.adr),
        outputs |-> Append(st.outputs, o.fmmus), inputs |-> Append(st.inputs, i.fmmus)]
OverlapSlave(st, s) ==
    LET from == [adr |-> st.adr, bit |-> 0]
        o == IF s.Obits = 0 THEN Unmapped(from) ELSE CreateMapping(from, s.Obits, s.Osms)
        i == IF s.Ibits = 0 THEN Unmapped(from) ELSE CreateMapping(from, s.Ibits, s.Isms)
    IN Once(LAMBDA oe : Once(LAMBDA ie : Overlaid(st, oe, ie), Ends(i)), Ends(o))

\* Obytes and Ibytes are where the outputs and the inputs of the LAST slave end.
ConfigOverlapMapGroup(slaves) ==
    Once(LAMBDA st : [Obytes |-> st.so, Ibytes |-> st.si,
                      IOsegment |-> [st.seg.IOsegment EXCEPT ![st.seg.cur] = st.seg.size],
                      nsegments |-> st.seg.cur + 1, Isegment |-> 0, Ioffset |-> 0,
                      outputs |-> st.outputs, inputs |-> st.inputs,
                      outputsWKC |-> Used(st.outputs), inputsWKC |-> Used(st.inputs)],
         FoldLeft(LAMBDA st, s : Once(LAMBDA v : OverlapSlave(v, s), st),
                  [adr |-> 0, so |-> 0, si |-> 0, seg |-> NoSegments,
                   outputs |-> <<>>, inputs |-> <<>>], slaves))

\* What both return: the size of the IOmap the application has to provide.
IOmapSize(group) == group.Obytes + group.Ibytes

=============================================================================
