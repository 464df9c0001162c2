--------------------------------- MODULE EoE ---------------------------------
(***************************************************************************)
(* Ethernet frames in mailbox fragments: how ecx_EOEsend cuts a frame, and *)
(* how ecx_EOErecv and ecx_EOEreadfragment of ethercateoe.c put one        *)
(* together.                                                               *)
(*                                                                         *)
(* A fragment carries len bytes of an Ethernet frame from an offset; rx is *)
(* the state of a reassembly: the number of the fragment it expects, the   *)
(* announced size, the offset and the number of its frame, and what the    *)
(* buffer holds so far.                                                    *)
(***************************************************************************)
EXTENDS Integers, Sequences

CONSTANTS
    maxdata,       \* slavelist[slave].mbx_l - 0x0A: bytes of data in a mailbox
    Block,         \* 32: fragments begin at multiples of it, sizes are announced in it
    Stamp,         \* 4: bytes of the time stamp a slave may append to a frame
    FrameNumbers,  \* 16: values of the frame number
    Width          \* 2^16: values of the uint16 rxframeoffset

ASSUME EoEAssumption ==
    /\ Block \in Nat \ {0} /\ maxdata \in Nat /\ maxdata >= Block
    /\ Stamp \in Nat /\ FrameNumbers \in Nat \ {0} /\ Width \in Nat /\ Width > Stamp

Blocks(size) == (size + Block - 1) \div Block
Chunk == Block * (maxdata \div Block)

\* Fragment no of a frame of some size and total bytes with its time stamp: the first announces the
\* size, every other its offset, in blocks.
Fragment(frame, size, total, no) ==
    LET from == no * Chunk
        last == total - from <= maxdata
    IN  [kind |-> "EOE_FRAG", frame |-> frame, frameno |-> frame % FrameNumbers, no |-> no,
         offset |-> IF no = 0 THEN Blocks(size) ELSE from \div Block,
         last |-> last, stamp |-> total > size,
         from |-> from, len |-> IF last THEN total - from ELSE Chunk]

NewFrame == [no |-> 0, size |-> 0, offset |-> 0, frameno |-> 0, data |-> <<>>]

\* What a fragment does to a reassembly: the frame goes on, is complete with a size, or is refused.
Goes(rx) == [rx |-> rx, wkc |-> 0, size |-> 0]
Refused(rx) == [rx |-> rx, wkc |-> -1, size |-> 0]

Copied(rx, m) == [rx EXCEPT !.offset = @ + m.len, !.no = @ + 1, !.data = Append(@, <<m.frame, m.from, m.len>>)]
\* Without the time stamp, in the width of the offset.
SizeAfter(rx, m) == (rx.offset - (IF m.stamp THEN Stamp ELSE 0)) % Width

Begun(m) == [NewFrame EXCEPT !.size = m.offset * Block, !.frameno = m.frameno]

\* Mutant: a fragment is taken for one of the present frame by its number alone.
SameFrame_Any(rx, m) == rx.offset = m.offset * Block

\* The fragment goes on where the reassembly is.
SameFrame(rx, m) == rx.frameno = m.frameno /\ rx.offset = m.offset * Block

\* ecx_EOEreadfragment: a fragment out of place starts the reassembly anew, and a first one begins a
\* frame.  One that does not fit is left out, the last one completes the frame all the same.
ecx_EOEreadfragment(rx0, m, psize) ==
    LET rx == IF rx0.no = m.no THEN rx0 ELSE NewFrame
        at == IF rx.no = 0 THEN Begun(m) ELSE rx
        fits == at.offset + m.len <= at.size /\ at.offset + m.len <= psize
        put == IF fits THEN Copied(at, m) ELSE at
    IN  IF rx.no # m.no \/ (rx.no > 0 /\ ~SameFrame(rx, m))
          THEN Refused(NewFrame)
          ELSE IF m.last THEN [rx |-> [NewFrame EXCEPT !.data = put.data], wkc |-> 1,
                               size |-> SizeAfter(put, m)]
                         ELSE Goes(put)

\* The checks of ecx_EOErecv: a first fragment that comes in the middle of a frame fails that of
\* the offset, and is lost with it.
RecvRefuses(rx, m, psize) ==
    \/ rx.no # m.no /\ m.no > 0
    \/ rx.no = 0 /\ m.offset * Block > psize
    \/ rx.no > 0 /\ ~SameFrame(rx, m)

\* One turn of the loop of ecx_EOErecv.
ecx_EOErecv(rx, m, psize) ==
    LET at == IF rx.no = 0 THEN Begun(m) ELSE rx
        put == IF at.offset + m.len <= psize THEN Copied(at, m) ELSE at
    IN  IF RecvRefuses(rx, m, psize) THEN Refused(rx)
        ELSE IF m.last THEN [rx |-> put, wkc |-> 1, size |-> SizeAfter(put, m)]
        ELSE Goes(put)

=============================================================================
