----------------------------- MODULE ProcessData -----------------------------
(***************************************************************************)
(* The cyclic exchange of process data (ecx_main_send_processdata and      *)
(* ecx_receive_processdata_group in ethercatmain.c) over the segments of   *)
(* one group: the stack of frame indexes, the frames on the wire, the      *)
(* slaves' FMMUs, the working counter and the distributed clock datagram   *)
(* that rides in the first frame.                                          *)
(*                                                                         *)
(* Data: a byte of process data tells which cycle produced it, and whether *)
(* it is an output, stamped when the application writes it, or an input,   *)
(* stamped when its slave puts it in a frame.  Old is what was there       *)
(* before, Junk what the code reads beyond the end of a frame.             *)
(*                                                                         *)
(* The wait for a frame (ecx_waitinframe) is one step here, with the       *)
(* outcomes NicDriver gives it: a frame with the awaited index, or none.   *)
(***************************************************************************)
EXTENDS IOMap

CONSTANTS
    Configs,    \* groups: [slaves, overlap, blockLRW, hasdc]
    EC_MAXBUF,  \* frame buffers, and entries of the index stack
    MaxCycles,  \* bound: cycles
    MaxDatagrams,  \* bound: datagrams of all cycles
    MaxLag      \* bound: cycles a frame may be late

ASSUME ProcessDataAssumption ==
    EC_MAXBUF \in Nat \ {0} /\ MaxCycles \in Nat /\ MaxDatagrams \in Nat /\ MaxLag \in Nat

VARIABLES
    group,      \* context->grouplist[group]
    phase,      \* app | LRD | LWR | LRW | receive
    cycle,      \* number of the current cycle
    image,      \* the IOmap
    job,        \* locals of the send loop: [adr, length, data, segment, first]
    idxstack,   \* context->idxstack: [entries, pulled]
    rxbufstat, lastidx,  \* of the port
    wire,       \* frames under way; one that nobody receives is lost
    delivered,  \* per slave: the cycle whose outputs it has last received
    DCl,        \* context->DCl: where the first datagram ends in the first frame
    DCtime,     \* context->DCtime: the cycle that read it
    received,   \* locals of the receive loop: [first, wkc, valid]
    result      \* what ecx_receive_processdata_group returned last

cyclicVars ==
    <<group, phase, cycle, image, job, idxstack, rxbufstat, lastidx, wire, delivered, DCl, DCtime,
      received, result>>

EC_NOFRAME == -1
Idx == 0 .. EC_MAXBUF - 1
Old == 0
Junk == -1
OutputOf(c) == 2 * c - 1
InputOf(c) == 2 * c

\* The group as the mapping functions leave it.
MappedGroup(c) ==
    (IF c.overlap THEN ConfigOverlapMapGroup(c.slaves) ELSE ConfigMapGroup(c.slaves))
        @@ [overlap |-> c.overlap, blockLRW |-> c.blockLRW, hasdc |-> c.hasdc]

Slaves == DOMAIN group.outputs
Outputs == 0 .. group.Obytes - 1
Inputs == group.Obytes .. IOmapSize(group) - 1
\* Datagrams a cycle takes at most: with LRD and LWR one segment may be sent twice.
Datagrams == group.nsegments + (IF group.blockLRW THEN 1 ELSE 0)

NoJob == [adr |-> 0, length |-> 0, data |-> 0, segment |-> 0, first |-> FALSE]
NoReceive == [first |-> FALSE, wkc |-> 0, valid |-> FALSE]

CyclicInit ==
    /\ \E c \in Configs : group = MappedGroup(c)
    /\ phase = "app"
    /\ cycle = 0
    /\ image = [b \in 0 .. IOmapSize(group) - 1 |-> Old]
    /\ job = NoJob
    /\ idxstack = [entries |-> <<>>, pulled |-> 0]
    /\ rxbufstat = [i \in Idx |-> "EMPTY"]
    /\ lastidx = 0
    /\ wire = {}
    /\ delivered = [s \in Slaves |-> 0]
    /\ DCl = 0
    /\ DCtime = 0
    /\ received = NoReceive
    /\ result = EC_NOFRAME

-----------------------------------------------------------------------------
(* Sending                                                                 *)

\* How many bytes the addresses of a group are: outputs and inputs share them in an overlapping map.
Extent(g) ==
    IF ~g.overlap THEN IOmapSize(g) ELSE IF g.Obytes > g.Ibytes THEN g.Obytes ELSE g.Ibytes

\* The first part of ecx_main_send_processdata: what to send, from where.
LRDJob == [adr |-> group.Obytes, length |-> group.Ibytes, data |-> group.Obytes,
           segment |-> group.Isegment, first |-> group.hasdc]
LWRJob(first) == [adr |-> 0, length |-> group.Obytes, data |-> 0, segment |-> 0, first |-> first]
LRWJob == [adr |-> 0, length |-> Extent(group), data |-> 0, segment |-> 0, first |-> group.hasdc]

\* ecx_receive_processdata_group is called when all is sent.
BeginReceive(next) ==
    received' = IF next = "receive" THEN [NoReceive EXCEPT !.first = group.hasdc] ELSE received

\* The application writes its outputs and starts the exchange.  Frames older than MaxLag cycles
\* have been received or are lost.
StartCycle ==
    /\ phase = "app"
    /\ cycle < MaxCycles /\ (cycle + 1) * Datagrams <= MaxDatagrams
    /\ cycle' = cycle + 1
    /\ image' = [b \in DOMAIN image |-> IF b \in Outputs THEN OutputOf(cycle + 1) ELSE image[b]]
    /\ wire' = {f \in wire : f.cycle + MaxLag >= cycle + 1}
    /\ CASE IOmapSize(group) = 0 -> phase' = "receive" /\ job' = NoJob
         [] IOmapSize(group) > 0 /\ ~group.blockLRW -> phase' = "LRW" /\ job' = LRWJob
         [] group.Ibytes > 0 /\ group.blockLRW -> phase' = "LRD" /\ job' = LRDJob
         [] OTHER -> phase' = "LWR" /\ job' = LWRJob(group.hasdc)
    /\ BeginReceive(phase')
    /\ UNCHANGED <<group, idxstack, rxbufstat, lastidx, delivered, DCl, DCtime, result>>

\* Mutant: the search always starts at the first index.
NewIndex_FromFirst ==
    IF \E i \in Idx : rxbufstat[i] = "EMPTY"
      THEN CHOOSE i \in Idx : rxbufstat[i] = "EMPTY" /\ \A j \in 0 .. i - 1 : rxbufstat[j] # "EMPTY"
      ELSE 0

\* ecx_getindex: the first free index after the last one given out, or the next one if none is free.
NewIndex ==
    LET After(k) == (lastidx + 1 + k) % EC_MAXBUF
    IN IF \E k \in Idx : rxbufstat[After(k)] = "EMPTY"
         THEN After(CHOOSE k \in Idx :
                 rxbufstat[After(k)] = "EMPTY" /\ \A j \in 0 .. k - 1 : rxbufstat[After(j)] # "EMPTY")
         ELSE After(0)

\* The bytes that a slave's FMMUs have among len bytes from adr.
BytesIn(fmmus, adr, len) ==
    {b \in adr .. adr + len - 1 : \E k \in DOMAIN fmmus :
        fmmus[k].start <= b /\ b < fmmus[k].start + fmmus[k].length}

\* What comes back of a datagram when the slaves in alive process it.  A frame misses no slave, one
\* of them, or all.
Alive == {Slaves, {}} \cup {Slaves \ {s} : s \in Slaves}

Writes(cmd, s, adr, len) == cmd # "LRD" /\ BytesIn(group.outputs[s], adr, len) # {}
Reads(cmd, s, adr, len) == cmd # "LWR" /\ BytesIn(group.inputs[s], adr, len) # {}

Returned(idx, cmd, len, alive) ==
    LET readers == {s \in alive : Reads(cmd, s, job.adr, len)}
        writers == {s \in alive : Writes(cmd, s, job.adr, len)}
    IN [idx |-> idx, dc |-> job.first, cmd |-> cmd, len |-> len, cycle |-> cycle,
        wkc |-> Cardinality(readers) + Cardinality(writers) * (IF cmd = "LRW" THEN 2 ELSE 1),
        data |-> [k \in 0 .. len - 1 |->
                     IF \E s \in readers : job.adr + k \in BytesIn(group.inputs[s], job.adr, len)
                       THEN InputOf(cycle)
                       ELSE IF job.data + k \in DOMAIN image THEN image[job.data + k] ELSE Junk]]

\* The outputs of slave s in the datagram are its bytes of the IOmap, as written in this cycle.
GoodOutputs(s, adr, len, data) ==
    data = adr /\ \A b \in BytesIn(group.outputs[s], adr, len) : image[b] = OutputOf(cycle)

\* ecx_pushindex: when the stack is full the index is forgotten.
Pushed(e) ==
    IF Len(idxstack.entries) < EC_MAXBUF
      THEN [idxstack EXCEPT !.entries = Append(@, e)] ELSE idxstack

\* One datagram of len bytes: get an index, set it up (the first one with the clock datagram
\* behind it), send it, push it with the place of its data.
Transmit(cmd, len, place) ==
    LET idx == NewIndex IN
    /\ rxbufstat' = [rxbufstat EXCEPT ![idx] = "TX"]
    /\ lastidx' = idx
    /\ DCl' = IF job.first THEN len ELSE DCl
    /\ \E alive \in Alive :
          /\ wire' = wire \cup {Returned(idx, cmd, len, alive)}
          /\ delivered' = [s \in Slaves |->
                IF s \in alive /\ Writes(cmd, s, job.adr, len)
                  THEN IF GoodOutputs(s, job.adr, len, job.data) THEN cycle ELSE Junk
                  ELSE delivered[s]]
    /\ idxstack' = Pushed([idx |-> idx, data |-> place, length |-> len])

\* The rest of a loop body, and what follows the loop when all is sent or the segments are used up.
Advance(len, next) ==
    LET j == [adr |-> job.adr + len, length |-> job.length - len, data |-> job.data + len,
              segment |-> job.segment + 1, first |-> FALSE]
    IN IF j.length # 0 /\ j.segment < group.nsegments
         THEN UNCHANGED phase /\ job' = j
         ELSE /\ phase' = next
              /\ job' = IF next = "LWR" THEN LWRJob(FALSE) ELSE NoJob

SendRest == UNCHANGED <<group, cycle, image, DCtime, result>>

\* Inputs of a group that may not use LRW; the first segment may begin with outputs.
SendLRD ==
    /\ phase = "LRD"
    /\ LET len == group.IOsegment[job.segment]
                      - (IF job.segment = group.Isegment THEN group.Ioffset ELSE 0)
           next == IF group.Obytes > 0 THEN "LWR" ELSE "receive"
       IN /\ Transmit("LRD", len, job.data)
          /\ Advance(len, next)
          /\ BeginReceive(phase')
    /\ SendRest

\* Mutant: the last segment of the outputs is sent with the inputs in it.
SendLWR_NotCut ==
    /\ phase = "LWR"
    /\ LET len == group.IOsegment[job.segment]
       IN /\ Transmit("LWR", len, job.data)
          /\ Advance(len, "receive")
          /\ BeginReceive(phase')
    /\ SendRest

\* Outputs of such a group; the last segment may end with inputs.
SendLWR ==
    /\ phase = "LWR"
    /\ LET seg == group.IOsegment[job.segment]
           len == IF job.length - seg < 0 THEN job.length ELSE seg
       IN /\ Transmit("LWR", len, job.data)
          /\ Advance(len, "receive")
          /\ BeginReceive(phase')
    /\ SendRest

\* Mutant: in an overlapping map the answer goes to the outputs.
SendLRW_NoOffset ==
    /\ phase = "LRW"
    /\ LET len == group.IOsegment[job.segment]
       IN /\ Transmit("LRW", len, job.data)
          /\ Advance(len, "receive")
          /\ BeginReceive(phase')
    /\ SendRest

\* Outputs and inputs together.  In an overlapping map the answer goes to the inputs, behind the
\* outputs, unless there are no outputs.
SendLRW ==
    /\ phase = "LRW"
    /\ LET len == group.IOsegment[job.segment]
       IN /\ Transmit("LRW", len, job.data + (IF group.overlap THEN group.Obytes ELSE 0))
          /\ Advance(len, "receive")
          /\ BeginReceive(phase')
    /\ SendRest

-----------------------------------------------------------------------------
(* Receiving                                                               *)

\* The image after copying n bytes of a frame to a place; bytes behind the end of the frame's data
\* are whatever the buffer holds.
Copied(place, n, f) ==
    [b \in DOMAIN image |->
        IF b < place \/ b >= place + n THEN image[b]
        ELSE IF b - place < f.len THEN f.data[b - place] ELSE Junk]

\* The working counters the code may read for a frame it takes to be the one with the clock
\* datagram: that of the frame if its data has the expected length, or else any bytes.
CountersAt(f) ==
    IF f.len = DCl THEN {f.wkc} ELSE 0 .. 2 * group.outputsWKC + group.inputsWKC

\* The counter ecx_waitinframe returns is that of the last datagram in the frame.
LastCounters(f) == IF f.dc THEN {0, 1} ELSE {f.wkc}

\* Writers count once in an LWR and twice in an LRW: the code makes up for it.
Twice(f) == IF f.cmd = "LWR" THEN 2 ELSE 1

\* ecx_setbufstat and ecx_pullindex at the end of the loop body.
NextFrame(idx, arrived) ==
    /\ rxbufstat' = [rxbufstat EXCEPT ![idx] = "EMPTY"]
    /\ idxstack' = [idxstack EXCEPT !.pulled = @ + 1]

Pulling == phase = "receive" /\ idxstack.pulled < Len(idxstack.entries)
Entry == idxstack.entries[idxstack.pulled + 1]

\* Mutant: the flag for the first frame is not reset.
ReceiveFirst_FlagKept ==
    /\ Pulling
    /\ received.first
    /\ \E f \in wire :
        /\ f.idx = Entry.idx
        /\ wire' = wire \ {f}
        /\ image' = IF f.cmd = "LWR" THEN image ELSE Copied(Entry.data, DCl, f)
        /\ \E w \in CountersAt(f) :
              received' = [first |-> TRUE, wkc |-> w * Twice(f), valid |-> TRUE]
        /\ DCtime' = IF f.dc /\ f.len = DCl THEN f.cycle ELSE Junk
        /\ NextFrame(Entry.idx, TRUE)
    /\ UNCHANGED <<group, phase, cycle, job, lastidx, delivered, DCl, result>>

\* The first frame to arrive in a group with a distributed clock.
ReceiveFirst ==
    /\ Pulling
    /\ received.first
    /\ \E f \in wire :
        /\ f.idx = Entry.idx
        /\ wire' = wire \ {f}
        /\ image' = IF f.cmd = "LWR" THEN image ELSE Copied(Entry.data, DCl, f)
        /\ \E w \in CountersAt(f) :
              received' = [first |-> FALSE, wkc |-> w * Twice(f), valid |-> TRUE]
        /\ DCtime' = IF f.dc /\ f.len = DCl THEN f.cycle ELSE Junk
        /\ NextFrame(Entry.idx, TRUE)
    /\ UNCHANGED <<group, phase, cycle, job, lastidx, delivered, DCl, result>>

\* Any other frame.
ReceiveFrame ==
    /\ Pulling
    /\ ~received.first
    /\ \E f \in wire :
        /\ f.idx = Entry.idx
        /\ wire' = wire \ {f}
        /\ image' = IF f.cmd = "LWR" THEN image ELSE Copied(Entry.data, Entry.length, f)
        /\ \E w \in LastCounters(f) :
              received' = [received EXCEPT !.wkc = @ + w * Twice(f), !.valid = TRUE]
        /\ NextFrame(Entry.idx, TRUE)
    /\ UNCHANGED <<group, phase, cycle, job, lastidx, delivered, DCl, DCtime, result>>

\* The wait ends without a frame; its frame is lost or comes later.
ReceiveTimeOut ==
    /\ Pulling
    /\ NextFrame(Entry.idx, FALSE)
    /\ UNCHANGED <<group, phase, cycle, image, job, lastidx, wire, delivered, DCl, DCtime,
                   received, result>>

\* All frames pulled: ecx_clearindex, and the counter is returned.
ReceiveDone ==
    /\ phase = "receive"
    /\ ~Pulling
    /\ phase' = "app"
    /\ idxstack' = [entries |-> <<>>, pulled |-> 0]
    /\ result' = IF received.valid THEN received.wkc ELSE EC_NOFRAME
    /\ received' = NoReceive
    /\ UNCHANGED <<group, cycle, image, job, rxbufstat, lastidx, wire, delivered, DCl, DCtime>>

CyclicNext ==
    \/ StartCycle
    \/ SendLRD \/ SendLWR \/ SendLRW
    \/ ReceiveFirst \/ ReceiveFrame \/ ReceiveTimeOut \/ ReceiveDone

CyclicSpec == CyclicInit /\ [][CyclicNext]_cyclicVars

-----------------------------------------------------------------------------
(* What the exchange needs of a group                                      *)

\* Address at which segment k of a group starts.
SegmentStart(g, k) == SumFunctionOnSet(g.IOsegment, 0 .. k - 1)

\* The segments cover the logical addresses exactly, and the inputs start Ioffset bytes into segment
\* Isegment, where the sender of LRD datagrams looks for them.
Tiled(g) ==
    /\ g.Obytes \in Nat /\ g.Ibytes \in Nat /\ g.nsegments \in Nat \ {0}
    /\ SegmentStart(g, 0) = 0 /\ SegmentStart(g, g.nsegments) = Extent(g)
    /\ \A k \in 0 .. g.nsegments - 1 :
          g.IOsegment[k] \in Nat /\ SegmentStart(g, k + 1) = SegmentStart(g, k) + g.IOsegment[k]
    /\ \A j, k \in 0 .. g.nsegments :
          SegmentStart(g, j) \in Nat /\ (j <= k => SegmentStart(g, j) <= SegmentStart(g, k))
    /\ ~g.overlap =>
          /\ g.Isegment \in 0 .. g.nsegments - 1
          /\ g.Ioffset \in 0 .. g.IOsegment[g.Isegment]
          /\ SegmentStart(g, g.Isegment) + g.Ioffset = g.Obytes

\* The bytes that FMMUs map lie in one segment, so that their slave sees them in one datagram per cycle.
InOneSegment(g, fmmus) ==
    \E k \in 0 .. g.nsegments - 1 : \A j \in DOMAIN fmmus :
        /\ fmmus[j].start \in Nat /\ fmmus[j].length \in Nat
        /\ SegmentStart(g, k) <= fmmus[j].start
        /\ fmmus[j].start + fmmus[j].length <= SegmentStart(g, k + 1)

\* The outputs of every slave lie among the outputs of the group, and the inputs among the inputs; the
\* expected working counters are not less than the number of slaves.
SlavesMapped(g) ==
    /\ IsFiniteSet(DOMAIN g.outputs) /\ DOMAIN g.inputs = DOMAIN g.outputs
    /\ \A s \in DOMAIN g.outputs :
          /\ InOneSegment(g, g.outputs[s]) /\ InOneSegment(g, g.inputs[s])
          /\ \A j \in DOMAIN g.outputs[s] : g.outputs[s][j].start + g.outputs[s][j].length <= g.Obytes
          /\ \A j \in DOMAIN g.inputs[s] :
                IF g.overlap THEN g.inputs[s][j].start + g.inputs[s][j].length <= g.Ibytes
                ELSE g.Obytes <= g.inputs[s][j].start
    /\ g.outputsWKC \in Nat /\ Cardinality({s \in DOMAIN g.outputs : g.outputs[s] # <<>>}) <= g.outputsWKC
    /\ g.inputsWKC \in Nat /\ Cardinality({s \in DOMAIN g.outputs : g.inputs[s] # <<>>}) <= g.inputsWKC

\* An overlapping map is for groups that may use LRW: the LRD datagrams of others are sent to
\* addresses behind the outputs, where nothing is mapped.
WellMapped(g) ==
    /\ g.overlap \in BOOLEAN /\ g.blockLRW \in BOOLEAN /\ g.hasdc \in BOOLEAN
    /\ g.overlap => ~g.blockLRW
    /\ Tiled(g) /\ SlavesMapped(g)

\* The groups of the exchange are as the mapping functions are to leave them.
GroupsMapped == \A c \in Configs : WellMapped(MappedGroup(c))

-----------------------------------------------------------------------------
(* Properties                                                              *)

\* The counter the application compares the result with (tutorial, simple_test).
ExpectedWKC == 2 * group.outputsWKC + group.inputsWKC

\* A cycle has just been completed.
CycleDone == phase = "app" /\ cycle > 0

\* The frame indexes do not come round while a frame of an earlier cycle may still be late.
\* Otherwise nothing in the code tells that frame from the one awaited.
Rotates == Datagrams * (MaxLag + 1) <= EC_MAXBUF

\* What was last taken for the frame with the clock datagram had its length: it was that frame, or the
\* datagrams of a cycle all have one length.  Otherwise see ProcessDataClock.cfg.
OneLength == ~group.blockLRW /\ \A k \in 0 .. group.nsegments - 1 : group.IOsegment[k] = group.IOsegment[0]
FirstGenuine == DCtime # Junk \/ OneLength

\* The index stack never outgrows its array, the image holds nothing from the future, and the counter
\* that ecx_receive_processdata_group returns does not exceed the expected one.
CyclicTypeOK ==
    /\ phase \in {"app", "LRD", "LWR", "LRW", "receive"}
    /\ cycle \in 0 .. MaxCycles
    /\ \A b \in DOMAIN image :
          image[b] \in {Junk, Old} \cup {OutputOf(c) : c \in 1 .. cycle} \cup {InputOf(c) : c \in 1 .. cycle}
    /\ Len(idxstack.entries) <= EC_MAXBUF
    /\ idxstack.pulled \in 0 .. Len(idxstack.entries)
    /\ rxbufstat \in [Idx -> {"EMPTY", "TX"}]
    /\ lastidx \in Idx
    /\ DCtime \in {Junk} \cup 0 .. cycle
    /\ result >= EC_NOFRAME
    /\ CycleDone /\ Rotates /\ FirstGenuine => result <= ExpectedWKC

\* Every slave has the outputs of this cycle, and every input in the IOmap was read by its slave in
\* this cycle.
AllNew ==
    \A s \in Slaves :
        /\ group.outputs[s] # <<>> => delivered[s] = cycle
        /\ \A b \in BytesIn(group.inputs[s], 0, Extent(group)) :
              image[IF group.overlap THEN group.Obytes + b ELSE b] = InputOf(cycle)

\* A full working counter vouches for all outputs and inputs of the cycle, although frames may have
\* been lost, come late, or found slaves missing (ecx_receive_processdata_group).
WkcVouches ==
    CycleDone /\ Rotates /\ FirstGenuine /\ ExpectedWKC > 0 /\ result = ExpectedWKC => AllNew

\* The answers that are copied back into the IOmap never undo what the application wrote, whether
\* they are on time, late or from a group that shares addresses between outputs and inputs.
OutputsKept == CycleDone /\ Rotates /\ FirstGenuine => \A b \in Outputs : image[b] = OutputOf(cycle)

\* The datagrams of a cycle carry each input byte to its place exactly once and nothing behind the end
\* of the IOmap the application was told to provide (ecx_main_send_processdata), if an overlapping map
\* has no more outputs than inputs (README, findings); and whatever is lost, even if the datagrams
\* outnumber the indexes, the cycle returns all of them (ecx_pushindex, ecx_setbufstat).
Placing(b) == {k \in DOMAIN idxstack.entries :
                  LET e == idxstack.entries[k] IN e.data <= b /\ b < e.data + e.length}
InputsPlacedOnce ==
    /\ phase = "receive" /\ idxstack.pulled = 0
       /\ Datagrams <= EC_MAXBUF /\ (group.overlap => group.Obytes <= group.Ibytes) =>
           \A b \in Inputs : Cardinality(Placing(b)) = 1
    /\ (group.overlap => group.Obytes <= group.Ibytes) => \A k \in DOMAIN idxstack.entries :
           idxstack.entries[k].data + idxstack.entries[k].length <= IOmapSize(group)
    /\ phase = "app" => \A i \in Idx : rxbufstat[i] = "EMPTY"

\* The distributed clock is set from anything but a clock datagram only when the frame with that
\* datagram did not arrive: the next one is then taken for it.
ClockGenuine ==
    [][Rotates /\ DCtime' = Junk /\ DCtime # Junk =>
           idxstack.pulled > 0 /\ ~received.valid]_cyclicVars

=============================================================================
