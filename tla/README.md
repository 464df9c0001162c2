# A TLA+ model of the SOEM EtherCAT master

This directory models, model-checks and partly proves the Simple Open EtherCAT
Master library of this repository and the measuring programs it adds: the NIC
drivers for Linux (with and without a second card), VxWorks, Erika, macOS and
rt-kernel, start-up, mapping, the cyclic exchange of process data, the mailbox and its protocols,
the EEPROM, the monitoring and recovery of slaves. Every definition is
translated from the C source; `PROJECT.json` maps each one to its lines. Run a
check with

    tlc -workers 2 -config NicDriver.cfg PortNicDrivers.tla
    tlapm NicDriverProofs.tla

Paths below are relative to `src/`.

## 1. Inventory

### 1.1 The parts of the system

| part | source | state it keeps | operations |
|---|---|---|---|
| NIC driver | `oshw/linux/nicdrv.c` | status word, rx and tx buffer of each of `EC_MAXBUF` frame indexes, `lastidx`, `tempinbuf`, two sockets, three mutexes | `ecx_getindex`, `ecx_setbufstat`, `ecx_outframe(_red)`, `ecx_inframe`, `ecx_waitinframe(_red)`, `ecx_srconfirm` |
| VxWorks NIC driver | `oshw/vxworks/nicdrv.c` | the same, and a message queue per index, a packet pool | the same, `mux_rx_callback`, `ec_outfram_send`, `ecx_closenic` |
| Erika, macOS and rt-kernel NIC drivers | `oshw/erika`, `oshw/macosx`, `oshw/rtk` (`nicdrv.c`, `lw_mac/lw_emac.c`) | the same; rtk: a ring of receive buffers and one transmit buffer | the same, `bfin_EMAC_send`, `bfin_EMAC_recv` |
| datagram primitives | `soem/ethercatbase.c` | none | `ecx_setupdatagram`, `ecx_adddatagram`, `ecx_BWR` ... `ecx_LRWDC`, `ecx_FPRD_multi` |
| error list | `soem/ethercatmain.c` 243-295 | ring `ec_eringt`, flag `ecaterror` | `ecx_pusherror`, `ecx_poperror`, `ecx_iserror` |
| SII / EEPROM | `ethercatmain.c` 423-760, 1200-1700 | `esibuf`, `esimap` (cache of one slave), `eep_pdi` per slave | `ecx_siigetbyte`, `ecx_siifind`, `ecx_siiPDO`, `ecx_readeeprom*`, `ecx_writeeeprom*`, `ecx_eeprom2master/pdi` |
| slave states | `ethercatmain.c` 772-985 | `slavelist[].state`, `ALstatuscode`, `lowest` | `ecx_readstate`, `ecx_writestate`, `ecx_statecheck` |
| mailbox link layer | `ethercatmain.c` 995-1193 | `mbx_cnt` per slave; the slave's two mailboxes | `ec_nextmbxcnt`, `ecx_mbxempty`, `ecx_mbxsend`, `ecx_mbxreceive` |
| process data | `ethercatmain.c` 1710-2060 | `idxstack`, `DCtime`, `DCl`, the IOmap | `ecx_main_send_processdata`, `ecx_receive_processdata_group` |
| discovery | `ethercatconfig.c` 86-610 | `slavelist`, topology | `ecx_detect_slaves`, `ecx_config_init` |
| mapping | `ethercatconfig.c` 610-1480 | FMMUs, sync managers, `grouplist` (segments, sizes, expected counters) | `ecx_config_find_mappings`, `ecx_config_map_group`, `ecx_config_overlap_map_group` |
| recovery | `ethercatconfig.c` 1488-1600, `ecatcheck` of the test programs | `slavelist[].islost`, `docheckstate` | `ecx_recover_slave`, `ecx_reconfig_slave` |
| CoE | `ethercatcoe.c` | none between calls | `ecx_SDOread`, `ecx_SDOwrite`, `ecx_RxPDO`, `ecx_TxPDO`, `ecx_readPDOmap(CA)`, `ecx_readODlist` ... `ecx_readOE` |
| FoE | `ethercatfoe.c` | none between calls | `ecx_FOEread`, `ecx_FOEwrite` |
| SoE, EoE | `ethercatsoe.c`, `ethercateoe.c` | EoE: caller's fragment number, offset and frame number | `ecx_SoEread/write`, `ecx_readIDNmap`, `ecx_EOEsetIp/getIp/send/recv`, `ecx_EOEreadfragment` |
| distributed clocks | `ethercatdc.c` | delays and parent ports in `slavelist` | `ecx_configdc`, `ecx_dcsync0`, `ecx_dcsync01` |
| measuring programs | `test/linux/simple_test/*.c` | histogram, `inOP`, `wkc`, the absolute wake-up time | `simpletest`, `ecatcheck`, `add_timespec`, `print_hist` |
| OS abstraction | `osal/linux/osal.c` | none | monotonic timers, threads, sleep |

Printing (`ethercatprint.c`), the vendored capture headers and the performance
counters (`PerfMeasure`) keep no protocol state. The drivers for Windows, INtime
and RTEMS are variants of the modelled ones (section 6).

### 1.2 How they interact

All calls are blocking C calls in the caller's thread; the only concurrency is
that of application threads (a cyclic thread, a monitor thread, in
`latency_test` a print thread), on VxWorks of the task that receives, and on
rt-kernel of the Ethernet controller. The mapper threads of `ethercatconfig.c`
are not compiled (`EC_MAX_MAPT` is 1). The threads meet in three places: the port of the NIC driver (status words, buffers and
sockets; the mutexes guard the index search and the reception, not the status
words), `slavelist`, and the error list (no lock). A confirmed datagram is
`ecx_getindex` -> `ecx_setupdatagram` -> `ecx_srconfirm` (`ecx_outframe`, then
`ecx_inframe` until the index is answered or time is up) -> copy ->
`ecx_setbufstat`. The process data path uses the same indexes but sends first,
remembers the indexes on `idxstack`, and collects the answers in
`ecx_receive_processdata_group`. The protocols (CoE, FoE, SoE, EoE) are built on
the mailbox layer, which is built on confirmed datagrams; an emergency or a
mailbox error found on the way goes to the error list, an EoE fragment to a
hook. Start-up reads identities and descriptions from the EEPROM, mappings from
the mailbox protocols or the EEPROM; the mapping decides, once, the segments,
addresses and expected working counters that the process data path uses in
every cycle, and the monitor thread re-creates this configuration in slaves
that lost it.

### 1.3 What is hard, and what correct means

- **NIC driver.** Status words are read and written without a lock; a frame is
  matched by its index byte only; timers end transactions whose frames are still
  on the cable; `send()` may fail; with two cards the driver must tell from two
  answers where the cable is broken. Correct: an index has one owner; the answer
  that a counter was returned for is the one copied out; no call blocks forever;
  one break of the cable is not noticed; no packet is lost or taken from a queue
  for something else.
- **Process data and mapping.** Frames of a cycle are lost, late or find slaves
  missing; the clock datagram rides in the first frame only; a segment can hold
  both outputs and inputs; bit oriented slaves share bytes. Correct: a full
  working counter means fresh inputs and delivered outputs; nothing is written
  outside the IOmap; no bit has two owners; segments tile the image.
- **Mailbox.** Each register access is lost separately; a write may be executed
  twice; the slave has asides to send. Correct: a request is taken once, the
  reply is that of the request, no message is skipped, each call ends.
- **Protocols.** Losses put requests and answers out of step; sizes meet frame,
  buffer and 16 bit limits; transfers are aborted or refused in the middle.
  Correct: success means the whole value, file or frame, in order; the buffer is
  never overrun.
- **EEPROM.** A transfer is a sequence of polls, a command and a data access,
  each lost separately; the interface is shared with the slave's own processor;
  a cache hides reads. Correct: what is returned is what is stored there.
- **Start-up.** Trees of slaves with and without clocks, known from link bits
  only; slaves copy the configuration of earlier ones; hardly any result of a
  datagram is looked at. Correct: parents, delays and mappings are the real ones,
  and what is lost about one slave spoils no other but its copies.
- **Slave states.** The monitor reads, decides and writes in separate datagrams
  while slaves fail and return, perhaps as something else. Correct: addresses
  stay unique, and all slaves come back.
- **Measuring programs.** Absolute wake-up times, late cycles, three threads that
  end together. Correct: the grid is kept, nothing slow is missed, the slaves are
  left in INIT.
- **Error list.** The ring overwrites its oldest entry. Correct: it is a bounded
  queue, and the flag never hides an entry.

`PROJECT.json` lists each hazard at its line with the properties that cover it.

## 2. Modules

| module | models | checked by | proved in |
|---|---|---|---|
| `NicDriver` | the Linux driver with one card, any number of threads, and the primitives | `nic_liveness`, as a part of `nic_safety` | `NicDriverProofs` |
| `VxNicDriver` | EXTENDS `NicDriver`: the VxWorks port beside it (which port it is, is chosen initially) | as a part of `nic_safety` | `PortNicDriversProofs` |
| `PortNicDrivers` | EXTENDS `VxNicDriver`: the Erika, macOS and rt-kernel ports beside them | `nic_safety` | `PortNicDriversProofs` |
| `Redundancy` | the Linux driver with two cards around a row of slaves | `redundancy` | `RedundancyProofs` |
| `Datagrams` | the bytes of frames with one or several datagrams, as operators | `process_data` (`FramesGenuine`) | |
| `ErrorQueue` | abstract: a bounded queue that drops its oldest entry | as a property of `services` | |
| `ErrorList` | the ring and its flag | in `services`; alone with `ErrorList.cfg` | `ServicesProofs` |
| `IOMap` | both mapping functions as operators on a list of slaves | `process_data` | |
| `ProcessData`, `MCProcessData` | cyclic send and receive; EXTENDS `IOMap`, so groups are those the mapping makes | `process_data` | `ExchangeProofs` |
| `Mailbox` | the mailbox layer against a slave | `mailbox` | `ExchangeProofs` |
| `FoE` | both file transfers against a slave | `foe` | `FoEProofs` |
| `CoE`, `ObjectDictionary`, `MCCoE` | SDO transfers of all kinds, mailbox PDOs; on top of them the listing of the object dictionary | `coe` | `CoEProofs` |
| `EoE`, `Services`, `MCServices` | SoE and EoE over one mailbox, with the errors they report (EXTENDS `ErrorList` and `EoE`) | `services` | `ServicesProofs` |
| `Eeprom` | access to the EEPROM of several slaves | `eeprom` | `RegisterProofs` |
| `Sii`, `PdoMap`, `Clocks` | operators: parsing of an EEPROM image; mapping from CoE and SoE; parents, delays, start times | `startup` | |
| `SlaveInfo` | operators: the mapping that slaveinfo reads and lists with loops of its own | `startup`, in `MappingGenuine` | |
| `Startup`, `MCStartup` | `ecx_config_init`, `ecx_config_find_mappings`, `ecx_configdc`, `ecx_dcsync0` over every small tree | `startup` | |
| `SlaveStates` | monitor and cyclic thread against slaves that fail | `slave_states` | `RegisterProofs` |
| `Measurement` | the five measuring programs | `measurement` | |

The layers are cut where the code has a function boundary, and the lower one is
replaced by what it promises. `ProcessData` waits for a frame in one step with
the outcomes of `NicDriver`: a frame with the awaited index, or none. `Mailbox`
makes a register access one step that reaches the slave or not and is answered
or not; so do `Eeprom` and `SlaveStates`. `CoE`, `FoE` and `Services` use the
mailbox calls as `Mailbox` leaves them: a message arrives or not, and a send
that reports failure may have delivered. `Startup` takes an EEPROM read as what
`Eeprom` says of it: the word or the image, or in case of a loss what was there
before, or zeros that stay in the cache.

### 2.1 Correspondence with the code

**NicDriver.** `rxbufstat`, `rxbuf`, `txbuf`, `lastidx`, `tempbuf` and the two
mutexes are the fields of `ecx_portt`; `pc`, `idx`, `cnt`, `tries`, `answer` the
locals of a thread. Each unprotected read or write of a status word is one
action, so that all interleavings of `ecx_getindex`, `ecx_outframe` and
`ecx_inframe` occur. `InframeBuffered` is the test before the lock (l. 454),
`RecvOwn`/`RecvOther`/`RecvStrange` the three fates of a received frame;
`RecvOther` and `StoreOther` are two steps because the test and the write of the
status word are two statements. `Retransmit` and `TimeOut` are the loop of
`ecx_srconfirm`. `wire` is a set of frames that are lost, delayed and reordered.
`begun`, `exhausted`, `sendFailed` and `late` are history variables.

**VxNicDriver.** The index search and the loop of `ecx_srconfirm` are those of
`NicDriver`; `OutframeBuffer` takes a packet from the pool and throws away what
the queue of the index still holds, `MuxSend` gives it to the network stack.
`RxCallback` and `RxPost` are the two statements of `mux_rx_callback`, run by
another task, between which a thread may run; `RecvPacket`, `RecvExpired` and
`TakePacket` are `ecx_inframe`. `CloseNic` is `ecx_closenic` in its steps: for one
index after the other the queue is emptied (`DrainQueue`) and deleted
(`DeleteQueue`), and only then the callback is unbound (`Unbind`); `RxCallback` and
`RxPost` may run between any two of them.

**PortNicDrivers.** These drivers share the text of the Linux one; the actions
say where the system calls differ. Erika: `ee_port_lock` is the lock of the index
search and of the reception at once (`PortLockFree`), and `ErikaStrange` goes on
to the next frame without releasing it. macOS: `MacStrange` may end the program
at its assertion (`port` becomes *aborted*). rt-kernel: `EmacCopy` and `EmacSend`
are the two halves of `bfin_EMAC_send` around its one transmit buffer,
`EmacReceive` the controller that fills its ring of two, `EmacRecv` and
`EmacEmpty` what `bfin_EMAC_recv` finds at `rxIdx`.

**Redundancy.** One action per socket operation of `ecx_outframe_red` and
`ecx_waitinframe_red`; the decision on `rxsa` after the wait is `DecideWhole`
(the row is whole, or broken with both halves heard), `DecideResend` (the second
transmission) and `DecidePrimary`. Each of the three sends may fail
(`OutframePrimaryFails`, `OutframeDummyFails`, `DecideResendFails`): the status of
the index becomes EMPTY at that card and the call goes on waiting, as the callers
do, who ignore the result; `GetIndex` may then give the index to another thread,
which `mixed` records. `Executing` and `Arrives` are the row of
slaves: a frame turns round at the first open port.

**Datagrams.** `ecx_setupdatagram`, `ecx_adddatagram` and the primitives put
tagged bytes at the code's offsets; a ring of slaves changes them and counts.
The frame is read back at the offsets of `ethercatbase.c`.

**ErrorList.** One action per function; `Error`, `head` and `tail` as in
`ec_eringt`.

**IOMap.** `CreateMapping` is `ecx_config_create_output_mappings` and its input
twin (they differ in the FMMU type only), `AddSM` one step of their search for
sync managers, `Extend` the segment accounting, `ConfigMapGroup` and
`ConfigOverlapMapGroup` the two functions, each a fold over the slaves. The kinds
of slaves include some with as many bytes as a datagram may have, and more.
Addresses are relative to `logstartaddr`. `MCProcessData` grows every ring of
slaves (`AddSlave`) and maps it again each time. `Once` binds an intermediate
result, so that it is not computed again at each place where it is used.

**ProcessData.** `StartCycle` is the application writing its outputs and the
choice of LRW or LRD and LWR; `SendLRD`, `SendLWR`, `SendLRW` are one iteration
each of the three loops, with `ecx_getindex`, the set-up, the send and
`ecx_pushindex`; the `Receive...` actions are one iteration each of the loop of
`ecx_receive_processdata_group`. Process data bytes are tags that tell what they
are and from which cycle. Slaves answer in the sending step; a frame may then
stay under way for up to `MaxLag` cycles or never arrive.

**Mailbox.** `PollEmpty`, `WriteMailbox`, `PollFull`, `ReadMailbox`,
`RequestRepeat`, `WaitAck`, `WaitAvailable` are one register access each, in the
order of the code; `Expire` is the timer of the call. `Begin` and `Received`
chain the calls the way all protocol functions do: drain, count, send, receive.
The slave takes a request once per counter value and repeats its last message
when the repeat bit changes: `slavecnt`, `in`, `out`, `queue`, `lastread` and
`ack` are its side, one variable for each register or mailbox of it.

**FoE, CoE, ObjectDictionary, Services.** One action per `case` of the response
switch or branch of the response test, the assignments of the branch and the
next send included where the code does both. Payload is where it comes from
(transfer and offset), not bytes. In `CoE`, `FrameData` takes the remaining size
modulo 2^16, as the `uint16 framedatasize` does, and so does `Left` in `Services`;
complete access changes only the command byte. In `FoE`, `maxdata` is what the
master computes from `mbx_l`, and `slave.full` what fits in the slave's own out
mailbox, of `mbx_rl` bytes (`OutSizes`). `EoE` has the cutting and the two reassemblies as operators on
a record of the caller's variables; `Services` lets `ecx_EOErecv` or the hook
use them. The history variables `stale`, `missed`, `lost` and the like say what
has gone wrong on the mailbox, so that properties can name the faults they
survive.

**Eeprom.** A step is one datagram: control (`WriteEepcfg`), poll, command, data.
`Transaction` is the body shared by the reads and writes with their retry counts
and NACK handling, `Lookup` the test of the cache, with 0xff for an address behind
it, and `FillCache` one fill of `ecx_siigetbyte` with its bitmap: the EEPROM has
more words than the cache (`BufWords`), and an answer that reaches behind `esibuf`
and `esimap` may mark any words as valid.
`op` is the current call, `SecondWrite` the two writes of `eepromtool`.

**Startup.** `pc` names the loop the master is in, `slave` the slave of this pass.
`Detect`, `SetAddress`, `ReadManufacturer` ... are the loops of
`ecx_config_init`, with the split EEPROM reads; `ConfigureSlave` is the body of
its last loop (topology, parent, table, copy of an earlier slave or SII, mailbox
sync managers, PRE_OP). `MapCoeSoe` and `MapSlave` are the two loops of
`ecx_config_find_mappings`. In each step one of its datagrams may be lost: the
identity and mailbox words of the EEPROM, the support for clocks, the link state,
a read of the EEPROM image, the writes of sync managers and of the state, the
mailbox reads of a mapping, the broadcast that latches the times, the times, the
delay. `Answers` says when a slave can be asked for its mapping at all: it got to
PRE_OP and its mailbox is where the master thinks it is. The history variables
`misread`, `untimed`, `unread` and `unmapped` name the slaves a loss was about.
`MeasureClock` and
`PassClockless` are one pass of `ecx_configdc`, with `parenthold`, `prevDCslave`
and the chain of clocks. Nothing of this is changed by slaveinfo, which reads the
mapping again to list it: `SlaveInfo` has its two readers as operators, and
`MappingGenuine` compares what they find with what the master maps. The lines
are placed from the slave's first byte, bit 0: the start bit of a slave that
shares a byte is left out of the listing (slaveinfo.c:254), and so is type 0,
which `ecx_readPDOmap` takes for outputs and inputs, and SoE.

**SlaveStates.** One action per datagram of `ecx_readstate`, `ecx_statecheck`,
`ecx_writestate`, `ecx_reconfig_slave` and `ecx_recover_slave`, in the order and
under the conditions of `ecatcheck`; the writes of all sync managers are one
step, as are those of the FMMUs. `Cycle` is the cyclic thread, whose counter
makes the monitor look.

**Measurement.** `prog` says which of the five programs runs; where they differ
(relative, absolute or no sleep, when the histogram is written, what the end of
the program waits for) the guard names the program. Time is an integer of which
`Sec` make a second; `Advanced` is `add_timespec`. A request for a state
(`ecx_writestate`) reaches the slaves or not, and nobody looks (`Written`,
`NotWritten`); `unheard` records that the last one, for INIT, did not.

## 3. The runs

| run | instance | states | properties |
|---|---|---|---|
| `nic_safety` | 2 threads, 2 buffers, 3 transactions of 2 transmissions (1 on macOS and rt-kernel), sends may fail, all five ports, 2 packets | 2 725 964 | `ExclusiveIndex`, `AnswerStable`, `ForeignOnlyIfLate`, `LostOnlyToLateStore`, `PacketsKept`, `AbandonedNotTaken` |
| `nic_liveness` | 2 threads, 2 buffers, 2 transactions, sends may fail | 36 817 | `TransactionEnds` |
| `redundancy` | 2 slaves, 2 threads, 2 buffers, 3 transmissions, one cable change, lost frame or failed send | 3 121 897 | `OneBreakHidden`, `AnswerGenuine` |
| `process_data` | 15 groups, segments of 3 bytes, up to 7 datagrams a cycle, 6 indexes, 3 cycles and 9 datagrams, frames late by 1 cycle; every ring of up to 3 slaves of 32 kinds, up to 4 bytes large | 653 209 | `WkcVouches`, `OutputsKept`, `InputsPlacedOnce`, `ClockGenuine`, `SegmentsCover`, `BitsExclusive`, `FramesGenuine` |
| `mailbox` | 2 requests, 2 asides, 2 losses | 177 062 | `RequestTakenOnce`, `RepliesInOrder`, `CallEnds` |
| `foe` | files of 0, 1, 3, 4 bytes, packets of 2 from the master and of 1, 2 or 3 from the slave, 2 transfers, 1 BUSY | 73 231 | `TransferGenuine`, `ReadWithinBuffer` |
| `coe` | objects of up to 27 bytes, writes of up to 38 and over 2^16, a dictionary of three list frames, 2 calls, 2 failures | 759 584 | `ReadWhole`, `WriteConfirmed`, `DictionaryGenuine`, `CallEnds` |
| `services` | values and frames of one to three parts and a value over the width of `framedatasize`, 2 calls, 2 Ethernet frames, 2 failures, a ring of 3 slots | 2 771 686 | `ServiceConfirmed`, `FrameWhole`, `FlagUntilEmpty`, `ImplementsQueue` |
| `eeprom` | slaves of 4 and 8 bytes, 4 words of which the cache takes 3, 2 calls, 3 troubles, 1 retry | 1 684 432 | `ReadsTrue`, `WriteConfirmed`, `ControlRestored` |
| `startup` | every tree of up to 4 slaves with every choice of clocks; rows of mixed kinds, with a table, a lost datagram | 148 469 | `ParentsFound`, `DelaysMeasured`, `OwnConfiguration`, `MappingGenuine` |
| `slave_states` | 2 slaves, 3 faults, 2 lost datagrams | 363 981 | `AddressesKept`, `Resumes` |
| `measurement` | 5 programs, 3 cycles, delays below, at and above an interval, 2 faults | 979 164 | `OnGrid`, `ShutsDown` |

**What they show.** The comment before each property states it; the conditions
are part of the statement, and each names the fault under which the code does
not keep it. `ExclusiveIndex`, `AnswerStable`, `ForeignOnlyIfLate` and
`LostOnlyToLateStore` hold while no search has been exhausted and no send has
failed (`Undisturbed`). `WkcVouches` and `OutputsKept` hold while the indexes do not
come round within the life of a late frame (`Rotates`), and while the frame taken for
the one with the clock datagram had that frame's length (`FirstGenuine`), which is so
for every group whose segments are of one length. `SegmentsCover` allows a segment longer than a datagram only when it is one slave's
bytes, and a byte that bit oriented slaves have begun. `PacketsKept` allows one
packet to be lost by `ecx_closenic`. `TransferGenuine` speaks of reads from slaves
with two mailboxes of one size. `OneBreakHidden` and `AnswerGenuine` of the two cards
excuse a call whose send failed, and an index that was given out again meanwhile
(`mixed`). Of the datagrams lost in start-up, `ParentsFound` excuses link states
(`Placed`); `DelaysMeasured` those, the support for clocks, the latch, the times and
the delay (`untimed`), and it asks that the first clock is above all others and
that no slave without a clock forks; `OwnConfiguration` excuses the slaves whose
identity (`misread`) or image (`unread`) was lost, and `MappingGenuine` also those
whose mailbox words, sync managers, state or mapping were (`unmapped`), always with
the slaves copied from them. `ShutsDown` excuses a request for INIT that was lost
and a scan of the monitor at the end. `WriteConfirmed` of `Eeprom` says that the
data are in the words to be written and in no other. `AddressesKept` excuses a pair of lost address writes, `Resumes` two
kinds of datagram that nobody repeats. Section 5 lists what lies behind the
conditions that are not simply losses.

**Why the bounds are enough.** Two threads and two buffers give every pair of
conflicting steps, and a full pool; a third transaction is what an index needs
to change its owner while a late frame is still about. Two transmissions give
the late duplicate. In `redundancy` two slaves give a break before, between and
behind them. Three slaves of a ring give one before, at and after a segment
boundary in both directions; 3 and 6 bits give a shared byte and a crossing of
one, 8 and 16 bits whole bytes in one and in two sync managers, 24 and 32 bits a
slave that fills a segment of 3 bytes and one that does not fit in it. Three cycles
with a lag of one give a late frame for the next cycle and a cycle after it; the 15
groups need one to seven datagrams, so that two cycles take all of the six indexes,
more than all, and one cycle more than there are (the stack is then full). Nine
datagrams in all end the exchange of the long groups after one or two cycles. Two
losses in `mailbox` are a lost read and a loss during its repetition; two calls
give a stale reply. `mbx_cnt` starts at 0 and at 6, so that it wraps. File,
value and frame sizes are empty, below, at and above one packet, with a full and
a short last one; the packets of the slave are smaller than, as large as
and larger than those of the master; the CoE sizes over 2^16 leave a remainder below and
above one frame. One lost datagram in `startup` shows what each of them does; two
would only add excuses. Two calls in `eeprom` give a read of what a write or a failed read left
in the cache. Four slaves give all shapes of a fork with branches of different
length, and a clockless slave above, between and below clocks. Two slaves in
`slave_states` give the exchange of two addresses through the temporary one.
Three cycles in `measurement` give two late cycles in a row and one that catches
up, and times that carry into the second. The ring of three slots wraps within
a few pushes.

**Deadlock** is checked where the system goes on for ever or ends in a `Rest`
step of its own: the two driver runs, `redundancy`, `eeprom`, `startup` and
`slave_states`. The other models stop when their bound on calls, cycles or
programs is reached, and their cfg says so.

**Fairness.** `NicDriver`: weak fairness of each thread (the scheduler runs it);
strong fairness of the two locks (a mutex released again and again is granted)
and of `TimeOut` (a thread that polls again and again finds its monotonic timer
expired, since `osal_timer_is_expired` compares with `CLOCK_MONOTONIC`); none on
the wire. `Mailbox`: weak fairness of the master's thread and of the expiry of its
timer, none on the slave. `CoE`: weak fairness of the master and of the slave,
with at most `MaxLosses` failing mailbox calls: without that bound the segment
loop of `ecx_SDOread` does not end (section 5). `SlaveStates`: weak fairness of
the monitor thread and of the cyclic thread, with finitely many faults and
losses. `Measurement`: weak fairness of the main thread only, which has a
real-time priority or a processor of its own; the loops that wait for it are
bounded by their own counters.

**Symmetry** of the two threads is used in `nic_safety` and `redundancy`, which
check invariants only.

Each property of a passing run has a mutant in `PROJECT.json`: a plausible bug
in a mapped definition (its mutated form stands before the definition, marked
*Mutant*) under which TLC finds the property violated.

**Other configurations** reproduce findings: `NicDriverSendFail.cfg` (module
`NicDriver`, violates `NewIndexIsNew`), `NicDriverRing.cfg` (`PortNicDrivers`,
`RingInStep`), `ProcessDataClock.cfg` (`MCProcessData`,
`CounterTells`), `FoEBusy.cfg` (`FoE`, `WriteConfirmed`), `CoEHole.cfg` (`MCCoE`,
`SegmentsCombined`); `ErrorList.cfg` checks the ring alone.

## 4. Proofs

**NicDriverProofs** (any number of threads, buffers, transactions, transmissions,
any counters; assumption `NicAssumption`). The properties are not inductive:
`ExclusiveIndex` says nothing of status words, though it is these that keep two
threads apart. The invariant is

    IndInv == BaseInv /\ (Undisturbed => QuietInv)

`BaseInv` holds always: types, who holds which mutex where (`MutexInv`), what the
status word can have become between its test and the store (`StoreInv`), and that
a buffer without owner is EMPTY or RCVD (`FreeInv`). `QuietInv` holds until a
search or a send fails: owners' status words are never EMPTY and a thread about
to take an index is its only user (`OwnInv`), every datagram, frame and stored
answer belongs to a late transaction or to the owner of its index (`FlowInv`), a
thread's answer is the content of its completed buffer (`ReadInv`). `QuietBefore`
shows that a disturbance is never undone, so that each conjunct needs only the
undisturbed steps. There is one lemma per conjunct, one step per action in it.
`TypeCorrect`, `IndexesExclusive`, `AnswersStable`, `ForeignAnswersAreLate` and
`IndexesLostOnlyToLateStores` follow, for the Linux port.

**PortNicDriversProofs** (also any number of packets; assumptions `NicAssumption`,
`PortAssumption` and `VxAssumption`, whose finite set of threads is needed to
count packets). The ports without a receive task are mapped to `NicDriver`: a
thread that transmits is one still in its send (`SendPc`), and `D` is `NicDriver`
under this mapping. `StepMaps` and `PortMaps` show that each of their steps is a
step of `D` or none, so that `D!IndInv` is kept by the lemmas of
`NicDriverProofs`; for Linux, Erika and macOS (until its assertion fails) this is
also the refinement `SocketPortsImplement`. For rt-kernel, `TransmitInv` adds that
the transmit buffer holds the frame of the one thread that transmits, as long as
nobody has overwritten it (`sendFailed` records that). VxWorks has an invariant of
its own, `VxInv`: no receive mutex, but packets that are in a thread's hands only
between two steps (`HeldInv`), queues that hold nothing older than the
transaction of their index (`CleanInv`), and the flow of datagrams through queue,
callback and thread (`VxFlowInv`). `PacketsStep` counts: each step moves at most
one packet between pool, queues, threads, callback and senders. `CloseInv` says
that in a closing port nobody has a frame to wait for, so that only a packet which
was past the test of the status word can still come: one, and it is posted into one
queue, which is why at most one is lost with a deleted queue. From `PortInv`
follow the four properties of `NicDriver` for every port, `PacketsAreKept` and
`AbandonedNeverTaken`.

**ExchangeProofs** has two parts. *The mailbox* (any number of requests, asides and
losses). What is sent again
and what is skipped can only be told from counters modulo 7, so the invariant
relates them to the numbers of the requests (`CounterInv`: `Apart` says that two
counters differ as their requests do). `HandshakeInv` follows the repeat bits and
`OrderInv` the messages on the way, read last and lost, in the mailbox and in the
queue; both hold until a call runs out of time (`Doomed`). `FreshInv` says that
there is at most one reply and whose it is; it also asks that no read was lost.
`RequestsAreTakenOnce` is the general truth, of which the run sees the usual
half: a request reported as written is taken exactly once, unless seven requests
have gone by untaken and its counter is that of the last one taken.
*Process data* (any slaves, segments, datagrams, frame buffers, cycles and lag;
assumption `ProcessDataAssumption`). The theorems have the hypothesis `GroupsMapped`: the
segments tile the addresses of the group (`Tiled`) and each slave's bytes of a direction
are in one of them (`SlavesMapped`). That the mapping functions leave a group so is
induction over the list of its slaves; TLC checks `GroupsMapped` for every group of
`MCProcessData`, where it is an assumption, and `Tiled` and `InOneSegment` in
`SegmentsCover` for every ring. The counter of a cycle says how many slaves have
answered, not which, so the invariant (`CycInv`) has to relate it to the slaves.
`JobInv` and `PlaceInv` say where in the segments each loop and each entry of the stack
is, `CountInv` how many entries there are, `CoverInv` that they leave no gap.
`IndexInv` places the indexes of the stack on their circle (`Behind`): while they do not
come round, a late frame has the index of no entry (`WireInv`), and the frame with the
index of an entry is the entry's (`FrameIsEntrys`). `FirstInv` is the clock datagram:
`DCl` is the length of the first entry. `WkcInv` bounds what has been counted by the
slaves that write into and read from the entries pulled so far (`Wrote`, `Read`), and
adds that when it has reached the bound these slaves have this cycle's outputs, and
their inputs are in place. Each slave is in one datagram of a direction (`OneDatagram`), so
the sum is full only if nobody is missing (`CountersVouch`). `OutputsInv` says that no
answer undoes an output. Each of the eight actions keeps all of it, under one lemma per
action; the three loops share `SendIndex`, `SendStack`, `SendFrame` and `SendWire`, the
three receptions `TakeFrame` and `PullFacts`. From `CyclicInvariant` follow
`CyclicTypes`, which includes that the counter never exceeds the expected one,
`OutputsStay`, `CounterVouches`, `PlacedOnce` and `ClockFromItsFrame`.

**ServicesProofs** (any sizes of mailboxes, values, buffers, frames and of the
error ring; assumptions `RingAssumption`, `EoEAssumption`, `ServicesAssumption`) has
three parts. *The error list.* `FlagKept` is inductive with the types.
`RingImplementsQueue` proves the refinement: with `RingQueue`, the entries from
`tail` up to `head`, as the abstract queue, `PushRefines` and `PopRefines` show that
each step of the ring is one of `ErrorQueue`, with the cases of a wrap, and of a
full ring that drops its oldest entry. `ClientsUseList` shows that every step of the
clients is a step of `ErrorList` or leaves it alone, so that `ClientsReportInOrder`
holds. *The calls.* `ServiceConfirmed` looks only at the end of a call, so
`ClientsInv` says of each place of it what is under way: `ClientsOK` has the types,
`TransferInv` the contents, in terms of `Unread`, the answers of the slave that
nobody has read, in the out mailbox or in the queue behind it. While reading, the
parts under way follow each other and what is in the buffer (`ReadChain`); while
writing, the slave has everything up to the part in its mailbox (`WriteInv`,
`SendInv`). `Filled` carries `Holds` from one part to the next (`FilledMore`). All of
it holds as long as the call is `Undisturbed`; Ethernet frames of the slave do not
count among the answers, which is why they may come at any time. *The frames.*
`FramesInv` is independent of it: a reassembly that is somewhere in a frame
(`Amid`) has put its parts in order up to there, and the last fragment of that frame
and of each later one is lost unless it is still to come (`Missing`). With fewer
losses than frame numbers, the fragment in the mailbox is then one of the same
frame or has another number (`SameOrOther`), and can be appended to nothing else.
A first fragment that is read twice and that `ecx_EOErecv` takes for the second one
leaves it behind the end of the frame, where `Amid` promises nothing and nothing
completes. `FramesAreWhole` has `FramesAssumption` as its hypothesis: sizes of 16
bits, a time stamp that goes into a block, fewer failed mailbox calls than frame
numbers (the run satisfies it).

**CoEProofs** (any objects and PDOs, sizes, buffers, mailbox, dictionary; assumptions
`CoEAssumption` and `DictionaryAssumption`: an object is told by its index and
subindex, a PDO and an entry of the dictionary by its index). Again the properties
are about the end of a call, and `CoEInv` says what is under way at each place:
`Pipe` is what the slave has answered and nobody has read. An upload in segments
is a chain in which each segment begins where the one before ends (`End`), the
first one where the copied data ends, and after it the place of the slave
(`SegmentsInv`); a lost answer leaves a gap before the first only, which is what
`lost` excuses. A download is followed by what the slave has of it (`Stored`). A
segment that was not sent leaves the slave behind for good (`Stored` with a
smaller `slave.at`), so that it does not accept the last one; `missed` need only
excuse a send that is reported as failed and did arrive, and a missing answer. For the
listing, `ListInv` counts the frames of the list that are still to come, `ItemsInv`
says that what is told of the listed objects is the dictionary's, `EntriesInv` that
entries are stored at their place. `ReadsAreWhole`, `WritesAreConfirmed` and
`DictionariesAreGenuine` follow from `TransfersInvariant`.

**FoEProofs** (any packet size, file sizes, buffers, transfers). `IInv` adds to
`TypeOK` and `ReadWithinBuffer` the types of all messages and of the slave
(`MessagesOK`), because the buffer bound needs to know that what is appended is a
sequence with the length that was compared, and that the packet taken back on
BUSY was sent before (`LocalsOK`). `TypeCorrect` includes that sent and unsent
parts of a file always add up; `ReadStaysWithinBuffer` holds for anything the
slave sends, from mailboxes of any size. `TransferInv` carries the contents: what the master has received is
the beginning of the file of this transfer and what the slave has stored is the
beginning of what was sent, up to the packet that is under way (`ReadInv`, until
an answer is late, and for packets of the size of the master's; `WriteInv`, until
the slave is BUSY). `TransfersAreGenuine`
follows from it.

**RedundancyProofs** (any number of slaves, threads, buffers, datagrams,
retransmissions, cables and lost frames; assumption `RedundancyAssumption`). What a
thread decides from the two source addresses is only right if it knows of all
frames of its index, so the invariant says what there is of them, queued, in a
buffer that nobody has looked at (`Here`) or taken (`Hand`), at each place of the
call. `WorkInv`: no frame carries work that was not done. `FramesInv`: what there
is belongs to this call, the dummy exists once and has met no slave when it
arrives at the primary card, and of an index that is free or about to be sent
there is nothing; both hold until a wait ends with a frame of its index under way
or the index of a call whose send failed is given out again (`mixed`). A failed
send leaves less on the way than `FramesInv` allows, and disturbs its call. `ExactInv`: exactly which frames an undisturbed call will find at which
socket (`Awaited`, `Expected`), as a function of the one cable that is broken.
Each action has a lemma for types, indexes and work, and that it leaves the other
indexes alone (`Local`), and one for the frames of its own call; `OthersKeep` adds
the calls it does not concern. A frame that another thread stores moves from the
queue to the buffer (`MovedFrames`, `MovedExact`), which is what `Here` does not
distinguish. The row itself is `OneBreak`, `RowParts` (the parts before and behind
a cable are the row) and `TimesOfBoth` (executions of a part add up).

**RegisterProofs** is about two protocols over registers of the slaves that are
reached one datagram at a time. *The EEPROM* (any number of slaves, of words, of
retries, of calls and of lost datagrams; assumption `EepromAssumption`). `EepromInv` says of each place in
each call what is true there. `ControlInv`: the flag `eep_pdi` agrees with the
slave's register except in the three steps that change both (`Settled`);
`RestoreInv`: what `eectl` remembers; `AccessInv`: an access has the control of
the interface. `TransferInv` holds while no datagram has run out of tries: a
command the master counts as given is being executed, refused, or its result is
in the data register (`Served`), and likewise for writes. `PendingInv` keeps this
for the halves of parallel reads between the two calls. `CacheInv`: cached words
that are not in doubt are the slave's, and no write in progress is about to change
one of them (`Trusted`), which is why the write command itself has to be part of
the invariant. `AccessFrame` and `ControlFrame` say once what the nine steps of an
access, and the three of a change of control, leave alone. That a write changes no
other word (`NothingElseIsWritten`) needs to know that its data are new: `AgeInv`
says that no datum is of a call to come, and `OthersInv` that no other word, and no
data register of a command for another word, holds those of this call.
*Recovery* (any number of slaves, faults and lost datagrams; assumption
`SlaveStatesAssumption`). `AddressesKept` is not inductive: `ecx_recover_slave` gives the
address to whatever is at the temporary address, so `TemporaryInv` says who can be
there. Without a lost address write it is nobody outside the three places that use
the address, and only the slave that is being recovered in them; after one loss
another may have been left there, but not once the recovery has cleared the
address; what is adopted was identified. `OffInv`: a device without power has no
address.

**Only model-checked.** All liveness (`TransactionEnds`, both `CallEnds`,
`Resumes`, `ShutsDown`): the prover has no ENABLED and no fairness reasoning.
Properties of folds over lists of slaves, datagrams or image bytes
(`SegmentsCover`, `BitsExclusive`, `FramesGenuine`, the `startup` properties, and
`OnGrid`, which adds up a histogram): they need induction over the data, and
`Datagrams` has a recursive operator. The hypothesis `GroupsMapped` of the
theorems about process data is of this kind too.

## 5. Findings

Disagreements between the code and its comments or documents, and plain bugs,
that came up while modelling; each with its lines in `PROJECT.json`. The
properties that hold name them as conditions.

- **NIC driver.** A failed `send()` frees an index that is still used. Without a
  retry on a counter of 0, whatever the comment says. With two cards, the
  primary frame is sent before the secondary buffer is marked, so that an answer
  may be dropped; the answer to the second transmission is not told from a late
  dummy; and a failed `send()` at either card frees the index of a running call.
  VxWorks: both cards share the queues of the first; closing the port deletes
  queues that a callback may still post to, with the packet it posts. macOS: a frame nobody
  waits for, which a retransmission produces, fails an assertion. rt-kernel: two
  threads share the one transmit buffer, so that a frame may be sent twice and
  another never; the receive ring and `rxIdx` fall out of step when the
  controller has overwritten a frame that was not read.
- **Datagrams.** `ecx_LRWDC` sends the size of a pointer and reads eight bytes.
- **Process data.** When the first frame of a cycle is lost, the next one is read
  with the first one's offsets and length; the expected counter may then be returned
  over inputs that never arrived, and a copy that is too long ends in the outputs.
  The overlapping map returns a size that is too small when outputs are longer than
  inputs. In an overlapping map whose group may not use LRW, the inputs are read
  from addresses where nothing is mapped.
- **Mapping.** A bit oriented FMMU may be split by a segment; a segment may become
  one byte too long, and is as long as a slave that is larger than a datagram; with three sync managers apart an FMMU is too long; a sync
  manager below the one before is joined to its FMMU.
- **Mailbox.** After an aside a repeat is asked for although nothing was lost. When
  seven requests were not taken, the counter of the next one is that of the last
  one taken, and the slave drops it.
- **CoE.** One lost answer leaves a hole in a value returned with success; the
  segment loop is unbounded and does not compare with the buffer; sizes are
  counted in 16 bits; lost reads make a shorter mapping.
- **FoE.** BUSY: "resend", but the loop ends, with success. The end of a read is
  told by the size of the wrong mailbox: a slave with a smaller out mailbox gives a
  part of its file, with success.
- **SoE, EoE.** A failed send leaves a hole; sizes are counted in 16 bits; error answers to writes are not
  recognised; only the last drive counts; `ecx_EOEsetIp` may return 0 for a
  strange answer; time stamps make the size wrong; a frame that breaks off takes
  the next one with it.
- **EEPROM.** Failed reads are cached; the last words are copied behind the cache; `ecx_readeeprom2` and the writes do not
  look at errors; the tool may leave a checksum that does not match.
- **Slave states.** All slaves losing power together are never recovered; the last
  writes of a recovery are not checked; INIT and PRE_OP together read as BOOT.
- **Clocks, start-up.** Nested forks without clocks lose a port; slaves behind a
  clockless first one have no delay; a lost link state gives wrong parents; a
  division by zero before the test for it; copies of another slave's mapping; no
  result is looked at of the datagrams that latch the times, write delays, sync
  managers and states, or read mailbox words and the support for clocks.
- **Measuring programs.** `latency_test` never ends; a scan of the monitor outlives
  the end; the request for INIT is not checked; `cycle_test_2` always prints its usage; an unsigned difference wraps.

## 6. Not modelled

- Slaves entered through another port than 0. In `Startup` the broadcasts that
  count the slaves and set them to their defaults, and the datagrams that give them
  their addresses, are not lost; the offsets of the clocks (`ethercatdc.c` 299-303)
  are not written: `SystemTime` is the time they lead to.
- Two threads that use the mailbox of the same slave: `mbx_cnt` is read and
  written without a lock (`ethercatfoe.c` 99). The protocols assume one user.
- Several threads that push errors at the same time; one thread pushes and pops.
- In `ProcessData` the waits for single frames, and other threads' frames; the
  index pool is the group's own. Groups that begin at other logical addresses.
  More segments than `EC_MAXIOSEGMENTS`: the operator `Enough` excludes them.
- The PO2SO hooks of the application. The mapper threads (`ethercatconfig.c`
  805-831, 858-869), which are not compiled: `EC_MAX_MAPT` is 1 in `ethercatmain.h`
  41, and `Startup` has the serial loop of l. 872.
- The redundant modes of the ports other than Linux, which is the one this
  repository builds and changes, and the drivers for Windows and INtime (the
  macOS one with other packet libraries) and RTEMS (the Linux one on bpf).
- Printing, performance counters, the OS wrappers, the functions of the tools
  that only read and print: no protocol state.
- Payload bytes and byte order, except in `Datagrams` and `Sii`, where places and
  sizes depend on them.

## 7. Plan

Done: the components of section 1.1, with the exceptions of section 6, and the
proofs of section 4. Left:

1. Lemmas of `IOMap` about one slave: `MapBits` keeps width and order, `Extend` the
   limit of a segment; with a prover that does induction over lists, `GroupsMapped`
   for every list of slaves.
2. `Mailbox` as an implementation of the one-step mailbox that `CoE`, `FoE` and
   `Services` use.
3. Several users of one mailbox, and of the error list.
