# TLA+ models of the OpenHarmony QEMU boards (device_qemu)

The repository holds what OpenHarmony needs to run on QEMU's virtual boards:
device drivers for the LiteOS-A kernel (`drivers/`), small display libraries
(`hardware/`), complete LiteOS-M boards (`riscv32_virt`, `arm_mps2_an386`,
`arm_mps3_an547`, `SmartL_E802`, `esp32`), and adapters and configuration for
Linux (`common`, `arm_virt/linux*`, `x86_64_virt`, `riscv64_virt`).  Its own core
logic, and the part where order and concurrency matter most, is the family of
virtio drivers in `drivers/virtio`: five drivers that share rings of descriptors
with a device that runs in parallel and interrupts them.  That family is modelled
first, checked with TLC and proved with TLAPS.  Around it stand models of the serial
port, the memory zones, the drivers of the LiteOS-M boards, and the display composer,
the gralloc and the camera of `common/virt_full`, checked with TLC and proved in part.

Paths below are relative to the repository, in `drivers/virtio` unless a
directory is given.

## 1. The system

### Components

| component | state | operations | interacts with |
|---|---|---|---|
| virtio-mmio transport, `virtmmio.c/h` | Status, QueueReady, configuration generation (device registers); `struct Virtq` | discover, begin, negotiate, configure queue, end, fail | called by all five drivers |
| virtio-net, `virtnet.c` | descriptors of two queues, free list `tFreeHdr/tFreeNum`, `tbufRec[]`, `rbuf[]`, avail and used rings, `last` | `LowLevelOutput` (xmit), `VirtnetIRQhandle` = `VirtnetRxHandle`; `VirtnetTxHandle`; ack; init, release | network stack (calls), interrupt, device |
| virtio-gpu, `virtgpu.c` | control queue, shared response, `last` with two meanings, `edid` | commands with a spin for the response; a refresh by timer that waits for nothing | framebuffer core (calls), timer callback, device |
| virtio-input, `virtinput.c` | event queue, event buffers, work items | `VirtinHandleEv` in the interrupt, `VirtinWorkCallback` in a work thread | HID subsystem, interrupt, work queue, device |
| virtio-block, `virtblock.c` | one static request (header, buffer, response), an event; CID/CSD/EXT_CSD | `VirtMmcDoRequest`: reads and writes through `VirtblkIO`, the rest answered by the driver as an MMC card would | MMC core (calls), interrupt, device |
| virtio-rng, `virtrng.c` | one descriptor, mutex, event | `VirtrngRead` -> `VirtrngIO`, `VirtrngIRQhandle` | kernel random interface, several readers |
| fake SDIO controller, `fakesdio.c` | a controller object | bind, release; constant operations | MMC core |
| HDF UART, `drivers/uart` | open state, receive ring, event | init, deinit, read, write, transfer modes; receive interrupt | HDF UART core |
| memory zones, `drivers/char/mmz/mmz.c` | contiguous memory mapped into processes | alloc, map, free, cache operations | kernel VM |
| display libraries, `hardware/display` | graphic buffers in shared or contiguous memory, one layer | alloc, free, mmap, flush | framebuffer, shared memory, `/dev/mmz` |
| `riscv32_virt` | second ports of the virtio drivers, CFI flash, framebuffer core | send, receive, lend a buffer; input task; read, write, erase, query; open, map, close | lwIP, FAT and LittleFS, display layer |
| `arm_mps2_an386`, `arm_mps3_an547` | LAN9118 Ethernet, UART console | initialisation, receive interrupt, send; console in and out | lwIP, shell |
| `SmartL_E802` | UART, timer and GPIO of the CSKY driver set, DSP intrinsics | transfers, start and stop, pins, each against its interrupt | LiteOS-M |
| `common/virt_full` display | layers, planes, framebuffers, fences, vsync and hot-plug threads; DRM buffers | layer calls, commit, callbacks, alloc, map | Linux DRM, HDI clients |
| `common/virt_full` camera, audio | streams' buffers, one encoder, EXIF data; ALSA handles | deliver, configure, stop; parameter conversions | camera framework, codec libraries, ALSA |

`PROJECT.json` lists all of them with their source files and what is, and is not,
modelled of each.

### What is hard here

* Three kinds of actors on the same memory: tasks, the interrupt handler that
  preempts them, and the device, which runs truly in parallel.  Every driver
  decides from a flag or an index that another actor is changing.
* Notifications are suppressed in both directions (`VIRTQ_AVAIL_F_NO_INTERRUPT`,
  `VIRTQ_USED_F_NO_NOTIFY`): a lost one stops the queue for good.
* `avail->index`, `used->index` and `last` are free-running `uint16_t`; the rings
  are indexed modulo the queue size, and some code computes with them as `int`.
* Memory is reused at once: transmit chains, receive buffers, event buffers that a
  work item still points at, static request blocks.
* Initialisation may fail at every step, and what was acquired must be given back.
* The simpler drivers change a register by a read and a write, with the interrupt
  handler in between; the composer's threads share flags and pointers without a lock.
* Kernel objects outlive the call that made them: shared segments by attachments, pages
  by reference counts, framebuffers by commits, and two processes hold each.

The hazards in `PROJECT.json`, each at its line, come from this list; each names the
properties that would catch it.

### What makes the components correct

* net, transmit: every descriptor chain is in one place; the device only ever reads
  complete requests; a NetBuf is freed once, after the device has finished with it;
  frames go out in the order of `xmit`; a sleeping device is always notified.
* net, receive: every buffer is in one place; frames come up once, in order; an
  interrupt that was suppressed is made up for.
* gpu: the ring is not overrun; a response acted upon answers the command sent; the
  screen goes on being refreshed.
* input: buffers neither lost nor duplicated; events reported once, in order.
* block, rng: the one request is not touched while the device has it; a signal wakes
  the request it is for; each call returns, with the device's answer.
* MMC card: register fields read back as written; the host computes the real size.
* UART: accepted bytes are read once and in order; no reader sleeps on bytes that are
  there; the port stays open while anybody has it open.
* initialisation: handshake in order, one generation of the configuration; what a failure
  or a release gives back was acquired, and what it leaves, a callback without its memory
  above all, is known path by path.
* flash: what is read is what was written, and the chip is left readable.
* memory and buffers: a page or segment lives while it is mapped, nobody is given
  another's memory, and what is freed by both sides is free.
* register-level drivers: a transfer, a timeout or an edge is neither lost nor taken
  twice however the handler cuts into the task.
* composer: a framebuffer on the screen exists, a fence tells when its frame is through,
  no plane serves two displays, callbacks agree with what is plugged.
* camera: a frame leaves whole, encoded by an encoder of its size.


## 2. The modules

### Shared

* **Virtq** is the index arithmetic of `struct Virtq` (`virtmmio.h`): `Inc`, `Dist`,
  `Slot`, and `Entries`, the ring entries between two free-running indices.  `IDX`,
  the number of values of an index, is 65536 in the code; everything is stated for
  any `IDX` the ring size divides.
* **VirtNetIrq** is the interrupt of virtio-net: the status bit `isr`, and `irqPc`,
  how far `VirtnetIRQhandle` has come.  One core: while `irqPc # "idle"` no task
  takes a step, and the handler can enter between any two steps of a task, except in
  the sections under `OsalSpinLockIrqSave`, which are single actions.

### virtio-net

* **VirtNetTx** splits `LowLevelOutput` into the steps other actors can tell apart:
  `GetTxFreeEntry` (the locked section), `ClearNext` (the `flag &= ~NEXT` after the
  unlock), `FillDesc`, `PutAvail`, `BumpAvail`, `NotifyTx`; and `VirtnetTxHandle` into
  `TxHandleBegin`, one `FreeTxEntry` per turn of its loop, `TxHandleEmpty`,
  `TxHandleEnd`.  The device fetches chains, completes them in any order, and follows
  the protocol that suppresses notifications.
* **VirtNetRx** does the same for `VirtnetRxHandle` with its recheck, and for the
  publication of the buffers by `VirtNetDeviceInit` (`RxStart`).
* **VirtNet** composes the halves: one `isr`, one handler, receive before transmit,
  acknowledgement last.  Each half's actions are those of its own module, so what is
  shown of the halves holds of the driver.
* **NetBufQueue**, **FrameFifo** are the promises to the caller: a bounded queue of
  NetBufs, and a FIFO of frames.  The rings are mapped to them through what the
  descriptors point to, as the device sees it.

### virtio-gpu

* **VirtGpu**: `Command`/`WaitResponse` are `NotifyAndWaitResponse` for the sequence
  of commands of the initialisation (seven with EDID, six without); `PopulateVirtQ`
  turns the queue over to the timer; `TransferRequest .. FlushNotify` are the two calls
  of `RequestNoResponse` in `NormOpsRefresh`.  `Busy` is the code's `abs()` of two
  promoted `uint16_t`.  The spin that waits for the fence and the index is one guard.
  `TimedSpec` adds `late`, a history variable that remembers a tick that came before
  the device was done with the last one.

### The other virtio drivers

* **VirtInput**: `VirtinHandleEv` step by step, the work queue as a sequence of buffer
  ids (work items point into the buffers; they do not copy), `VirtinWorkCallback` in
  its two steps -- conversion in place, report -- and **EventStream**, the promise to
  HID: every event once, in order, unless it was dropped for want of memory.
  `WatchedSpec` adds `overrun`, which remembers that a buffer was filled again under
  the work item that points to it.
* **VirtBlk**: the I/O path and the interrupt, with a device that may fail a request,
  against **Disk**, a store of sectors that answers one request at a time.
* **VirtMmc**: the commands that `VirtMmcDoRequest` answers itself.  A 128-bit register
  is the set of its one-bits; `FillCidCsdBits` ors a value in as the code does, and an
  external MMC core decodes OCR, CSD and EXT_CSD by the fields' definitions.
* **VirtRng**: readers, mutex, event and interrupt, against **Requests**: each call is
  answered with what was written for it, or fails.
* **VirtioInit**: for each of the five drivers the sequence of steps of its
  initialisation in the code's order, each of which may fail where the code tests for
  it; what the failure path and the release give back; and a device whose
  configuration generation may move between any two reads.  `DeInit` is what the five
  `VirtxxxDeInit` undo: not the spin lock of virtnet, nor the events.  `Released` adds what
  the release does; nothing undoes `RandomOperationsInit` and `fb_register`, so `Orphans`
  names the callbacks that outlive their memory.  Input and gpu do not clear their memory:
  `garbage` is the fields that are not 0 before they are written, `wild` what `DeInit` gives
  back because it took such a field for a resource.

### Serial port, memory zones, gralloc

* **Uart** (`drivers/uart`): `Open`, `OpenFails`, `Close` and `ShutDown` are `Hi35xxInit`
  and the two halves of `Hi35xxDeinit` with the `Pl011StartUp` and `Pl011ShutDown` they
  call; `ReadStart .. ReadClear` are the steps of `Hi35xxRead` and `Pl011Read` between
  which the interrupt may come, `UartIrqEnter .. IrqClear` those of `Pl011Irq` with
  `PL011UartRecvNotify`.  The task that waits leaves the event as it is and clears it
  only after the read, when the ring looks empty, so that an event may be cleared that
  bytes have just set; `UartNoLostWakeup` says why that does no harm to one reader:
  the next read looks at the ring first.  **ByteStream** is the promise to the reader.
* **Mmz** (`drivers/char/mmz/mmz.c` and the contiguous buffers of
  `hardware/display/display_gralloc.c`): allocation and mapping, page by page, each step
  of which may fail; the kernel's reference counts; two processes with the same buffer.
  A size that is not valid (`display_gralloc.c:283`) gives a handle without memory, here
  and in GrallocShm; `EmptyHandles` says that nothing else comes of it.
* **GrallocShm** (the shared segments of the same file): keys, identifiers the kernel
  reuses, attachment and removal by two sides.
* **Gbm** (`common/virt_full`, `display_gralloc_gbm.cpp` and `hi_gbm.cpp`): the DRM
  device opened under a lock and a count, handles mapped and freed without one.

### The LiteOS-M boards

* **RvVirtNet**, **RvVirtInput** (`riscv32_virt`): the second virtio-net driver, which
  lends its receive buffers to lwIP, and the second virtio-input driver, with its task
  and its release.  They keep a ring as the sequence of what is in it; the indices are
  the business of Virtq and the first drivers.
* **RvDevices**, **FbDisplay**: how the three drivers bring their device up and down, each by
  its sequence of steps with `step` the number of those taken, and
  the frame buffer's memory from the driver that allocates it to the layer that draws.
  `Crash` is a registration of the interrupt without memory for its parameter; `badFree`
  is a free of what was not allocated (`vq[0].desc` of queues that had to be aligned) or is
  freed already; `LeftOver`, `FreesAreGood` and `CrashesInRegistration` say where.
* **CfiFlash**: the flash driver, command word by command word, against the chip.
* **Lan9118** (`arm_mps2_an386`): the initialisation access by access, the receive
  interrupt, sending in words against the chip's FIFOs.  **CmsdkUart**: the console,
  whose two files the two Arm boards share.
* **CskyDrivers** (`SmartL_E802`): the serial port, the timer and the pins, each
  driver's register accesses cut by its interrupt handler.  The timer is stopped before its
  callback and its interrupt change (`SetCallback`).  The pins' tasks share the registers
  and, in `shared`, the one `value` and `mask` of their port: `StoreField` writes it,
  `LoadField` takes what the task wrote, where the compiler kept it, or what is there by
  now.  **CsiSimd**: the DSP intrinsics as operators over lanes
  of `BITS`, compared with what the remark above each function says.

### Display composer and camera

* **HdiDrmComposition**: discovery, the client's buffers, framebuffers, planes, fences
  and commits, with a kernel that keeps one commit pending.  **HdiDisplay** puts the
  layers and their composition in front of it.
* **HdiSession**: the vsync worker (`drm_vsync_worker.cpp`), its thread, flags and condition;
  the hot-plug monitor, the client that registers a callback and the user who plugs.
* **Camera**: the nodes scale, codec and EXIF over the streams that share them.

The `MC*` modules put small systems side by side for TLC: a behaviour looks at one of
them and leaves the others where they start (**MCVirtDrivers**: rng, block, MMC,
initialisation; **MCUart**: serial port and gpu; **MCParts**: reception, gralloc,
display, camera; **MCBoards**: the boards' drivers).

Operators whose name begins with `Bug` are the wrong versions of the definition that
follows them (a missing guard, an index off by one): replacing the one by the other
must break the property it is listed with in `PROJECT.json`.

## 3. The runs

| run | instance | what it shows | distinct states |
|---|---|---|---|
| tx | VirtNetTx; IDX 4, ring of 4 (two chains), 3 NetBufs, symmetric | `TxInductive`, `TxDeviceReadsWhole`, `TxNetBufsAccounted`, `TxNoLostKick`, and that the driver implements NetBufQueue | 2.64 M |
| net | VirtNet; IDX 2, transmit ring 2, receive ring 1, `FairSpec` | infinitely many interrupts empty both used rings infinitely often | 0.67 M |
| input | VirtInput; IDX 4, ring of 2, backlog 3, 2 event values | `InInvariant` at any speed of the work thread; EventStream while it keeps up; the next interrupt makes up for a lost one | 1.31 M |
| drivers | MCVirtDrivers; 2 readers of 2 bytes; 3 sectors, 2 values; 9 capacities, 7 block sizes; 3 changes of the configuration | safety, refinement and return of every call of rng and block; the card's registers; the five initialisations | 0.04 M |
| uart | MCUart; 2 clients, ring of 3 (two bytes), FIFO of 2, 2 byte values; gpu IDX 16, ring of 4 | `UartInvariant`, ByteStream, a waiting reader is woken; `GpuInductive`, whole chains, own responses; while no tick finds the device busy, no request is overwritten, and without EDID the refresh goes on for ever | 1.35 M |
| parts | MCParts; reception IDX 8, ring of 4, 2 frames; gralloc, composer and camera (bounds below) | `RxInvariant` and FrameFifo; `GrallocInvariant`; `DrmInvariant`; `LayersAndCamera` | 1.71 M |
| boards | MCBoards (bounds below) | `RvDriversInvariant`, `RvBoardInvariant`, `CskyInvariant`, `MpsInvariant`: the invariants of the boards' drivers | 2.82 M |
| session | HdiSession; 2 displays, 1 callback, 2 toggles | `SessInvariant` (the worker lives, plugs agree), and every event reaches its callback | 0.68 M |
| net_lost | VirtNet; as net, 2 NetBufs | *violated:* `RxNoLostInterrupt` (section 6) | |
| gpu_freeze | VirtGpu; IDX 16 | *violated:* `GpuRefreshGoesOn` (section 6) | |
| mmc_64k | VirtMmc; block size 65536 | *violated:* `RegistersReadBack` (section 6) | |
| lan_aligned | Lan9118; frames of 5, 6 and 8 bytes | *violated:* `FrameIsWhole` (section 6) | |

The longest, tx, takes about two and a half minutes with two workers.

**Bounds.**  `IDX` replaces 2^16.  Every instance has an `IDX` small enough that the
indices wrap many times (for gpu, several refreshes after the initialisation, which
is where the code's arithmetic matters), and larger than or equal to the ring, as the
code needs.  The smallest transmit ring that has more than one chain has 4
descriptors; with 3 NetBufs a sender can find it full.  Two frames, two event values
and two sector values suffice for the refinements: order and identity are lost
between two values if they are lost at all.  `BACKLOG` bounds how far the work thread
falls behind: three is past the ring of two, so a buffer is refilled under a work item.
`GENS` bounds the changes of the configuration; the retry loop is otherwise unbounded.
The capacities lie around every boundary of the code: 1 MB, 512 MB, 2 GB and above.
Capacities below 1 MB make C_SIZE -1 and are left out.
A ring of three is the smallest that can hold two bytes and so be read in two
halves, and a FIFO of two fills and overflows it from anywhere.

*boards*: RvVirtNet has a transmit queue of 4 with 2 packets, a receive queue of 3 with
2 freers; RvVirtInput a queue of 2 and `MaxEvents` 3, so a buffer comes round again;
the flash 8 words in blocks of 4 and pages of 2, with `MaxWrites` 2, so that a write
crosses a page and follows an erasure; the configuration changes up to `MaxGen` 2 times.
CskyDrivers' serial port transfers `Lengths` {2} through a `FIFO` of 1, so every transfer is split, with
`MaxCalls` 3; the timer has words up to `MAX` 255, `FREQ` 23, `UNIT` 5 and timeouts on both
sides of the overflow (63, 64); the pins are 2, with 2 tasks and `MaxGpioCalls` 2.  Lan9118
receives lengths {5, 8} and sends {5, 6, 8} through a FIFO of 8 words, 3 and 4 packets:
both with and without a remainder, and enough to fill it.  The console has one byte
value, two printers, clocks {0, 160, 320} and rates {0, 10, 15}.  CsiSimd has `BITS` 3
and takes halves at the lanes' boundaries; operands for which the C is undefined (USAT by
0, ROR by 0, PKHTB by 32, SSAT by 32) are left out, and the signed overflow test of QADD
may come out either way.

*parts*: GrallocShm has 3 threads in 2 processes, 2 identifiers, keys 1 and 2, 2 buffers:
enough for an identifier or a key to be reused; Mmz 4 pages, 2 buffers, 2 threads; Gbm 3
users with one buffer and one address for the device's life, 2 initialised users with 2
buffers and 2 addresses for the handles.  The composer has one display with every fault,
and two that share planes; the layers `MaxLive` 2 of `InvalidId` 3 ids, so ids are
reused, and z orders {0, 2}.  Camera: `MinIFrameBegin` 2 instead of 5; two video streams of two
sizes; one JPEG stream with two Configs; one stream with every type, format and fault
and 5 payloads.  *session*: two toggles make an event overtake another.

**Deadlock** is not checked where a system may really stop or a bound ends the
behaviour: net and net_lost, input (they stop when the device has used all its buffers
inside the window of section 6), uart (a failed gpu command or a UART fault ends it),
gpu_freeze, session, parts, boards and lan_aligned (bounded calls).  In tx, drivers and
mmc_64k TLC would report a state without a successor.

**Fairness.**  The handler, once entered, runs to its end; that is what a single core
that is not preempted again does.  A sender is strongly fair, because interrupts may
disable it again and again: it gets the core back after each, and a scheduler starves
no runnable task.  The device is weakly fair in working off what it was given; it never
owes a frame, an event or a random interrupt.  rng's readers are strongly fair,
as the mutex and the event wake waiters, and so are the block driver's task and the
reader of the UART.  The refresh timer keeps ticking whenever the device has finished
the last tick.  An initialisation goes on.  In HdiSession the monitor, the registration,
the thread that makes the worker and the worker itself are weakly fair, being threads of
their own.  No fairness is assumed of `xmit`, of commands, of clients, of the user who
plugs a display, or of anything else the callers decide; parts, boards, tx and
lan_aligned are checked for safety only.

**Assumptions.**  One core (`-smp cpus=1` in `arm_virt/liteos_a/README.md`), memory that
is sequentially consistent (`DSB` is a no-op in the models, and a missing barrier
cannot be seen), event waits that do not fail, and a network stack that serialises
`xmit`.  VirtInput and VirtGpu begin with rings that are zero, which `virtinput.c` and
`virtgpu.c` leave to the DMA allocator; what else their memory may hold is in VirtioInit.  Of the HDF UART core: no two Init or Deinit
overlap, and one task reads.  Of gralloc's callers: a handle is freed after its other
calls.  Of the camera framework, which is not in the repository: frames pass scale,
codec and EXIF in this order through one node each, and a client gives both JPEG tags or
none.

## 4. What is proved

The proofs hold for every `IDX`, every ring size that divides it, and any set of
NetBufs, frames, events, readers, sectors, data, bytes, clients, displays,
packets, clocks, rates and sizes of the flash; those of the composer for two planes and
any displays, buffers and faults.  They rest on the named assumptions
about the constants, which say no more than the code's `#define`s do:

| assumption | says | in the code |
|---|---|---|
| `IdxAssumption` | an index has at least one value | `uint16_t` |
| `TxAssumption` | the ring holds whole chains and divides `IDX` | 32 entries, 2 per chain, 65536 |
| `RxAssumption` | the ring divides `IDX` and is smaller | 16, 65536 |
| `InputAssumption` | as RxAssumption; an event is not `NoEvent` | 8, 65536 |
| `GpuAssumption` | the ring of 4 divides `IDX`, which holds it twice | 4, 65536 |
| `RngAssumption`, `BlkAssumption` | an index tells one request from none; sizes are positive | one request at a time, 65536 |
| `UartAssumption` | the reader is one of finitely many clients; the ring has a place besides the free one | 16384 (`BUF_SIZE`) |
| `InitAssumption` | the bound of the configuration's changes is a number | none |
| `LanAssumption` | lengths and the FIFO are numbers; a sent frame is not empty | bytes of a pbuf; a transmit FIFO of 5 KB, statuses included |
| `CmsdkAssumption` | clocks and rates are numbers; the default rate is not 0 | `UART0_BAUDRAT`, 115200 |
| `DrmAssumption` | no display, plane or buffer is the null pointer | `nullptr`, crtc 0 |
| `FlashGeometry` | the capacity is a number; a page and a block have at least a word | 32 MB, pages of 1024 words, erase blocks of 256 KB |

`RxAssumption` and `InputAssumption` need the ring smaller than the index, because the
whole ring is posted at once: with `IDX` equal to the ring, full and empty would be the
same.

**Virtq_proofs** has the arithmetic all of them use: what `Dist` and `Window` become when
an index is incremented (`WindowPush`, `WindowPop`), that slots of a window no longer than
the ring are distinct (`SlotInjective`), so what `Entries` becomes when an entry is
written, published or consumed (`EntriesWrite`, `EntriesPush`, `EntriesPop`); and, for the
refinements, the same window read in order: `WindowIsWalk` (a window is the walk of so many
increments), `WindowSeq`, `WindowTail`, `WindowAppend` (a ring is a sequence whose head
goes and whose end grows).

**VirtNet_proofs** -- transmission, reception, and the driver.  `TxAlwaysInductive`, with `ChainsArePartitioned`,
`NetBufsAreAccounted` and `DeviceReadsWhole`.  None of these is inductive alone.  That
chains are partitioned needs that a ring is never written over, which needs the count
(`TxCounted`): free, being filled, posted, with the device and done add up to the ring.
That a freed chain can be linked back needs that nobody ever changes a chain's own link
(`TxPairsIntact`), since `tFreeHdr` is read through descriptors that belong to the device
when the free list runs empty (`virtnet.c:229`).  That the right NetBuf is freed needs that
descriptor and record agree for everything in flight (`TxInFlightRecorded`), which needs
how far the sender has got (`TxSendProgress`).  There is one lemma per action that disturbs
these, and one for the actions that move nothing.

* `NoKickIsLost`: the device sleeps with a chain before it only if a notification is on
  its way.  The invariant it needs, `TxAsksWhenIdle`, is that a device asleep or about to
  look again has its flag down; the sender, who publishes before it reads the flag, then
  cannot miss it.
* `TransmitImplementsQueue`: each step of driver and device is a step of NetBufQueue or
  leaves it alone, with the rings read as sequences by the window lemmas.

The second half of the module is reception and the driver.  `RxAlwaysInductive`, with `ReceiveIsSafe`
(`RxInvariant`), has the partition of the buffers over two rings, the handler and the
device, by counts (`RxCounted`); `RxAsksWhenIdle` for the notification; and `RxCaught`, what
the recheck of `VirtnetRxHandle` has seen when interrupts are on again.
`ReceiveImplementsFifo` maps the used ring to FrameFifo.  `DriverIsSafe` and
`DriverKeepsItsPromises` bring the results of the halves over to the driver.

**VirtInput_proofs** -- `InAlwaysInductive`, with `EventQueueIsSafe` (`InInvariant`, for the
queue alone and under the history variable), goes like reception.  `EventsAreTheStream`
is the refinement of EventStream while no buffer is filled again under its work item.  It
needs `OwnBuffers`: until then the buffers with a work item, a new event, or in the
worker's hands are distinct, and a pigeonhole argument (`RoomForOneMore`) that a buffer
the device fills is none of them.

**VirtRequest_proofs** -- the drivers that send requests.

* gpu: `GpuAlwaysInductive`, with `RingIsNotOverrun` and `ResponseIsOwn`.  The interesting
  step is `NotBusyHasRoom`: although `abs()` of the promoted difference is not the distance
  of two wrapping indices, whenever the test lets a request through there is room for it.
  (The converse fails: section 6.)  `ChainsAreWhole` goes by phase: one chain at descriptor
  0 while a command is answered, even descriptors from `PopulateVirtQ` on, which stay even
  because 4 divides `IDX`.  `NoRequestIsOverwritten` needs `GpuPunctual`: while no tick
  was late the device sleeps from a tick to its notification, and all that can wait then is
  the one transfer whose flush was refused, after which `Busy` refuses everything.
* rng: `RngAlwaysInductive`, `ReadsAreSafe` (`RngInvariant`), `ReadsAreAnswered` (Requests).
  The holder of the mutex is unique, and its request is in exactly one place: asked, being
  filled, filled, signalled; or everything is at rest.  That no signal is left over for
  the next reader is a consequence.
* block: `BlkAlwaysInductive`, `RequestsAreSynchronous` (`BlkInvariant`), `DiskIsKept`
  (Disk), by the same cases, with what the header, the buffer and the response hold in
  each.

**Uart_proofs** -- `UartAlwaysInductive`, with `PortIsSafe` (`UartInvariant`), for any number
of clients and every size of ring and FIFO.  Its key is `UartReading`: whoever has begun a
read has the port open, so neither `Hi35xxInit` nor `Pl011ShutDown` can come between its
steps, and only the read itself moves `rp`; what it has copied is therefore still the front
of the ring when it moves `rp`, although the interrupt has stored bytes behind it.
`BytesAreTheStream` needs the ring without its remainders: `StoreAppends`
(`PL011UartRecvNotify` appends what fits, in two halves), `ReadTakes` (the two halves
`Pl011Read` copies are the front) and `Advanced` (the index it writes takes them off).

**HdiSession_proofs** -- `SessAlwaysInductive`, with `PlugsAreFollowed` (`SessInvariant`), for any
number of displays.  No lock protects connectors, crtcs and the callback from two threads
and a client; that they agree with what is plugged in is a matter of when.  While no event
was overtaken, `MonitorAgrees` says that each display the event has still to reach is
settled or is the one the event is about (`SettledBut`), that those behind are settled, and
that no registration goes on meanwhile; `RegistrationAgrees` that the displays the
registration has passed have been told.  `WorkerStops`, that a worker which has been
disabled calls back once at most, needs no such condition.

**VirtRequest_proofs** ends with the bring-up: `InitAlwaysInductive` and `BringUpIsSafe`
(`InitInvariant`), for any number of changes of the configuration.
`StepOrder`, `ConfigOrder`, `FieldOrder` and `EndOrder` are facts about the five sequences of
steps, found by computation for each driver, of where the steps stand among each other; from then on no lemma names
a driver's sequence.  The inductive invariant makes status, queues, generations and resources
functions of the steps taken (`Taken`), and the one action that goes backwards, the retry of
`Negotiate`, takes three of them back (`TakenBack`).  `InitHeld` says what is held after a
failure and after a release, `InitWild` that a field is garbage only until its first write:
from these follow the callbacks without memory, what is left, and what was wrongly given back.

**Boards_proofs** -- the drivers of the LiteOS-M boards, proved of their modules and then of
the behaviours of MCBoards, in which each is a part.

* Console: `CmsdkAlwaysInductive`, for every clock and rate.  The divisor is that of the
  settings kept (`Quotient`); the interrupt handler and the printers are where the registers
  say.
* Ethernet chip: `LanAlwaysInductive`, for every FIFO and all lengths.  `Place` turns the thirteen
  groups of accesses into the places the initialisation can be in, and `InitSoFar` says at each
  what was read and enabled by then.  The FIFO's words are sums over sequences: that such a
  recursive function is what it should be (`SumsAreSums`), and that a sum grows and shrinks
  with its sequence (`TotalAppend`, `TotalTail`), is proved by a least counterexample
  (`LeastNumber`), since the library's induction theorems cannot be used.  The invariant
  bounds the frames in the FIFO by the shortest (`TxWell`).
* Flash: `FlashInductive`, for every capacity and every size of page and block.  At each place
  of a call it gives the cycle the chip is in, and what is meant to be in the flash as what is there
  and what is still to be written (`StillToWrite`, `StillToErase`).  `WithinPage` is why the buffer never
  leaves its page: the count of each command ends at the end of the page or of the data.
  `Division` and `PageFacts` are the arithmetic of pages that need not be powers of two.
  A call that falls into a query ends all of this (`crossed`), as it does in the code.
* Frame buffer: `FbInductive` lists what is allocated at each stage of the driver's life; the
  memory a layer names is there until a layer is closed or the driver released under one.
* Bring-up: `DvInductive`, by the method of InitAlwaysInductive; `FailOrder` is why a failure
  always comes before the device is told, and before the network driver has its interrupt,
  which nothing would take back.
* `MpsIsSafe` (`MpsInvariant`), `RvBoardAlwaysInductive` and `RvBoardIsSafe` (`RvBoardInvariant`)
  bring these over to the boards' behaviours, of which every step is a step of one part and
  stutters in all others (`MpsSteps`, `RvSteps`).

**Parts_proofs** -- the post composition of the display composer.  `AnyDisplaysAreSafe` is about any
number of displays that share a primary and an overlay plane, `DrmIsSafe` (`DrmInvariant`)
about the behaviours of MCParts.  That the picture stays is not inductive: the kernel knows
framebuffers, the driver the two of its client layer, which change their roles with every
frame, also with one the kernel refuses.  `FramesFollow` says which of the two waits and which is shown, as
a function of the frames refused since the last one shown, and whose fence it is;
`KernelSteps` is what becomes of both when the older framebuffer is removed.  `AreBound`
says that a plane the kernel has from a display is bound to it (`mPipe`) and stands among its planes
where `FindPlaneAndApply` does not pass it over; planes are then apart, and a display that
shows something always finds a plane, so the case in which nothing is imported never
meets a shown framebuffer.  `CommitKeeps` is the step: set the mode, import, bind, commit, each of which may
fail.

**Only model-checked, for good.**  Liveness (`TxNextInterruptRecovers`,
`RxNextInterruptRecovers`, `InNextInterruptRecovers`, `RngReadsReturn`, `BlkReturns`,
`UartReaderWakes`, `GpuRefreshGoesOnWithoutEdid`, `InitComesToAnEnd`,
`EventsReachTheirCallback`): the prover has no rules for fairness, which is about ENABLED.
The intrinsics in `CskyInvariant` (CsiSimd) are products, shifts and remainders of powers of two,
and so is the clock arithmetic of CskyDrivers, beyond the provers' arithmetic.

**Only model-checked so far.**  `MmcInvariant` (bit fields of registers as sets, one concrete
computation for each capacity), `RvDriversInvariant`, the rest of `CskyInvariant`, and the
the other invariants of parts: `GrallocInvariant` and `LayersAndCamera`.  The layers'
order and the camera's scan for the I frame are written with `SelectSeq` and a search over
sequences, which the provers do not expand.

## 5. Not modelled

Nothing resets a device whose driver is released or whose initialisation fails, and
what a device does to memory given back to the allocator is not modelled.  The order
of single steps inside a release of `drivers/virtio` is not (a release is one step), so
neither is what an interrupt does between them (`virtnet.c:420`, `:515`, `virtgpu.c:570`,
`virtinput.c:395`, `virtblock.c:164`, `virtrng.c:250`); nor the life cycle of
the network device around virtio-net, the fake WLAN operations of `virtnet.c:521-802`
(constants), the framebuffer operations of `virtgpu.c`, or the data of frames, pixels
and random bytes.  The gpu commands and the refresh of `riscv32_virt` are line for line
those of `virtgpu.c`, so VirtGpu stands for both.  Of the UART, writing (the bytes go to the
kernel's `UartPutsReg`), the poll and the Get operations, which only read, and a second
reader are left out.

Gralloc: cache operations, the layer HAL (`display_layer.c`), the wrap of 32-bit sizes of
`InitBufferHandle`, a format that is not known (section 6), and the reuse of a region after a failed `MmzMap`; counting and mapping a
page is one step.  Gbm: `DmaBufferSync`, a failing allocation of the manager, the wrap of
sizes.  Composer: back light, power, capabilities, geometry.  Camera: `rk_face`, which passes
frames on, sensors' tables, the codecs, and a JPEG rotation the library calls not
"perfect".  Flash: the partition tables; refused calls, which change nothing.  Of the
boards: PLIC and UART of `riscv32_virt` (one register write each), start-up, littlefs
hooks, `core_802.h` (the core's control, mostly uncalled), the identity and reset checks of
`lan9118_init`, pin tables.

Not at all: the fake SDIO controller (its operations return constants), the esp32 adapters,
`arm_virt`'s start-up and console (`amba_pl011.c`, whose reader, the kernel's shell, is not in
the repository), ALSA audio (parameter conversions towards a library).  Much of the rest of
the source is headers of register constants.

## 6. Where code and comments disagree

Four have a run that TLC refutes:

* **net_lost**: `VirtnetRxHandle` rechecks the used ring after it enables interrupts,
  "if new one come in between empty ring and enable interrupt" (`virtnet.c:294`), but
  `VirtnetIRQhandle` acknowledges the interrupt after that (`:355`).  A frame that
  arrives between recheck and acknowledgement sets the status bit, the acknowledgement
  clears it, and the frame stays until another interrupt.  Acknowledging first
  would close the window.  `RxNextInterruptRecovers` says what remains true.
* **gpu_freeze**: seven initialisation commands make `avail->index` odd.  A transfer
  then moves it from 65535 to 0 while `used->index` is 65535; the `abs()` of
  `virtgpu.c:252` is 65535, the flush that would have notified the device is refused
  as if the queue were full, and no later request gets through.
* **mmc_64k**: `Feature0` accepts a block size of 64K (`virtblock.c:99`), whose
  logarithm 16 does not fit READ_BL_LEN and spills into CCC, against "bits must be
  zeroed and set only once" (`:277`).
* **lan_aligned**: for a frame whose length is a multiple of four
  `lan9118_send_by_chunks` declares a start offset of 4 (`lan9118_eth_drv.c:982`), and
  `fill_tx_fifo` writes that word only if there is a remainder (`:383`): the chip takes the
  next frame's commands for data, against "Sends data from the given buffer as an
  Ethernet packet" (`lan9118_eth_drv.h:433`).

More was met while modelling and has no run.

*virtio.*  `VirtnetTxHandle` leaves the recheck out on purpose (`virtnet.c:330`), so a
completed NetBuf may stay with the driver until the next interrupt.  `virtinput.c:378` writes
QueueNotify before DRIVER_OK, while the comment one line on says "now virt queue can be used".
`VirtnetDeInit` never destroys the spin lock of `virtnet.c:150`, nor do blk and rng their
events; random operations stay registered when `/dev/urandom` fails (`virtrng.c:250`) and
find no device; `/dev/fb0` stays when the GPU is released (`virtgpu.c:571`) and shows memory
that was given back.  Input and gpu test fields of memory they have not cleared
(`virtinput.c:301`, `virtgpu.c:491`).

*UART.*  An Init whose allocation fails leaves the state at OPENING (`uart.c:215`), the
next one takes the port for open, and a blocking read goes through the null `rxTransfer`;
the last Deinit deletes the poll queue (`:262`) before the interrupt that notifies it is off
(`:265`); an event left by `UART_MODE_RD_NONBLOCK` lets one later blocking read return no
bytes.  `UartFaults` says that nothing else leads to a fault.

*gralloc.*  `AllocMem` refuses a size of 0 or above `MAX_MALLOC_SIZE` with DISPLAY_SUCCESS
and a handle without memory (`display_gralloc.c:283`); for a format that is not known it
frees a pointer nothing has written (`:279` jumps over its initialiser).  It refuses HBM_USE_MEM_MMZ_CACHE, and accepts DMA where `AllocMmz` does
not; the results of `SendCmd` are ignored, so an allocation may succeed with a null address;
a failed `MmzMap` leaves the address of a freed region; both sides remove a segment; the key
counter is unlocked.  In the DRM gralloc `referCount` is off by one, so the device is not
closed after the last user; a constructor that failed decrements it as well; `GbmMmap`
keeps MAP_FAILED, after which a handle can never be mapped; failed creation and
destruction leak; `DmaBufferSync` tests its result the wrong way round.

*riscv32_virt.*  `VirtmmioRegisterIRQ` writes its parameter without a test of its memory
(`virtmmio.c:201`) and never sets the flag that virtnet's DeInit tests;
`free(vq[0].desc)` frees an aligned-up address; a late failure of `HdfVirtinInit` frees what
`device->priv` still names; CloseLayer frees the driver's framebuffer (`display_layer.c:145`);
`GetLayerBuffer` twice leaks; `fb_register` may return 0 with a freed entry; `getplaneinfo`
returns a pointer to a local (`fb.c:319`); `fb_init` is void and compared in `main.c:135`.
The flash query runs without the lock its writes take; a failed query leaves the chip in
query mode; program errors are cleared unseen; an erasure at offset == capacity is let through.

*arm_mps2_an386, arm_mps3_an547.*  The busy test of `lan9118_eth_drv.c:510` looks at the wrong
bit; the soft reset waits on a constant (`:637`); `EthernetifInit` returns false, which is
ERR_OK, on failure; `Lan9118LinkOut` ignores the send's result and uses `tot_len` with the
first pbuf's payload; the room test forgets the commands (`:965`).  On the console a byte that
comes before `irq_rx_enable` blocks the input; `UartPutc` drops characters while TX_BF is set.

*SmartL_E802.*  `csi_timer_resume` (`dw_timer.c:325`) clears TxControl and never restarts the
timer; `ck_usart` arms a transfer field by field with the interrupt live; the changes of
registers by read and write lose the handler's; two tasks that write pins of one port share
its `value` and `mask` (`dw_gpio.c:122`, `:80`), and one may write the other's.  `__USAD8` (`csi_gcc.h:1774`) has no absolute
value although the remark above says so; `__USAT16` (`:1522`) saturates negatives to the
maximum; `__SMLALD` and `__SMLALDX` overflow in a 32-bit sum; `csi_dcache_*_range` misses the
last line of an unaligned range (`core_802.h:1142`).

*Composer.*  A uevent names no connector, one flag enables vsync for all displays, a
negative code is taken for true (`drm_connector.cpp:315`), `DestroyLayer` erases all layers of
equal z, and `mCompLayers` may point to a destroyed one; refused commits age out the
framebuffer on the screen.

*Camera.*  `mppStatus_` is reset only if there is an encoder; any stream's stop deletes the
shared one, and a late frame makes another that nobody deletes; a second video stream gets
an encoder of the first one's size; `gpsInfo_` is never cleared, so the first location is
kept for ever; EXIF is written to `virAddr` while the JPEG is in the surface; the results of
the scaler and the encoder are ignored.

## 7. Plan

1. Proofs: the second ports of virtio-net and virtio-input (`RvDriversInvariant`), the gralloc
   modules (`ShmInvariant`, `MmzInvariant`, `GbmInvariant`), the timer and the pins.
2. Steps of a release with the interrupt still live (`virtinput.c:395`: the work queue
   is destroyed before the interrupt that fills it), network-device life cycle.
3. **Uart** with several readers, of which one clears the event another waits for
   (`uart.c:47`) and both move `rp`.
4. The layer HAL, the fake SDIO controller, audio, the console of `arm_virt`.

Small components that share nothing join a sum module like MCParts, so that one
run asks the same question of several.
