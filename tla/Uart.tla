-------------------------------- MODULE Uart --------------------------------
(***************************************************************************)
(* The HDF driver of the PL011 serial port (drivers/uart).  The interrupt  *)
(* moves bytes from the FIFO of the port into a ring, a task reads them    *)
(* from there and, in blocking mode, sleeps on an event while there are    *)
(* none.  The port is opened and closed by several clients, counted.       *)
(*                                                                         *)
(* Actors: the clients, one of which reads, the interrupt handler, which   *)
(* preempts them all on the one core, and the port.                        *)
(***************************************************************************)
EXTENDS Integers, Sequences, FiniteSets

CONSTANTS
  Clients,      \* those that open the port
  Reader,       \* the one that reads
  Bytes,        \* what may arrive
  BUF_SIZE,     \* of the ring
  FIFO_SIZE,    \* of the port's FIFO and of the handler's buffer
  CONSOLE       \* udd->num = CONSOLE_UART: magic keys are looked for

ASSUME UartAssumption ==
  /\ Reader \in Clients /\ IsFiniteSet(Clients)
  /\ Bytes # {}
  /\ BUF_SIZE \in Nat /\ BUF_SIZE >= 2
  /\ FIFO_SIZE \in Nat \ {0}
  /\ CONSOLE \in BOOLEAN

VARIABLES
  ustate,       \* udd->state
  ucount,       \* udd->count
  opened,       \* clients that have opened the port and not closed it
  transfer,     \* udd->rxTransfer is not NULL
  closing,      \* the last Deinit is under way: poll_queue and stEvent are gone
  ring,         \* udd->rxTransfer: rp, wp, data
  blocking,     \* udd->flags & UART_FLG_RD_BLOCK
  uevent,       \* the bit of udd->wait.stEvent
  reader,       \* Hi35xxRead: pc, size, rp and wp as read, the caller's buffer
  taken,        \* what the read returned, until the next one
  irqOn,        \* PL011_FLG_IRQ_REQUESTED, and the interrupt unmasked
  uirq,         \* Pl011Irq: pc, and the bytes in buf[]
  port          \* FIFO, and the masked interrupt status

clientVars == <<ustate, ucount, opened, transfer, closing, blocking, irqOn>>
uartVars == <<clientVars, ring, uevent, reader, taken, uirq, port>>

Slots == 0 .. BUF_SIZE - 1
NoByte == CHOOSE b \in Bytes : TRUE
NoRead == [pc |-> "idle", size |-> 1, rp |-> 0, wp |-> 0, buf |-> <<>>]
EmptyRing == [rp |-> 0, wp |-> 0, data |-> [i \in Slots |-> NoByte]]

UartTypeOK ==
  /\ ustate \in {"NOT_OPENED", "OPENING", "USEABLE"}
  /\ ucount \in 0 .. Cardinality(Clients)
  /\ opened \subseteq Clients
  /\ {transfer, closing, blocking, uevent, irqOn} \subseteq BOOLEAN
  /\ ring \in [rp : Slots, wp : Slots, data : [Slots -> Bytes]]
  /\ reader \in [pc : {"idle", "wait", "fetch", "copy", "advance", "check", "clear", "fault"},
                 size : 1 .. BUF_SIZE, rp : Slots, wp : Slots, buf : Seq(Bytes)]
  /\ taken \in Seq(Bytes)
  /\ uirq \in [pc : {"idle", "loop", "recv", "clear", "fault"}, buf : Seq(Bytes)]
  /\ port \in [fifo : Seq(Bytes), mis : BOOLEAN]
  /\ Len(uirq.buf) <= FIFO_SIZE /\ Len(port.fifo) <= FIFO_SIZE

(* Hi35xxAttach; the mode is what the configuration says *)
UartInit ==
  /\ ustate = "NOT_OPENED"
  /\ ucount = 0
  /\ opened = {}
  /\ transfer = FALSE
  /\ closing = FALSE
  /\ ring = EmptyRing
  /\ blocking \in BOOLEAN
  /\ uevent = FALSE
  /\ reader = NoRead
  /\ taken = <<>>
  /\ irqOn = FALSE
  /\ uirq = [pc |-> "idle", buf |-> <<>>]
  /\ port = [fifo |-> <<>>, mis |-> FALSE]

-----------------------------------------------------------------------------
(* Opening and closing.  external: the HDF core lets no two of these calls  *)
(* overlap, and a client closes what it has opened, and has read.           *)

ClientStep == uirq.pc = "idle" /\ reader.pc # "fault"
Opening(c) == ClientStep /\ c \notin opened /\ ~ closing
Opened(c) == ClientStep /\ c \in opened /\ (c = Reader => reader.pc = "idle")

(* Hi35xxInit and Pl011StartUp of a port that nobody has open.  There may   *)
(* be no interrupt to be had, which StartUp takes for success.              *)
FirstOpen ==
  /\ ustate = "NOT_OPENED"
  /\ ustate' = "USEABLE"
  /\ transfer' = TRUE
  /\ ring' = EmptyRing
  /\ irqOn' \in BOOLEAN
  /\ port' = [fifo |-> <<>>, mis |-> FALSE]
  /\ uevent' = FALSE

(* any other state is taken for an open port *)
OpenAgain ==
  /\ ustate # "NOT_OPENED"
  /\ ustate' = "USEABLE"
  /\ UNCHANGED <<transfer, ring, irqOn, port, uevent>>

Open(c) ==
  /\ Opening(c)
  /\ FirstOpen \/ OpenAgain
  /\ ucount' = ucount + 1
  /\ opened' = opened \cup {c}
  /\ UNCHANGED <<closing, blocking, reader, taken, uirq>>

(* "alloc transfer failed": the state stays what it has become *)
OpenFails(c) ==
  /\ Opening(c)
  /\ ustate = "NOT_OPENED"
  /\ ustate' = "OPENING"
  /\ uevent' = FALSE
  /\ UNCHANGED <<ucount, opened, transfer, closing, blocking, irqOn>>
  /\ UNCHANGED <<ring, reader, taken, uirq, port>>

(* Hi35xxDeinit: all but the last leave the port alone *)
BugLastClose == TRUE
LastClose == ucount = 1

Close(c) ==
  /\ Opened(c)
  /\ opened' = opened \ {c}
  /\ ucount' = ucount - 1
  /\ closing' = LastClose
  /\ UNCHANGED <<ustate, transfer, irqOn, blocking, ring, uevent, reader, taken, uirq, port>>

(* The rest of the last one, Pl011ShutDown first: until then the interrupt   *)
(* is on, though the queue it notifies is gone.                              *)
ShutDown ==
  /\ ClientStep
  /\ closing
  /\ closing' = FALSE
  /\ ustate' = "NOT_OPENED"
  /\ transfer' = FALSE
  /\ irqOn' = FALSE
  /\ port' = [fifo |-> <<>>, mis |-> FALSE]
  /\ UNCHANGED <<ucount, opened, blocking, ring, uevent, reader, taken, uirq>>

(* Hi35xxSetTransMode: a reader that waits is let go *)
Releases(block) == uevent \/ ~ block

SetTransMode(c, block) ==
  /\ Opened(c)
  /\ blocking' = block
  /\ uevent' = Releases(block)
  /\ UNCHANGED <<ustate, ucount, opened, transfer, closing, irqOn>>
  /\ UNCHANGED <<ring, reader, taken, uirq, port>>

(* Hi35xxSetBaud, Hi35xxSetAttribute: Pl011ConfigIn turns the FIFO off and   *)
(* on, which empties it                                                     *)
Config(c) ==
  /\ Opened(c)
  /\ port' = [port EXCEPT !.fifo = <<>>]
  /\ UNCHANGED <<clientVars, ring, uevent, reader, taken, uirq>>

-----------------------------------------------------------------------------
(* Hi35xxRead and Pl011Read                                                *)

RxBufEmpty == ring.wp = ring.rp

Reads(from, to) ==
  /\ ClientStep
  /\ reader.pc = from
  /\ reader' = [reader EXCEPT !.pc = to]

MustWait == blocking /\ RxBufEmpty

(* the test of the ring is there in blocking mode only, and goes through     *)
(* rxTransfer                                                               *)
ReadStart(n) ==
  /\ Opened(Reader)
  /\ reader' = [NoRead EXCEPT !.size = n,
                  !.pc = IF blocking /\ ~ transfer THEN "fault"
                         ELSE IF MustWait THEN "wait" ELSE "fetch"]
  /\ taken' = <<>>
  /\ UNCHANGED <<clientVars, ring, uevent, uirq, port>>

(* LOS_EventRead leaves the bit as it is *)
ReadWait ==
  /\ Reads("wait", "fetch")
  /\ uevent
  /\ UNCHANGED <<clientVars, ring, uevent, taken, uirq, port>>

(* Pl011Read reads both indices; without a ring it returns an error *)
ReadFetch ==
  /\ ClientStep
  /\ reader.pc = "fetch"
  /\ reader' = IF transfer
               THEN [reader EXCEPT !.rp = ring.rp, !.wp = ring.wp, !.pc = "copy"]
               ELSE [NoRead EXCEPT !.pc = "check"]
  /\ UNCHANGED <<clientVars, ring, uevent, taken, uirq, port>>

Least(m, n) == IF m < n THEN m ELSE n

(* how much of it is there: rp behind, or wp behind; what lies behind the   *)
(* end of the array is the lower half                                       *)
ReadCount ==
  IF reader.rp <= reader.wp THEN Least(reader.size, reader.wp - reader.rp)
  ELSE Least(reader.size, BUF_SIZE - reader.rp + reader.wp)
UpperHalf == Least(ReadCount, BUF_SIZE - reader.rp)
LowerHalf == ReadCount - UpperHalf

ReadCopy ==
  /\ ClientStep
  /\ reader.pc = "copy"
  /\ reader' = [reader EXCEPT
       !.pc = "advance",
       !.buf = [k \in 1 .. ReadCount |->
                  IF k <= UpperHalf THEN ring.data[reader.rp + k - 1]
                  ELSE ring.data[k - UpperHalf - 1]]]
  /\ UNCHANGED <<clientVars, ring, uevent, taken, uirq, port>>

NextRp == IF reader.rp + UpperHalf >= BUF_SIZE THEN LowerHalf ELSE reader.rp + UpperHalf

ReadAdvance ==
  /\ ClientStep
  /\ reader.pc = "advance"
  /\ reader' = [NoRead EXCEPT !.pc = "check"]
  /\ ring' = [ring EXCEPT !.rp = NextRp]
  /\ taken' = reader.buf
  /\ UNCHANGED <<clientVars, uevent, uirq, port>>

ReadCheck ==
  /\ ClientStep
  /\ reader.pc = "check"
  /\ reader' = [reader EXCEPT !.pc = IF blocking /\ ~ transfer THEN "fault"
                                     ELSE IF blocking /\ RxBufEmpty THEN "clear"
                                     ELSE "idle"]
  /\ UNCHANGED <<clientVars, ring, uevent, taken, uirq, port>>

(* LOS_EventClear, however much has arrived since the test *)
ReadClear ==
  /\ Reads("clear", "idle")
  /\ uevent' = FALSE
  /\ UNCHANGED <<clientVars, ring, taken, uirq, port>>

Read == ReadWait \/ ReadFetch \/ ReadCopy \/ ReadAdvance \/ ReadCheck \/ ReadClear

-----------------------------------------------------------------------------
(* Pl011Irq and PL011UartRecvNotify                                        *)

irqOthers == <<clientVars, reader, taken>>

UartIrqEnter ==
  /\ uirq.pc = "idle"
  /\ irqOn /\ port.mis
  /\ uirq' = [pc |-> "loop", buf |-> <<>>]
  /\ UNCHANGED <<irqOthers, ring, uevent, port>>

(* One turn of the loop.  A magic key on the console ends the interrupt,    *)
(* and what came with it is lost.                                           *)
IrqByte ==
  LET buf == Append(uirq.buf, Head(port.fifo)) IN
  /\ uirq.pc = "loop"
  /\ port.fifo # <<>>
  /\ port' = [port EXCEPT !.fifo = Tail(@)]
  /\ \/ uirq' = [pc |-> IF Len(buf) < FIFO_SIZE THEN "loop" ELSE "recv", buf |-> buf]
     \/ CONSOLE /\ uirq' = [pc |-> "clear", buf |-> <<>>]
  /\ UNCHANGED <<irqOthers, ring, uevent>>

BugIrqEmpty == uirq.pc = "loop" /\ port.fifo = <<>> /\ UNCHANGED uartVars
IrqEmpty ==
  /\ uirq.pc = "loop"
  /\ port.fifo = <<>>
  /\ uirq' = [uirq EXCEPT !.pc = "recv"]
  /\ UNCHANGED <<irqOthers, ring, uevent, port>>

(* one place stays free; it tells a full ring from an empty one *)
BugRoom == IF ring.wp < ring.rp THEN ring.rp - ring.wp ELSE BUF_SIZE - ring.wp + ring.rp
Room == IF ring.wp < ring.rp THEN ring.rp - ring.wp - 1
        ELSE BUF_SIZE - ring.wp + ring.rp - 1

(* what does not fit is refused *)
Stored(buf) ==
  LET count == Least(Len(buf), Room)
      upper == Least(count, BUF_SIZE - ring.wp)
      lower == count - upper
  IN [rp |-> ring.rp,
      wp |-> IF ring.wp + upper >= BUF_SIZE THEN lower ELSE ring.wp + upper,
      data |-> [i \in Slots |-> IF i >= ring.wp /\ i < ring.wp + upper THEN buf[i - ring.wp + 1]
                                ELSE IF i < lower THEN buf[upper + i + 1]
                                ELSE ring.data[i]]]

(* udd->recv: nothing for no bytes or no ring; otherwise the ring, the event *)
(* and then the index, all before a task runs again.  external: there is no  *)
(* way through a poll queue that has been deleted.                          *)
IrqRecv ==
  /\ uirq.pc = "recv"
  /\ LET stored == uirq.buf # <<>> /\ transfer IN
     /\ uirq' = [pc |-> IF stored /\ closing THEN "fault" ELSE "clear", buf |-> <<>>]
     /\ IF stored /\ ~ closing
        THEN ring' = Stored(uirq.buf) /\ uevent' = TRUE
        ELSE UNCHANGED <<ring, uevent>>
  /\ UNCHANGED <<irqOthers, port>>

(* "clear all interrupt" *)
IrqClear ==
  /\ uirq.pc = "clear"
  /\ uirq' = [uirq EXCEPT !.pc = "idle"]
  /\ port' = [port EXCEPT !.mis = FALSE]
  /\ UNCHANGED <<irqOthers, ring, uevent>>

UartIrq == UartIrqEnter \/ IrqByte \/ IrqEmpty \/ IrqRecv \/ IrqClear

-----------------------------------------------------------------------------
(* external: the port, once it has been started up.  Bytes that stay in the  *)
(* FIFO raise an interrupt, by their number or, after a time, by the receive *)
(* timeout.                                                                 *)

portOthers == <<clientVars, ring, uevent, reader, taken, uirq>>

PortByte(b) ==
  /\ transfer
  /\ Len(port.fifo) < FIFO_SIZE
  /\ port' = [port EXCEPT !.fifo = Append(@, b)]
  /\ UNCHANGED portOthers

PortRaise ==
  /\ port.fifo # <<>>
  /\ port' = [port EXCEPT !.mis = TRUE]
  /\ UNCHANGED portOthers

-----------------------------------------------------------------------------
UartNext ==
  \/ \E c \in Clients : Open(c) \/ OpenFails(c) \/ Close(c) \/ Config(c)
  \/ ShutDown
  \/ \E c \in Clients, block \in BOOLEAN : SetTransMode(c, block)
  \/ \E n \in 1 .. BUF_SIZE : ReadStart(n)
  \/ Read
  \/ UartIrq
  \/ \E b \in Bytes : PortByte(b)
  \/ PortRaise

UartSpec == UartInit /\ [][UartNext]_uartVars

(* An interrupt is handled to its end, and the reader gets the core again    *)
(* after it.                                                                *)
UartFairSpec == UartSpec /\ SF_uartVars(Read) /\ WF_uartVars(UartIrq)

-----------------------------------------------------------------------------
(* The count is the number of clients, and what the interrupt needs is      *)
(* there exactly while there are any: a client that leaves does not take    *)
(* the port away from another, and the last one leaves nothing registered.  *)
UartOpenedByCount ==
  /\ ucount = Cardinality(opened)
  /\ opened # {} => ustate = "USEABLE"
  /\ closing => opened = {}
  /\ opened = {} /\ ~ closing => ~ transfer /\ ~ irqOn
  /\ irqOn => transfer

(* A reader that sleeps although the ring holds bytes has been woken, and    *)
(* so has one that need not wait any more: ReadClear, which may drop the     *)
(* event of bytes that have just arrived, is never followed by a sleep on    *)
(* them.                                                                    *)
UartNoLostWakeup ==
  reader.pc = "wait" /\ (~ RxBufEmpty \/ ~ blocking) => uevent

(* Two things stop the port for good: a blocking read of a port that was     *)
(* opened again after an Init that failed, and bytes that arrive between    *)
(* the two halves of the last Deinit.                                       *)
UartFaults ==
  /\ reader.pc = "fault" => ~ transfer /\ ~ irqOn
  /\ uirq.pc = "fault" => closing

(* What holds of the port however opening, reading, the modes and the        *)
(* interrupt interleave: the three parts above.                             *)
UartInvariant ==
  UartTypeOK /\ UartOpenedByCount /\ UartNoLostWakeup /\ UartFaults

(* A blocked reader returns once there are bytes for it or the mode has      *)
(* changed, however often it is interrupted.                                *)
UartReaderWakes ==
  (reader.pc = "wait" /\ (~ RxBufEmpty \/ ~ blocking)) ~> reader.pc # "wait"

-----------------------------------------------------------------------------
(* The promise to the reader: the ring is the stream of ByteStream, and a    *)
(* read takes its bytes off the front of it, whatever the interrupt adds     *)
(* behind while the read is under way.                                      *)
Length == (ring.wp - ring.rp + BUF_SIZE) % BUF_SIZE
Contents == [k \in 1 .. Length |-> ring.data[(ring.rp + k - 1) % BUF_SIZE]]

Stream == INSTANCE ByteStream WITH
  CAP <- BUF_SIZE - 1,
  stream <- IF ~ transfer THEN <<>> ELSE Contents

(* The driver's reads and interrupts are steps of ByteStream: no byte that   *)
(* was accepted is lost, repeated or out of order (Pl011Read against         *)
(* PL011UartRecvNotify, around the end of the ring).                        *)
ImplementsByteStream == Stream!Spec

(* What makes UartInvariant inductive and a read a step of ByteStream: a     *)
(* read is the only one to move rp, so that what it fetched is still the     *)
(* front of the ring when it moves it.                                      *)
UartReading ==
  /\ reader.pc # "idle" => Reader \in opened
  /\ reader.pc \in {"copy", "advance"} =>
       transfer /\ reader.rp = ring.rp /\ ReadCount <= Length
  /\ reader.pc = "advance" => reader.buf = SubSeq(Contents, 1, ReadCount)

UartInductive ==
  UartInvariant /\ UartReading /\ (uirq.pc = "loop" => Len(uirq.buf) < FIFO_SIZE)
=============================================================================
