----------------------------- MODULE CskyDrivers -----------------------------
(***************************************************************************)
(* The UART, the timer and the GPIO driver of the SmartL_E802 board        *)
(* (csky_driver/src/ck_usart.c, dw_timer.c, dw_gpio.c), which share        *)
(* nothing.                                                                *)
(*                                                                         *)
(* UART: one task that calls the driver and the interrupt handler, which   *)
(* runs between any two of its accesses (one core, nothing masks it).  The *)
(* data are counted, the registers kept as the sets of the bits that       *)
(* matter.                                                                 *)
(*                                                                         *)
(* Timer: one task that calls the driver and the interrupt handler, whose  *)
(* callback may stop the timer.  Every change of TxControl is a read       *)
(* followed by a write.  Words are of MAX, a microsecond is UNIT of the    *)
(* frequency.                                                              *)
(*                                                                         *)
(* GPIO: all ports of the board share one block of registers and count no  *)
(* pins of their own (sg_gpio_config in devices.c), so the pins are those  *)
(* of one port, in five registers of one bit per pin.  Tasks change them by *)
(* a read and a write; the interrupt handler runs to its end between two   *)
(* such steps, while the signals go on changing.                           *)
(***************************************************************************)
EXTENDS Integers, Sequences

CONSTANTS
  Lengths,    \* lengths of the transfers asked for
  FIFO,       \* bytes the receive FIFO holds
  SYS_FREQ,       \* drv_get_sys_freq
  Bauds,      \* baud rates asked for
  MaxCalls,   \* bound: calls of a behaviour
  Formats,    \* line formats asked for: records of parity, stop and bits
  NULL

VARIABLES
  ch,      \* the fields tx_* and rx_* of ck_usart_priv_t; buf is an offset
  ier,     \* the interrupts enabled: "rda", "thre", "line"
  lcr,     \* the bits set in the line control register
  dl,      \* the divisor latch; -1 for anything else than a divisor asked for
  fifo,    \* bytes in the receive FIFO
  thr,     \* the holding register is full
  lineErr, \* a line status interrupt is pending
  irqOn,   \* the interrupt controller lets the UART's interrupt through
  cb,      \* a callback is registered
  call,    \* the call the task is in
  calls,   \* how many calls it has made
  cap,     \* the length last asked for in each direction
  raced,   \* a byte moved while the call that arms its direction was under way
  cut,     \* something else than its end switched off the sending interrupt
  latched  \* the handler ran while the divisor latch was in the way

usartVars ==
  <<ch, ier, lcr, dl, fifo, thr, lineErr, irqOn, cb, call, calls, cap, raced, cut, latched>>

Dirs == {"tx", "rx"}
Rest == [op |-> "none"]
Quiet == [buf |-> NULL, total |-> 0, cnt |-> 0, busy |-> FALSE, last |-> 0]
DLAB == 7

(* the task makes a call when it is in none *)
Enter == call.op = "none" /\ calls < MaxCalls /\ calls' = calls + 1

(* after the first csi_usart_initialize, the line as the reset leaves it *)
UsartInit ==
  /\ ch = [x \in Dirs |-> Quiet]
  /\ ier = {"rda", "line"}
  /\ lcr = {}
  /\ dl = -1
  /\ fifo = 0
  /\ thr = FALSE
  /\ lineErr = FALSE
  /\ irqOn = TRUE
  /\ cb \in BOOLEAN
  /\ call = Rest
  /\ calls = 0
  /\ cap = [x \in Dirs |-> 0]
  /\ raced = [x \in Dirs |-> FALSE]
  /\ cut = FALSE
  /\ latched = FALSE

----------------------------------------------------------------------------
(* the registers that share their address with the divisor latch *)
WriteIer(s) == IF DLAB \in lcr THEN UNCHANGED ier ELSE ier' = s
Pop(n) == fifo' = IF DLAB \in lcr THEN fifo ELSE fifo - n

(* the byte is moved, and the last one ends the transfer; a send ends with an
   interrupt of its own, which finds nothing left *)
Moved(c) == [c EXCEPT !.cnt = @ + 1, !.buf = @ + 1]
Ended(c) == [Quiet EXCEPT !.last = c.total]
BugReceived(c) == LET m == Moved(c) IN IF m.cnt > m.total THEN Ended(m) ELSE m
Received(c) == LET m == Moved(c) IN IF m.cnt >= m.total THEN Ended(m) ELSE m

Arming(x) == call.op = "arm" /\ call.dir = x

ck_usart_intr_threshold_empty ==
  IF ch["tx"].cnt >= ch["tx"].total
  THEN /\ ch' = [ch EXCEPT !["tx"] = Ended(@)]
       /\ WriteIer(ier \ {"thre"})
       /\ UNCHANGED <<thr, dl>>
  ELSE /\ ch' = [ch EXCEPT !["tx"] = Moved(@)]
       /\ IF DLAB \in lcr THEN dl' = -1 /\ UNCHANGED thr    \* THR is DLL
          ELSE thr' = TRUE /\ UNCHANGED dl
       /\ UNCHANGED ier

(* csi_usart_irqhandler; it waits until the transmitter is idle before it
   puts the next byte *)
IrqThre ==
  /\ irqOn /\ "thre" \in ier /\ ~thr
  /\ ch["tx"].total # 0
  /\ ck_usart_intr_threshold_empty
  /\ raced' = [raced EXCEPT !["tx"] = @ \/ Arming("tx")]
  /\ latched' = (latched \/ DLAB \in lcr)
  /\ cut' = (cut /\ ch'["tx"].busy)
  /\ UNCHANGED <<calls, lcr, fifo, lineErr, irqOn, cb, call, cap>>

(* both kinds of receive interrupt: into the armed buffer, to the callback,
   which may read what is there, or away *)
ck_usart_intr_char_timeout ==
  /\ irqOn /\ "rda" \in ier /\ fifo > 0
  /\ IF ch["rx"].total # 0 /\ ch["rx"].buf # NULL
     THEN /\ ch' = [ch EXCEPT !["rx"] = Received(@)]
          /\ raced' = [raced EXCEPT !["rx"] = @ \/ Arming("rx")]
          /\ Pop(1)
     ELSE /\ \E n \in (IF cb THEN 0 ELSE fifo) .. fifo : Pop(n)
          /\ UNCHANGED <<ch, raced>>
  /\ latched' = (latched \/ DLAB \in lcr)
  /\ UNCHANGED <<calls, ier, lcr, dl, thr, lineErr, irqOn, cb, call, cap, cut>>

(* a line error throws the FIFO away and switches the sending interrupt off *)
ck_usart_intr_recv_line ==
  /\ irqOn /\ "line" \in ier /\ lineErr
  /\ lineErr' = FALSE
  /\ WriteIer(ier \ {"thre"})
  /\ dl' = IF DLAB \in lcr THEN -1 ELSE dl                  \* IER is DLH
  /\ Pop(fifo)
  /\ cut' = (cut \/ ch["tx"].busy)
  /\ latched' = (latched \/ DLAB \in lcr)
  /\ UNCHANGED <<calls, ch, lcr, thr, irqOn, cb, call, cap, raced>>

ck_usart_irqhandler == IrqThre \/ ck_usart_intr_char_timeout \/ ck_usart_intr_recv_line

(* the line: bytes arrive, some of them broken, and leave *)
Line ==
  /\ \/ fifo < FIFO /\ fifo' = fifo + 1 /\ UNCHANGED <<thr, lineErr>>
     \/ ~lineErr /\ lineErr' = TRUE /\ UNCHANGED <<fifo, thr>>
     \/ thr /\ thr' = FALSE /\ UNCHANGED <<fifo, lineErr>>
  /\ UNCHANGED <<calls, ch, ier, lcr, dl, irqOn, cb, call, cap, raced, cut, latched>>

----------------------------------------------------------------------------
(* csi_usart_send and csi_usart_receive write the fields one after another;
   callers start a send when the one before is over, a receive also when it was
   given up, which leaves it busy *)
FieldOrder == <<"buf", "total", "cnt", "busy", "last">>
Armed(n) == [Quiet EXCEPT !.buf = 0, !.total = n, !.busy = TRUE]

Arm(x, n) ==
  /\ Enter
  /\ ch[x].busy => x = "rx" /\ ch[x].cnt >= ch[x].total
  /\ call' = [op |-> "arm", dir |-> x, num |-> n, field |-> 1]
  /\ cap' = [cap EXCEPT ![x] = n]
  /\ raced' = [raced EXCEPT ![x] = FALSE]
  /\ cut' = (cut /\ x # "tx")
  /\ UNCHANGED <<ch, ier, lcr, dl, fifo, thr, lineErr, irqOn, cb, latched>>

SetField ==
  /\ call.op = "arm"
  /\ LET f == FieldOrder[call.field]
     IN ch' = [ch EXCEPT ![call.dir] = [@ EXCEPT ![f] = Armed(call.num)[f]]]
  /\ call' = IF call.field < Len(FieldOrder) THEN [call EXCEPT !.field = @ + 1]
             ELSE IF call.dir = "rx" THEN Rest ELSE [op |-> "first"]
  /\ UNCHANGED <<calls, ier, lcr, dl, fifo, thr, lineErr, irqOn, cb, cap, raced, cut, latched>>

(* the sender puts the first byte itself, then lets the interrupt go on *)
SendFirst ==
  /\ call.op = "first" /\ ~thr
  /\ IF ch["tx"].total = 0 THEN UNCHANGED <<ch, ier, thr, dl>> ELSE ck_usart_intr_threshold_empty
  /\ call' = [op |-> "ier", add |-> {"thre"}, sub |-> {}, then |-> "none"]
  /\ UNCHANGED <<calls, lcr, fifo, lineErr, irqOn, cb, cap, raced, cut, latched>>

(* IER is read, changed and written back *)
ChangeIer ==
  \/ /\ call.op = "ier"
     /\ call' = [op |-> "write", ier |-> (ier \cup call.add) \ call.sub, then |-> call.then]
     /\ UNCHANGED ier
  \/ /\ call.op = "write"
     /\ ier' = call.ier
     /\ call' = [op |-> call.then]

ChangeIerStep ==
  /\ ChangeIer
  /\ UNCHANGED <<calls, ch, lcr, dl, fifo, thr, lineErr, irqOn, cb, cap, raced, cut, latched>>

csi_usart_set_interrupt(i, flag) ==
  /\ Enter
  /\ call' = [op |-> "ier", add |-> IF flag THEN {i} ELSE {}, sub |-> IF flag THEN {} ELSE {i},
              then |-> "none"]
  /\ cut' = (cut \/ (i = "thre" /\ ~flag /\ ch["tx"].busy))
  /\ UNCHANGED <<ch, ier, lcr, dl, fifo, thr, lineErr, irqOn, cb, cap, raced, latched>>

csi_usart_abort_send ==
  /\ Enter
  /\ call' = [op |-> "ier", add |-> {}, sub |-> {"thre"}, then |-> "abort"]
  /\ UNCHANGED <<ch, ier, lcr, dl, fifo, thr, lineErr, irqOn, cb, cap, raced, cut, latched>>

(* with the interrupt off nobody else looks at the fields *)
AbortFields ==
  /\ call.op = "abort"
  /\ ch' = [ch EXCEPT !["tx"] = [Quiet EXCEPT !.last = ch["tx"].last]]
  /\ call' = Rest
  /\ cut' = FALSE
  /\ UNCHANGED <<calls, ier, lcr, dl, fifo, thr, lineErr, irqOn, cb, cap, raced, latched>>

csi_usart_abort_receive ==
  /\ Enter
  /\ ch' = [ch EXCEPT !["rx"].cnt = ch["rx"].total]
  /\ UNCHANGED <<ier, lcr, dl, fifo, thr, lineErr, irqOn, cb, call, cap, raced, cut, latched>>

(* polling: the byte is there, then it is read (csi_usart_getchar and
   csi_usart_receive_query); there is room, then it is put (csi_usart_putchar) *)
Poll ==
  /\ Enter
  /\ \/ fifo > 0 /\ call' = [op |-> "get"]
     \/ ~thr /\ ~ch["tx"].busy /\ call' = [op |-> "put"]
  /\ UNCHANGED <<ch, ier, lcr, dl, fifo, thr, lineErr, irqOn, cb, cap, raced, cut, latched>>

PollRead ==
  /\ call.op = "get"
  /\ fifo' = IF fifo > 0 THEN fifo - 1 ELSE 0
  /\ call' = Rest
  /\ UNCHANGED <<calls, ch, ier, lcr, dl, thr, lineErr, irqOn, cb, cap, raced, cut, latched>>

PollWrite ==
  /\ call.op = "put"
  /\ thr' = TRUE
  /\ call' = Rest
  /\ UNCHANGED <<calls, ch, ier, lcr, dl, fifo, lineErr, irqOn, cb, cap, raced, cut, latched>>

----------------------------------------------------------------------------
(* csi_usart_config: each part waits for the line to be idle and gives up
   when it stays busy, leaving the parts before it as they are *)
Divisor(baud) == LET tenths == ((SYS_FREQ * 10) \div baud) \div 16
                 IN IF tenths % 10 >= 5 THEN tenths \div 10 + 1 ELSE tenths \div 10

ParityBits(l, parity) ==
  CASE parity = "none" -> l \ {3}
    [] parity = "odd"  -> (l \cup {3}) \ {4}
    [] parity = "even" -> l \cup {3, 4}
StopBits(l, stop) == IF stop = 1 THEN l \ {2} ELSE l \cup {2}
DataBits(l, bits) ==
  CASE bits = 5 -> l \ {0, 1}
    [] bits = 6 -> (l \ {1}) \cup {0}
    [] bits = 7 -> (l \ {0}) \cup {1}
    [] bits = 8 -> l \cup {0, 1}

Config(baud, f) ==
  /\ Enter
  /\ call' = [op |-> "config", at |-> "baud", baud |-> baud, format |-> f]
  /\ UNCHANGED <<ch, ier, lcr, dl, fifo, thr, lineErr, irqOn, cb, cap, raced, cut, latched>>

To(at) == call' = [call EXCEPT !.at = at]

ConfigStep ==
  /\ call.op = "config"
  /\ \/ call.at = "baud" /\ ~thr /\ lcr' = lcr \cup {DLAB} /\ To("latch") /\ UNCHANGED dl
     \/ call.at = "latch" /\ dl' = Divisor(call.baud) /\ To("unlatch") /\ UNCHANGED lcr
     \/ call.at = "unlatch" /\ lcr' = lcr \ {DLAB} /\ To("parity") /\ UNCHANGED dl
     \/ /\ call.at = "parity" /\ ~thr /\ lcr' = ParityBits(lcr, call.format.parity)
        /\ To("stop") /\ UNCHANGED dl
     \/ /\ call.at = "stop" /\ ~thr /\ lcr' = StopBits(lcr, call.format.stop)
        /\ To("data") /\ UNCHANGED dl
     \/ /\ call.at = "data" /\ ~thr /\ lcr' = DataBits(lcr, call.format.bits)
        /\ To("done") /\ UNCHANGED dl
     \/ /\ call.at \in {"baud", "parity", "stop", "data"} /\ thr \* timeout
        /\ call' = Rest /\ UNCHANGED <<lcr, dl>>
     \/ call.at = "done" /\ call' = Rest /\ UNCHANGED <<lcr, dl>>
  /\ latched' = (latched /\ call'.op = "config")
  /\ UNCHANGED <<calls, ch, ier, fifo, thr, lineErr, irqOn, cb, cap, raced, cut>>

csi_usart_uninitialize ==
  /\ Enter /\ irqOn
  /\ irqOn' = FALSE
  /\ cb' = FALSE
  /\ UNCHANGED <<ch, ier, lcr, dl, fifo, thr, lineErr, call, cap, raced, cut, latched>>

(* the fields of a transfer that was under way stay as they were *)
csi_usart_initialize ==
  /\ Enter /\ ~irqOn
  /\ irqOn' = TRUE
  /\ cb' \in BOOLEAN
  /\ ier' = {"rda", "line"}
  /\ cut' = (cut \/ ch["tx"].busy)
  /\ UNCHANGED <<ch, lcr, dl, fifo, thr, lineErr, call, cap, raced, latched>>

UsartNext ==
  \/ ck_usart_irqhandler
  \/ Line
  \/ \E x \in Dirs, n \in Lengths : Arm(x, n)
  \/ SetField \/ SendFirst \/ ChangeIerStep
  \/ \E i \in {"rda", "thre"}, flag \in BOOLEAN : csi_usart_set_interrupt(i, flag)
  \/ csi_usart_abort_send \/ AbortFields \/ csi_usart_abort_receive
  \/ Poll \/ PollRead \/ PollWrite
  \/ \E b \in Bauds, f \in Formats : Config(b, f)
  \/ ConfigStep
  \/ csi_usart_uninitialize \/ csi_usart_initialize

----------------------------------------------------------------------------
(* A transfer stays within the caller's buffer, unless a byte moved while the
   call that armed it was between two of its fields; even then it goes past
   the end by no more than a buffer, and by less when it is written to.
   (csi_usart_receive, ck_usart.c:722) *)
WithinBuffer ==
  \A x \in Dirs : ch[x].buf # NULL /\ ch[x].total # 0 /\ ~Arming(x) =>
    LET end == IF ~raced[x] THEN cap[x] ELSE IF x = "tx" THEN 2 * cap[x] ELSE 2 * cap[x] - 1
    IN IF x = "tx" THEN ch[x].buf <= end ELSE ch[x].buf < end

(* Busy means that a buffer is under way, and what a transfer that is over
   reports is what was asked for.  (csi_usart_get_rx_count, ck_usart.c:983) *)
BusyAgrees ==
  \A x \in Dirs : ~Arming(x) /\ call.op # "first" /\ ~raced[x] =>
    /\ ch[x].busy <=> ch[x].buf # NULL
    /\ ~ch[x].busy => ch[x].last \in {0, cap[x]}

(* A send goes on to its end: its interrupt stays enabled, whatever else the
   task does with IER, until a line error, a new initialisation or the caller
   takes it away.  (ck_usart_intr_recv_line, ck_usart.c:391) *)
SendGoesOn ==
  ch["tx"].busy /\ call.op = "none" /\ ~raced["tx"] /\ ~cut => "thre" \in ier

(* A configuration that succeeds leaves the format asked for, whatever the
   line was set to before, and the divisor next to the exact one, unless the
   handler ran into the divisor latch.  (csi_usart_config, ck_usart.c:607) *)
ConfigTakes ==
  call.op = "config" /\ call.at = "done" =>
    /\ DLAB \notin lcr
    /\ 3 \in lcr <=> call.format.parity # "none"
    /\ call.format.parity # "none" => (4 \in lcr <=> call.format.parity = "even")
    /\ 2 \in lcr <=> call.format.stop = 2
    /\ call.format.bits = 5 + (IF 0 \in lcr THEN 1 ELSE 0) + (IF 1 \in lcr THEN 2 ELSE 0)
    /\ ~latched => /\ (2 * dl - 1) * 8 * call.baud <= SYS_FREQ
                   /\ SYS_FREQ < (2 * dl + 1) * 8 * call.baud

(* A poll that saw a byte finds it gone only when the interrupts are on (the
   receive interrupt alone being off is not enough: a line error empties the
   FIFO); a put that saw room overwrites nothing while no send is under way.
   (csi_usart_getchar, ck_usart.c:267) *)
PollsHold ==
  /\ call.op = "get" /\ fifo = 0 => irqOn
  /\ call.op = "put" => ~thr

UsartInvariant == WithinBuffer /\ BusyAgrees /\ SendGoesOn /\ ConfigTakes /\ PollsHold

----------------------------------------------------------------------------
(* the timer *)

CONSTANTS
  MAX,        \* 0xffffffff
  FREQ,       \* drv_get_sys_freq
  UNIT,       \* 1000000
  Timeouts,   \* what csi_timer_set_timeout is given
  MaxStarts   \* bound: calls of csi_timer_start

(* csi_timer_start divides by the microseconds of the frequency *)
ASSUME TimerAssumption == {MAX, FREQ, UNIT} \subseteq Nat \ {0} /\ FREQ >= UNIT

VARIABLES
  control,   \* TxControl: "enable", "mode", "intmask"
  load,      \* TxLoadCount
  pending,   \* the timer has counted down and TxEOI was not read
  flag,      \* timeout_flag
  timeout,   \* timeout
  cbSet,     \* a callback is registered
  vic,       \* the interrupt controller lets the timer's interrupt through
  ops,       \* the changes of TxControl the call has still to make
  ending,    \* what it does after them with the callback and the interrupt
  read,      \* what it has read of TxControl, or Nothing
  starts,    \* how often the timer was started
  asked,     \* the timeout at the last start, whether it came after a resume or
             \* an overlap, and the mode last configured
  resumed,   \* csi_timer_resume was called since the last start, and since the
             \* mode was last configured
  expired,   \* the timer has counted down since it was last started
  early,     \* the timer was running or pending when it was started again
  stopped,   \* the last word was a stop
  overlap    \* the callback stopped the timer within a change of TxControl

timerVars ==
  <<control, load, pending, flag, timeout, cbSet, vic, ops, ending, read, starts, asked, resumed,
    expired, early, stopped, overlap>>

Nothing == {"nothing"}
Bits == {"enable", "mode", "intmask"}
ClearBit(b) == [keep |-> Bits \ {b}, or |-> {}]
SetBit(b) == [keep |-> Bits, or |-> {b}]
Change(c, op) == (c \cap op.keep) \cup op.or

DW_TIMER_INIT_DEFAULT_VALUE == (MAX \div FREQ) * UNIT

(* after csi_timer_initialize *)
TimerInit ==
  /\ control = {"intmask"}
  /\ load = MAX
  /\ pending = FALSE
  /\ flag = FALSE
  /\ timeout = DW_TIMER_INIT_DEFAULT_VALUE
  /\ cbSet \in BOOLEAN
  /\ vic = cbSet
  /\ ops = <<>>
  /\ ending = <<>>
  /\ read = Nothing
  /\ starts = 0
  /\ asked = [timeout |-> 0, mode |-> FALSE, after |-> FALSE]
  /\ resumed = [start |-> FALSE, mode |-> FALSE]
  /\ expired = FALSE
  /\ early = FALSE
  /\ stopped = TRUE
  /\ overlap = FALSE

Idle == ops = <<>> /\ ending = <<>>

----------------------------------------------------------------------------
CountDown ==
  /\ "enable" \in control /\ ~pending
  /\ pending' = TRUE
  /\ expired' = (expired \/ \A i \in DOMAIN ops : ops[i] # SetBit("enable"))
  /\ UNCHANGED <<control, load, flag, timeout, cbSet, vic, ops, ending, read, starts, asked,
                 resumed, early, stopped, overlap>>

(* dw_timer_irqhandler; its callback may call csi_timer_stop, as a whole *)
dw_timer_irqhandler ==
  /\ vic /\ pending /\ "intmask" \notin control
  /\ flag' = TRUE
  /\ pending' = FALSE
  /\ \/ UNCHANGED <<control, stopped, overlap>>
     \/ /\ cbSet
        /\ control' = (control \cup {"intmask"}) \ {"enable"}
        /\ stopped' = TRUE
        /\ overlap' = (ops # <<>>)
  /\ UNCHANGED <<load, timeout, cbSet, vic, ops, ending, read, starts, asked, resumed, expired,
                 early>>

----------------------------------------------------------------------------
(* the calls change TxControl bit by bit *)
ReadControl ==
  /\ ops # <<>> /\ read = Nothing
  /\ read' = control
  /\ UNCHANGED <<control, load, pending, flag, timeout, cbSet, vic, ops, ending, starts, asked,
                 resumed, expired, early, stopped, overlap>>

(* a timer that is stopped may forget that it was pending *)
WriteControl ==
  /\ ops # <<>> /\ read # Nothing
  /\ control' = Change(read, Head(ops))
  /\ ops' = Tail(ops)
  /\ read' = Nothing
  /\ IF "enable" \in control' THEN UNCHANGED pending ELSE pending' \in {pending, FALSE}
  /\ UNCHANGED <<load, flag, timeout, cbSet, vic, ending, starts, asked, resumed, expired, early,
                 stopped, overlap>>

csi_timer_config(reload) ==
  /\ Idle
  /\ ops' = <<IF reload THEN SetBit("mode") ELSE ClearBit("mode")>>
  /\ asked' = [asked EXCEPT !.mode = reload]
  /\ resumed' = [resumed EXCEPT !.mode = FALSE]
  /\ UNCHANGED <<control, load, pending, flag, timeout, cbSet, vic, ending, read, starts,
                 expired, early, stopped, overlap>>

csi_timer_set_timeout(t) ==
  /\ Idle
  /\ timeout' = t
  /\ UNCHANGED <<control, load, pending, flag, cbSet, vic, ops, ending, read, starts, asked,
                 resumed, expired, early, stopped, overlap>>

MinUs == FREQ \div UNIT

LoadFor(t, c) == IF t = 0 \/ c \subseteq {"mode"} THEN MAX ELSE t * MinUs

(* a timeout that does not fit clears the flag all the same *)
StartRefused ==
  /\ Idle
  /\ timeout > MAX \div MinUs
  /\ flag' = FALSE
  /\ UNCHANGED <<control, load, pending, timeout, cbSet, vic, ops, ending, read, starts, asked,
                 resumed, expired, early, stopped, overlap>>

(* the flag is cleared first, a timer that is running goes on until the load
   and the bits are written *)
csi_timer_start ==
  /\ Idle /\ starts < MaxStarts
  /\ timeout <= MAX \div MinUs
  /\ starts' = starts + 1
  /\ flag' = FALSE
  /\ load' = LoadFor(timeout, control)
  /\ ops' = <<ClearBit("enable"), SetBit("enable"), ClearBit("intmask")>>
  /\ asked' = [asked EXCEPT !.timeout = timeout, !.after = resumed.start \/ overlap]
  /\ resumed' = [resumed EXCEPT !.start = FALSE]
  /\ early' = ("enable" \in control \/ pending)
  /\ expired' = FALSE
  /\ stopped' = FALSE
  /\ overlap' = FALSE
  /\ UNCHANGED <<control, pending, timeout, cbSet, vic, ending, read>>

csi_timer_stop ==
  /\ Idle
  /\ ops' = <<SetBit("intmask"), ClearBit("enable")>>
  /\ stopped' = TRUE
  /\ overlap' = FALSE
  /\ UNCHANGED <<control, load, pending, flag, timeout, cbSet, vic, ending, read, starts, asked,
                 resumed, expired, early>>

(* it keeps of TxControl the bit it has just cleared, that is nothing *)
csi_timer_resume ==
  /\ Idle
  /\ ops' = <<ClearBit("enable"), [keep |-> {"enable"}, or |-> {}]>>
  /\ resumed' = [start |-> TRUE, mode |-> TRUE]
  /\ stopped' = TRUE
  /\ overlap' = FALSE
  /\ UNCHANGED <<control, load, pending, flag, timeout, cbSet, vic, ending, read, starts, asked,
                 expired, early>>

(* timer_deactive_control comes first: until it is through, the callback that
   was set before may be called *)
Deactivate(e) ==
  /\ Idle
  /\ ops' = <<ClearBit("enable"), SetBit("intmask")>>
  /\ ending' = e
  /\ stopped' = TRUE
  /\ overlap' = FALSE
  /\ UNCHANGED <<control, load, pending, flag, cbSet, vic, read, starts, asked, resumed, expired,
                 early>>

csi_timer_uninitialize ==
  /\ Deactivate(<<[field |-> "cb", to |-> FALSE], [field |-> "vic", to |-> FALSE]>>)
  /\ UNCHANGED timeout

(* with a callback or without, and not only after an uninitialize *)
csi_timer_initialize ==
  /\ \/ Deactivate(<<[field |-> "cb", to |-> TRUE], [field |-> "vic", to |-> TRUE]>>)
     \/ Deactivate(<<[field |-> "cb", to |-> FALSE]>>)
  /\ timeout' = DW_TIMER_INIT_DEFAULT_VALUE

SetCallback ==
  /\ ops = <<>> /\ ending # <<>>
  /\ cbSet' = IF Head(ending).field = "cb" THEN Head(ending).to ELSE cbSet
  /\ vic' = IF Head(ending).field = "vic" THEN Head(ending).to ELSE vic
  /\ ending' = Tail(ending)
  /\ UNCHANGED <<control, load, pending, flag, timeout, ops, read, starts, asked, resumed,
                 expired, early, stopped, overlap>>

TimerNext ==
  \/ CountDown \/ dw_timer_irqhandler
  \/ ReadControl \/ WriteControl
  \/ \E reload \in BOOLEAN : csi_timer_config(reload)
  \/ \E t \in Timeouts : csi_timer_set_timeout(t)
  \/ StartRefused \/ csi_timer_start \/ csi_timer_stop \/ csi_timer_resume
  \/ csi_timer_uninitialize \/ csi_timer_initialize \/ SetCallback

----------------------------------------------------------------------------
(* A started timer runs for the timeout that was asked for, unless it was
   resumed before, or the callback's stop was half undone: both leave TxControl
   with neither bit, which the start takes for another state.
   (csi_timer_start, dw_timer.c:270) *)
RunsAsAsked ==
  Idle /\ "enable" \in control =>
    /\ load <= MAX
    /\ asked.timeout # 0 /\ ~asked.after => load = asked.timeout * MinUs
    /\ ~resumed.mode /\ ~overlap => ("mode" \in control <=> asked.mode)

(* The status reports a timeout only of the run it belongs to, unless the
   timer was started while it was running.  (csi_timer_start, dw_timer.c:250) *)
StatusIsOfThisRun == flag /\ ~early => expired

(* A timer that was stopped, by the task or by the callback, stays so until it
   is started, unless the callback fell into a change of TxControl.
   (csi_timer_stop, dw_timer.c:295) *)
StopsForGood == Idle /\ stopped /\ ~overlap => "enable" \notin control

TimerInvariant == RunsAsAsked /\ StatusIsOfThisRun /\ StopsForGood

----------------------------------------------------------------------------
(* The GPIO driver *)

CONSTANTS
  Tasks,
  Pins,       \* 0 .. n
  MaxGpioCalls    \* bound: calls of the driver

VARIABLES
  shared,    \* value and mask of the port's gpio_priv, by the register they are for
  regs,      \* SWPORT_DR, SWPORT_DDR, INTEN, INTTYPE_LEVEL, INT_POLARITY: the
             \* pins whose bit is set
  signal,    \* the pins whose signal is high
  edges,   \* the pins with an edge that was not cleared
  cbs,        \* the pins with a callback
  task,      \* of each task, the changes left, what it has done of the first,
             \* what it has loaded, and the pin whose interrupt it sets up
  irq,       \* the bits of INTSTATUS the handler has still to look at, and
             \* what it is doing
  gpioCalls,
  modes,      \* of each pin, the interrupt last asked for
  want,      \* what the registers should hold by the changes made
  lost,      \* the registers that two tasks changed at a time
  owed       \* the pins with an edge since their callback last began

gpioVars == <<shared, regs, signal, edges, cbs, task, irq, gpioCalls, modes, want, lost, owed>>

Regs == {"DR", "DDR", "INTEN", "TYPE", "POL"}
Modes == {"rising", "falling", "low", "high"}
Fields == {"DR", "DDR"}
Done == [ops |-> <<>>, did |-> {}, value |-> {}, field |-> {}, pin |-> -1]
Still == [at |-> "out", left |-> {}, pin |-> -1]

GpioInit ==
  /\ shared = [r \in Fields |-> {}]
  /\ regs = [r \in Regs |-> {}]
  /\ signal = {}
  /\ edges = {}
  /\ cbs = {}
  /\ task = [t \in Tasks |-> Done]
  /\ irq = Still
  /\ gpioCalls = 0
  /\ modes = [p \in Pins |-> "none"]
  /\ want = regs
  /\ lost = {}
  /\ owed = {}

----------------------------------------------------------------------------
(* a change of one register: the pins written and the pins set of them.  The
   two of gpio_write and gpio_set_direction are told one of them through a field
   of the port: value, of which DR takes the pins that are set, and mask, the
   pins of DDR. *)
Op(r, mask, set) == [reg |-> r, mask |-> mask, set |-> set]
Bit(r, p, on) == Op(r, {p}, IF on THEN {p} ELSE {})
Applied(v, op) == (v \ op.mask) \cup op.set

FieldOf(op) == IF op.reg = "DR" THEN op.set ELSE op.mask
WithField(op, f) ==
  IF op.reg = "DR" THEN [op EXCEPT !.set = f]
  ELSE [op EXCEPT !.mask = f, !.set = IF op.set = {} THEN {} ELSE f]

(* gpio_set_irq_mode *)
ModeOps(p, m) ==
  <<Bit("TYPE", p, m \in {"rising", "falling"}), Bit("POL", p, m \in {"rising", "high"})>>

ModeOf(p) ==
  IF p \in regs["TYPE"] THEN (IF p \in regs["POL"] THEN "rising" ELSE "falling")
  ELSE IF p \in regs["POL"] THEN "high" ELSE "low"

Call(t, changes, pin) ==
  /\ irq.at = "out"
  /\ task[t] = Done
  /\ gpioCalls < MaxGpioCalls
  /\ gpioCalls' = gpioCalls + 1
  /\ task' = [task EXCEPT ![t] = [Done EXCEPT !.ops = changes, !.pin = pin]]

csi_gpio_pin_initialize(t, p) ==
  /\ irq.at = "out" /\ task[t] = Done
  /\ p \notin cbs
  /\ cbs' = cbs \cup {p}
  /\ UNCHANGED <<shared, regs, signal, edges, task, irq, gpioCalls, modes, want, lost, owed>>

(* the callback goes first, then the interrupt *)
csi_gpio_pin_uninitialize(t, p) ==
  /\ p \in cbs
  /\ Call(t, <<Bit("INTEN", p, FALSE)>>, p)
  /\ cbs' = cbs \ {p}
  /\ UNCHANGED <<shared, regs, signal, edges, irq, modes, want, lost, owed>>

(* csi_gpio_pin_config_direction, csi_gpio_pin_config and csi_gpio_port_config;
   csi_gpio_pin_write and csi_gpio_port_write; csi_gpio_pin_set_irq to disable.
   The mask of a port is not empty where its direction is set. *)
Calls(t) ==
  /\ \/ \E mask \in (SUBSET Pins) \ {{}} : \E set \in {{}, mask} :
          Call(t, <<Op("DDR", mask, set)>>, -1)
     \/ \E mask \in SUBSET Pins : \E set \in SUBSET mask : Call(t, <<Op("DR", mask, set)>>, -1)
     \/ \E p \in Pins : Call(t, <<Bit("INTEN", p, FALSE)>>, p)
  /\ UNCHANGED <<shared, regs, signal, edges, cbs, irq, modes, want, lost, owed>>

(* csi_gpio_pin_set_irq; callers do not set up one pin from two tasks at a time *)
csi_gpio_pin_set_irq(t, p, m) ==
  /\ \A u \in Tasks : task[u].pin # p
  /\ Call(t, Append(ModeOps(p, m), Bit("INTEN", p, TRUE)), p)
  /\ modes' = [modes EXCEPT ![p] = m]
  /\ UNCHANGED <<shared, regs, signal, edges, cbs, irq, want, lost, owed>>

Changing(t, r) == task[t].did # {} /\ Head(task[t].ops).reg = r

(* the first step of a change, while another task is at the same register *)
Begin(t, r) ==
  lost' = IF task[t].did = {} /\ \E u \in Tasks \ {t} : Changing(u, r) THEN lost \cup {r} ELSE lost

(* the field of the port is written first, and loaded again where the compiler
   has not kept what was written; another task may have been there since *)
StoreField(t) ==
  /\ irq.at = "out"
  /\ task[t].ops # <<>> /\ task[t].did = {}
  /\ LET op == Head(task[t].ops)
     IN /\ op.reg \in Fields
        /\ shared' = [shared EXCEPT ![op.reg] = FieldOf(op)]
        /\ Begin(t, op.reg)
  /\ task' = [task EXCEPT ![t].did = {"store"}]
  /\ UNCHANGED <<regs, signal, edges, cbs, irq, gpioCalls, modes, want, owed>>

LoadField(t) ==
  /\ irq.at = "out"
  /\ "store" \in task[t].did /\ "load" \notin task[t].did
  /\ LET op == Head(task[t].ops)
     IN \E f \in {FieldOf(op), shared[op.reg]} :
          task' = [task EXCEPT ![t].did = @ \cup {"load"}, ![t].field = f]
  /\ UNCHANGED <<shared, regs, signal, edges, cbs, irq, gpioCalls, modes, want, lost, owed>>

ReadReg(t) ==
  /\ irq.at = "out"
  /\ task[t].ops # <<>> /\ "read" \notin task[t].did
  /\ LET r == Head(task[t].ops).reg
     IN /\ r \in Fields => "store" \in task[t].did
        /\ Begin(t, r)
        /\ task' = [task EXCEPT ![t].did = @ \cup {"read"}, ![t].value = regs[r]]
  /\ UNCHANGED <<shared, regs, signal, edges, cbs, irq, gpioCalls, modes, want, owed>>

(* another task's change that came between is written over *)
WriteReg(t) ==
  /\ irq.at = "out"
  /\ "read" \in task[t].did
  /\ LET op == Head(task[t].ops)
         told == IF op.reg \in Fields THEN WithField(op, task[t].field) ELSE op
     IN /\ op.reg \in Fields => "load" \in task[t].did
        /\ regs' = [regs EXCEPT ![op.reg] = Applied(task[t].value, told)]
        /\ want' = [want EXCEPT ![op.reg] = Applied(@, op)]
  /\ task' = [task EXCEPT ![t] = IF Len(@.ops) = 1 THEN Done
                                 ELSE [Done EXCEPT !.ops = Tail(task[t].ops), !.pin = task[t].pin]]
  /\ UNCHANGED <<shared, signal, edges, cbs, irq, gpioCalls, modes, lost, owed>>

----------------------------------------------------------------------------
(* an edge of the kind asked for is edges until it is cleared *)
Toggle(p) ==
  LET up == p \notin signal
      edge == p \in regs["TYPE"] /\ (up <=> p \in regs["POL"])
  IN /\ signal' = IF up THEN signal \cup {p} ELSE signal \ {p}
     /\ edges' = IF edge THEN edges \cup {p} ELSE edges
     /\ owed' = IF edge THEN owed \cup {p} ELSE owed
     /\ UNCHANGED <<shared, regs, cbs, task, irq, gpioCalls, modes, want, lost>>

INTSTATUS ==
  {p \in regs["INTEN"] :
     IF p \in regs["TYPE"] THEN p \in edges ELSE p \in signal <=> p \in regs["POL"]}

(* dw_gpio_irqhandler reads the status once and goes through its bits *)
IrqRead ==
  /\ irq.at = "out" /\ INTSTATUS # {}
  /\ irq' = [at |-> "next", left |-> INTSTATUS, pin |-> -1]
  /\ UNCHANGED <<shared, regs, signal, edges, cbs, task, gpioCalls, modes, want, lost, owed>>

(* gpio_irq_clear, then the callback of the pin *)
IrqClear ==
  /\ irq.at = "next"
  /\ IF irq.left = {} THEN irq' = Still /\ UNCHANGED edges
     ELSE \E p \in irq.left :
            /\ \A q \in irq.left : p <= q
            /\ irq' = [at |-> "call", left |-> irq.left \ {p}, pin |-> p]
            /\ edges' = edges \ {p}
  /\ UNCHANGED <<shared, regs, signal, cbs, task, gpioCalls, modes, want, lost, owed>>

IrqCall ==
  /\ irq.at = "call"
  /\ irq' = [irq EXCEPT !.at = "next"]
  /\ owed' = owed \ {irq.pin}
  /\ UNCHANGED <<shared, regs, signal, edges, cbs, task, gpioCalls, modes, want, lost>>

dw_gpio_irqhandler == IrqRead \/ IrqClear \/ IrqCall

GpioNext ==
  \/ \E t \in Tasks :
       \/ Calls(t) \/ StoreField(t) \/ LoadField(t) \/ ReadReg(t) \/ WriteReg(t)
       \/ \E p \in Pins, m \in Modes : csi_gpio_pin_set_irq(t, p, m)
       \/ \E p \in Pins : csi_gpio_pin_initialize(t, p) \/ csi_gpio_pin_uninitialize(t, p)
  \/ \E p \in Pins : Toggle(p)
  \/ dw_gpio_irqhandler

----------------------------------------------------------------------------
(* The registers hold what the calls asked for, one after another, with the
   value and the mask of each call though both are passed in fields all tasks
   share; unless two tasks were changing one register at a time, when a task
   may write another one's value, or over its change.  (gpio_write,
   dw_gpio.c:114) *)
RegsAsAsked == \A r \in Regs \ lost : regs[r] = want[r]

(* An interrupt that is enabled is of the kind last asked for, unless its mode
   is just being changed: in between it may be of a third kind.
   (gpio_set_irq_mode, dw_gpio.c:147) *)
InterruptsInMode ==
  lost \cap {"INTEN", "TYPE", "POL"} = {} => \A p \in regs["INTEN"] :
    (\A t \in Tasks : task[t].pin # p) => modes[p] = ModeOf(p)

(* No edge is lost: until its callback begins it stays latched, even when it
   comes after the handler has cleared the one before.  (dw_gpio_irqhandler,
   dw_gpio.c:274) *)
EdgesStay == owed \subseteq edges \cup (IF irq.at = "call" THEN {irq.pin} ELSE {})

GpioInvariant == RegsAsAsked /\ InterruptsInMode /\ EdgesStay

=============================================================================
