----------------------------- MODULE CmsdkUart -----------------------------
(***************************************************************************)
(* The console of arm_mps2_an386 and of arm_mps3_an547, whose two copies   *)
(* of driver/uart.c and driver/arm_uart_drv.c are the same.  The UART holds *)
(* one byte received and one to be sent.  A byte received interrupts, the  *)
(* handler wakes the shell, the shell reads until nothing is left; tasks   *)
(* print with nothing to keep them apart.                                  *)
(***************************************************************************)
EXTENDS Integers

CONSTANTS
  Typed,           \* bytes that come in
  NoByte,
  Printers,        \* tasks that print
  Clocks, Rates,   \* what is asked of set_clock and set_baudrate
  DefaultRate

ASSUME CmsdkAssumption ==
  /\ Clocks \subseteq Nat /\ Rates \subseteq Nat
  /\ DefaultRate \in Nat \ {0}

VARIABLES
  uart,       \* [ctrl, rx, tx, intr, div]: rx a byte or NoByte, tx whether it is full
  uartData,   \* g_uartData: [initialized, clk, rate]
  boot,       \* "off", "init", "enabled" and, with the handler there, "up"
  clearing,   \* the handler has woken the shell and not yet cleared the interrupt
  shellEvent, \* g_shellInputEvent
  shell,      \* "wait" or "read"
  putting,    \* printers that have found the UART ready and not yet written
  happened    \* history: [early, raced, overrun, refused]

cmsdkVars == <<uart, uartData, boot, clearing, shellEvent, shell, putting, happened>>

CmsdkTypeOK ==
  /\ uart \in [ctrl : SUBSET {"TX", "RX", "RX_INTR"}, rx : Typed \union {NoByte},
               tx : BOOLEAN, intr : SUBSET {"RX"}, div : Nat]
  /\ uartData \in [initialized : BOOLEAN, clk : Nat, rate : Nat]
  /\ boot \in {"off", "init", "enabled", "up"}
  /\ clearing \in BOOLEAN /\ shellEvent \in BOOLEAN
  /\ shell \in {"wait", "read"}
  /\ putting \subseteq Printers
  /\ happened \in [early : BOOLEAN, raced : BOOLEAN, overrun : BOOLEAN, refused : BOOLEAN]

CmsdkInit ==
  /\ uart = [ctrl |-> {}, rx |-> NoByte, tx |-> FALSE, intr |-> {}, div |-> 0]
  /\ uartData = [initialized |-> FALSE, clk |-> 0, rate |-> 0]
  /\ boot = "off"
  /\ clearing = FALSE /\ shellEvent = FALSE /\ shell = "wait" /\ putting = {}
  /\ happened = [early |-> FALSE, raced |-> FALSE, overrun |-> FALSE, refused |-> FALSE]

----------------------------------------------------------------------------
(* start-up: UartInit, then Uart0RxIrqRegister *)

arm_uart_init(clk) ==
  /\ boot = "off" /\ clk # 0
  /\ uartData' = [initialized |-> TRUE, clk |-> clk, rate |-> DefaultRate]
  /\ uart' = [uart EXCEPT !.div = clk \div DefaultRate, !.ctrl = {"RX", "TX"}]
  /\ boot' = "init"
  /\ UNCHANGED <<clearing, shellEvent, shell, putting, happened>>

arm_uart_irq_rx_enable ==
  /\ boot = "init" /\ uartData.initialized
  /\ uart' = [uart EXCEPT !.ctrl = @ \union {"RX_INTR"}]
  /\ boot' = "enabled"
  /\ UNCHANGED <<uartData, clearing, shellEvent, shell, putting, happened>>

Uart0RxIrqRegister ==
  /\ boot = "enabled"
  /\ boot' = "up"
  /\ UNCHANGED <<uart, uartData, clearing, shellEvent, shell, putting, happened>>

----------------------------------------------------------------------------
(* receiving.  A byte that comes before its interrupt is enabled raises none. *)

Receive(b) ==
  /\ "RX" \in uart.ctrl /\ uart.rx = NoByte
  /\ LET raises == "RX_INTR" \in uart.ctrl
     IN /\ uart' = [uart EXCEPT !.rx = b, !.intr = IF raises THEN {"RX"} ELSE @]
        /\ happened' = [happened EXCEPT !.early = @ \/ ~raises]
  /\ UNCHANGED <<uartData, boot, clearing, shellEvent, shell, putting>>

(* what arm_uart_get_interrupt_status makes of both interrupts is COMBINED,  *)
(* and the handler is for RX alone                                          *)
InterruptIsRX == uartData.initialized /\ uart.intr = {"RX"}

UartReceiveHandler ==
  /\ boot = "up" /\ ~clearing /\ InterruptIsRX
  /\ shellEvent' = TRUE /\ clearing' = TRUE
  /\ UNCHANGED <<uart, uartData, boot, shell, putting, happened>>

arm_uart_clear_interrupt ==
  /\ clearing
  /\ uart' = [uart EXCEPT !.intr = @ \ {"RX"}]
  /\ clearing' = FALSE
  /\ UNCHANGED <<uartData, boot, shellEvent, shell, putting, happened>>

ShellWakes ==
  /\ ~clearing /\ shell = "wait" /\ shellEvent
  /\ shellEvent' = FALSE /\ shell' = "read"
  /\ UNCHANGED <<uart, uartData, boot, clearing, putting, happened>>

arm_uart_read_NOT_READY == uart.rx = NoByte

(* a byte, or 0 for none, which is the end of reading *)
UartGetc ==
  /\ ~clearing /\ shell = "read"
  /\ IF arm_uart_read_NOT_READY THEN shell' = "wait" /\ UNCHANGED uart
     ELSE uart' = [uart EXCEPT !.rx = NoByte] /\ UNCHANGED shell
  /\ UNCHANGED <<uartData, boot, clearing, shellEvent, putting, happened>>

----------------------------------------------------------------------------
(* printing: UartPutc has no use for the answer NOT_READY *)

arm_uart_write_tests(p) ==
  /\ boot # "off" /\ ~clearing /\ p \notin putting
  /\ ~uart.tx
  /\ putting' = putting \union {p}
  /\ UNCHANGED <<uart, uartData, boot, clearing, shellEvent, shell, happened>>

UartPutc(p) ==
  /\ ~clearing /\ p \in putting
  /\ uart' = [uart EXCEPT !.tx = TRUE]
  /\ putting' = putting \ {p}
  /\ happened' = [happened EXCEPT !.overrun = @ \/ uart.tx, !.raced = @ \/ putting # {p}]
  /\ UNCHANGED <<uartData, boot, clearing, shellEvent, shell>>

Sent ==
  /\ uart.tx
  /\ uart' = [uart EXCEPT !.tx = FALSE]
  /\ UNCHANGED <<uartData, boot, clearing, shellEvent, shell, putting, happened>>

----------------------------------------------------------------------------
(* the rate: a refused one is kept, and is what set_clock divides by *)

arm_uart_set_baudrate(r) ==
  /\ ~clearing /\ uartData.initialized /\ r # 0
  /\ uartData' = [uartData EXCEPT !.rate = r]
  /\ LET bauddiv == uartData.clk \div r
     IN /\ uart' = [uart EXCEPT !.div = IF bauddiv < 16 THEN @ ELSE bauddiv]
        /\ happened' = [happened EXCEPT !.refused = bauddiv < 16]
  /\ UNCHANGED <<boot, clearing, shellEvent, shell, putting>>

arm_uart_set_clock(c) ==
  /\ ~clearing /\ uartData.initialized /\ c # 0
  /\ uartData' = [uartData EXCEPT !.clk = c]
  /\ uart' = [uart EXCEPT !.div = c \div uartData.rate]
  /\ UNCHANGED <<boot, clearing, shellEvent, shell, putting, happened>>

----------------------------------------------------------------------------
CmsdkNext ==
  \/ \E clk \in Clocks : arm_uart_init(clk) \/ arm_uart_set_clock(clk)
  \/ arm_uart_irq_rx_enable \/ Uart0RxIrqRegister
  \/ \E b \in Typed : Receive(b)
  \/ UartReceiveHandler \/ arm_uart_clear_interrupt \/ ShellWakes \/ UartGetc
  \/ \E p \in Printers : arm_uart_write_tests(p) \/ UartPutc(p)
  \/ Sent
  \/ \E r \in Rates : arm_uart_set_baudrate(r)

CmsdkSpec == CmsdkInit /\ [][CmsdkNext]_cmsdkVars

(* A byte received is on its way to the shell, unless it came before its     *)
(* interrupt was enabled: that one stays, and no other can come.            *)
(* (UartReceiveHandler, uart.c:49)                                          *)
InputGoesOn ==
  uart.rx # NoByte => shellEvent \/ shell = "read" \/ "RX" \in uart.intr \/ happened.early

(* A byte to be sent is written over only by tasks that print at once.       *)
(* (arm_uart_write, arm_uart_drv.c:150)                                     *)
PrintsWhole == happened.overrun => happened.raced

(* The divider is that of the clock and the rate, unless the rate was one    *)
(* that set_baudrate refused.  (arm_uart_set_clock, arm_uart_drv.c:112)     *)
RateIsTheClocks == uartData.initialized /\ ~happened.refused => uart.div = uartData.clk \div uartData.rate

CmsdkInvariant == CmsdkTypeOK /\ InputGoesOn /\ PrintsWhole /\ RateIsTheClocks
=============================================================================
