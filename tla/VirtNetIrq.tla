----------------------------- MODULE VirtNetIrq -----------------------------
(***************************************************************************)
(* The interrupt of the virtio-net driver (drivers/virtio/virtnet.c): the  *)
(* used-buffer bit of the device's InterruptStatus register, and how far   *)
(* VirtnetIRQhandle has come on the one core of the board.                 *)
(*                                                                         *)
(* The handler drains the receive queue (VirtNetRx), then the transmit     *)
(* queue (VirtNetTx), and acknowledges the interrupt last.  It preempts    *)
(* every task; no task runs before it has returned.                        *)
(***************************************************************************)
CONSTANT NoBuf          \* a null NetBuf pointer

VARIABLES
  isr,                  \* InterruptStatus & VIRTMMIO_IRQ_NOTIFY_USED
  irqPc                 \* where VirtnetIRQhandle is; "idle" when a task runs

irqVars == <<isr, irqPc>>

RxPcs == {"rx", "rxLoop", "rxEnable", "rxRecheck", "rxPost", "rxNotify"}
TxPcs == {"tx", "txLoop", "txDone"}

IrqTypeOK == /\ isr \in BOOLEAN
             /\ irqPc \in {"idle", "ack"} \cup RxPcs \cup TxPcs

IrqInit == isr = FALSE /\ irqPc = "idle"

(* The line is asserted and the running task has interrupts enabled.  The  *)
(* sections under OsalSpinLockIrqSave are single actions of their task, so *)
(* the handler never enters inside one.                                    *)
IrqEnter ==
  /\ irqPc = "idle"
  /\ isr
  /\ irqPc' = "rx"
  /\ UNCHANGED isr

(* OSAL_WRITEL(VIRTMMIO_IRQ_NOTIFY_USED, INTERRUPTACK): the device drops   *)
(* the bit, whatever it stands for by now.                                 *)
IrqAck ==
  /\ irqPc = "ack"
  /\ isr' = FALSE
  /\ irqPc' = "idle"

(* external: the device raises the interrupt                               *)
RaiseIsr == isr' = TRUE
=============================================================================
