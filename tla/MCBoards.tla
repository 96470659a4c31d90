------------------------------ MODULE MCBoards ------------------------------
(***************************************************************************)
(* The drivers of the LiteOS-M boards, each in a part of its own: a        *)
(* behaviour looks at one of them and leaves the others where they start.  *)
(* Of riscv32_virt: the two halves of the network driver, which meet in    *)
(* the interrupt handler alone and need rings of different sizes; the      *)
(* input driver; the memory of the frame buffer; the flash; and how the    *)
(* drivers bring their devices up.  Of SmartL_E802: the UART, the timer,   *)
(* the GPIO port and the DSP intrinsics.  Of arm_mps2_an386: the Ethernet  *)
(* chip, and the console it shares with arm_mps3_an547.                    *)
(***************************************************************************)
EXTENDS CskyDrivers, Lan9118, CmsdkUart

CONSTANTS
  q1, q2, NoPbuf,
  EQ, NoEvent, MaxEvents,
  MaxGen,
  CAPACITY, PAGE, BLOCK, MaxWrites

(* a flash of whole words, with pages and blocks of at least one *)
ASSUME FlashGeometry == CAPACITY \in Nat /\ {PAGE, BLOCK} \subseteq Nat \ {0}

VARIABLES
  part,
  txFree, txDesc, tbufRec, sender, txRing, txDev, txHeld, rxRing, rxDev, lent,
  freers, nic, rvLate,
  evBuf, evRing, evDev, mouse, line, sem, worker, precedeDown, button, inLate,
  owner,
  gpu, registry, layer, opening, heap, fbBad, fbHistory,
  chip, op, query, supported, initialized, meant, writes, misread, crossed,
  dv, step, stage, dvStatus, dvReady, held, aligned, dvSeen, told, badFree,
  args

rvNetVars ==
  <<txFree, txDesc, tbufRec, sender, txRing, txDev, txHeld, rxRing, rxDev, lent, freers,
    nic, rvLate>>
rvInputVars ==
  <<evBuf, evRing, evDev, mouse, line, sem, worker, precedeDown, button, inLate, owner>>
fbVars == <<gpu, registry, layer, opening, heap, fbBad, fbHistory>>
flVars == <<chip, op, query, supported, initialized, meant, writes, misread, crossed>>
dvVars == <<dv, step, stage, dvStatus, dvReady, held, aligned, dvSeen, told, badFree>>
rvVars == <<rvNetVars, rvInputVars, fbVars, flVars, dvVars>>
cskyVars == <<usartVars, timerVars, gpioVars, args>>
mpsVars == <<lanVars, cmsdkVars>>
boardVars == <<part, rvVars, cskyVars, mpsVars>>

(* the line formats asked of the UART *)
LineFormats ==
  {[parity |-> "even", stop |-> 2, bits |-> 6], [parity |-> "odd", stop |-> 1, bits |-> 7]}


RvTx == INSTANCE RvVirtNet WITH
  TXQ <- 4, RXQ <- 1, Packets <- {q1, q2}, MaxFreers <- 1, late <- rvLate
RvRx == INSTANCE RvVirtNet WITH
  TXQ <- 2, RXQ <- 3, Packets <- {q1}, MaxFreers <- 2, late <- rvLate
RvIn == INSTANCE RvVirtInput
Fb == INSTANCE FbDisplay WITH bad <- fbBad
Fl == INSTANCE CfiFlash
Dv == INSTANCE RvDevices WITH seen <- dvSeen
Simd == INSTANCE CsiSimd WITH
  BITS <- 3, Halves <- {0, 1, 3, 28, 31, 32, 60, 63}, Sums <- {0, 4095}

(* one start for the parts not looked at *)
Unused ==
  /\ part # "flash" => supported
  /\ part # "dev" => dv = "gpu" /\ dvStatus = {} /\ aligned
  /\ part # "usart" => ~cb
  /\ part # "timer" => ~cbSet

BoardInit ==
  /\ part \in {"rvtx", "rvrx", "rvin", "fb", "flash", "dev",
                "usart", "timer", "gpio", "simd", "lan", "cmsdk"}
  /\ IF part = "rvrx" THEN RvRx!RvNetInit ELSE RvTx!RvNetInit
  /\ RvIn!RvInputInit /\ Fb!FbInit /\ Fl!FlashInit /\ Dv!DvInit
  /\ UsartInit /\ TimerInit /\ GpioInit /\ Simd!SimdInit
  /\ LanInit /\ CmsdkInit
  /\ Unused

Others == <<cskyVars, mpsVars>>
OnNet(p, A) ==
  part = p /\ A /\ UNCHANGED <<part, rvInputVars, fbVars, flVars, dvVars, Others>>
OnInput(A) ==
  part = "rvin" /\ A /\ UNCHANGED <<part, rvNetVars, fbVars, flVars, dvVars, Others>>
OnFb(A) ==
  part = "fb" /\ A /\ UNCHANGED <<part, rvNetVars, rvInputVars, flVars, dvVars, Others>>
OnFlash(A) ==
  part = "flash" /\ A /\ UNCHANGED <<part, rvNetVars, rvInputVars, fbVars, dvVars, Others>>
OnDev(A) ==
  part = "dev" /\ A /\ UNCHANGED <<part, rvNetVars, rvInputVars, fbVars, flVars, Others>>
OnUsart(A) ==
  part = "usart" /\ A /\ UNCHANGED <<part, rvVars, timerVars, gpioVars, args, mpsVars>>
OnTimer(A) ==
  part = "timer" /\ A /\ UNCHANGED <<part, rvVars, usartVars, gpioVars, args, mpsVars>>
OnGpio(A) ==
  part = "gpio" /\ A /\ UNCHANGED <<part, rvVars, usartVars, timerVars, args, mpsVars>>
OnSimd(A) ==
  part = "simd" /\ A /\ UNCHANGED <<part, rvVars, usartVars, timerVars, gpioVars, mpsVars>>
OnLan(A) ==
  part = "lan" /\ A /\ UNCHANGED <<part, rvVars, cskyVars, cmsdkVars>>
OnCmsdk(A) ==
  part = "cmsdk" /\ A /\ UNCHANGED <<part, rvVars, cskyVars, lanVars>>

(* one half of the network driver; the interrupt may be the other half's *)
OtherHalf ==
  /\ nic.at = "idle"
  /\ nic' = [nic EXCEPT !.isr = TRUE]
  /\ UNCHANGED <<txFree, txDesc, tbufRec, sender, txRing, txDev, txHeld, rxRing, rxDev,
                 lent, freers, rvLate>>
RvTxNext == OtherHalf \/ (RvTx!RvNetNext /\ rxDev'.pc = "sleep")
RvRxNext == OtherHalf \/ (RvRx!RvNetNext /\ sender'.at = "idle")

BoardNext ==
  \/ OnNet("rvtx", RvTxNext) \/ OnNet("rvrx", RvRxNext)
  \/ OnInput(RvIn!RvInputNext)
  \/ OnFb(Fb!FbNext)
  \/ OnFlash(Fl!FlashNext)
  \/ OnDev(Dv!DvNext)
  \/ OnUsart(UsartNext) \/ OnTimer(TimerNext) \/ OnGpio(GpioNext) \/ OnSimd(Simd!SimdNext)
  \/ OnLan(LanNext) \/ OnCmsdk(CmsdkNext)

(* only safety is asked *)
BoardSpec == BoardInit /\ [][BoardNext]_boardVars

----------------------------------------------------------------------------
(* RvNetInvariant of RvVirtNet, of either half, and RvInputInvariant of     *)
(* RvVirtInput.  (VirtnetIRQhandle,                                         *)
(* src/riscv32_virt/liteos_m/board/driver/virtnet.c:466)                    *)
RvDriversInvariant ==
  /\ part = "rvtx" => RvTx!RvNetInvariant
  /\ part = "rvrx" => RvRx!RvNetInvariant
  /\ RvIn!RvInputInvariant

(* FbInvariant of FbDisplay, FlashInvariant of CfiFlash and DvInvariant of   *)
(* RvDevices.  (fb_register,                                                *)
(* src/riscv32_virt/liteos_m/board/driver/video/fb.c:348)                   *)
RvBoardInvariant == Fb!FbInvariant /\ Fl!FlashInvariant /\ Dv!DvInvariant

(* UsartInvariant, TimerInvariant and GpioInvariant of CskyDrivers, and     *)
(* SimdInvariant of CsiSimd.  (ck_usart_intr_recv_data,                     *)
(* ck_usart.c:722)                                                          *)
CskyInvariant == UsartInvariant /\ TimerInvariant /\ GpioInvariant /\ Simd!SimdInvariant

(* LanInvariant of Lan9118 and CmsdkInvariant of CmsdkUart.                  *)
(* (EthernetReceiveHandler, lan9118_eth_drv.c:1124)                         *)
MpsInvariant == LanInvariant /\ CmsdkInvariant
=============================================================================
