------------------------------- MODULE MCUart -------------------------------
(***************************************************************************)
(* The serial port and the control queue of the GPU, each in a part of its *)
(* own: a behaviour looks at one of them and leaves the other where it     *)
(* starts.  They are the two drivers a task of which waits for its device  *)
(* under a fairness of its own.                                            *)
(***************************************************************************)
EXTENDS Uart, VirtGpu

VARIABLE part

ucVars == <<part, uartVars, timedVars>>

OnUart(A) == part = "uart" /\ A /\ UNCHANGED <<part, timedVars>>
OnGpu(A) == part = "gpu" /\ A /\ UNCHANGED <<part, uartVars>>

UCInit ==
  /\ part \in {"uart", "gpu"}
  /\ UartInit /\ TimedInit
  /\ part = "uart" => ~ edid

UCNext == OnUart(UartNext) \/ OnGpu(TimedNext)

(* the fairness of UartFairSpec and that of TimedSpec *)
UCSpec ==
  /\ UCInit
  /\ [][UCNext]_ucVars
  /\ SF_uartVars(OnUart(Read)) /\ WF_uartVars(OnUart(UartIrq))
  /\ WF_gVars(OnGpu(Driver))
  /\ WF_gVars(OnGpu(DeviceIdle /\ Tick))
  /\ WF_gVars(OnGpu(Dev))
=============================================================================
