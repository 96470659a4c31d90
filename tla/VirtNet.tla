------------------------------ MODULE VirtNet ------------------------------
(***************************************************************************)
(* The data path of the virtio-net driver (drivers/virtio/virtnet.c): the  *)
(* transmit and the receive half share the interrupt, its one status bit   *)
(* and its handler.                                                        *)
(***************************************************************************)
EXTENDS VirtNetTx, VirtNetRx

vars == <<txVars, rxVars, irqVars>>

Init == TxInit /\ RxInit

(* NetIfSetStatus(UP) follows the publication of the receive buffers, and   *)
(* the network stack sends only on an interface that is up.                 *)
Task == \/ RxStart /\ UNCHANGED txVars
        \/ started /\ (\E p \in NetBufs : Xmit(p)) /\ UNCHANGED rxVars
        \/ Send /\ UNCHANGED rxVars

VirtnetIRQhandle == \/ (IrqEnter \/ IrqAck) /\ UNCHANGED <<txVars, rxVars>>
                    \/ RxHandle /\ UNCHANGED txVars
                    \/ TxHandle /\ UNCHANGED rxVars

Device == \/ DevTx /\ UNCHANGED rxVars
          \/ DevRx /\ UNCHANGED txVars

Next == Task \/ VirtnetIRQhandle \/ Device

Spec == Init /\ [][Next]_vars

(* Fairness: an interrupt that is entered is handled to its end, a sender   *)
(* gets the core again after an interrupt, and the device works off what it *)
(* was given.  No packet is ever owed, in either direction.                 *)
FairSpec ==
  /\ Spec
  /\ WF_vars(VirtnetIRQhandle)
  /\ WF_vars(RxStart /\ UNCHANGED txVars)
  /\ SF_vars(Send /\ UNCHANGED rxVars)
  /\ WF_vars((DevTxWake \/ DevTxFetch \/ DevTxEmpty \/ DevTxRecheck) /\ UNCHANGED rxVars)
  /\ WF_vars((\E head \in tDev.own : DevTxUse(head)) /\ UNCHANGED rxVars)
  /\ WF_vars(DevTxIntr /\ UNCHANGED rxVars)
  /\ WF_vars((DevRxWake \/ DevRxUse \/ DevRxEmpty \/ DevRxRecheck) /\ UNCHANGED txVars)
  /\ WF_vars(DevRxIntr /\ UNCHANGED txVars)

=============================================================================
