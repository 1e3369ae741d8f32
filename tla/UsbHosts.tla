------------------------------ MODULE UsbHosts ------------------------------
(* The USB controllers of a machine: one of the USB 3 kind and one of the   *)
(* USB 2 kind, each with its driver.  They share nothing.                   *)
EXTENDS Xhci, Ehci

HostsSpec == XhciSpec /\ EhciSpec

(* A USB controller is run by its driver alone, though neither knows the    *)
(* whole address of what the driver gives it: of the ring of commands 16    *)
(* bits, of the lists 32 bits of the wrong address.  The ports are walked   *)
(* all the same: devices end up where somebody speaks to them, or for a     *)
(* reason that is named (XHCIController.cpp 215-605, EHCIController.cpp     *)
(* 169-447).                                                                *)
HostsRight == XhciRight /\ EhciRight
=============================================================================
