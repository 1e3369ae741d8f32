-------------------------------- MODULE Xhci --------------------------------
(* The driver of USB 3 controllers, from the moment it finds one until the  *)
(* machine is shut down (XHCIController.cpp 215-605, USBCommon.cpp).        *)
(*                                                                          *)
(* Every read of a register that may have changed since the last one is a   *)
(* step of its own, and the controller, its ports, the firmware and whoever *)
(* plugs and unplugs move in between.  A register of a card that was        *)
(* removed reads as all ones.  Events are not modelled: the driver of this  *)
(* version sets up no event ring, so commands are put into the ring, run    *)
(* into their timeout and are forgotten.                                    *)
EXTENDS Naturals, Sequences, FiniteSets

CONSTANTS
  UsbPolls,     \* reads of a register before a wait ends (100 to 2000)
  XhciPorts,    \* the protocol of each port, "usb2" or "usb3"
  MaxPlugs      \* how often something is plugged, unplugged or loses power

(* A controller that says it has no port is not started (line 241).         *)
ASSUME XhciAssumption ==
  /\ UsbPolls \in Nat /\ MaxPlugs \in Nat
  /\ XhciPorts \in Seq({"usb2", "usb3"}) /\ XhciPorts # <<>>

VARIABLES
  xhci,         \* the driver: where it is and what it has done
  xhost         \* the controller, its ports and the firmware
xhciVars == <<xhci, xhost>>

(* The addresses in the registers of the controller: low and high part.     *)
Address(low, high) == [low |-> low, high |-> high]
HostRegisters(contexts, ring) == [contexts |-> contexts, ring |-> ring]
kvtophys(of) == Address(of, of)
FirstValues == HostRegisters(kvtophys("zero"), kvtophys("zero"))
Firmwares == HostRegisters(kvtophys("firmware"), kvtophys("firmware"))

XPorts == 1 .. Len(XhciPorts)
NoDevice == 0
SpeedsOn(p) == IF XhciPorts[p] = "usb2" THEN {1, 3} ELSE {4, 5}

(* A port out of reset of the controller: powered, nothing done yet.        *)
FreshPort(device) ==
  [device |-> device, power |-> TRUE, warm |-> FALSE, reset |-> FALSE,
   link |-> IF device = NoDevice THEN "empty" ELSE "polling"]

XhciInit ==
  /\ xhci = [at |-> "off", polls |-> 0, again |-> FALSE, port |-> 1, read |-> FALSE,
             stubborn |-> FALSE, early |-> FALSE, slow |-> FALSE, disabled |-> {}, late |-> {},
             setup |-> {}, commands |-> <<>>, pending |-> 0, written |-> {}]
  /\ xhost = [gone |-> FALSE, legacy |-> FALSE, firmware |-> FALSE, asked |-> FALSE, smi |-> FALSE,
              running |-> FALSE, halted |-> TRUE, busy |-> TRUE, resetting |-> FALSE,
              registers |-> FirstValues, plugs |-> 0, ports |-> [p \in XPorts |-> FreshPort(NoDevice)]]

XGo(there) == xhci' = [xhci EXCEPT !.at = there]

(* Handshake(): a read that finds all ones is a removed card; only a second *)
(* read of the same register is tested.  there is what the second one says. *)
Handshake(there, ok, timedOut, removed) ==
  LET Out(label) == [xhci EXCEPT !.at = label, !.polls = 0, !.again = FALSE] IN
  IF ~xhci.again
  THEN xhci' = IF xhost.gone THEN Out(removed) ELSE [xhci EXCEPT !.again = TRUE]
  ELSE xhci' = CASE there -> Out(ok)
                 [] ~there /\ xhci.polls + 1 = UsbPolls -> Out(timedOut)
                 [] OTHER -> [xhci EXCEPT !.again = FALSE, !.polls = @ + 1]

----------------------------------------------------------------------------
(* Power on: what the firmware left.                                        *)
XhciPower ==
  /\ xhci.at = "off"
  /\ \E l, r \in BOOLEAN, ds \in [XPorts -> 0 .. 5] :
       /\ \A p \in XPorts : ds[p] \in SpeedsOn(p) \cup {NoDevice}
       /\ xhost' = [xhost EXCEPT !.legacy = l, !.firmware = l, !.smi = l, !.running = l /\ r,
                                 !.halted = ~(l /\ r),
                                 !.registers = IF l /\ r THEN Firmwares ELSE FirstValues,
                                 !.ports = [p \in XPorts |-> FreshPort(ds[p])]]
  /\ XGo("found")

(* init(), TakeOwnershipFromBios(): the capabilities are walked, and the    *)
(* firmware, where there is a place to say so, is asked to let go.          *)
XhciFound ==
  /\ xhci.at = "found"
  /\ XGo(CASE xhost.gone -> "absent"
           [] ~xhost.gone /\ xhost.legacy -> "legacy"
           [] OTHER -> "routes")
  /\ UNCHANGED xhost
XhciAsk ==
  /\ xhci.at = "legacy"
  /\ IF xhost.gone THEN XGo("routes") /\ UNCHANGED xhost
     ELSE IF xhost.firmware
     THEN XGo("leaves") /\ xhost' = [xhost EXCEPT !.asked = TRUE]
     ELSE XGo("smi") /\ UNCHANGED xhost
XhciLeaves ==
  /\ xhci.at = "leaves"
  /\ Handshake(~xhost.gone /\ ~xhost.firmware, "smi", "stubborn", "routes")
  /\ UNCHANGED xhost
XhciStubborn ==
  /\ xhci.at = "stubborn"
  /\ xhci' = [xhci EXCEPT !.at = "smi", !.stubborn = TRUE]
  /\ UNCHANGED xhost
XhciSmi ==
  /\ xhci.at = "smi"
  /\ XGo("routes")
  /\ xhost' = [xhost EXCEPT !.smi = @ /\ xhost.gone]

(* Ports that controllers of Intel share are switched over: a card that     *)
(* reads as all ones ends init() there.                                     *)
XhciRoutes ==
  /\ xhci.at = "routes"
  /\ \E intel \in BOOLEAN : XGo(IF intel /\ xhost.gone THEN "absent" ELSE "start")
  /\ UNCHANGED xhost

----------------------------------------------------------------------------
(* start(): wait until the controller answers, reset it, wait until it      *)
(* stands still, hand it the rings, run it.                                 *)
XhciStart ==
  /\ xhci.at = "start"
  /\ XGo(IF xhost.gone THEN "gaveUp" ELSE "answers")
  /\ UNCHANGED xhost
XhciAnswers ==
  /\ xhci.at = "answers"
  /\ Handshake(~xhost.gone /\ ~xhost.busy, "reset", "gaveUp", "gaveUp")
  /\ UNCHANGED xhost
XhciReset ==
  /\ xhci.at = "reset"
  /\ XGo("still")
  /\ xhost' = [xhost EXCEPT !.resetting = TRUE, !.busy = TRUE, !.running = FALSE]
XhciStill ==
  /\ xhci.at = "still"
  /\ Handshake(xhost.gone \/ xhost.halted, "rings", "gaveUp", "gaveUp")
  /\ UNCHANGED xhost
(* The register of the ring is declared with 16 bits, and only they are     *)
(* written (XHCIController.hpp 54).                                         *)
GivenTo(registers) ==
  HostRegisters(kvtophys("contexts"), Address("ring", registers.ring.high))
XhciRings ==
  /\ xhci.at = "rings"
  /\ xhci' = [xhci EXCEPT !.at = "run", !.early = xhost.resetting]
  /\ xhost' = [xhost EXCEPT !.registers = GivenTo(@)]
XhciRun ==
  /\ xhci.at = "run"
  /\ XGo("runs")
  /\ xhost' = [xhost EXCEPT !.running = TRUE]
XhciRuns ==
  /\ xhci.at = "runs"
  /\ Handshake(~xhost.gone /\ ~xhost.halted, "port", "slow", "slow")
  /\ UNCHANGED xhost
XhciSlow ==
  /\ xhci.at = "slow"
  /\ xhci' = [xhci EXCEPT !.at = "gaveUp", !.slow = TRUE]
  /\ UNCHANGED xhost

----------------------------------------------------------------------------
(* The ports, one after the other.                                          *)
Port == xhost.ports[xhci.port]
SetPort(new) == xhost' = [xhost EXCEPT !.ports[xhci.port] = new]

(* The value of a port register written back as it was read: bits that are  *)
(* cleared by a 1 are cleared, and so is the one of an enabled port.        *)
WrittenBack(port, enabled) ==
  [port EXCEPT !.reset = FALSE, !.warm = FALSE,
               !.link = IF enabled /\ @ = "enabled" THEN "disabled" ELSE @]
Enabled == xhost.gone \/ Port.link = "enabled"
PastFewer ==
  [xhci EXCEPT !.port = @ + 1, !.at = IF xhci.port + 1 >= Len(XhciPorts) THEN "up" ELSE "port"]
Past == [xhci EXCEPT !.port = @ + 1, !.at = IF xhci.port = Len(XhciPorts) THEN "up" ELSE "port"]

(* An old change of a warm reset is cleared, and the power switched on:     *)
(* GetPortSC() keeps the bits that do something out of what is written.     *)
XhciPort ==
  /\ xhci.at = "port"
  /\ IF xhost.gone
     THEN XGo("gaveUp") /\ UNCHANGED xhost
     ELSE XGo("power") /\ SetPort([Port EXCEPT !.warm = FALSE])
XhciPowers ==
  /\ xhci.at = "power"
  /\ XGo("powered")
  /\ SetPort([Port EXCEPT !.power = TRUE, !.link = IF @ = "off" THEN "polling" ELSE @])
XhciPowered ==
  /\ xhci.at = "powered"
  /\ Handshake(xhost.gone \/ Port.power, "warm", "warm", "warm")
  /\ UNCHANGED xhost

(* A warm reset, which ports of USB 2 do not have (line 76); on a port      *)
(* without power, power again, written back with everything else.           *)
XhciWarm ==
  /\ xhci.at = "warm"
  /\ IF xhost.gone \/ Port.power
     THEN /\ XGo("done")
          /\ IF XhciPorts[xhci.port] = "usb3" /\ Port.device # NoDevice /\ ~xhost.gone
             THEN SetPort([Port EXCEPT !.link = "reset"])
             ELSE UNCHANGED xhost
     ELSE /\ xhci' = Past
          /\ SetPort([WrittenBack(Port, FALSE)
                        EXCEPT !.power = TRUE, !.link = IF @ = "off" THEN "polling" ELSE @])
XhciDone ==
  /\ xhci.at = "done"
  /\ xhci' = IF xhost.gone \/ Port.reset \/ xhci.polls + 1 = UsbPolls
             THEN [xhci EXCEPT !.at = "links", !.polls = 0]
             ELSE [xhci EXCEPT !.polls = @ + 1]
  /\ UNCHANGED xhost

(* PortSC |= PS_PLS_SET(0): a read, and then everything it gave is written. *)
XhciLinks ==
  /\ xhci.at = "links"
  /\ xhci' = [xhci EXCEPT !.at = "writes", !.read = Enabled]
  /\ UNCHANGED xhost
XhciWrites ==
  /\ xhci.at = "writes"
  /\ xhci' = [xhci EXCEPT !.at = "check", !.read = FALSE,
                          !.disabled = IF xhci.read /\ Port.link = "enabled"
                                       THEN @ \cup {xhci.port} ELSE @]
  /\ SetPort(WrittenBack(Port, xhci.read))
XhciCheck ==
  /\ xhci.at = "check"
  /\ xhci' = IF Enabled THEN [xhci EXCEPT !.at = "speed"] ELSE Past
  /\ UNCHANGED xhost

(* The largest packet of the endpoint that every device has, for the        *)
(* controller (start()) and for the driver (CreateDevice()); a speed the    *)
(* second one does not know leaves the 0 of new memory.                     *)
MaxPacketSize(speed) ==
  CASE speed \in {1, 2} -> 8 [] speed = 3 -> 64 [] OTHER -> 512
MPS(speed) ==
  CASE speed \in {1, 2} -> 8 [] speed = 3 -> 64 [] speed = 4 -> 512 [] OTHER -> 0

(* A command at the end of the ring; the wait for it counts 20 tests of     *)
(* what only an event would change, and forgets it.                         *)
EnqueueCommand(driver, command) ==
  [driver EXCEPT !.commands = Append(@, command), !.pending = @ + 1]
(* The context that a slot is described in.  Before the first of the input  *)
(* contexts the driver keeps the last of those that are for the controller  *)
(* to write: slot 0 takes that one (DeviceInputContextPointer[-1]).         *)
InputContext(slot) == IF slot = 0 THEN "lastOutput" ELSE "input"
AddressDeviceCommand(driver, slot) ==
  EnqueueCommand(driver, [is |-> "address", slot |-> slot, context |-> InputContext(slot)])
RingDoorbellForHostAndWait(driver) ==
  IF driver.pending > 0 THEN [driver EXCEPT !.pending = 0] ELSE driver

(* A new device.  What a transfer returns is what it was made with, as no   *)
(* controller is given it: the descriptor is asked for twice, and then the  *)
(* device is left without a number.                                         *)
CreateDevice(port, speed) ==
  [port |-> port, speed |-> speed, told |-> MaxPacketSize(speed), kept |-> MPS(speed),
   asked |-> 0, number |-> 0]
TransferSuccess == "failed"
GetDeviceDescriptor == TransferSuccess
SetupDevice(device, number) ==
  IF GetDeviceDescriptor = "success"
  THEN [device EXCEPT !.asked = 1, !.number = number]
  ELSE [device EXCEPT !.asked = 2]
(* Every port counts as one of a hub, as RootPortCount is never set.        *)
SetupUSBDevice(driver, speed) ==
  [driver EXCEPT !.setup = @ \cup {SetupDevice(CreateDevice(xhci.port, speed), xhci.port)}]

(* The speed is read again and written into the context, the controller     *)
(* told, the device set up; no port has a slot.                             *)
Described(driver, slot) == [driver EXCEPT !.written = @ \cup {InputContext(slot)}]
XhciSpeed ==
  /\ xhci.at = "speed"
  /\ LET speed == IF xhost.gone THEN 15 ELSE Port.device IN
     xhci' = SetupUSBDevice(
               RingDoorbellForHostAndWait(AddressDeviceCommand(Described(Past, 0), 0)), speed)
  /\ UNCHANGED xhost

----------------------------------------------------------------------------
(* stop(), at the shutdown, whatever start() did.                           *)
XhciStop ==
  /\ xhci.at \in {"up", "gaveUp"}
  /\ XGo("stops")
  /\ xhost' = [xhost EXCEPT !.running = @ /\ (xhost.gone \/ xhost.halted)]
XhciStops ==
  /\ xhci.at = "stops"
  /\ Handshake(xhost.gone \/ xhost.halted, "stopped", "stopped", "stopped")
  /\ UNCHANGED xhost

----------------------------------------------------------------------------
(* The controller.                                                          *)
HostAnswers ==
  /\ xhost.busy /\ ~xhost.resetting
  /\ xhost' = [xhost EXCEPT !.busy = FALSE]
(* The end of a reset: every register has its first value.                  *)
HostResets ==
  /\ xhost.resetting
  /\ xhost' = [xhost EXCEPT !.resetting = FALSE, !.running = FALSE, !.halted = TRUE,
                 !.registers = FirstValues, !.ports = [p \in XPorts |-> FreshPort(@[p].device)]]
HostHalts ==
  /\ ~xhost.running /\ ~xhost.halted
  /\ xhost' = [xhost EXCEPT !.halted = TRUE]
HostRuns ==
  /\ xhost.running /\ xhost.halted /\ ~xhost.resetting
  /\ xhost' = [xhost EXCEPT !.halted = FALSE]
(* A controller that cannot use what it was given stops by itself.          *)
HostFails ==
  /\ xhost.running /\ ~xhost.resetting
  /\ xhost' = [xhost EXCEPT !.running = FALSE, !.halted = TRUE]
FirmwareLeaves ==
  /\ xhost.firmware /\ xhost.asked
  /\ xhost' = [xhost EXCEPT !.firmware = FALSE]

(* A port that becomes enabled behind the driver is too late to be set up;  *)
(* one that does so anew is no longer one that the driver disabled.         *)
Comes(p) == [xhci EXCEPT !.disabled = @ \ {p},
                         !.late = IF p < xhci.port THEN @ \cup {p} ELSE @]
(* A link of USB 3 trains by itself, once; a reset ends with the link up.   *)
PortTrains ==
  \E p \in XPorts :
    /\ XhciPorts[p] = "usb3" /\ xhost.ports[p].link = "polling" /\ xhost.ports[p].power
    /\ xhost' = [xhost EXCEPT !.ports[p].link = "enabled"]
    /\ xhci' = Comes(p)
PortResets ==
  \E p \in XPorts :
    /\ xhost.ports[p].link = "reset"
    /\ xhost' = [xhost EXCEPT !.ports[p].link = "enabled", !.ports[p].reset = TRUE,
                              !.ports[p].warm = TRUE]
    /\ xhci' = Comes(p)

Plug(p, new) ==
  xhost' = [xhost EXCEPT !.plugs = @ + 1, !.ports[p] = new]
XhciPlugged ==
  \E p \in XPorts : \E d \in SpeedsOn(p) :
    /\ xhost.ports[p].device = NoDevice
    /\ Plug(p, [xhost.ports[p] EXCEPT !.device = d,
                                      !.link = IF xhost.ports[p].power THEN "polling" ELSE "off"])
XhciUnplugged ==
  \E p \in XPorts :
    /\ xhost.ports[p].device # NoDevice
    /\ Plug(p, [xhost.ports[p] EXCEPT !.device = NoDevice, !.link = "empty"])
XhciPowerFails ==
  \E p \in XPorts :
    /\ xhost.ports[p].power
    /\ Plug(p, [xhost.ports[p] EXCEPT !.power = FALSE,
                                      !.link = IF @ = "empty" THEN "empty" ELSE "off"])
XhciRemoved == xhost' = [xhost EXCEPT !.gone = TRUE, !.plugs = @ + 1]

XhciDriver ==
  \/ XhciFound \/ XhciAsk \/ XhciLeaves \/ XhciStubborn \/ XhciSmi \/ XhciRoutes
  \/ XhciStart \/ XhciAnswers \/ XhciReset \/ XhciStill \/ XhciRings \/ XhciRun \/ XhciRuns
  \/ XhciSlow \/ XhciPort \/ XhciPowers \/ XhciPowered \/ XhciWarm \/ XhciDone \/ XhciLinks
  \/ XhciWrites \/ XhciCheck \/ XhciSpeed \/ XhciStop \/ XhciStops
XhciController ==
  /\ xhci.at \notin {"off", "absent", "stopped"} /\ ~xhost.gone
  /\ \/ /\ \/ HostAnswers \/ HostResets \/ HostHalts \/ HostRuns \/ HostFails
           \/ FirmwareLeaves
           \/ /\ xhost.plugs < MaxPlugs
              /\ XhciPlugged \/ XhciUnplugged \/ XhciPowerFails \/ XhciRemoved
        /\ UNCHANGED xhci
     \/ PortTrains \/ PortResets
XhciNext == XhciPower \/ XhciDriver \/ XhciController
XhciSpec == XhciInit /\ [][XhciNext]_xhciVars

----------------------------------------------------------------------------
(* (1) A controller the driver runs is its own: the firmware has let go, or *)
(* would not in the time it had, and gets no interrupts of it any more.     *)
(* (2) It knows the driver's contexts, but of the command ring only the low *)
(* 16 bits of the address, unless its reset outlasted the wait, which is    *)
(* for the halt of a controller that may have stood still: then it knows    *)
(* nothing once the reset is over.                                          *)
(* (3) A device that was set up is at a port the driver had not disabled,   *)
(* with one command in the ring, and both sides agree on its packets; it is *)
(* described in a context that is not the driver's to write.  A port that   *)
(* is enabled at the end was set up, or too late.                           *)
(* (4) A stopped controller stays so, unless the driver had given up        *)
(* waiting for it to run (XHCIController.cpp 321-585).                      *)
Walking == xhci.at \in {"port", "power", "powered", "warm", "done", "links", "writes", "check",
                        "speed"}
XhciRight ==
  \/ xhost.gone
  \/ /\ Walking /\ xhost.legacy => ~xhost.smi /\ (xhost.firmware => xhci.stubborn)
     /\ Walking =>
          \/ xhost.registers = HostRegisters(kvtophys("contexts"), Address("ring", "zero"))
          \/ xhci.early /\ (xhost.resetting \/ xhost.registers = FirstValues)
     /\ \A s \in xhci.setup :
          /\ XhciPorts[s.port] = "usb3" /\ s.port \notin xhci.disabled
          /\ s.speed = 4 => s.told = s.kept
     /\ Len(xhci.commands) = Cardinality(xhci.setup) /\ xhci.pending = 0
     /\ xhci.written = IF xhci.setup = {} THEN {} ELSE {"lastOutput"}
     /\ xhci.at = "up" =>
          \A p \in XPorts :
            xhost.ports[p].link = "enabled" => p \in xhci.late \/ \E s \in xhci.setup : s.port = p
     /\ xhci.at = "stopped" /\ xhost.running => xhci.slow
=============================================================================
