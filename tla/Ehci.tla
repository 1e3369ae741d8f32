-------------------------------- MODULE Ehci --------------------------------
(* The driver of USB 2 controllers (EHCIController.cpp 169-447): stop,      *)
(* reset, take the controller from the firmware, run it, and give to its    *)
(* companion every port where no high-speed device answers.  As in Xhci,    *)
(* every read of a register is a step, and the card may be removed.         *)
EXTENDS Naturals

CONSTANTS
  EhciPolls,     \* reads of a register before a wait ends (1000 to 100000)
  EhciPorts,     \* how many ports the controller has
  EhciPlugs      \* how often something is plugged, unplugged or removed

(* A controller says how many ports it has, and has one (line 315).         *)
ASSUME EhciAssumption == EhciPolls \in Nat /\ EhciPorts \in Nat \ {0} /\ EhciPlugs \in Nat

VARIABLES
  ehci,          \* the driver
  ehost          \* the controller, its ports and the firmware
ehciVars == <<ehci, ehost>>

EPorts == 1 .. EhciPorts
Devices == {"none", "low", "full", "high"}

(* A port as the reset of the controller leaves it: it belongs to the       *)
(* companion until the driver says otherwise, and has power unless that is  *)
(* something to be switched.                                                *)
EhciPort(device, power) ==
  [device |-> device, mine |-> FALSE, power |-> power, enabled |-> FALSE, reset |-> "no",
   chirped |-> FALSE, moved |-> FALSE]

EhciInit ==
  /\ ehci = [at |-> "off", polls |-> 0, again |-> FALSE, port |-> 1, hasty |-> {}]
  /\ ehost = [gone |-> FALSE, legacy |-> FALSE, firmware |-> FALSE, asked |-> FALSE, smi |-> FALSE,
              running |-> FALSE, halted |-> TRUE, resetting |-> FALSE, lists |-> "none",
              companions |-> FALSE, power |-> FALSE, plugs |-> 0,
              ports |-> [p \in EPorts |-> EhciPort("none", FALSE)]]

EGo(there) == ehci' = [ehci EXCEPT !.at = there]
(* Handshake(), as in the other driver.                                     *)
EhciHandshake(there, ok, timedOut, removed) ==
  LET Out(label) == [ehci EXCEPT !.at = label, !.polls = 0, !.again = FALSE] IN
  IF ~ehci.again
  THEN ehci' = IF ehost.gone THEN Out(removed) ELSE [ehci EXCEPT !.again = TRUE]
  ELSE ehci' = CASE there -> Out(ok)
                 [] ~there /\ ehci.polls + 1 = EhciPolls -> Out(timedOut)
                 [] OTHER -> [ehci EXCEPT !.again = FALSE, !.polls = @ + 1]

----------------------------------------------------------------------------
(* Power on: what the firmware left, and what is plugged in.                *)
EhciPower ==
  /\ ehci.at = "off"
  /\ \E l, r, c, w \in BOOLEAN, ds \in [EPorts -> Devices] :
       ehost' = [ehost EXCEPT !.legacy = l, !.firmware = l, !.smi = l, !.running = l /\ r,
                   !.halted = ~(l /\ r), !.lists = IF l /\ r THEN "firmware" ELSE "none",
                   !.companions = c, !.power = w,
                   !.ports = [p \in EPorts |-> EhciPort(ds[p], w)]]
  /\ EGo("found")

(* init().                                                                  *)
EhciFound ==
  /\ ehci.at = "found"
  /\ EGo("still")
  /\ ehost' = [ehost EXCEPT !.running = @ /\ (ehost.gone \/ ehost.halted)]
EhciStill ==
  /\ ehci.at = "still"
  /\ EhciHandshake(ehost.gone \/ ehost.halted, "reset", "absent", "absent")
  /\ UNCHANGED ehost
EhciReset ==
  /\ ehci.at = "reset"
  /\ EGo("fresh")
  /\ ehost' = [ehost EXCEPT !.resetting = TRUE]
EhciFresh ==
  /\ ehci.at = "fresh"
  /\ EhciHandshake(~ehost.gone /\ ~ehost.resetting, "ask", "absent", "absent")
  /\ UNCHANGED ehost

(* The firmware is asked once; the loop that looks again counts with the    *)
(* variable of the delay inside it and ends after one look.                 *)
EhciAsk ==
  /\ ehci.at = "ask"
  /\ IF ehost.gone \/ ~ehost.legacy
     THEN EGo("lists") /\ UNCHANGED ehost
     ELSE IF ehost.firmware
     THEN EGo("look") /\ ehost' = [ehost EXCEPT !.asked = TRUE]
     ELSE EGo("force") /\ UNCHANGED ehost
EhciLook == ehci.at = "look" /\ EGo("force") /\ UNCHANGED ehost
(* Its mark is cleared for it, and its interrupts are turned off.           *)
EhciForce ==
  /\ ehci.at = "force"
  /\ EGo("lists")
  /\ ehost' = IF ehost.gone THEN ehost ELSE [ehost EXCEPT !.firmware = FALSE, !.smi = FALSE]
(* The registers of the lists take 32 bits of a physical address; what is   *)
(* written are those of the addresses the kernel sees the lists at.         *)
EhciLists ==
  /\ ehci.at = "lists"
  /\ EGo("start")
  /\ ehost' = [ehost EXCEPT !.lists = "virtual"]

(* start(): a controller that does not run is only reported.                *)
EhciStart ==
  /\ ehci.at = "start"
  /\ EGo("runs")
  /\ ehost' = [ehost EXCEPT !.running = TRUE]
EhciRuns ==
  /\ ehci.at = "runs"
  /\ EhciHandshake(~ehost.gone /\ ~ehost.halted, "switch", "switch", "switch")
  /\ UNCHANGED ehost
EhciSwitch ==
  /\ ehci.at = "switch"
  /\ EGo("line")
  /\ ehost' = [ehost EXCEPT !.ports = [p \in EPorts |-> [@[p] EXCEPT !.mine = TRUE]]]

----------------------------------------------------------------------------
(* LineStatusCheck() and ResetPort().                                       *)
EPort == ehost.ports[ehci.port]
SetEPort(new) == ehost' = [ehost EXCEPT !.ports[ehci.port] = new]
NextPort(driver) ==
  [driver EXCEPT !.at = IF ehci.port = EhciPorts THEN "up" ELSE "line", !.port = @ + 1]
(* Only a low-speed device holds the line in the state K, and it does so    *)
(* where there is power and no reset.                                       *)
KState == ~ehost.gone /\ EPort.device = "low" /\ EPort.mine /\ EPort.power
GivenAway == IF ehost.companions THEN [EPort EXCEPT !.mine = FALSE, !.enabled = FALSE] ELSE EPort

EhciLine ==
  /\ ehci.at = "line"
  /\ IF KState
     THEN ehci' = NextPort(ehci) /\ SetEPort(GivenAway)
     ELSE EGo("on") /\ UNCHANGED ehost
EhciOn ==
  /\ ehci.at = "on"
  /\ EGo("press")
  /\ SetEPort([EPort EXCEPT !.power = TRUE])
EhciPress ==
  /\ ehci.at = "press"
  /\ EGo("release")
  /\ SetEPort([EPort EXCEPT !.enabled = FALSE, !.reset = "on", !.chirped = FALSE])
(* The reset lasts 3000 empty prints: a device that has not answered by     *)
(* then is taken for a slow one.                                            *)
EhciRelease ==
  /\ ehci.at = "release"
  /\ ehci' = [ehci EXCEPT !.at = "ended",
                          !.hasty = IF EPort.chirped THEN @ ELSE @ \cup {ehci.port}]
  /\ SetEPort([EPort EXCEPT !.reset = "ending"])
EhciEnded ==
  /\ ehci.at = "ended"
  /\ EhciHandshake(~ehost.gone /\ EPort.reset # "ending", "judge", "late", "judge")
  /\ UNCHANGED ehost
EhciLate ==
  /\ ehci.at = "late"
  /\ ehci' = [ehci EXCEPT !.at = "judge", !.hasty = @ \cup {ehci.port}]
  /\ UNCHANGED ehost
EhciJudge ==
  /\ ehci.at = "judge"
  /\ ehci' = NextPort(ehci)
  /\ IF ehost.gone \/ ~EPort.power \/ EPort.enabled THEN UNCHANGED ehost ELSE SetEPort(GivenAway)

(* stop().                                                                  *)
EhciStop ==
  /\ ehci.at = "up"
  /\ EGo("stops")
  /\ ehost' = [ehost EXCEPT !.running = @ /\ (ehost.gone \/ ehost.halted)]
EhciStops ==
  /\ ehci.at = "stops"
  /\ EhciHandshake(ehost.gone \/ ehost.halted, "stopped", "stopped", "stopped")
  /\ UNCHANGED ehost

----------------------------------------------------------------------------
(* The controller, the devices and the firmware.                            *)
EHostResets ==
  /\ ehost.resetting
  /\ ehost' = [ehost EXCEPT !.resetting = FALSE, !.running = FALSE, !.halted = TRUE,
                            !.lists = "none", !.ports = [p \in EPorts |-> EhciPort(@[p].device, ehost.power)]]
EHostHalts ==
  /\ ~ehost.running /\ ~ehost.halted
  /\ ehost' = [ehost EXCEPT !.halted = TRUE]
EHostRuns ==
  /\ ehost.running /\ ehost.halted /\ ~ehost.resetting
  /\ ehost' = [ehost EXCEPT !.halted = FALSE]
(* A controller that cannot use what it was given stops by itself.          *)
EHostFails ==
  /\ ehost.running /\ ~ehost.resetting
  /\ ehost' = [ehost EXCEPT !.running = FALSE, !.halted = TRUE]
EFirmwareLeaves ==
  /\ ehost.firmware /\ ehost.asked
  /\ ehost' = [ehost EXCEPT !.firmware = FALSE]
(* A high-speed device answers a reset with a chirp; when the reset has     *)
(* ended, such a device is enabled.                                         *)
Chirps ==
  \E p \in EPorts :
    /\ ehost.ports[p].reset = "on" /\ ehost.ports[p].device = "high" /\ ~ehost.ports[p].chirped
    /\ ehost' = [ehost EXCEPT !.ports[p].chirped = TRUE]
ResetEnds ==
  \E p \in EPorts :
    /\ ehost.ports[p].reset = "ending"
    /\ ehost' = [ehost EXCEPT !.ports[p] = [@ EXCEPT !.reset = "no",
                                                     !.enabled = ehost.ports[p].chirped]]
EPlugged ==
  \E p \in EPorts, d \in Devices :
    /\ d # ehost.ports[p].device
    /\ "none" \in {d, ehost.ports[p].device}
    /\ ehost' = [ehost EXCEPT !.plugs = @ + 1,
                              !.ports[p] = [@ EXCEPT !.device = d, !.chirped = FALSE,
                                                     !.enabled = FALSE, !.moved = TRUE]]
ERemoved == ehost' = [ehost EXCEPT !.gone = TRUE, !.plugs = @ + 1]

EhciDriver ==
  \/ EhciFound \/ EhciStill \/ EhciReset \/ EhciFresh \/ EhciAsk \/ EhciLook \/ EhciForce
  \/ EhciLists \/ EhciStart \/ EhciRuns \/ EhciSwitch \/ EhciLine \/ EhciOn \/ EhciPress
  \/ EhciRelease \/ EhciEnded \/ EhciLate \/ EhciJudge \/ EhciStop \/ EhciStops
EhciController ==
  /\ ehci.at \notin {"off", "absent", "stopped"} /\ ~ehost.gone
  /\ \/ EHostResets \/ EHostHalts \/ EHostRuns \/ EHostFails \/ EFirmwareLeaves
     \/ Chirps \/ ResetEnds
     \/ ehost.plugs < EhciPlugs /\ (EPlugged \/ ERemoved)
  /\ UNCHANGED ehci
EhciNext == EhciPower \/ EhciDriver \/ EhciController
EhciSpec == EhciInit /\ [][EhciNext]_ehciVars

----------------------------------------------------------------------------
(* (1) A controller is run only when no reset is under way any more and     *)
(* nothing is left of the firmware, and then with its lists taken to be     *)
(* where the low halves of the kernel's addresses point, wherever they are. *)
(* (2) With companions, every port that stayed as it was ends with the      *)
(* controller that can speak to its device: a high-speed one here, enabled, *)
(* unless its reset was cut short or outlasted the wait, any other with the *)
(* companion, whatever the line said.  Without companions every port stays  *)
(* here (EHCIController.cpp 169-447).                                       *)
EhciRight ==
  \/ ehost.gone
  \/ /\ ehost.running /\ ehci.at \notin {"off", "found", "still"} =>
          ehost.lists = "virtual" /\ ~ehost.resetting /\ ~ehost.firmware /\ ~ehost.smi
     /\ ehci.at = "up" =>
          \A p \in EPorts :
            LET port == ehost.ports[p] IN
            /\ ~ehost.companions => port.mine
            /\ ~port.moved /\ port.device = "high" /\ p \notin ehci.hasty =>
                 port.mine /\ port.enabled
            /\ ~port.moved /\ port.device # "high" /\ ehost.companions => ~port.mine
=============================================================================
