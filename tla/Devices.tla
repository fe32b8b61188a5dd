------------------------------ MODULE Devices ------------------------------
(***************************************************************************)
(* The devices of the boards, one at a time: bench is "serial" for the SPI *)
(* link of SerialLink, "gpio" for the controllers of GpioEvents, "machine" *)
(* for the two wired boards of Machine, "registers" for a GIC whose        *)
(* firmware writes any register at any time (GicService) and "timer" for   *)
(* the timer interrupt of a single-core board (TimerTick).  The devices    *)
(* that are not on the bench stand still in one of their initial states.   *)
(***************************************************************************)
EXTENDS SerialLink, GpioEvents, Machine, GicService, TimerTick

VARIABLE bench

ticking == <<timer, cpu, step>>
service == <<serving, edges, poked>>
devicesVars == <<bench, serialVars, gpioVars, machineVars, gvars, service, ticking>>

SerialStill == wiring = (CHOOSE w \in Wirings : TRUE) /\ slave.cr # Off
GpioStill == controller = CHOOSE k \in Controllers : TRUE

DevicesInit ==
  /\ bench \in {"serial", "gpio", "machine", "registers", "timer"}
  /\ SerialInit /\ (bench # "serial" => SerialStill)
  /\ GpioInit /\ (bench # "gpio" => GpioStill)
  /\ MachineInit
  /\ SInit /\ TimersOff /\ (bench # "registers" => TickInit)

DevicesNext ==
  /\ \/ /\ bench = "serial" /\ SerialNext
        /\ UNCHANGED <<gpioVars, machineVars, gvars, service, ticking>>
     \/ /\ bench = "gpio" /\ GpioNext
        /\ UNCHANGED <<serialVars, machineVars, gvars, service, ticking>>
     \/ /\ bench = "machine" /\ MachineNext
        /\ UNCHANGED <<serialVars, gpioVars, gvars, service, ticking>>
     \/ /\ bench = "registers" /\ SNext
        /\ UNCHANGED <<serialVars, gpioVars, machineVars, ticking>>
     \/ /\ bench = "timer" /\ TickNext
        /\ UNCHANGED <<serialVars, gpioVars, machineVars, service>>
  /\ UNCHANGED bench

DevicesSpec == DevicesInit /\ [][DevicesNext]_devicesVars
=============================================================================
