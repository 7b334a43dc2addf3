---------------------------- MODULE MCPeripherals ----------------------------
(* TLC instance of the devices on the bus and of the serial link of the ROM  *)
(* upload, which share no state: in a behaviour one of them runs.  Three     *)
(* values of TIMA, two clock selects, and three keys, two of them on one     *)
(* line; four-bit bytes on a line whose sender is right, slow or fast.       *)
EXTENDS Peripherals, UartLink

CONSTANT Devices    \* what runs: "Bus", "Link"
ASSUME DevicesAssumption == Devices \subseteq {"Bus", "Link"}

VARIABLE device

deviceVars == <<periphVars, linkVars, device>>

DevicesInit ==
    /\ device \in Devices
    /\ LinkInit /\ (device = "Bus" => line_kind = "Clean" /\ period = BitTicks)
    /\ PeriphInit /\ (device = "Link" => focus = "Ports")

RunBus == device = "Bus" /\ PeriphNext /\ UNCHANGED <<linkVars, device>>
RunLink == device = "Link" /\ LinkNext /\ UNCHANGED <<periphVars, device>>

DevicesSpec == DevicesInit /\ [][RunBus \/ RunLink]_deviceVars
-----------------------------------------------------------------------------
MCPeriod == <<32, 16>>
MCKeys == {<<"Action", 0>>, <<"Dpad", 0>>, <<"Dpad", 1>>}
=============================================================================
