------------------------------- MODULE MCDevices -------------------------------
(***************************************************************************)
(* The CAN controller, the settings of the other drivers, the peripherals' *)
(* clocks and interrupt lines, and the pins.  They share no state here, so *)
(* one run checks the four: each behaviour is one module's, chosen in the  *)
(* initial state, the others at rest.                                      *)
(***************************************************************************)
EXTENDS CanDriver, DriverSettings, Peripherals, Gpio

VARIABLE part

MCClocks ==
    {[SW |-> 0, HPRE |-> 0, PPRE1 |-> 0, PPRE2 |-> 0],
     [SW |-> 1, HPRE |-> 0, PPRE1 |-> 4, PPRE2 |-> 0],
     [SW |-> 0, HPRE |-> 12, PPRE1 |-> 0, PPRE2 |-> 0]}

Pin(mode, out, speed, pupd, alt) ==
    [mode |-> mode, out |-> out, speed |-> speed, pupd |-> pupd, alt |-> alt]
MCConfigs ==
    {Pin(0, 0, 0, 1, 0), Pin(1, 1, 2, 0, 0), Pin(2, 0, 1, 0, 7),
     Pin(4, 0, 0, 2, 0), Pin(5, 0, 0, 1, 0), Pin(6, 0, 0, 0, 0)}
MCPins == {<<"GPIOA", 7>>, <<"GPIOA", 8>>, <<"GPIOC", 8>>}

MCPeripherals == DOMAIN EnableBit
MCLines == DOMAIN IrqNo

DevicesVars == <<part, cVars, xVars, pVars, gVars>>

DevicesInit ==
    /\ part \in {"CAN", "settings", "peripherals", "GPIO"}
    /\ CanInit /\ DriverSettingsInit /\ PeripheralsInit /\ GpioInit
    /\ part # "settings" => xDriver = "SPI" /\ xCFGR.HPRE = 12
    /\ part # "peripherals" => pUsed = {"CAN1"}
    /\ part # "GPIO" => gUse = "pins"

DevicesNext ==
    \/ part = "CAN" /\ CanNext /\ UNCHANGED <<part, xVars, pVars, gVars>>
    \/ part = "settings" /\ DriverSettingsNext /\ UNCHANGED <<part, cVars, pVars, gVars>>
    \/ part = "peripherals" /\ PeripheralsNext /\ UNCHANGED <<part, cVars, xVars, gVars>>
    \/ part = "GPIO" /\ GpioNext /\ UNCHANGED <<part, cVars, xVars, pVars>>

DevicesSpec == DevicesInit /\ [][DevicesNext]_DevicesVars

=============================================================================
