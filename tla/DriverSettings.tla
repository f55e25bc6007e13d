----------------------------- MODULE DriverSettings -----------------------------
(***************************************************************************)
(* What USART_init, I2C_init and SPI_init write, from registers that an    *)
(* earlier call may have left, and the bus clocks of rcc.c they compute    *)
(* with.  A register is the set of its named bits, a field of several bits *)
(* a number.  Numbers are unsigned and 32 bits wide, as in the code.       *)
(***************************************************************************)
EXTENDS Naturals, Sequences

CONSTANTS
    XClocks,        \* RCC->CFGR: records of SW, HPRE, PPRE1, PPRE2 (the PLL is not supported)
    XBauds, XStops, XUsartModes, XFlows,   \* the USART configurations asked for
    XI2cSpeeds,                    \* I2C clock speeds
    XSpiSpeeds, XSpiBits,          \* SPI clock dividers; sets of DFF, CPOL, CPHA, SSM
    XUsartAgain     \* USART_init may change mode and flow control without USART_deinit

\* The values the registers' fields and the headers' macros have, the rates from 1200 to 3M.
ASSUME ClocksAssumption ==
    XClocks \subseteq [SW : {0, 1}, HPRE : 0 .. 15, PPRE1 : 0 .. 7, PPRE2 : 0 .. 7]
ASSUME BaudsAssumption ==
    \A baud \in XBauds : baud \in Nat /\ baud >= 1200 /\ baud <= 3000 * 1000
ASSUME UsartSettingsAssumption ==
    /\ XStops \subseteq {"1", "0.5", "1.5", "2"}
    /\ XUsartModes \subseteq {"RX", "TX", "TXRX"} /\ XFlows \subseteq SUBSET {"CTSE", "RTSE"}
ASSUME I2cSettingsAssumption == XI2cSpeeds \subseteq Nat \ {0}
ASSUME SpiSettingsAssumption ==
    XSpiSpeeds \subseteq 0 .. 7 /\ XSpiBits \subseteq SUBSET {"DFF", "CPOL", "CPHA", "SSM"}

VARIABLES
    xCFGR, xDriver,                 \* RCC->CFGR, the driver in use: one at a time is enough
    xUsart, xUsartAsked,            \* the USART's registers, the last configuration
    xI2c, xI2cAsked, xSpi, xSpiAsked

xVars == <<xCFGR, xDriver, xUsart, xUsartAsked, xI2c, xI2cAsked, xSpi, xSpiAsked>>

-----------------------------------------------------------------------------
\* RCC_get_pclk1 and RCC_get_pclk2.
SystemClock(cfgr) == IF cfgr.SW = 1 THEN 8000000 ELSE 16000000

\* Fault: the table of the AHB prescalers has 32 in it.
PossiblePscals_32 == <<2, 4, 8, 16, 32, 64, 128, 256>>
PossiblePscals == <<2, 4, 8, 16, 64, 128, 256, 512>>

AhbClock(cfgr) ==
    SystemClock(cfgr) \div (IF cfgr.HPRE < 8 THEN 1 ELSE PossiblePscals[cfgr.HPRE - 7])
ApbClock(cfgr, ppre) == AhbClock(cfgr) \div (IF ppre < 4 THEN 1 ELSE PossiblePscals[ppre - 3])
RCC_get_pclk1(cfgr) == ApbClock(cfgr, cfgr.PPRE1)
RCC_get_pclk2(cfgr) == ApbClock(cfgr, cfgr.PPRE2)

-----------------------------------------------------------------------------
UsartConfigs ==
    [mode : XUsartModes, baud : XBauds, stop : XStops, word : {8, 9},
     parity : {"none", "even", "odd"}, flow : XFlows,
     bus : {1, 2}]

ModeBits(mode) ==
    CASE mode = "RX" -> {"RE"} [] mode = "TX" -> {"TE"} [] mode = "TXRX" -> {"RE", "TE"}

\* RE and TE are set and never cleared; PS keeps its value without parity.
UsartCR1(old, c) ==
    (old \ ({"M", "PCE"} \cup IF c.parity = "none" THEN {} ELSE {"PS"}))
        \cup ModeBits(c.mode)
        \cup (IF c.word = 9 THEN {"M"} ELSE {})
        \cup (IF c.parity # "none" THEN {"PCE"} ELSE {})
        \cup (IF c.parity = "odd" THEN {"PS"} ELSE {})

UsartSTOP(stop) ==
    IF stop = "1" THEN 0 ELSE IF stop = "0.5" THEN 1 ELSE IF stop = "1.5" THEN 2 ELSE 3

UsartCR3(old, c) == old \cup c.flow

\* The divider in hundredths, then mantissa and sixteenths in the 16 bits of BRR; OVER8 is
\* never set here.
UsartBRR(pclk, baud) ==
    LET usartdiv == (100 * pclk) \div (16 * baud)
        M_part   == usartdiv \div 100
        F_part   == (((usartdiv % 100) * 16 + 50) \div 100) % 16
    IN  (16 * M_part + F_part) % 65536

UsartReset == [CR1 |-> {}, STOP |-> 0, CR3 |-> {}, BRR |-> 0]

USART_init(c) ==
    /\ xUsart' = [CR1  |-> UsartCR1(xUsart.CR1, c),
                  STOP |-> UsartSTOP(c.stop),
                  CR3  |-> UsartCR3(xUsart.CR3, c),
                  BRR  |-> UsartBRR(IF c.bus = 2 THEN RCC_get_pclk2(xCFGR)
                                                 ELSE RCC_get_pclk1(xCFGR), c.baud)]
    /\ xUsartAsked' = <<c>>
    /\ UNCHANGED <<xCFGR, xDriver, xI2c, xI2cAsked, xSpi, xSpiAsked>>

ResetUsart ==
    /\ xUsart' = UsartReset /\ xUsartAsked' = <<>>
    /\ UNCHANGED <<xCFGR, xDriver, xI2c, xI2cAsked, xSpi, xSpiAsked>>

-----------------------------------------------------------------------------
I2cConfigs == [speed : XI2cSpeeds, duty : {0, 1}]
StandardMode(c) == c.speed <= 100000

\* FS and DUTY; DUTY keeps its value in standard mode.
I2cMode(old, c) ==
    IF StandardMode(c) THEN old \ {"FS"}
    ELSE (old \ {"DUTY"}) \cup {"FS"} \cup (IF c.duty = 1 THEN {"DUTY"} ELSE {})

I2cCCR(pclk, c) ==
    (pclk \div ((IF StandardMode(c) THEN 2 ELSE IF c.duty = 1 THEN 25 ELSE 3) * c.speed)) % 4096

\* pclk * 300 modulo 2^32, divided by 10^9: both sides over 32, to stay in TLC's integers.
RiseTicksFast(pclk) == (((pclk \div 32) * 300) % 134217728) \div 31250000
I2cTRISE(pclk, c) ==
    ((IF StandardMode(c) THEN pclk \div 1000000 ELSE RiseTicksFast(pclk)) + 1) % 64

I2C_init(c) ==
    /\ LET pclk == RCC_get_pclk1(xCFGR)
       IN  xI2c' = [FREQ |-> pclk \div 1000000, mode |-> I2cMode(xI2c.mode, c),
                    CCR |-> I2cCCR(pclk, c), TRISE |-> I2cTRISE(pclk, c)]
    /\ xI2cAsked' = <<c>>
    /\ UNCHANGED <<xCFGR, xDriver, xUsart, xUsartAsked, xSpi, xSpiAsked>>

-----------------------------------------------------------------------------
SpiConfigs ==
    [device : {{}, {"MSTR"}}, bus : {"FD", "HD", "RXONLY"}, BR : XSpiSpeeds,
     other : XSpiBits]

BusBits(bus) == CASE bus = "FD" -> {} [] bus = "HD" -> {"BIDIMODE"} [] bus = "RXONLY" -> {"RXONLY"}

SpiCR1(old, c) ==
    [bits |-> (old.bits \cap {"SPE", "SSI"}) \cup c.device \cup BusBits(c.bus) \cup c.other,
     BR |-> c.BR]

SPI_init(c) ==
    /\ xSpi' = SpiCR1(xSpi, c)
    /\ xSpiAsked' = <<c>>
    /\ UNCHANGED <<xCFGR, xDriver, xUsart, xUsartAsked, xI2c, xI2cAsked>>

\* SPI_periph_control and SPI_SSI_config; SSOE is in CR2.
SpiBit(bit, enable) ==
    /\ xSpi' = [xSpi EXCEPT !.bits = IF enable THEN @ \cup {bit} ELSE @ \ {bit}]
    /\ UNCHANGED <<xCFGR, xDriver, xUsart, xUsartAsked, xI2c, xI2cAsked, xSpiAsked>>

SPI_periph_control(enable) == SpiBit("SPE", enable)
SPI_SSI_config(enable) == SpiBit("SSI", enable)

-----------------------------------------------------------------------------
DriverSettingsInit ==
    /\ xCFGR \in XClocks
    /\ xDriver \in {"USART", "I2C", "SPI"}
    /\ xUsart = UsartReset /\ xUsartAsked = <<>>
    /\ xI2c = [FREQ |-> 0, mode |-> {}, CCR |-> 0, TRISE |-> 2] /\ xI2cAsked = <<>>
    /\ xSpi = [bits |-> {}, BR |-> 0] /\ xSpiAsked = <<>>

\* The calls a program may make before USART_deinit.
Compatible(c) ==
    \A i \in DOMAIN xUsartAsked :
        XUsartAgain \/ (c.mode = xUsartAsked[i].mode /\ c.flow = xUsartAsked[i].flow)

DriverSettingsNext ==
    \/ xDriver = "USART" /\ \E c \in UsartConfigs : Compatible(c) /\ USART_init(c)
    \/ xDriver = "USART" /\ ResetUsart
    \/ xDriver = "I2C" /\ \E c \in I2cConfigs : I2C_init(c)
    \/ xDriver = "SPI" /\ \E c \in SpiConfigs : SPI_init(c)
    \/ xDriver = "SPI" /\ \E enable \in BOOLEAN : SPI_periph_control(enable) \/ SPI_SSI_config(enable)

DriverSettingsSpec == DriverSettingsInit /\ [][DriverSettingsNext]_xVars

-----------------------------------------------------------------------------
\* The clock tree of the device's reference manual.
Divided(clock, steps, skip) == clock \div 2 ^ (IF steps > 4 THEN steps + skip ELSE steps)
TrueAhb == Divided(IF xCFGR.SW = 1 THEN 8000000 ELSE 16000000,
                   IF xCFGR.HPRE < 8 THEN 0 ELSE xCFGR.HPRE - 7, 1)
TruePclk(ppre) == Divided(TrueAhb, IF ppre < 4 THEN 0 ELSE ppre - 3, 0)

\* A divider the USART runs with, from 1, to half a sixteenth upwards and two thirds of one
\* downwards, for the hundredth dropped before.
Close(brr, pclk, baud) ==
    brr >= 16 /\ 2 * brr * baud <= 2 * pclk + baud /\ 3 * pclk < (3 * brr + 2) * baud

\* The rates the divider can be computed for: sixteen ticks make a bit, and the fraction does
\* not round up to a whole, which USART.c:226 would drop.
BaudFits(pclk, baud) ==
    16 * baud <= pclk /\ ((100 * pclk) \div (16 * baud)) % 100 < 97

\* What the device makes of STOP, and of the bits asked for: USART.c:151-158 writes 2 for 1.5
\* and 3 for 2, which are the codes of each other (USART.h:64-65).
StopBits == <<"1", "0.5", "2", "1.5">>
StopsMade(stop) == CASE stop = "1.5" -> "2" [] stop = "2" -> "1.5" [] OTHER -> stop

UsartAsAsked(c) ==
    /\ xUsart.CR1 \cap {"RE", "TE"} = ModeBits(c.mode)
    /\ "M" \in xUsart.CR1 <=> c.word = 9
    /\ "PCE" \in xUsart.CR1 <=> c.parity # "none"
    /\ c.parity # "none" => ("PS" \in xUsart.CR1 <=> c.parity = "odd")
    /\ xUsart.CR3 = c.flow
    /\ StopBits[xUsart.STOP + 1] = StopsMade(c.stop)
    /\ LET pclk == TruePclk(IF c.bus = 2 THEN xCFGR.PPRE2 ELSE xCFGR.PPRE1)
       IN  Close(xUsart.BRR, pclk, c.baud) <=> BaudFits(pclk, c.baud)

I2cAsAsked(c) ==
    LET pclk == TruePclk(xCFGR.PPRE1)
        low  == IF StandardMode(c) THEN 2 ELSE IF "DUTY" \in xI2c.mode THEN 25 ELSE 3
    IN  /\ "FS" \in xI2c.mode <=> ~StandardMode(c)
        /\ ~StandardMode(c) => ("DUTY" \in xI2c.mode <=> c.duty = 1)
        /\ xI2c.CCR * low * c.speed <= pclk /\ pclk < (xI2c.CCR + 1) * low * c.speed
        /\ StandardMode(c) \/ pclk < 14316557 =>
              xI2c.TRISE = 1 + (IF StandardMode(c) THEN pclk \div 1000000
                                                   ELSE ((pclk \div 10000) * 3) \div 1000)

\* However often they are configured, and from whatever an earlier call left, the drivers run
\* with what they were last given (hal.md, USART, SPI and I2C): the frame, the baud rate to
\* the rounding of the divider, the I2C clock to one step of CCR with the rise time of its
\* mode, as long as pclk * 300 fits in 32 bits, and an SPI enabled before stays so.  The
\* clocks they compute with are those of the reference manual's clock tree.  Where the code
\* falls short of hal.md, this says by how much: of the "baud rates (1200 to 3M)" (87) a clock
\* gets just those with BaudFits, and of the "stop bits (0.5, 1, 1.5, 2)" (90) it exchanges
\* two.
SettingsAsAsked ==
    /\ \A i \in DOMAIN xUsartAsked : UsartAsAsked(xUsartAsked[i])
    /\ \A i \in DOMAIN xI2cAsked : I2cAsAsked(xI2cAsked[i])
    /\ \A i \in DOMAIN xSpiAsked :
         LET c == xSpiAsked[i]
         IN  /\ xSpi.bits \ {"SPE", "SSI"} = c.device \cup BusBits(c.bus) \cup c.other
             /\ xSpi.BR = c.BR

=============================================================================
