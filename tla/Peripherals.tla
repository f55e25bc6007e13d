------------------------------ MODULE Peripherals ------------------------------
(***************************************************************************)
(* The clocks, resets and interrupt lines of the peripherals: the tables   *)
(* of STM32F446xx.h, the dispatch of each driver's clock_control, deinit   *)
(* and IRQ_config, and the vector table of startup.c.  Everything is asked *)
(* for through one table and takes effect through another.                 *)
(***************************************************************************)
EXTENDS Naturals

CONSTANTS
    PPeripherals,   \* the peripherals whose clocks and registers are used
    PLines,         \* the interrupt lines used
    PSwitches       \* what IRQ_config is called with: TRUE to enable, FALSE to disable

VARIABLES
    pUsed,                  \* bound: the two peripherals or lines this run uses
    pENR,                   \* the bits set in RCC's clock enable registers
    pRegs,                  \* the peripherals whose registers hold a configuration
    pISER,                  \* the interrupt numbers enabled in the NVIC
    pHandler,               \* the handler that runs: "none", a line's, or "Default_Handler"
    pClocked, pSetUp, pOn,  \* what was asked: clocks, configurations, lines
    pTaken                  \* of pOn, those with a line of their word disabled since

pRcc  == <<pENR, pRegs, pClocked, pSetUp>>
pNvic == <<pISER, pHandler, pOn, pTaken>>
pVars == <<pUsed, pRcc, pNvic>>

-----------------------------------------------------------------------------
\* The bit of the xxx_PCLK_EN macros.
EnableBit ==
    [GPIOA |-> <<"AHB1", 0>>, GPIOB |-> <<"AHB1", 1>>, GPIOC |-> <<"AHB1", 2>>,
     GPIOD |-> <<"AHB1", 3>>, GPIOE |-> <<"AHB1", 4>>, GPIOF |-> <<"AHB1", 5>>,
     GPIOG |-> <<"AHB1", 6>>, GPIOH |-> <<"AHB1", 7>>,
     I2C1 |-> <<"APB1", 21>>, I2C2 |-> <<"APB1", 22>>, I2C3 |-> <<"APB1", 23>>,
     SPI1 |-> <<"APB2", 12>>, SPI2 |-> <<"APB1", 14>>, SPI3 |-> <<"APB1", 15>>,
     SPI4 |-> <<"APB2", 13>>,
     USART1 |-> <<"APB2", 4>>, USART2 |-> <<"APB1", 17>>, USART3 |-> <<"APB1", 18>>,
     UART4 |-> <<"APB1", 19>>, UART5 |-> <<"APB1", 20>>, USART6 |-> <<"APB2", 5>>,
     CAN1 |-> <<"APB1", 25>>, CAN2 |-> <<"APB1", 26>>]

\* The bits of xxx_PCLK_DI and of xxx_REG_RESET are the same ones.
\* Fault: SPI4 has the bit of SPI1.
DisableBit_Copied == [EnableBit EXCEPT !.SPI4 = <<"APB2", 12>>]
DisableBit == EnableBit
ResetBit   == EnableBit

\* Where the xxx_BASEADDR macros place a peripheral, in blocks of 1 KB from PERIPH_BASEADDR.
Block ==
    [GPIOA |-> 128, GPIOB |-> 129, GPIOC |-> 130, GPIOD |-> 131, GPIOE |-> 132, GPIOF |-> 144,
     GPIOG |-> 160, GPIOH |-> 176, I2C1 |-> 21, I2C2 |-> 22, I2C3 |-> 23,
     SPI1 |-> 76, SPI2 |-> 14, SPI3 |-> 15, SPI4 |-> 77, USART1 |-> 68, USART2 |-> 17,
     USART3 |-> 18, UART4 |-> 19, UART5 |-> 20, USART6 |-> 69, CAN1 |-> 25, CAN2 |-> 26]

\* Where the device has it: the ports follow each other.
DeviceBlock == [Block EXCEPT !.GPIOF = 133, !.GPIOG = 134, !.GPIOH = 135]

Gpios  == {"GPIOA", "GPIOB", "GPIOC", "GPIOD", "GPIOE", "GPIOF", "GPIOG", "GPIOH"}
Spis   == {"SPI1", "SPI2", "SPI3", "SPI4"}
I2cs   == {"I2C1", "I2C2", "I2C3"}
Usarts == {"USART1", "USART2", "USART3", "UART4", "UART5", "USART6"}
Cans   == {"CAN1", "CAN2"}

\* The number of the IRQ_NO_xxx macros.
IrqNo ==
    [EXTI0 |-> 6, EXTI1 |-> 7, EXTI2 |-> 8, EXTI3 |-> 9, EXTI4 |-> 10, EXTI9_5 |-> 23,
     EXTI15_10 |-> 40, SPI1 |-> 35, SPI2 |-> 36, SPI3 |-> 51, SPI4 |-> 84,
     I2C1_EV |-> 31, I2C1_ER |-> 32, I2C2_EV |-> 33, I2C2_ER |-> 34,
     I2C3_EV |-> 72, I2C3_ER |-> 73,
     USART1 |-> 37, USART2 |-> 38, USART3 |-> 39, UART4 |-> 52, UART5 |-> 53, USART6 |-> 71,
     CAN1_TX |-> 19, CAN1_RX0 |-> 20, CAN1_RX1 |-> 21, CAN1_SCE |-> 22,
     CAN2_TX |-> 72, CAN2_RX0 |-> 73, CAN2_RX1 |-> 74, CAN2_SCE |-> 75]

\* Where vectors[] has the handler of a line.
Vector ==
    [EXTI0 |-> 6, EXTI1 |-> 7, EXTI2 |-> 8, EXTI3 |-> 9, EXTI4 |-> 10, EXTI9_5 |-> 23,
     EXTI15_10 |-> 40, SPI1 |-> 35, SPI2 |-> 36, SPI3 |-> 51, SPI4 |-> 84,
     I2C1_EV |-> 31, I2C1_ER |-> 32, I2C2_EV |-> 33, I2C2_ER |-> 34,
     I2C3_EV |-> 72, I2C3_ER |-> 73,
     USART1 |-> 37, USART2 |-> 38, USART3 |-> 39, UART4 |-> 52, UART5 |-> 53, USART6 |-> 71,
     CAN1_TX |-> 19, CAN1_RX0 |-> 20, CAN1_RX1 |-> 21, CAN1_SCE |-> 22,
     CAN2_TX |-> 63, CAN2_RX0 |-> 64, CAN2_RX1 |-> 65, CAN2_SCE |-> 66]

ASSUME PAssumption == /\ PPeripherals \subseteq DOMAIN EnableBit
                      /\ PLines \subseteq DOMAIN IrqNo
                      /\ PSwitches \subseteq BOOLEAN

PeripheralsInit ==
    /\ \E a, b \in PPeripherals \cup PLines : pUsed = {a, b}
    /\ pENR = {} /\ pRegs = {} /\ pISER = {} /\ pHandler = "none"
    /\ pClocked = {} /\ pSetUp = {} /\ pOn = {} /\ pTaken = {}

-----------------------------------------------------------------------------
\* The chains of comparisons have no branch for GPIOG: a call for it returns having done nothing.
OwnBit(p, bit) == IF p = "GPIOG" THEN {} ELSE {bit[p]}

ClockControl(p, enable) ==
    /\ p \in pUsed
    /\ pENR' = IF enable THEN pENR \cup OwnBit(p, EnableBit) ELSE pENR \ OwnBit(p, DisableBit)
    /\ pClocked' = IF enable THEN pClocked \cup {p} ELSE pClocked \ {p}
    /\ UNCHANGED <<pUsed, pRegs, pSetUp, pNvic>>

GPIO_clock_control(p, enable)  == p \in Gpios /\ ClockControl(p, enable)
SPI_clock_control(p, enable)   == p \in Spis /\ ClockControl(p, enable)
I2C_clock_control(p, enable)   == p \in I2cs /\ ClockControl(p, enable)
USART_clock_control(p, enable) == p \in Usarts /\ ClockControl(p, enable)
CAN_clock_control(p, enable)   == p \in Cans /\ ClockControl(p, enable)

\* Writes at p's address reach the peripheral the device has there, if its clock is on.
Written(p, enr) ==
    {q \in DOMAIN DeviceBlock : DeviceBlock[q] = Block[p] /\ EnableBit[q] \in enr}

\* An init function writes the registers.  All but USART_init turn the clock on themselves.
PeripheralInit(p) ==
    /\ p \in pUsed \cap PPeripherals
    /\ p \in Usarts => p \in pClocked
    /\ pENR' = IF p \in Usarts THEN pENR ELSE pENR \cup OwnBit(p, EnableBit)
    /\ pRegs' = pRegs \cup Written(p, pENR')
    /\ pClocked' = pClocked \cup {p} /\ pSetUp' = pSetUp \cup {p}
    /\ UNCHANGED <<pUsed, pNvic>>

\* xxx_REG_RESET sets the bit and clears it again: the registers are as after reset.
Deinit(p) ==
    /\ p \in pUsed
    /\ pRegs' = {q \in pRegs : ResetBit[q] \notin OwnBit(p, ResetBit)}
    /\ pSetUp' = pSetUp \ {p}
    /\ UNCHANGED <<pUsed, pENR, pClocked, pNvic>>

GPIO_deinit(p)  == p \in Gpios /\ Deinit(p)
SPI_deinit(p)   == p \in Spis /\ Deinit(p)
I2C_deinit(p)   == p \in I2cs /\ Deinit(p)
USART_deinit(p) == p \in Usarts /\ Deinit(p)

-----------------------------------------------------------------------------
Word(n) == n \div 32

\* ISER and ICER both read back the lines that are enabled, and take an action for each bit
\* written with 1: ISER[w] |= bit writes the enabled ones again, ICER[w] |= bit disables them.
\* Fault: the bit is taken without the remainder, and falls out of the word.
SwitchLine_NoRemainder(n, enable) ==
    pISER' = IF enable THEN (IF n < 32 THEN pISER \cup {n} ELSE pISER)
                       ELSE {m \in pISER : Word(m) # Word(n)} \ {n}
SwitchLine(n, enable) ==
    pISER' = IF enable THEN pISER \cup {n}
                       ELSE {m \in pISER : Word(m) # Word(n)} \ {n}

IrqConfig(l, enable) ==
    /\ l \in pUsed
    /\ SwitchLine(IrqNo[l], enable)
    /\ pOn' = IF enable THEN pOn \cup {l} ELSE pOn \ {l}
    /\ pTaken' = (IF enable THEN pTaken
                   ELSE pTaken \cup {m \in pOn : Word(IrqNo[m]) = Word(IrqNo[l])}) \ {l}
    /\ UNCHANGED <<pUsed, pRcc, pHandler>>

ExtiLines == {"EXTI0", "EXTI1", "EXTI2", "EXTI3", "EXTI4", "EXTI9_5", "EXTI15_10"}
I2cLines  == {"I2C1_EV", "I2C1_ER", "I2C2_EV", "I2C2_ER", "I2C3_EV", "I2C3_ER"}
CanLines  == {"CAN1_TX", "CAN1_RX0", "CAN1_RX1", "CAN1_SCE",
              "CAN2_TX", "CAN2_RX0", "CAN2_RX1", "CAN2_SCE"}

GPIO_IRQ_config(l, enable)  == l \in ExtiLines /\ IrqConfig(l, enable)
SPI_IRQ_config(l, enable)   == l \in Spis /\ IrqConfig(l, enable)
I2C_IRQ_config(l, enable)   == l \in I2cLines /\ IrqConfig(l, enable)
USART_IRQ_config(l, enable) == l \in Usarts /\ IrqConfig(l, enable)
CanIrqControl(l, enable)    == l \in CanLines /\ IrqConfig(l, enable)

\* A line the NVIC has enabled is raised.  The application defines the handlers of the lines
\* it uses; the others are weak aliases of Default_Handler, which never returns.
Raise(l) ==
    /\ pHandler = "none"
    /\ Vector[l] \in pISER
    /\ pHandler' = IF l \in pUsed THEN l ELSE "Default_Handler"
    /\ UNCHANGED <<pUsed, pRcc, pISER, pOn, pTaken>>

HandlerReturns ==
    /\ pHandler \in pUsed
    /\ pHandler' = "none"
    /\ UNCHANGED <<pUsed, pRcc, pISER, pOn, pTaken>>

-----------------------------------------------------------------------------
PeripheralCall(p) ==
    \/ \E enable \in BOOLEAN :
         \/ GPIO_clock_control(p, enable) \/ SPI_clock_control(p, enable)
         \/ I2C_clock_control(p, enable) \/ USART_clock_control(p, enable)
         \/ CAN_clock_control(p, enable)
    \/ PeripheralInit(p)
    \/ GPIO_deinit(p) \/ SPI_deinit(p) \/ I2C_deinit(p) \/ USART_deinit(p)

LineCall(l, enable) ==
    \/ GPIO_IRQ_config(l, enable) \/ SPI_IRQ_config(l, enable) \/ I2C_IRQ_config(l, enable)
    \/ USART_IRQ_config(l, enable) \/ CanIrqControl(l, enable)

PeripheralsNext ==
    \/ pHandler = "none" /\ \E p \in PPeripherals : PeripheralCall(p)
    \/ pHandler = "none" /\ \E l \in PLines, enable \in PSwitches : LineCall(l, enable)
    \/ \E l \in DOMAIN Vector : Raise(l)
    \/ HandlerReturns

PeripheralsSpec == PeripheralsInit /\ [][PeripheralsNext]_pVars

-----------------------------------------------------------------------------
\* The device has other addresses for these (STM32F446xx.h:36-38).
Misplaced == {"GPIOF", "GPIOG", "GPIOH"}

\* The clocks that run are those asked for, and a peripheral holds the configuration it was
\* last given until it is reset, whatever is asked of another: enabling, disabling and
\* resetting go through three hand-written tables and four chains of comparisons, and a
\* configuration written with the clock off, or elsewhere, is lost.  Of "all GPIO ports (A-H)"
\* (hal.md:47) the clock of GPIOG never runs, and GPIOF, GPIOG and GPIOH are never configured.
PeripheralsAsAsked ==
    /\ pENR = {EnableBit[p] : p \in pClocked \ {"GPIOG"}}
    /\ pRegs = pSetUp \ Misplaced

Can2Lines == {"CAN2_TX", "CAN2_RX0", "CAN2_RX1", "CAN2_SCE"}

\* "Enables or disables the given IRQ number in the NVIC" (CAN.h, GPIO.c:281): a line that was
\* asked for stays enabled, at the place where vectors[] has its handler, until a call
\* disables a line of its word, with which it goes off although it is still asked for; no
\* other line is enabled.  Only the four lines of CAN2 are elsewhere: they enable the
\* numbers of others, and with them an interrupt may end in Default_Handler.
LinesAsAsked ==
    LET on == pOn \ pTaken
    IN  /\ pISER = {Vector[l] : l \in on \ Can2Lines} \cup {IrqNo[l] : l \in on \cap Can2Lines}
        /\ pHandler = "Default_Handler" => pOn \cap Can2Lines # {}

=============================================================================
