---------------------------------- MODULE Gpio ----------------------------------
(***************************************************************************)
(* GPIO.c: configuring the pins of the ports, the external interrupts they *)
(* raise, and writing outputs.  A register is the set of the positions of  *)
(* its bits that are 1, so that a field that is cleared or shifted wrongly *)
(* shows in its neighbours.                                                *)
(***************************************************************************)
EXTENDS Naturals

CONSTANTS
    GPins,       \* the pins used: pairs of a port and a number
    GConfigs,    \* records of mode, out, speed, pupd, alt: what GPIO_init is asked for
    GKeep,       \* a pin given to an interrupt line stays its only source
    GPrompt,     \* an edge arrives when the handler has served the ones before
    GShared      \* both writers use both ports

Ports   == {"GPIOA", "GPIOC"}
Writers == {1, 2}

\* GPIO.h: the numbers of the pins and the values of the configuration's fields.
ASSUME GPinsAssumption == GPins \subseteq Ports \X (0 .. 15)
ASSUME GConfigsAssumption ==
    GConfigs \subseteq [mode : 0 .. 6, out : 0 .. 1, speed : 0 .. 3, pupd : 0 .. 3, alt : 0 .. 15]

VARIABLES
    gUse,           \* bound: a run configures pins and takes their edges, or writes outputs
    gRegs,          \* port -> its MODER, OTYPER, OSPEEDR, PUPDR, AFR
    gAsked,         \* <<port, pin>> -> the last configuration, or none
    gEXTICR, gRTSR, gFTSR, gIMR, gPR,   \* SYSCFG and EXTI
    gSeen,          \* the lines with an edge not served yet
    gODR, gWritten, \* port -> the outputs that are 1, and that should be
    gLoaded         \* writer -> the value of ODR it has read, with the port, or none

gExti == <<gEXTICR, gRTSR, gFTSR, gIMR>>
gOut  == <<gODR, gWritten, gLoaded>>
gVars == <<gUse, gRegs, gAsked, gExti, gPR, gSeen, gOut>>

-----------------------------------------------------------------------------
Bits(v, from) == {from + i : i \in {j \in 0 .. 3 : (v \div 2 ^ j) % 2 = 1}}
Field(pin, width) == width * pin .. width * pin + width - 1
Value(reg, pin, width) ==
    LET Bit(i) == IF width * pin + i \in reg THEN 2 ^ i ELSE 0
    IN  Bit(0) + (IF width > 1 THEN Bit(1) ELSE 0) + (IF width > 2 THEN Bit(2) + Bit(3) ELSE 0)

\* temp &= ~(mask << pos); temp |= value << pos.
Put(reg, pin, width, v) == (reg \ Field(pin, width)) \cup Bits(v, width * pin)

IsInterrupt(c) == c.mode > 3
IsOutput(c) == c.mode \in {1, 2}

GPIO_BASEADDR_TO_CODE == [GPIOA |-> 0, GPIOC |-> 2]

\* The pin's fields.  AFR is the two registers side by side.
ConfiguredRegs(r, pin, c) ==
    [MODER   |-> Put(r.MODER, pin, 2, IF IsInterrupt(c) THEN 0 ELSE c.mode),
     OTYPER  |-> IF IsOutput(c) THEN Put(r.OTYPER, pin, 1, c.out) ELSE r.OTYPER,
     OSPEEDR |-> IF IsOutput(c) THEN Put(r.OSPEEDR, pin, 2, c.speed) ELSE r.OSPEEDR,
     PUPDR   |-> Put(r.PUPDR, pin, 2, c.pupd),
     AFR     |-> IF c.mode = 2 THEN Put(r.AFR, pin, 4, c.alt) ELSE r.AFR]

\* The edges of the line; the port's code is or-ed into EXTICR, and IMR is set.
ConfigureLine(port, pin, c) ==
    /\ gFTSR' = IF c.mode = 5 THEN gFTSR \ {pin} ELSE gFTSR \cup {pin}
    /\ gRTSR' = IF c.mode = 4 THEN gRTSR \ {pin} ELSE gRTSR \cup {pin}
    /\ gEXTICR' = gEXTICR \cup Bits(GPIO_BASEADDR_TO_CODE[port], 4 * pin)
    /\ gIMR' = gIMR \cup {pin}

GpioInit ==
    /\ gUse \in {"pins", "outputs"}
    /\ gRegs = [p \in Ports |-> [MODER |-> {}, OTYPER |-> {}, OSPEEDR |-> {}, PUPDR |-> {}, AFR |-> {}]]
    /\ gAsked = [x \in GPins |-> <<>>]
    /\ gEXTICR = {} /\ gRTSR = {} /\ gFTSR = {} /\ gIMR = {} /\ gPR = {} /\ gSeen = {}
    /\ gODR = [p \in Ports |-> {}] /\ gWritten = gODR
    /\ gLoaded = [w \in Writers |-> <<>>]

\* The pin whose port a line was given, if any.
Sources(pin) ==
    {p \in Ports : <<p, pin>> \in GPins
                      /\ \E i \in DOMAIN gAsked[<<p, pin>>] : IsInterrupt(gAsked[<<p, pin>>][i])}

GPIO_init(port, pin, c) ==
    /\ GKeep => IF port \in Sources(pin) THEN IsInterrupt(c)
                                         ELSE IsInterrupt(c) => Sources(pin) = {}
    /\ gRegs' = [gRegs EXCEPT ![port] = ConfiguredRegs(@, pin, c)]
    /\ gAsked' = [gAsked EXCEPT ![<<port, pin>>] = <<c>>]
    /\ IF IsInterrupt(c) THEN ConfigureLine(port, pin, c) ELSE UNCHANGED gExti
    /\ UNCHANGED <<gUse, gPR, gSeen, gOut>>

-----------------------------------------------------------------------------
\* Input: an edge on a pin sets the line's bit in PR if EXTICR selects the pin's port and
\* the line has that edge.  A program is owed the edges its configuration names.
Selected(port, pin) == Value(gEXTICR, pin, 4) = GPIO_BASEADDR_TO_CODE[port]
Edge(port, pin, rising) ==
    LET wanted == {i \in DOMAIN gAsked[<<port, pin>>] :
                       gAsked[<<port, pin>>][i].mode \in {IF rising THEN 5 ELSE 4, 6}}
    IN  /\ GPrompt => gPR = {}
        /\ gPR' = IF Selected(port, pin) /\ pin \in IF rising THEN gRTSR ELSE gFTSR
                  THEN gPR \cup {pin} ELSE gPR
        /\ gSeen' = IF wanted # {} THEN gSeen \cup {pin} ELSE gSeen
        /\ UNCHANGED <<gUse, gRegs, gAsked, gExti, gOut>>

\* PR |= 1 << pin writes back, and so clears, every line that is pending.
\* Fault: the bit is written with 0.
ClearPending_Not(pin) == gPR
ClearPending(pin) == {}

\* The handler of the line calls GPIO_IRQ_handler for the pin.
GPIO_IRQ_handler(pin) ==
    /\ pin \in gPR \cap gIMR
    /\ gPR' = ClearPending(pin)
    /\ gSeen' = gSeen \ {pin}
    /\ UNCHANGED <<gUse, gRegs, gAsked, gExti, gOut>>

-----------------------------------------------------------------------------
\* The outputs: ODR is read, changed and stored; another task may run in between.
LoadODR(w, port) ==
    /\ gLoaded[w] = <<>>
    /\ GShared \/ port = IF w = 1 THEN "GPIOA" ELSE "GPIOC"
    /\ gLoaded' = [gLoaded EXCEPT ![w] = <<port, gODR[port]>>]
    /\ UNCHANGED <<gUse, gRegs, gAsked, gExti, gPR, gSeen, gODR, gWritten>>

With(outputs, pin, val) == IF val THEN outputs \cup {pin} ELSE outputs \ {pin}

StoreODR(w, pin, val, toggle) ==
    /\ gLoaded[w] # <<>>
    /\ LET port == gLoaded[w][1]
           old  == gLoaded[w][2]
       IN  /\ toggle => val = (pin \notin old)
           /\ gODR' = [gODR EXCEPT ![port] = With(old, pin, val)]
           /\ gWritten' = [gWritten EXCEPT ![port] =
                  With(@, pin, IF toggle THEN pin \notin @ ELSE val)]
    /\ gLoaded' = [gLoaded EXCEPT ![w] = <<>>]
    /\ UNCHANGED <<gUse, gRegs, gAsked, gExti, gPR, gSeen>>

GPIO_write_output_pin(w, pin, val) == StoreODR(w, pin, val, FALSE)
GPIO_toggle_output_pin(w, pin) == \E val \in BOOLEAN : StoreODR(w, pin, val, TRUE)

-----------------------------------------------------------------------------
PinEvent(port, pin) ==
    \/ \E c \in GConfigs : GPIO_init(port, pin, c)
    \/ \E rising \in BOOLEAN : Edge(port, pin, rising)
    \/ GPIO_IRQ_handler(pin)

Output(w, port, pin) ==
    \/ LoadODR(w, port)
    \/ \E val \in BOOLEAN : GPIO_write_output_pin(w, pin, val)
    \/ GPIO_toggle_output_pin(w, pin)

GpioNext ==
    \E x \in GPins :
       \/ gUse = "pins" /\ PinEvent(x[1], x[2])
       \/ gUse = "outputs" /\ \E w \in Writers : Output(w, x[1], x[2])

GpioSpec == GpioInit /\ [][GpioNext]_gVars

-----------------------------------------------------------------------------
\* Each pin is configured, and drives its output, as it was last asked to, whatever was done
\* to the pins it shares its registers with; and the lines pending are those with an edge
\* the program asked for and has not served (GPIO.c:310, "clears the pending interrupt of
\* the given pin").
GpioAsAsked ==
    /\ \A x \in GPins : \A i \in DOMAIN gAsked[x] :
         LET c == gAsked[x][i]
             r == gRegs[x[1]]
             pin == x[2]
         IN  /\ Value(r.MODER, pin, 2) = IF IsInterrupt(c) THEN 0 ELSE c.mode
             /\ Value(r.PUPDR, pin, 2) = c.pupd
             /\ IsOutput(c) => Value(r.OTYPER, pin, 1) = c.out /\ Value(r.OSPEEDR, pin, 2) = c.speed
             /\ c.mode = 2 => Value(r.AFR, pin, 4) = c.alt
    /\ gODR = gWritten
    /\ gPR = gSeen

=============================================================================
