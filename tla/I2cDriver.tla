-------------------------------- MODULE I2cDriver --------------------------------
(***************************************************************************)
(* I2C.c with one I2C as master: interrupt driven and blocking transfers,  *)
(* the event handler branch by branch, the error handler, and the bus with *)
(* a slave that may refuse its address or a byte.  The application starts  *)
(* transfers from tasks and its callback closes a refused one, as          *)
(* I2C_interrupt_send_receive.c does.  Bytes are numbered from 1.          *)
(***************************************************************************)
EXTENDS Naturals, Sequences

CONSTANTS
    I2cSizes,         \* bytes per transfer; a transfer of none is never asked for
    I2cRepeated,      \* the values of RS_enable the application passes
    I2cSendAfterRS,   \* the application sends after a send that keeps the bus
    I2cPrompt         \* the handler, or the polling task, takes less than a byte's time

ASSUME I2cSizesAssumption == I2cSizes \subseteq Nat \ {0} /\ I2cRepeated \subseteq BOOLEAN

VARIABLES
    iState, iLen, iNext, iRxSize, iRS,  \* I2C_Handle_t: TxRxstate, Tx_len or Rx_len, the byte
                                        \* p_Tx_buffer points to, Rx_size, repeated_start
    iCR2,                       \* ITBUFEN, ITEVTEN, ITERREN
    iStart, iStop, iAck,        \* CR1: START, STOP, ACK
    iBus,                       \* where the bus is; "sb" is SB set, "addressed ..." ADDR
    iDR, iShift, iBTF,          \* the byte to send, the one being sent, BTF
    iRDR, iRShift,              \* the bytes received and not read (full: RxNE)
    iAF,                        \* SR1.AF, the only error the bus shows here
    iCall, iLeft, iCopy,        \* the task: where it is, bytes left of a blocking call, CR2 as loaded
    iIsr, iEnabled,             \* the handler: its next branch, CR2 as it read it on entry
    iTotal, iMoved, iEvents,    \* the transfer: its size, the bytes moved, completions
    iBytesIn, iClobbered        \* bytes clocked in; a task's store of CR2 has lost the handler's

iHandle  == <<iState, iLen, iNext, iRxSize, iRS>>
iCR1     == <<iStart, iStop, iAck>>
iLine    == <<iBus, iDR, iShift, iBTF, iRDR, iRShift>>
iTask    == <<iCall, iLeft, iCopy>>
iIrq     == <<iIsr, iEnabled>>
iHistory == <<iTotal, iMoved, iEvents, iBytesIn>>
iVars    == <<iHandle, iCR1, iLine, iTask, iIrq, iHistory, iCR2, iAF, iClobbered>>

\* After I2C_init and I2C_periph_control, with I2C_ACK_ENABLE.
I2cInit ==
    /\ iState = "READY" /\ iLen = 0 /\ iNext = 1 /\ iRxSize = 0 /\ iRS = FALSE
    /\ iCR2 = {} /\ iStart = FALSE /\ iStop = FALSE /\ iAck = TRUE
    /\ iBus = "idle" /\ iDR = 0 /\ iShift = 0 /\ iBTF = FALSE /\ iRDR = 0 /\ iRShift = 0
    /\ iAF = FALSE /\ iCall = "none" /\ iLeft = 0 /\ iCopy = {}
    /\ iIsr = "out" /\ iEnabled = {}
    /\ iTotal = 0 /\ iMoved = <<>> /\ iEvents = 0 /\ iBytesIn = 0 /\ iClobbered = FALSE

TxE == iBus = "write" /\ iDR = 0
RxNE == iRDR # 0
Addressed == iBus \in {"addressed write", "addressed read"}

EventPending ==
    /\ "ITEVTEN" \in iCR2
    /\ iBus = "sb" \/ Addressed \/ iBTF \/ ("ITBUFEN" \in iCR2 /\ (TxE \/ RxNE))

ErrorPending == "ITERREN" \in iCR2 /\ iAF

I2cTaskRuns == iIsr = "out" /\ ~EventPending /\ ~ErrorPending

-----------------------------------------------------------------------------
\* Writes and reads of DR, SR1 having been read.
SendByte(byte) ==
    /\ IF iShift = 0 THEN iShift' = byte /\ UNCHANGED iDR ELSE iDR' = byte /\ UNCHANGED iShift
    /\ iBTF' = FALSE
    /\ UNCHANGED <<iBus, iRDR, iRShift>>
ReadByte ==
    /\ iMoved' = Append(iMoved, iRDR)
    /\ iRDR' = iRShift /\ iRShift' = 0

\* I2C_execute_addr_phase, and the reads of SR1 and SR2 that clear ADDR and let SCL go.
I2C_execute_addr_phase(rw) == iBus' = (IF rw = "write" THEN "address write" ELSE "address read")
I2C_clear_ADDR_flag == iBus' = (IF iBus = "addressed write" THEN "write" ELSE "read")

BeginTransfer(n) == iTotal' = n /\ iMoved' = <<>> /\ iEvents' = 0 /\ iBytesIn' = 0

\* What a call does up to the start condition.  Busy, an interrupt driven one returns; a
\* blocking one does not look, and the application keeps it apart.
Begin(state, n, rs) ==
    /\ I2cTaskRuns /\ iCall = "none"
    /\ iState = "READY"
    /\ I2cSendAfterRS \/ state = "BUSY_RX" \/ iBus # "write"
    /\ BeginTransfer(n)
    /\ iRS' = rs
    /\ iStart' = TRUE
    /\ UNCHANGED <<iStop, iAck, iLine, iCopy, iIrq, iCR2, iAF, iClobbered>>

I2C_master_send_IT(n, rs) ==
    /\ Begin("BUSY_TX", n, rs)
    /\ iState' = "BUSY_TX" /\ iLen' = n /\ iNext' = 1
    /\ iCall' = "ITBUFEN"
    /\ UNCHANGED <<iRxSize, iLeft>>

I2C_master_receive_IT(n, rs) ==
    /\ Begin("BUSY_RX", n, rs)
    /\ iState' = "BUSY_RX" /\ iLen' = n /\ iRxSize' = n
    /\ iCall' = "ITBUFEN"
    /\ UNCHANGED <<iNext, iLeft>>

\* CR2 |= bit, a load and a store, for each enable in turn.
I2cLoaded ==
    [ITBUFEN |-> "ITBUFEN loaded", ITEVTEN |-> "ITEVTEN loaded", ITERREN |-> "ITERREN loaded"]

I2cLoadCR2 ==
    /\ I2cTaskRuns /\ iCall \in {"ITBUFEN", "ITEVTEN", "ITERREN"}
    /\ iCopy' = iCR2
    /\ iCall' = I2cLoaded[iCall]
    /\ UNCHANGED <<iHandle, iCR1, iLine, iLeft, iIrq, iHistory, iCR2, iAF, iClobbered>>

I2cStoreCR2(bit, next) ==
    /\ I2cTaskRuns /\ iCall = I2cLoaded[bit]
    /\ iCR2' = iCopy \cup {bit}
    /\ iClobbered' = (iCopy # iCR2)
    /\ iCopy' = {}
    /\ iCall' = next
    /\ UNCHANGED <<iHandle, iCR1, iLine, iLeft, iIrq, iHistory, iAF>>

\* I2C_master_send and I2C_master_receive, and the flag each wait of theirs polls.
FlagUp ==
    \/ iCall \in {"send SB", "receive SB"} /\ iBus = "sb"
    \/ iCall \in {"send ADDR", "receive ADDR"} /\ Addressed
    \/ iCall = "send" /\ TxE /\ (iLeft > 0 \/ iBTF)
    \/ iCall = "receive" /\ RxNE

I2C_master_send(n, rs) ==
    /\ Begin("BUSY_TX", n, rs)
    /\ iCall' = "send SB" /\ iLeft' = n
    /\ UNCHANGED <<iState, iLen, iNext, iRxSize>>

I2C_master_receive(n, rs) ==
    /\ Begin("BUSY_RX", n, rs)
    /\ iCall' = "receive SB" /\ iLeft' = n
    /\ UNCHANGED <<iState, iLen, iNext, iRxSize>>

Blocking(from, to) ==
    /\ I2cTaskRuns /\ iCall = from /\ FlagUp
    /\ iCall' = to
    /\ UNCHANGED <<iHandle, iStart, iCopy, iIrq, iCR2, iAF, iClobbered>>

SendAddress ==
    /\ \/ Blocking("send SB", "send ADDR") /\ I2C_execute_addr_phase("write")
       \/ Blocking("receive SB", "receive ADDR") /\ I2C_execute_addr_phase("read")
    /\ UNCHANGED <<iStop, iAck, iDR, iShift, iBTF, iRDR, iRShift, iLeft, iHistory>>

\* One byte to receive: ACK is off before ADDR is cleared.
ClearAddress ==
    /\ \/ Blocking("send ADDR", "send") /\ UNCHANGED iAck
       \/ Blocking("receive ADDR", "receive") /\ iAck' = (iLeft # 1)
    /\ I2C_clear_ADDR_flag
    /\ UNCHANGED <<iStop, iDR, iShift, iBTF, iRDR, iRShift, iLeft, iHistory>>

SendNext ==
    /\ iLeft > 0
    /\ Blocking("send", "send")
    /\ SendByte(iTotal - iLeft + 1)
    /\ iLeft' = iLeft - 1
    /\ UNCHANGED <<iStop, iAck, iHistory>>

SendEnd ==
    /\ iLeft = 0
    /\ Blocking("send", "none")
    /\ iStop' = ~iRS
    /\ iEvents' = iEvents + 1
    /\ UNCHANGED <<iAck, iLine, iLeft, iTotal, iMoved, iBytesIn>>

\* Before the last byte but one is read (or the only one), ACK goes off and STOP is asked for.
ReceiveNext ==
    /\ Blocking("receive", IF iLeft = 1 THEN "none" ELSE "receive")
    /\ ReadByte
    /\ iLeft' = iLeft - 1
    /\ iStop' = (iStop \/ (~iRS /\ (iLeft = 2 \/ iTotal = 1)))
    /\ iAck' = (iLeft = 1 \/ (iAck /\ iLeft # 2))
    /\ iEvents' = (IF iLeft = 1 THEN iEvents + 1 ELSE iEvents)
    /\ UNCHANGED <<iBus, iDR, iShift, iBTF, iBytesIn, iTotal>>

I2cTaskStep ==
    \/ I2cLoadCR2
    \/ I2cStoreCR2("ITBUFEN", "ITEVTEN") \/ I2cStoreCR2("ITEVTEN", "ITERREN")
    \/ I2cStoreCR2("ITERREN", "none")
    \/ SendAddress \/ ClearAddress \/ SendNext \/ SendEnd \/ ReceiveNext

-----------------------------------------------------------------------------
\* I2C_EV_IRQ_handling, one action per branch; its enables are those read on entry.
I2cEnterHandler ==
    /\ iIsr = "out" /\ EventPending
    /\ iIsr' = "SB" /\ iEnabled' = iCR2
    /\ UNCHANGED <<iHandle, iCR1, iLine, iTask, iHistory, iCR2, iAF, iClobbered>>

Branch(from, to) ==
    /\ iIsr = from /\ iIsr' = to
    /\ UNCHANGED <<iEnabled, iTask, iAF, iClobbered, iStart>>

CheckSB ==
    /\ Branch("SB", "ADDR")
    /\ IF iBus = "sb" /\ iState # "READY"
         THEN I2C_execute_addr_phase(IF iState = "BUSY_RX" THEN "read" ELSE "write")
         ELSE UNCHANGED iBus
    /\ UNCHANGED <<iHandle, iStop, iAck, iDR, iShift, iBTF, iRDR, iRShift, iHistory, iCR2>>

\* The read of SR2 for MSL follows one of SR1 and clears ADDR by itself: the only clear
\* of a reception of several bytes, and before ACK is off for one of a single byte.
CheckADDR ==
    /\ Branch("ADDR", IF Addressed /\ iState = "BUSY_RX" /\ iRxSize = 1 THEN "ACK" ELSE "BTF")
    /\ IF Addressed THEN I2C_clear_ADDR_flag ELSE UNCHANGED iBus
    /\ UNCHANGED <<iHandle, iStop, iAck, iDR, iShift, iBTF, iRDR, iRShift, iHistory, iCR2>>

\* Fault: ACK stays on.
OnlyByte_Acknowledged == iAck' = iAck
OnlyByte == iAck' = FALSE

DisableAck ==
    /\ Branch("ACK", "BTF")
    /\ OnlyByte
    /\ UNCHANGED <<iHandle, iStop, iLine, iHistory, iCR2>>

I2C_close_send ==
    /\ iCR2' = iCR2 \ {"ITBUFEN", "ITEVTEN"}
    /\ iState' = "READY" /\ iLen' = 0
    /\ iAck' = TRUE
    /\ UNCHANGED <<iNext, iRxSize, iRS>>

I2C_close_receive ==
    /\ iCR2' = iCR2 \ {"ITBUFEN", "ITEVTEN"}
    /\ iState' = "READY" /\ iLen' = 0 /\ iRxSize' = 0
    /\ iAck' = TRUE
    /\ UNCHANGED <<iNext, iRS>>

\* STOPF and the DATA_REQ and DATA_REC branches belong to the slave's side.
CheckBTF ==
    /\ Branch("BTF", "TXE")
    /\ IF iBTF /\ iState = "BUSY_TX" /\ TxE
         THEN /\ iStop' = (iStop \/ (iLen = 0 /\ ~iRS))
              /\ I2C_close_send
              /\ iEvents' = iEvents + 1
         ELSE UNCHANGED <<iHandle, iStop, iAck, iCR2, iEvents>>
    /\ UNCHANGED <<iLine, iTotal, iMoved, iBytesIn>>

\* Fault: a byte goes out for every TXE.
MoreToSend_Always == TRUE
MoreToSend == iLen > 0

I2C_master_TXE_handler ==
    /\ SendByte(iNext)
    /\ iNext' = iNext + 1
    /\ iLen' = iLen - 1

CheckI2cTXE ==
    /\ Branch("TXE", "RXNE")
    /\ IF {"ITBUFEN", "ITEVTEN"} \subseteq iEnabled /\ TxE /\ iState = "BUSY_TX" /\ MoreToSend
         THEN I2C_master_TXE_handler
         ELSE UNCHANGED <<iLine, iNext, iLen>>
    /\ UNCHANGED <<iState, iRxSize, iRS, iStop, iAck, iHistory, iCR2>>

I2C_master_RXNE_handler ==
    /\ ReadByte
    /\ IF iLen = 1
         THEN /\ iStop' = (iStop \/ ~iRS)
              /\ I2C_close_receive
              /\ iEvents' = iEvents + 1
         ELSE /\ iLen' = iLen - 1
              /\ iAck' = (iAck /\ iLen # 2)
              /\ UNCHANGED <<iState, iNext, iRxSize, iRS, iStop, iCR2, iEvents>>

CheckI2cRXNE ==
    /\ Branch("RXNE", "out")
    /\ IF {"ITBUFEN", "ITEVTEN"} \subseteq iEnabled /\ RxNE /\ iBus # "idle" /\ iState = "BUSY_RX"
         THEN I2C_master_RXNE_handler
         ELSE UNCHANGED <<iHandle, iStop, iAck, iCR2, iRDR, iRShift, iMoved, iEvents>>
    /\ UNCHANGED <<iBus, iDR, iShift, iBTF, iBytesIn, iTotal>>

\* Fault: the flag stays set.
ClearAF_Not == UNCHANGED iAF
ClearAF == iAF' = FALSE

\* I2C_ER_IRQ_handling, and the callback on I2C_ER_AF: it closes the transfer and stops.
I2C_ER_IRQ_handling ==
    /\ iIsr = "out" /\ ErrorPending
    /\ ClearAF
    /\ I2C_close_send
    /\ iStop' = TRUE
    /\ UNCHANGED <<iStart, iLine, iTask, iIrq, iHistory, iClobbered>>

I2cHandlerStep ==
    \/ I2cEnterHandler \/ CheckSB \/ CheckADDR \/ DisableAck \/ CheckBTF \/ CheckI2cTXE
    \/ CheckI2cRXNE \/ I2C_ER_IRQ_handling

-----------------------------------------------------------------------------
\* The bus.  When they are prompt, the handler and the polling task have done what the
\* flags call for before the next byte ends.
HandlerHasWork ==
    /\ EventPending
    /\ \/ iState = "BUSY_TX" /\ TxE /\ (iBTF \/ iLen > 0)
       \/ iState = "BUSY_RX" /\ RxNE

BusStep ==
    /\ I2cPrompt => iIsr = "out" /\ ~HandlerHasWork /\ ~ErrorPending /\ ~FlagUp
    /\ UNCHANGED <<iHandle, iAck, iTask, iIrq, iTotal, iEvents, iCR2, iClobbered>>

\* START and STOP take effect after the byte that is under way, when nothing is left to send,
\* and clear BTF.
StartCondition ==
    /\ BusStep
    /\ iStart /\ ~iStop /\ iBus \in {"idle", "write", "refused"}
    /\ iShift = 0 /\ iDR = 0
    /\ iBus' = "sb" /\ iStart' = FALSE /\ iBTF' = FALSE
    /\ UNCHANGED <<iStop, iDR, iShift, iRDR, iRShift, iBytesIn, iAF, iMoved>>

StopCondition ==
    /\ BusStep
    /\ iStop /\ iBus \in {"write", "refused"}
    /\ iShift = 0 /\ iDR = 0
    /\ iBus' = "idle" /\ iStop' = FALSE /\ iBTF' = FALSE
    /\ UNCHANGED <<iStart, iDR, iShift, iRDR, iRShift, iBytesIn, iAF, iMoved>>

SlaveAnswersAddress ==
    /\ BusStep
    /\ \/ iBus = "address write" /\ iBus' = "addressed write" /\ UNCHANGED iAF
       \/ iBus = "address read" /\ iBus' = "addressed read" /\ UNCHANGED iAF
       \/ iBus \in {"address write", "address read"} /\ iBus' = "refused" /\ iAF' = TRUE
    /\ UNCHANGED <<iStart, iStop, iDR, iShift, iBTF, iRDR, iRShift, iBytesIn, iMoved>>

ByteOut ==
    /\ BusStep
    /\ iBus = "write" /\ iShift # 0
    /\ \/ /\ iMoved' = Append(iMoved, iShift)
          /\ iShift' = iDR /\ iDR' = 0 /\ iBTF' = (iDR = 0)
          /\ UNCHANGED <<iBus, iAF>>
       \/ /\ iBus' = "refused" /\ iAF' = TRUE
          /\ iShift' = 0 /\ iDR' = 0
          /\ UNCHANGED <<iMoved, iBTF>>
    /\ UNCHANGED <<iStart, iStop, iRDR, iRShift, iBytesIn>>

\* A byte that is not acknowledged is the last the slave sends.
ByteIn ==
    /\ BusStep
    /\ iBus = "read" /\ iRShift = 0
    /\ iBytesIn' = iBytesIn + 1
    /\ IF iRDR = 0 THEN iRDR' = iBytesIn' /\ UNCHANGED iRShift
                   ELSE iRShift' = iBytesIn' /\ UNCHANGED iRDR
    /\ iBus' = (IF iAck THEN "read" ELSE "refused")
    /\ UNCHANGED <<iStart, iStop, iDR, iShift, iBTF, iAF, iMoved>>

I2cBus == StartCondition \/ StopCondition \/ SlaveAnswersAddress \/ ByteOut \/ ByteIn

I2cCall ==
    \E n \in I2cSizes, rs \in I2cRepeated :
        \/ I2C_master_send_IT(n, rs) \/ I2C_master_receive_IT(n, rs)
        \/ I2C_master_send(n, rs) \/ I2C_master_receive(n, rs)

\* Bound: the run goes no further than the first store that loses the handler's.
I2cNext == ~iClobbered /\ (I2cCall \/ I2cTaskStep \/ I2cHandlerStep \/ I2cBus)

\* The handlers and the bus go on by themselves; the task runs in the gaps.
I2cFairness ==
    /\ WF_iVars(~iClobbered /\ I2cHandlerStep)
    /\ SF_iVars(~iClobbered /\ I2cBus)
    /\ SF_iVars(~iClobbered /\ I2cTaskStep)

I2cSpec == I2cInit /\ [][I2cNext]_iVars /\ I2cFairness

-----------------------------------------------------------------------------
BlockingCall == iCall \in {"send SB", "send ADDR", "send", "receive SB", "receive ADDR", "receive"}

I2cTransfer == INSTANCE Transfer WITH
    Sizes <- I2cSizes, active <- iState # "READY" \/ BlockingCall, size <- iTotal,
    moved <- iMoved, reports <- iEvents

\* A transfer the slave does not refuse moves every byte of the buffer, in order and once,
\* and is reported complete once, after the last: the event handler's branches, run on
\* flags the bus changes under them, never close it early nor load a byte twice.
I2cMoves == I2cTransfer!Init /\ [][iAF \/ I2cTransfer!Next]_<<I2cTransfer!vars>>

\* The slave is asked for no byte more than the reception's length: the last one is not
\* acknowledged (the comment in I2C_master_receive and the two handlers that clear ACK).
I2cLastByteRefused == iBytesIn <= iTotal

\* An interrupt driven transfer ends, complete or refused, and leaves no interrupt that is
\* taken for ever: the state is ready again and the task runs.
I2cTransfersEnd == iState # "READY" ~> (iState = "READY" /\ I2cTaskRuns) \/ iClobbered

=============================================================================
