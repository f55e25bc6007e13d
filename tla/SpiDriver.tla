-------------------------------- MODULE SpiDriver --------------------------------
(***************************************************************************)
(* SPI.c on one SPI in master mode: the interrupt driven transfers, the    *)
(* blocking ones, and the handler, branch by branch.  Every word the       *)
(* master clocks out clocks one in.  A task's calls change CR2 by a load   *)
(* and a store with interrupts enabled; a pending interrupt is taken       *)
(* before the task goes on.  Words are numbered as in UsartDriver.         *)
(***************************************************************************)
EXTENDS Naturals, Sequences

CONSTANTS
    SpiTxSizes, SpiRxSizes,  \* words per transfer; a transfer of none is never asked for
    SpiWordBytes,            \* bytes of the buffer per word: 2 with DFF set
    SpiCallbackClears,       \* the callback clears an overrun during a transmission, as SPI.c:512 asks
    SpiEnables               \* ERRIE, which the application sets by itself, as no call does

ASSUME SpiSizesAssumption == SpiTxSizes \cup SpiRxSizes \subseteq Nat \ {0} /\ SpiWordBytes \in {1, 2}

VARIABLES
    sTxState, sTxLen, sTxNext,    \* SPI_Handle_t: Tx_state, Tx_len, the word at p_Tx_buffer
    sRxState, sRxLen, sRxBuffer,  \* Rx_state, Rx_len, the words stored
    sCR2,                         \* the driver's interrupt enables: TXEIE, RXNEIE
    sOVR,                         \* SR.OVR: "no", "set", or "read" once DR has been read
    sDR, sShift, sRDR,            \* transmit data (empty: TXE), shifter, receive data (full: RXNE)
    sCall, sLeft, sCopy,          \* the task: where it is, words left of a blocking call, CR2 as loaded
    sIsr,                         \* the handler: its next branch
    sTotal, sWritten, sTxEvents,  \* the transmission: its size, the words given to DR, completions
    sRxTotal, sRxEvents,          \* the reception: its size, completions
    sLost,                        \* a word of the reception was lost
    sClobbered                    \* a task's store has overwritten what the handler stored meanwhile

sTxVars == <<sTxState, sTxLen, sTxNext, sTotal, sWritten, sTxEvents>>
sRxVars == <<sRxState, sRxLen, sRxBuffer, sRxTotal, sRxEvents>>
sTxLine == <<sDR, sShift>>
sRxLine == <<sRDR, sOVR, sLost>>
sTask   == <<sCall, sLeft, sCopy>>
sVars   == <<sTxVars, sRxVars, sTxLine, sRxLine, sTask, sCR2, sIsr, sClobbered>>

SpiInit ==
    /\ sTxState = "READY" /\ sTxLen = 0 /\ sTxNext = 1
    /\ sTotal = 0 /\ sWritten = <<>> /\ sTxEvents = 0
    /\ sRxState = "READY" /\ sRxLen = 0 /\ sRxBuffer = <<>> /\ sRxTotal = 0 /\ sRxEvents = 0
    /\ sDR = 0 /\ sShift = 0 /\ sRDR = 0 /\ sOVR = "no" /\ sLost = FALSE
    /\ sCall = "none" /\ sLeft = 0 /\ sCopy = {} /\ sCR2 = {} /\ sIsr = "out"
    /\ sClobbered = FALSE

SpiSending   == sTxState = "BUSY_IN_TX" \/ sCall = "send"
SpiReceiving == sRxState = "BUSY_IN_RX" \/ sCall = "receive"

\* The conditions on which the SPI requests its interrupt.
SpiPending ==
    \/ sDR = 0 /\ "TXEIE" \in sCR2
    \/ sRDR # 0 /\ "RXNEIE" \in sCR2
    \/ sOVR # "no" /\ "ERRIE" \in SpiEnables

SpiTaskRuns == sIsr = "out" /\ ~SpiPending

\* OVR is cleared by a read of DR followed by one of SR.
AfterDR(ovr) == IF ovr = "set" THEN "read" ELSE ovr
AfterSR(ovr) == IF ovr = "read" THEN "no" ELSE ovr

-----------------------------------------------------------------------------
SpiStartTx(n) == sTotal' = n /\ sWritten' = <<>> /\ sTxEvents' = 0

\* A word left in DR from before is the first received.
SpiStartRx(n) ==
    /\ sRxTotal' = n /\ sRxBuffer' = <<>> /\ sRxEvents' = 0
    /\ sRDR' = (IF sRDR = 0 THEN 0 ELSE 1)
    /\ sLost' = FALSE

SpiPrepareTx(n) ==
    /\ sTxState # "BUSY_IN_TX"
    /\ sTxNext' = 1 /\ sTxLen' = n * SpiWordBytes
    /\ sTxState' = "BUSY_IN_TX"
    /\ SpiStartTx(n)
SpiPrepareRx(n) ==
    /\ sRxState # "BUSY_IN_RX"
    /\ sRxLen' = n * SpiWordBytes
    /\ sRxState' = "BUSY_IN_RX"
    /\ SpiStartRx(n)

\* SPI_send_IT and SPI_receive_IT up to the change of CR2; busy, they change nothing.
SPI_send_IT(n) ==
    /\ SpiTaskRuns /\ sCall = "none"
    /\ SpiPrepareTx(n)
    /\ sCall' = "TXEIE"
    /\ UNCHANGED <<sRxVars, sTxLine, sRxLine, sLeft, sCopy, sCR2, sIsr, sClobbered>>

SPI_receive_IT(n) ==
    /\ SpiTaskRuns /\ sCall = "none"
    /\ SpiPrepareRx(n)
    /\ sCall' = "RXNEIE"
    /\ UNCHANGED <<sTxVars, sTxLine, sOVR, sLeft, sCopy, sCR2, sIsr, sClobbered>>

\* CR2 |= bit, a load and a store.
SpiLoaded == [TXEIE |-> "TXEIE loaded", RXNEIE |-> "RXNEIE loaded"]

LoadCR2 ==
    /\ SpiTaskRuns /\ sCall \in {"TXEIE", "RXNEIE"}
    /\ sCopy' = sCR2
    /\ sCall' = SpiLoaded[sCall]
    /\ UNCHANGED <<sTxVars, sRxVars, sTxLine, sRxLine, sLeft, sCR2, sIsr, sClobbered>>

StoreCR2(bit) ==
    /\ SpiTaskRuns /\ sCall = SpiLoaded[bit]
    /\ sCR2' = sCopy \cup {bit}
    /\ sClobbered' = (sCopy # sCR2)
    /\ sCopy' = {}
    /\ sCall' = "none"
    /\ UNCHANGED <<sTxVars, sRxVars, sTxLine, sRxLine, sLeft, sIsr>>

\* SPI_send returns once its last word is in DR.  The application makes no blocking
\* transfer while an interrupt driven one of its direction runs.
SPI_send(n) ==
    /\ SpiTaskRuns /\ sCall = "none" /\ sTxState # "BUSY_IN_TX"
    /\ SpiStartTx(n)
    /\ sCall' = "send" /\ sLeft' = n
    /\ UNCHANGED <<sTxState, sTxLen, sTxNext, sRxVars, sTxLine, sRxLine, sCopy, sCR2, sIsr, sClobbered>>

SpiSendWord ==
    /\ SpiTaskRuns /\ sCall = "send"
    /\ sDR = 0
    /\ sDR' = sTotal - sLeft + 1
    /\ sWritten' = Append(sWritten, sDR')
    /\ sLeft' = sLeft - 1
    /\ sOVR' = AfterSR(sOVR)
    /\ IF sLeft' = 0 THEN sCall' = "none" /\ sTxEvents' = sTxEvents + 1
                     ELSE UNCHANGED <<sCall, sTxEvents>>
    /\ UNCHANGED <<sTxState, sTxLen, sTxNext, sTotal, sRxVars, sShift, sRDR, sLost, sCopy, sCR2,
                   sIsr, sClobbered>>

SPI_receive(n) ==
    /\ SpiTaskRuns /\ sCall = "none" /\ sRxState # "BUSY_IN_RX"
    /\ SpiStartRx(n)
    /\ sCall' = "receive" /\ sLeft' = n
    /\ UNCHANGED <<sRxState, sRxLen, sOVR, sTxVars, sTxLine, sCopy, sCR2, sIsr, sClobbered>>

SpiReceiveWord ==
    /\ SpiTaskRuns /\ sCall = "receive"
    /\ sRDR # 0
    /\ sRxBuffer' = Append(sRxBuffer, sRDR)
    /\ sRDR' = 0 /\ sOVR' = AfterDR(AfterSR(sOVR))
    /\ sLeft' = sLeft - 1
    /\ IF sLeft' = 0 THEN sCall' = "none" /\ sRxEvents' = sRxEvents + 1
                     ELSE UNCHANGED <<sCall, sRxEvents>>
    /\ UNCHANGED <<sRxState, sRxLen, sRxTotal, sLost, sTxVars, sTxLine, sCopy, sCR2, sIsr, sClobbered>>

SpiTaskStep ==
    \/ LoadCR2 \/ SpiSendWord \/ SpiReceiveWord
    \/ \E bit \in {"TXEIE", "RXNEIE"} : StoreCR2(bit)

-----------------------------------------------------------------------------
\* SPI_IRQ_handler, one action per branch and one per completion callback, from which
\* the application may start the next transfer.
SpiEnterHandler ==
    /\ sIsr = "out" /\ SpiPending
    /\ sIsr' = "TXE"
    /\ UNCHANGED <<sTxVars, sRxVars, sTxLine, sRxLine, sTask, sCR2, sClobbered>>

SPI_close_transmission == sTxState' = "READY" /\ sTxLen' = 0 /\ sTxNext' = 1 /\ sCR2' = sCR2 \ {"TXEIE"}
SPI_close_reception    == sRxState' = "READY" /\ sRxLen' = 0 /\ sCR2' = sCR2 \ {"RXNEIE"}

SPI_TXEIE_Handle ==
    /\ sDR' = sTxNext
    /\ sWritten' = Append(sWritten, sTxNext)
    /\ IF sTxLen = SpiWordBytes
         THEN /\ SPI_close_transmission
              /\ sTxEvents' = sTxEvents + 1
              /\ sIsr' = "TX_CMPLT"
         ELSE /\ sTxLen' = sTxLen - SpiWordBytes /\ sTxNext' = sTxNext + 1
              /\ sIsr' = "RXNE"
              /\ UNCHANGED <<sTxState, sTxEvents, sCR2>>
    /\ UNCHANGED <<sTotal, sShift>>

SpiCheckTXE ==
    /\ sIsr = "TXE"
    /\ sOVR' = AfterSR(sOVR)
    /\ IF sDR = 0 /\ "TXEIE" \in sCR2
         THEN SPI_TXEIE_Handle
         ELSE sIsr' = "RXNE" /\ UNCHANGED <<sTxVars, sTxLine, sCR2>>
    /\ UNCHANGED <<sRxVars, sRDR, sLost, sTask, sClobbered>>

SpiTxCallback ==
    /\ sIsr = "TX_CMPLT"
    /\ sIsr' = "RXNE"
    /\ \/ UNCHANGED <<sTxVars, sCR2>>
       \/ (\E n \in SpiTxSizes : SpiPrepareTx(n)) /\ sCR2' = sCR2 \cup {"TXEIE"}
    /\ UNCHANGED <<sRxVars, sTxLine, sRxLine, sTask, sClobbered>>

\* Fault: a word is stored without being taken out of DR.
Taken_Not == UNCHANGED sRDR
Taken == sRDR' = 0

SPI_RXNEIE_Handle ==
    /\ sRxBuffer' = Append(sRxBuffer, sRDR)
    /\ Taken
    /\ sOVR' = AfterDR(AfterSR(sOVR))
    /\ IF sRxLen = SpiWordBytes
         THEN /\ SPI_close_reception
              /\ sRxEvents' = sRxEvents + 1
              /\ sIsr' = "RX_CMPLT"
         ELSE /\ sRxLen' = sRxLen - SpiWordBytes
              /\ sIsr' = "OVR"
              /\ UNCHANGED <<sRxState, sRxEvents, sCR2>>
    /\ UNCHANGED sRxTotal

SpiCheckRXNE ==
    /\ sIsr = "RXNE"
    /\ IF sRDR # 0 /\ "RXNEIE" \in sCR2
         THEN SPI_RXNEIE_Handle
         ELSE sIsr' = "OVR" /\ sOVR' = AfterSR(sOVR) /\ UNCHANGED <<sRxVars, sRDR, sCR2>>
    /\ UNCHANGED <<sTxVars, sTxLine, sLost, sTask, sClobbered>>

SpiRxCallback ==
    /\ sIsr = "RX_CMPLT"
    /\ sIsr' = "OVR"
    /\ \/ UNCHANGED <<sRxVars, sRDR, sLost, sCR2>>
       \/ (\E n \in SpiRxSizes : SpiPrepareRx(n)) /\ sCR2' = sCR2 \cup {"RXNEIE"}
    /\ UNCHANGED <<sTxVars, sTxLine, sOVR, sTask, sClobbered>>

\* Fault: the flag is left to the application even when nothing is being sent.
MayClear_Not == FALSE
MayClear == sTxState # "BUSY_IN_TX"

\* "Should resend the data and clear OVR flag": what the callback is told to do.
CallbackClears == SpiCallbackClears /\ sTxState = "BUSY_IN_TX"

\* SPI_OVR_Handle; SPI_clear_OVR_flag reads DR, and a word that waits there is lost.
SpiCheckOVR ==
    /\ sIsr = "OVR"
    /\ sIsr' = "out"
    /\ IF sOVR # "no" /\ "ERRIE" \in SpiEnables /\ (MayClear \/ CallbackClears)
         THEN /\ sOVR' = "no" /\ sRDR' = 0
              /\ sLost' = (sLost \/ (SpiReceiving /\ sRDR # 0))
         ELSE sOVR' = AfterSR(sOVR) /\ UNCHANGED <<sRDR, sLost>>
    /\ UNCHANGED <<sTxVars, sRxVars, sTxLine, sTask, sCR2, sClobbered>>

SPI_IRQ_handler ==
    \/ SpiEnterHandler \/ SpiCheckTXE \/ SpiTxCallback \/ SpiCheckRXNE \/ SpiRxCallback \/ SpiCheckOVR

-----------------------------------------------------------------------------
\* The hardware: DR moves to the shifter, which exchanges its word for one of the slave's.
SpiLoadShift ==
    /\ sShift = 0 /\ sDR # 0
    /\ sShift' = sDR /\ sDR' = 0
    /\ UNCHANGED <<sTxVars, sRxVars, sRxLine, sTask, sCR2, sIsr, sClobbered>>

SpiExchange ==
    /\ sShift # 0
    /\ sShift' = 0
    /\ IF sRDR = 0
         THEN /\ sRDR' = (IF SpiReceiving /\ ~sLost THEN Len(sRxBuffer) + 1 ELSE 1)
              /\ UNCHANGED <<sOVR, sLost>>
         ELSE sOVR' = "set" /\ sLost' = (sLost \/ SpiReceiving) /\ UNCHANGED sRDR
    /\ UNCHANGED <<sTxVars, sRxVars, sDR, sTask, sCR2, sIsr, sClobbered>>

SpiCall ==
    \/ \E n \in SpiTxSizes : SPI_send_IT(n) \/ SPI_send(n)
    \/ \E n \in SpiRxSizes : SPI_receive_IT(n) \/ SPI_receive(n)

\* Bound: the run goes no further than the first store that loses the handler's, after
\* which the handler would go on from a null buffer.
SpiNext ==
    /\ ~sClobbered
    /\ SpiCall \/ SpiTaskStep \/ SPI_IRQ_handler \/ SpiLoadShift \/ SpiExchange

\* The handler and the line go on by themselves; the task runs in the gaps.
SpiFairness ==
    /\ WF_sVars(~sClobbered /\ SPI_IRQ_handler)
    /\ WF_sVars(~sClobbered /\ (SpiLoadShift \/ SpiExchange))
    /\ SF_sVars(~sClobbered /\ SpiTaskStep)

SpiSpec == SpiInit /\ [][SpiNext]_sVars /\ SpiFairness

-----------------------------------------------------------------------------
\* A transmission gives the words of its buffer to DR in order, each once, and
\* SPI_EVENT_TX_CMPLT (or the return of SPI_send) comes once, with the last: TXEIE is off
\* when the buffer ends, or the handler would go on past it, as it looks at no state.  A
\* reception stores the words that arrive in order, each once, without a gap unless a word
\* was overrun or discarded, and SPI_EVENT_RX_CMPLT comes once, when it is full.
SpiTx == INSTANCE Transfer WITH
    Sizes <- SpiTxSizes, active <- SpiSending, size <- sTotal, moved <- sWritten, reports <- sTxEvents
SpiRx == INSTANCE Transfer WITH
    Sizes <- SpiRxSizes, active <- SpiReceiving, size <- sRxTotal, reports <- sRxEvents,
    moved <- [i \in DOMAIN sRxBuffer |-> IF sLost THEN i ELSE sRxBuffer[i]]
SpiMoves == SpiTx!Spec /\ SpiRx!Spec

\* An overrun is cleared: the driver leaves the flag to the callback while Tx_state is
\* BUSY_IN_TX (SPI.c:507), which SPI_send_IT sets before it enables TXEIE, and unless one
\* of them clears it the handler is entered without end and no task goes on.
SpiOverrunEnds == (sOVR = "set" /\ "ERRIE" \in SpiEnables) ~> (sOVR # "set" \/ sClobbered)

=============================================================================
