------------------------------- MODULE UsartDriver -------------------------------
(***************************************************************************)
(* USART.c on one USART: the interrupt driven transfers, the blocking      *)
(* ones, and the handler, branch by branch, with the hardware running      *)
(* beside it.  A task's calls change CR1 by a load and a store with        *)
(* interrupts enabled; a pending interrupt is taken before the task goes   *)
(* on.  The words of a buffer are numbered from 1, and so are the words    *)
(* that arrive during a reception; 0 is an empty register.                 *)
(***************************************************************************)
EXTENDS Naturals, Sequences

CONSTANTS
    UsartTxSizes, UsartRxSizes,  \* words per transfer; a transfer of none is never asked for
    UsartWordBytes,    \* bytes of the buffer per word: 2 for nine bits without parity
    UsartMaxBurst,     \* bound: line events before the processor leaves the handler for good
    UsartLineErrors,   \* the errors the line may show with a word: within {"NF", "FE"}
    UsartLineFlags,    \* what else the line raises: within {"IDLE", "CTS"}
    UsartEnables       \* CTSIE, IDLEIE, EIE: bits the application sets by itself, as no call does

ASSUME UsartSizesAssumption == UsartTxSizes \cup UsartRxSizes \subseteq Nat \ {0} /\ UsartWordBytes \in {1, 2}

VARIABLES
    uTxState, uTxLen, uTxNext,    \* USART_Handle_t: Tx_state, Tx_len, the word at p_Tx_buffer
    uRxState, uRxLen, uRxBuffer,  \* Rx_state, Rx_len, the words stored
    uCR1,                         \* the driver's interrupt enables: TXEIE, TCIE, RXNEIE
    uFlags, uTC,                  \* SR: CTS, IDLE, ORE, NF, FE; TC
    uDR, uShift, uRDR,            \* transmit data (empty: TXE), shifter, receive data (full: RXNE)
    uCall, uLeft, uCopy,          \* the task: where it is, words left of a blocking call, CR1 as loaded
    uIsr, uSeen,                  \* the handler: its next branch, what its load of SR has seen set
    uTotal, uWire, uTxEvents,     \* the transmission: its size, the words sent, completions
    uRxTotal, uRxEvents,          \* the reception: its size, completions
    uArrived, uLost,              \* the words that arrived, and whether one of them was lost
    uBurst,                       \* line events since the processor last had no request to serve
    uClobbered                    \* a task's store has overwritten what the handler stored meanwhile

uTxVars == <<uTxState, uTxLen, uTxNext, uTotal, uTxEvents>>
uRxVars == <<uRxState, uRxLen, uRxBuffer, uRxTotal, uRxEvents>>
uTxLine == <<uTC, uDR, uShift, uWire>>
uRxLine == <<uFlags, uRDR, uArrived, uLost>>
uTask   == <<uCall, uLeft, uCopy>>
uVars   == <<uTxVars, uRxVars, uTxLine, uRxLine, uTask, uCR1, uIsr, uSeen, uBurst, uClobbered>>

UsartInit ==
    /\ uTxState = "READY" /\ uTxLen = 0 /\ uTxNext = 1 /\ uTotal = 0 /\ uTxEvents = 0
    /\ uRxState = "READY" /\ uRxLen = 0 /\ uRxBuffer = <<>> /\ uRxTotal = 0 /\ uRxEvents = 0
    /\ uCR1 = {} /\ uTC = TRUE /\ uDR = 0 /\ uShift = 0 /\ uWire = <<>>
    /\ uFlags = {} /\ uRDR = 0 /\ uArrived = 0 /\ uLost = FALSE
    /\ uCall = "none" /\ uLeft = 0 /\ uCopy = {} /\ uIsr = "out" /\ uSeen = {}
    /\ uBurst = 0 /\ uClobbered = FALSE

Sending   == uTxState = "BUSY_TX" \/ uCall = "send"
Receiving == uRxState = "BUSY_RX" \/ uCall = "receive"

\* The conditions on which the USART requests its interrupt (EIE does so with DMA only).
UsartPending ==
    \/ uTC /\ "TCIE" \in uCR1
    \/ uDR = 0 /\ "TXEIE" \in uCR1
    \/ (uRDR # 0 \/ "ORE" \in uFlags) /\ "RXNEIE" \in uCR1
    \/ "CTS" \in uFlags /\ "CTSIE" \in UsartEnables
    \/ "IDLE" \in uFlags /\ "IDLEIE" \in UsartEnables

TaskRuns == uIsr = "out" /\ ~UsartPending

\* A write of DR, SR having been read with TC set.
WriteDR(word) == uDR' = word /\ uTC' = FALSE /\ UNCHANGED <<uShift, uWire>>

\* A read of SR followed by one of DR clears RXNE and the flags but CTS.
ReadDR == uRDR' = 0 /\ uFlags' = uFlags \cap {"CTS"}

-----------------------------------------------------------------------------
\* What a transfer starts from.  A word left in DR from before is the first received.
StartTx(n) ==
    /\ uTotal' = n
    /\ uTxEvents' = 0
    /\ uWire' = <<>>
StartRx(n) ==
    /\ uRxTotal' = n
    /\ uRxEvents' = 0
    /\ uRxBuffer' = <<>>
    /\ uRDR' = (IF uRDR = 0 THEN 0 ELSE 1)
    /\ uArrived' = uRDR'
    /\ uLost' = FALSE

PrepareTx(n) ==
    /\ uTxState = "READY"
    /\ uTxNext' = 1
    /\ uTxLen' = n * UsartWordBytes
    /\ uTxState' = "BUSY_TX"
    /\ StartTx(n)
PrepareRx(n) ==
    /\ uRxState = "READY"
    /\ uRxLen' = n * UsartWordBytes
    /\ uRxState' = "BUSY_RX"
    /\ StartRx(n)

\* USART_send_IT and USART_receive_IT up to the changes of CR1; busy, they change nothing.
USART_send_IT(n) ==
    /\ TaskRuns /\ uCall = "none"
    /\ PrepareTx(n)
    /\ uCall' = "TXEIE"
    /\ UNCHANGED <<uRxVars, uRxLine, uTC, uDR, uShift, uLeft, uCopy, uCR1, uIsr, uSeen, uClobbered>>

USART_receive_IT(n) ==
    /\ TaskRuns /\ uCall = "none"
    /\ PrepareRx(n)
    /\ uCall' = "RXNEIE"
    /\ UNCHANGED <<uTxVars, uTxLine, uFlags, uLeft, uCopy, uCR1, uIsr, uSeen, uClobbered>>

\* CR1 |= bit, a load and a store.
UsartLoaded == [TXEIE |-> "TXEIE loaded", TCIE |-> "TCIE loaded", RXNEIE |-> "RXNEIE loaded"]

LoadCR1 ==
    /\ TaskRuns /\ uCall \in {"TXEIE", "TCIE", "RXNEIE"}
    /\ uCopy' = uCR1
    /\ uCall' = UsartLoaded[uCall]
    /\ UNCHANGED <<uTxVars, uRxVars, uTxLine, uRxLine, uLeft, uCR1, uIsr, uSeen, uClobbered>>

StoreCR1(bit) ==
    /\ TaskRuns /\ uCall = UsartLoaded[bit]
    /\ uCR1' = uCopy \cup {bit}
    /\ uClobbered' = (uClobbered \/ uCopy # uCR1)
    /\ uCall' = (IF bit = "TXEIE" THEN "TCIE" ELSE "none")
    /\ uCopy' = {}
    /\ UNCHANGED <<uTxVars, uRxVars, uTxLine, uRxLine, uLeft, uIsr, uSeen>>

\* USART_send: a word whenever TXE, then the wait for TC.  The application makes no
\* blocking transfer while an interrupt driven one of its direction runs.
USART_send(n) ==
    /\ TaskRuns /\ uCall = "none" /\ uTxState = "READY"
    /\ StartTx(n)
    /\ uCall' = "send" /\ uLeft' = n
    /\ UNCHANGED <<uTxState, uTxLen, uTxNext, uTC, uDR, uShift, uRxVars, uRxLine, uCopy,
                   uCR1, uIsr, uSeen, uClobbered>>

SendWord ==
    /\ TaskRuns /\ uCall = "send" /\ uLeft > 0
    /\ uDR = 0
    /\ WriteDR(uTotal - uLeft + 1)
    /\ uLeft' = uLeft - 1
    /\ UNCHANGED <<uTxVars, uRxVars, uRxLine, uCall, uCopy, uCR1, uIsr, uSeen, uClobbered>>

SentOut == uTC

SendDone ==
    /\ TaskRuns /\ uCall = "send" /\ uLeft = 0
    /\ SentOut
    /\ uTxEvents' = uTxEvents + 1
    /\ uCall' = "none"
    /\ UNCHANGED <<uTxState, uTxLen, uTxNext, uTotal, uRxVars, uTxLine, uRxLine, uLeft, uCopy,
                   uCR1, uIsr, uSeen, uClobbered>>

USART_receive(n) ==
    /\ TaskRuns /\ uCall = "none" /\ uRxState = "READY"
    /\ StartRx(n)
    /\ uCall' = "receive" /\ uLeft' = n
    /\ UNCHANGED <<uRxState, uRxLen, uFlags, uTxVars, uTxLine, uCopy, uCR1, uIsr, uSeen,
                   uClobbered>>

ReceiveWord ==
    /\ TaskRuns /\ uCall = "receive" /\ uLeft > 0
    /\ uRDR # 0
    /\ uRxBuffer' = Append(uRxBuffer, uRDR)
    /\ ReadDR
    /\ uLeft' = uLeft - 1
    /\ UNCHANGED <<uTxVars, uTxLine, uRxState, uRxLen, uRxTotal, uRxEvents, uArrived, uLost,
                   uCall, uCopy, uCR1, uIsr, uSeen, uClobbered>>

ReceiveDone ==
    /\ TaskRuns /\ uCall = "receive" /\ uLeft = 0
    /\ uRxEvents' = uRxEvents + 1
    /\ uCall' = "none"
    /\ UNCHANGED <<uTxVars, uTxLine, uRxLine, uRxState, uRxLen, uRxBuffer, uRxTotal, uLeft,
                   uCopy, uCR1, uIsr, uSeen, uClobbered>>

UsartTaskStep ==
    \/ LoadCR1 \/ SendWord \/ SendDone \/ ReceiveWord \/ ReceiveDone
    \/ \E bit \in {"TXEIE", "TCIE", "RXNEIE"} : StoreCR1(bit)

-----------------------------------------------------------------------------
\* USART_IRQ_handling, one action per branch.
EnterHandler ==
    /\ uIsr = "out" /\ UsartPending
    /\ uIsr' = "TC"
    /\ UNCHANGED <<uTxVars, uRxVars, uTxLine, uRxLine, uTask, uCR1, uSeen, uClobbered>>

\* SR &= ~(1 << flag), a load and a store.  The store writes a 0 to each flag that was not set
\* at the load, which clears it: RXNE (a word is lost), TC or CTS when they come in between.
LoadSR ==
    uSeen' = (IF uRDR # 0 THEN {"RXNE"} ELSE {}) \cup (IF uTC THEN {"TC"} ELSE {})
                 \cup (uFlags \cap {"CTS"})
StoreSR(flag) ==
    LET written == uSeen \ {flag}
    IN  /\ uTC' = (uTC /\ "TC" \in written)
        /\ uFlags' = IF "CTS" \in written THEN uFlags ELSE uFlags \ {"CTS"}
        /\ IF "RXNE" \in written
             THEN UNCHANGED <<uRDR, uLost>>
             ELSE uRDR' = 0 /\ uLost' = (uLost \/ (uRDR # 0 /\ Receiving))
        /\ uSeen' = {}

\* Fault: the end of the transmission is not told from a gap in it.
AllLoaded_Unchecked == TRUE
AllLoaded == uTxLen = 0

\* The load of SR &= ~TC, when the transmission is over.
CheckTC ==
    /\ uIsr = "TC"
    /\ IF uTC /\ "TCIE" \in uCR1 /\ uTxState = "BUSY_TX" /\ AllLoaded
         THEN uIsr' = "close" /\ LoadSR
         ELSE uIsr' = "TXE" /\ UNCHANGED uSeen
    /\ UNCHANGED <<uTxVars, uRxVars, uTxLine, uRxLine, uTask, uCR1, uClobbered>>

CloseTransmission ==
    /\ uIsr = "close"
    /\ StoreSR("TC")
    /\ uCR1' = uCR1 \ {"TCIE"}
    /\ uTxState' = "READY" /\ uTxLen' = 0 /\ uTxNext' = 1
    /\ uTxEvents' = uTxEvents + 1
    /\ uIsr' = "TX_CMPLT"
    /\ UNCHANGED <<uTotal, uRxVars, uDR, uShift, uWire, uArrived, uTask, uClobbered>>

\* USART_event_callback of a completed transfer: the application may start the next.
TxCallback ==
    /\ uIsr = "TX_CMPLT"
    /\ uIsr' = "TXE"
    /\ \/ UNCHANGED <<uTxVars, uWire, uCR1>>
       \/ /\ \E n \in UsartTxSizes : PrepareTx(n)
          /\ uCR1' = uCR1 \cup {"TXEIE", "TCIE"}
    /\ UNCHANGED <<uTC, uDR, uShift, uRxVars, uRxLine, uTask, uSeen, uClobbered>>

LoadNext ==
    /\ WriteDR(uTxNext)
    /\ uTxNext' = uTxNext + 1
    /\ uTxLen' = uTxLen - UsartWordBytes

\* Fault: the interrupt is left enabled after the last word.
StopTXE_Not == uCR1
StopTXE == uCR1 \ {"TXEIE"}

CheckTXE ==
    /\ uIsr = "TXE"
    /\ uIsr' = "RXNE"
    /\ IF uDR = 0 /\ "TXEIE" \in uCR1 /\ uTxState = "BUSY_TX"
         THEN /\ IF uTxLen > 0 THEN LoadNext ELSE UNCHANGED <<uTxNext, uTxLen, uTxLine>>
              /\ uCR1' = (IF uTxLen' = 0 THEN StopTXE ELSE uCR1)
         ELSE UNCHANGED <<uTxNext, uTxLen, uTxLine, uCR1>>
    /\ UNCHANGED <<uTxState, uTotal, uTxEvents, uRxVars, uRxLine, uTask, uSeen, uClobbered>>

\* Fault: the reception ends one word early.
LastWord_Early == uRxLen' <= UsartWordBytes
LastWord == uRxLen' = 0

CheckRXNE ==
    /\ uIsr = "RXNE"
    /\ IF uRDR # 0 /\ "RXNEIE" \in uCR1 /\ uRxState = "BUSY_RX" /\ uRxLen > 0
         THEN /\ uRxBuffer' = Append(uRxBuffer, uRDR)
              /\ ReadDR
              /\ uRxLen' = uRxLen - UsartWordBytes
              /\ IF LastWord
                   THEN /\ uCR1' = uCR1 \ {"RXNEIE"}
                        /\ uRxState' = "READY"
                        /\ uRxEvents' = uRxEvents + 1
                        /\ uIsr' = "RX_CMPLT"
                   ELSE uIsr' = "CTS" /\ UNCHANGED <<uCR1, uRxState, uRxEvents>>
         ELSE /\ uIsr' = "CTS"
              /\ UNCHANGED <<uRxBuffer, uRxLen, uRxState, uRxEvents, uRDR, uFlags, uCR1>>
    /\ UNCHANGED <<uTxVars, uTxLine, uRxTotal, uArrived, uLost, uTask, uSeen, uClobbered>>

RxCallback ==
    /\ uIsr = "RX_CMPLT"
    /\ uIsr' = "CTS"
    /\ \/ UNCHANGED <<uRxVars, uRDR, uArrived, uLost, uCR1>>
       \/ /\ \E n \in UsartRxSizes : PrepareRx(n)
          /\ uCR1' = uCR1 \cup {"RXNEIE"}
    /\ UNCHANGED <<uTxVars, uTxLine, uFlags, uTask, uSeen, uClobbered>>

\* The load and the store of SR &= ~CTS.
CheckCTS ==
    /\ uIsr = "CTS"
    /\ IF "CTS" \in uFlags /\ "CTSIE" \in UsartEnables
         THEN uIsr' = "clear CTS" /\ LoadSR
         ELSE uIsr' = "IDLE" /\ UNCHANGED uSeen
    /\ UNCHANGED <<uTxVars, uRxVars, uTxLine, uRxLine, uTask, uCR1, uClobbered>>

ClearCTS ==
    /\ uIsr = "clear CTS"
    /\ StoreSR("CTS")
    /\ uIsr' = "IDLE"
    /\ UNCHANGED <<uTxVars, uRxVars, uDR, uShift, uWire, uArrived, uTask, uCR1, uClobbered>>

\* The branches that clear their flag by reading DR; a word that waits there is lost.
Discard(branch, next, raised) ==
    /\ uIsr = branch
    /\ uIsr' = next
    /\ IF raised
         THEN /\ ReadDR
              /\ uLost' = (uLost \/ (uRDR # 0 /\ Receiving))
         ELSE UNCHANGED <<uFlags, uRDR, uLost>>
    /\ UNCHANGED <<uTxVars, uRxVars, uTxLine, uArrived, uTask, uCR1, uSeen, uClobbered>>

CheckErrors ==
    \/ Discard("IDLE", "ORE", "IDLE" \in uFlags /\ "IDLEIE" \in UsartEnables)
    \/ Discard("ORE", "ERR", "ORE" \in uFlags /\ "RXNEIE" \in uCR1)
    \/ Discard("ERR", "out", uFlags \cap {"NF", "FE"} # {} /\ "EIE" \in UsartEnables)

USART_IRQ_handling ==
    \/ EnterHandler \/ CheckTC \/ CloseTransmission \/ TxCallback \/ CheckTXE
    \/ CheckRXNE \/ RxCallback \/ CheckCTS \/ ClearCTS \/ CheckErrors

-----------------------------------------------------------------------------
\* The hardware: DR moves to the shifter, which sends it and sets TC when nothing follows.
Shift ==
    /\ uShift = 0 /\ uDR # 0
    /\ uShift' = uDR /\ uDR' = 0
    /\ UNCHANGED <<uTC, uWire, uTxVars, uRxVars, uRxLine, uTask, uCR1, uIsr, uSeen, uClobbered>>

SendOut ==
    /\ uShift # 0
    /\ uWire' = Append(uWire, uShift)
    /\ uShift' = 0
    /\ uTC' = (uDR = 0)
    /\ UNCHANGED <<uDR, uTxVars, uRxVars, uRxLine, uTask, uCR1, uIsr, uSeen, uClobbered>>

\* A word arrives, perhaps with an error; into a full register, it is overrun.  Once a
\* word is lost the numbers tell nothing more and stand still.
Arrive(errors) ==
    /\ IF uRDR = 0
         THEN /\ uRDR' = (IF Receiving /\ ~uLost THEN uArrived + 1 ELSE 1)
              /\ uFlags' = uFlags \cup errors
              /\ UNCHANGED uLost
         ELSE /\ uFlags' = uFlags \cup errors \cup {"ORE"}
              /\ uLost' = (uLost \/ Receiving)
              /\ UNCHANGED uRDR
    /\ uArrived' = (IF uLost' THEN 1 ELSE uRDR')
    /\ UNCHANGED <<uTxVars, uRxVars, uTxLine, uTask, uCR1, uIsr, uSeen, uClobbered>>

LineChange(flag) ==
    /\ flag \notin uFlags
    /\ uFlags' = uFlags \cup {flag}
    /\ UNCHANGED <<uRDR, uArrived, uLost, uTxVars, uRxVars, uTxLine, uTask, uCR1, uIsr, uSeen,
                   uClobbered>>

LineEvent ==
    \/ \E errors \in {{}} \cup {{e} : e \in UsartLineErrors} : Arrive(errors)
    \/ \E flag \in UsartLineFlags : LineChange(flag)

\* The line is slower than the handler: few events fall between two gaps it leaves.
InBurst == uBurst < UsartMaxBurst /\ uBurst' = (IF TaskRuns' THEN 0 ELSE uBurst + 1)
Served  == uBurst' = (IF TaskRuns' THEN 0 ELSE uBurst)

UsartCall ==
    \/ \E n \in UsartTxSizes : USART_send_IT(n) \/ USART_send(n)
    \/ \E n \in UsartRxSizes : USART_receive_IT(n) \/ USART_receive(n)

\* Bound: the run goes no further than the first store that loses the handler's.
UsartNext ==
    /\ ~uClobbered
    /\ \/ (UsartCall \/ UsartTaskStep \/ USART_IRQ_handling \/ Shift \/ SendOut) /\ Served
       \/ LineEvent /\ InBurst

\* The handler and the line go on by themselves; the task runs in the gaps.
UsartFairness ==
    /\ WF_uVars(~uClobbered /\ USART_IRQ_handling /\ Served)
    /\ WF_uVars(~uClobbered /\ (Shift \/ SendOut) /\ Served)
    /\ SF_uVars(~uClobbered /\ UsartTaskStep /\ Served)

UsartSpec == UsartInit /\ [][UsartNext]_uVars /\ UsartFairness

-----------------------------------------------------------------------------
\* A transmission puts the words of its buffer on the wire in order, each once, and
\* USART_EV_TX_CMPLT (or the return of USART_send) comes once, after the last has left:
\* the TC and TXE branches, and whatever the task's stores of CR1 overwrite.
UsartTx == INSTANCE Transfer WITH
    Sizes <- UsartTxSizes, active <- Sending, size <- uTotal, moved <- uWire, reports <- uTxEvents
UsartSends == UsartTx!Spec

\* A reception stores the words that arrive in order, each once, without a gap unless a word
\* was lost, and USART_EV_RX_CMPLT (or the return of USART_receive) comes when it is full.
UsartRx == INSTANCE Transfer WITH
    Sizes <- UsartRxSizes, active <- Receiving, size <- uRxTotal, reports <- uRxEvents,
    moved <- [i \in DOMAIN uRxBuffer |-> IF uLost THEN i ELSE uRxBuffer[i]]
UsartReceives == UsartRx!Spec

\* Every word is on the wire and TC is not set: the store of SR &= ~CTS (USART.c:619) has
\* cleared it, and nothing will tell the end of the transmission.
EndMissed == Sending /\ Len(uWire) = uTotal /\ ~uTC

\* A transmission ends: no interrupt stays enabled past the transfer that removes its cause,
\* or the handler is entered without end.  Two stores can prevent it: one of CR1 by a task that
\* the handler has interrupted (USART.c:388, 391, 415), which leaves an interrupt enabled or
\* an enable lost, and that of SR &= ~CTS where CTS interrupts are enabled.
UsartTransmissionsEnd ==
    Sending ~> (~Sending \/ uClobbered \/ (EndMissed /\ "CTSIE" \in UsartEnables))

=============================================================================
