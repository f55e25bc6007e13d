-------------------------------- MODULE CanDriver --------------------------------
(***************************************************************************)
(* CAN.c with one controller: bringing it up, sending through the three    *)
(* mailboxes by polling or by interrupt, and reading the two FIFOs.  One   *)
(* task at a time sends, as under the mutex of CAN_loopback_mutex_queue.c. *)
(* What a frame carries is left out; the frames of a FIFO are numbered.    *)
(***************************************************************************)
EXTENDS Naturals, Sequences

CONSTANTS
    CanModes,      \* the modes CAN_init is asked for
    CanOutcomes,   \* how a transmission ends: "ok", and "failed" when NART is set
    CanFrames,     \* bound: frames that arrive
    CanBoxes,      \* bound: the mailboxes CODE names
    CanMixed,      \* polling calls are made while the NVIC has the lines enabled
    CanPrompt      \* the TX handler runs before another frame is sent

Mailboxes == 0 .. 2
Fifos == 0 .. 1
FifoDepth == 3

ASSUME CanAssumption == /\ CanOutcomes \subseteq {"ok", "failed"}
                        /\ CanBoxes \subseteq Mailboxes
                        /\ CanFrames \in Nat

VARIABLES
    cInit, cWanted,     \* CAN_init: where it is, the mode it was given
    cMCR, cMSR, cBTR,   \* INRQ and SLEEP; INAK and SLAK; the mode in LBKM and SILM
    cTx,                \* mailbox -> "empty" (TME) or "pending" (TXRQ)
    cDone,              \* mailbox -> RQCP and TXOK: "none", "ok" or "failed"
    cSend, cBox,        \* the sender: where it is, its mailbox
    cHandler,           \* CAN_TX_IRQHandler: the mailbox it looks at next; 3 when it does not run
    cOwed, cLate,       \* mailbox -> the outcome not yet reported; those whose sender timed out
    cIrqOn,             \* the NVIC has the lines of CAN1 enabled
    cFed,               \* the FIFOs a filter bank in use feeds
    cFifo, cGot,        \* FIFO -> its frames; the last one the application got
    cPoll, cIsrRx       \* the FIFO and frame CAN_receive, or the handler, has read

cSetup == <<cInit, cWanted, cMCR, cMSR, cBTR, cFed>>
cMail  == <<cTx, cDone, cOwed, cLate>>
cRx    == <<cFifo, cGot, cPoll, cIsrRx>>
cVars  == <<cSetup, cMail, cSend, cBox, cHandler, cIrqOn, cRx>>

\* The controller after reset is asleep.
CanInit ==
    /\ cInit = "reset" /\ cWanted = "normal" /\ cBTR = "normal" /\ cFed = {}
    /\ cMCR = {"SLEEP"} /\ cMSR = {"SLAK"}
    /\ cTx = [m \in Mailboxes |-> "empty"]
    /\ cDone = [m \in Mailboxes |-> "none"] /\ cOwed = cDone /\ cLate = {}
    /\ cSend = "none" /\ cBox = 0 /\ cHandler = 3 /\ cIrqOn = FALSE
    /\ cFifo = [f \in Fifos |-> <<>>] /\ cGot = [f \in Fifos |-> 0]
    /\ cPoll = <<>> /\ cIsrRx = <<>>

-----------------------------------------------------------------------------
\* CAN_init: request init mode, leave sleep, configure, leave init mode.
InitStep(from, to) ==
    /\ cInit = from /\ cInit' = to
    /\ UNCHANGED <<cMSR, cFed, cMail, cSend, cBox, cHandler, cIrqOn, cRx>>

AtRest ==
    /\ cSend = "none" /\ cHandler = 3 /\ cPoll = <<>> /\ cIsrRx = <<>>
    /\ \A m \in Mailboxes : cTx[m] = "empty" /\ cDone[m] = "none"

CAN_init(mode) ==
    /\ \E from \in {"reset", "timed out", "ready"} : InitStep(from, "entering")
    /\ AtRest
    /\ cWanted' = mode
    /\ cMCR' = cMCR \cup {"INRQ"}
    /\ UNCHANGED cBTR

\* Fault: the wait for init mode does not look at INAK.
EnteredInit_Unchecked == TRUE
EnteredInit == "INAK" \in cMSR

LeaveSleep ==
    /\ InitStep("entering", "waking")
    /\ EnteredInit
    /\ cMCR' = cMCR \ {"SLEEP"}
    /\ UNCHANGED <<cWanted, cBTR>>

\* BTR takes a value in init mode only.
ConfigureAndLeave ==
    /\ InitStep("waking", "leaving")
    /\ "SLAK" \notin cMSR
    /\ cBTR' = (IF "INAK" \in cMSR THEN cWanted ELSE cBTR)
    /\ cMCR' = cMCR \ {"INRQ"}
    /\ UNCHANGED cWanted

InitDone ==
    /\ InitStep("leaving", "ready")
    /\ "INAK" \notin cMSR
    /\ UNCHANGED <<cWanted, cMCR, cBTR>>

\* Each wait gives up after CAN_INIT_TIMEOUT polls.
InitTimeout ==
    /\ \E from \in {"entering", "waking", "leaving"} : InitStep(from, "timed out")
    /\ UNCHANGED <<cWanted, cMCR, cBTR>>

\* The controller follows MCR in its own time.
Acknowledge ==
    /\ \/ "INRQ" \in cMCR /\ cMSR' = cMSR \cup {"INAK"}
       \/ "INRQ" \notin cMCR /\ cMSR' = cMSR \ {"INAK"}
       \/ "SLEEP" \notin cMCR /\ cMSR' = cMSR \ {"SLAK"}
    /\ cMSR' # cMSR
    /\ UNCHANGED <<cInit, cWanted, cMCR, cBTR, cFed, cMail, cSend, cBox, cHandler, cIrqOn, cRx>>

-----------------------------------------------------------------------------
Completed(m) == cDone[m] # "none"
TxPending == cIrqOn /\ \E m \in Mailboxes : Completed(m)
RxPending == cIrqOn /\ \E f \in Fifos : cFifo[f] # <<>>
HandlersOut == cHandler = 3 /\ cIsrRx = <<>>

\* A task runs when no handler does; a prompt handler has taken what is pending.
CanTaskRuns ==
    /\ cInit = "ready" /\ HandlersOut
    /\ CanPrompt => ~TxPending /\ ~RxPending

\* CAN_IRQ_control, by the task that also sends and receives: it turns the lines off when
\* nothing it sent is still to be reported.
CAN_IRQ_control(enable) ==
    /\ CanTaskRuns /\ cSend = "none" /\ cPoll = <<>>
    /\ enable \/ \A m \in Mailboxes \ cLate : cTx[m] = "empty" /\ cDone[m] = "none"
    /\ cIrqOn' = enable
    /\ UNCHANGED <<cSetup, cMail, cSend, cBox, cHandler, cRx>>

SendStep(from, to) ==
    /\ CanTaskRuns
    /\ cSend = from /\ cSend' = to
    /\ UNCHANGED <<cSetup, cHandler, cIrqOn, cRx>>

\* CAN_load_mailbox: CODE names a mailbox that is free; with none the call returns.
CAN_load_mailbox(call) ==
    /\ SendStep("none", call)
    /\ IF call = "load poll" THEN CanMixed \/ ~cIrqOn ELSE cIrqOn
    /\ cBox' \in {m \in CanBoxes : cTx[m] = "empty"}
    /\ UNCHANGED cMail

\* The frame is written and TXRQ set, which clears what the last transmission left in TSR.
RequestTransmission ==
    /\ \/ SendStep("load poll", "wait")
       \/ SendStep("load IT", "none")
    /\ cTx' = [cTx EXCEPT ![cBox] = "pending"]
    /\ cDone' = [cDone EXCEPT ![cBox] = "none"]
    /\ cOwed' = [cOwed EXCEPT ![cBox] = IF cBox \in cLate THEN "none" ELSE @]
    /\ cLate' = cLate \ {cBox}
    /\ UNCHANGED cBox

\* TSR |= RQCPm writes back, and so clears, the RQCP of every mailbox that has completed.
ClearRQCP(m) == cDone' = [x \in Mailboxes |-> "none"]

\* Fault: TXOK is read after RQCP has been cleared, which clears it too.
ReadTXOK_Late(m) == IF cDone'[m] = "ok" THEN "ok" ELSE "failed"
ReadTXOK(m) == IF cDone[m] = "ok" THEN "ok" ELSE "failed"

\* The outcome reaches the application, by a return value or by CAN_tx_callback.
Report(m, outcome) ==
    cOwed' = [cOwed EXCEPT ![m] = IF @ = outcome THEN "none" ELSE "misreported"]

\* CAN_transmit, once TME is set again.
TransmitReturns ==
    /\ SendStep("wait", "none")
    /\ cTx[cBox] = "empty"
    /\ ClearRQCP(cBox)
    /\ Report(cBox, ReadTXOK(cBox))
    /\ UNCHANGED <<cTx, cLate, cBox>>

\* It gives up after CAN_INIT_TIMEOUT polls and leaves the mailbox pending.
TransmitTimesOut ==
    /\ SendStep("wait", "none")
    /\ cTx[cBox] = "pending"
    /\ cLate' = cLate \cup {cBox}
    /\ UNCHANGED <<cTx, cDone, cOwed, cBox>>

EnterTxHandler ==
    /\ HandlersOut /\ TxPending
    /\ cHandler' = 0
    /\ UNCHANGED <<cSetup, cMail, cSend, cBox, cIrqOn, cRx>>

\* CAN_TX_IRQHandler, one mailbox of the three.
CAN_TX_IRQHandler ==
    /\ cHandler \in Mailboxes
    /\ cHandler' = cHandler + 1
    /\ IF Completed(cHandler)
         THEN ClearRQCP(cHandler) /\ Report(cHandler, ReadTXOK(cHandler))
         ELSE UNCHANGED <<cDone, cOwed>>
    /\ UNCHANGED <<cSetup, cTx, cLate, cSend, cBox, cIrqOn, cRx>>

\* The bus: a transmission ends.
Transmitted(m, outcome) ==
    /\ cTx[m] = "pending"
    /\ CanPrompt => cHandler = 3 /\ ~TxPending
    /\ cTx' = [cTx EXCEPT ![m] = "empty"]
    /\ cDone' = [cDone EXCEPT ![m] = outcome]
    /\ cOwed' = [cOwed EXCEPT ![m] = outcome]
    /\ UNCHANGED <<cSetup, cLate, cSend, cBox, cHandler, cIrqOn, cRx>>

-----------------------------------------------------------------------------
\* A bank whose parameters are in range is taken out of use, set up and put back in use,
\* within filter init mode, where no frame arrives.  Each call takes a new bank.
CAN_configure_filter(fifo) ==
    /\ cInit = "ready" /\ fifo \notin cFed /\ cSend = "none" /\ HandlersOut
    /\ cFed' = cFed \cup {fifo}
    /\ UNCHANGED <<cInit, cWanted, cMCR, cMSR, cBTR, cMail, cSend, cBox, cHandler, cIrqOn, cRx>>

RxStep == UNCHANGED <<cSetup, cMail, cSend, cBox, cHandler, cIrqOn>>

Arrived(f) == cGot[f] + Len(cFifo[f])

\* A frame the filters let through; one that finds the FIFO full is lost.
FrameArrives(f) ==
    /\ RxStep
    /\ cInit = "ready" /\ f \in cFed
    /\ Len(cFifo[f]) < FifoDepth /\ Arrived(0) + Arrived(1) < CanFrames
    /\ cFifo' = [cFifo EXCEPT ![f] = Append(@, Arrived(f) + 1)]
    /\ UNCHANGED <<cGot, cPoll, cIsrRx>>

\* CAN_read_rx_frame: the frame is read, the FIFO is released, the application gets it.
\* Fault: RFOM is set in FIFO 0's register whatever the FIFO.
ReleasedFifo_Zero(f) == 0
ReleasedFifo(f) == f

ReleaseAndDeliver(f, frame) ==
    /\ LET r == ReleasedFifo(f)
       IN  cFifo' = [cFifo EXCEPT ![r] = IF @ = <<>> THEN @ ELSE Tail(@)]
    /\ cGot' = [cGot EXCEPT ![f] = IF frame = @ + 1 THEN frame ELSE CanFrames + 1]

\* CAN_receive takes FIFO 0 first and returns when both are empty.
CAN_receive ==
    /\ RxStep
    /\ CanTaskRuns /\ cPoll = <<>> /\ cSend = "none"
    /\ CanMixed \/ ~cIrqOn
    /\ \E f \in Fifos :
         /\ cFifo[f] # <<>>
         /\ f = 1 => cFifo[0] = <<>>
         /\ cPoll' = <<f, Head(cFifo[f])>>
    /\ UNCHANGED <<cFifo, cGot, cIsrRx>>

ReceiveReturns ==
    /\ RxStep
    /\ CanTaskRuns /\ cPoll # <<>>
    /\ ReleaseAndDeliver(cPoll[1], cPoll[2])
    /\ cPoll' = <<>>
    /\ UNCHANGED cIsrRx

\* CAN_RX_IRQHandler on the line of its FIFO, and the callback.
CAN_RX_IRQHandler(f) ==
    /\ RxStep
    /\ HandlersOut /\ cIrqOn /\ cFifo[f] # <<>>
    /\ cIsrRx' = <<f, Head(cFifo[f])>>
    /\ UNCHANGED <<cFifo, cGot, cPoll>>

CanRxCallback ==
    /\ RxStep
    /\ cIsrRx # <<>>
    /\ ReleaseAndDeliver(cIsrRx[1], cIsrRx[2])
    /\ cIsrRx' = <<>>
    /\ UNCHANGED cPoll

-----------------------------------------------------------------------------
CanNext ==
    \/ \E mode \in CanModes : CAN_init(mode)
    \/ LeaveSleep \/ ConfigureAndLeave \/ InitDone \/ InitTimeout \/ Acknowledge
    \/ \E enable \in BOOLEAN : CAN_IRQ_control(enable)
    \/ \E call \in {"load poll", "load IT"} : CAN_load_mailbox(call)
    \/ RequestTransmission \/ TransmitReturns \/ TransmitTimesOut
    \/ EnterTxHandler \/ CAN_TX_IRQHandler
    \/ \E m \in Mailboxes, outcome \in CanOutcomes : Transmitted(m, outcome)
    \/ \E f \in Fifos : CAN_configure_filter(f) \/ FrameArrives(f) \/ CAN_RX_IRQHandler(f)
    \/ CAN_receive \/ ReceiveReturns \/ CanRxCallback

CanSpec == CanInit /\ [][CanNext]_cVars

-----------------------------------------------------------------------------
\* CAN_init returns KHAL_OK only with the controller running in the mode it was given,
\* also when an earlier call timed out half way (CAN.h: "enters init mode, exits sleep
\* mode, configures bit timing and mode, then leaves init mode").
CanRunsAsConfigured == cInit = "ready" => cMSR = {} /\ cBTR = cWanted

\* What a mailbox's transmission came to is reported once, as it was: the outcome not yet
\* reported is the one its flags in TSR still hold (CAN.h: "once per mailbox that
\* completed"; CAN.c 248-250).  A call that timed out has given its own up.
CanCompletionsReported == \A m \in Mailboxes \ cLate : cOwed[m] = cDone[m]

\* The application gets the frames of each FIFO in order, each once: a FIFO holds those
\* that follow the last one it got.
CanFramesInOrder ==
    \A f \in Fifos : cFifo[f] = [i \in 1 .. Len(cFifo[f]) |-> cGot[f] + i]

=============================================================================
