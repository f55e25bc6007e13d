----------------------------- MODULE DriverProofs -----------------------------
(***************************************************************************)
(* Proofs about the drivers: what the runs of MCDevices and MCTransfers    *)
(* check on small instances, for every value of the constants.             *)
(***************************************************************************)
EXTENDS CanDriver, Peripherals, UsartDriver, SpiDriver, I2cDriver, Gpio, DriverSettings, Integers, TLAPS

-----------------------------------------------------------------------------
(* CAN.c.                                                                   *)

CanSetupTypeOK ==
    /\ cInit \in {"reset", "entering", "waking", "leaving", "timed out", "ready"}
    /\ cMCR \subseteq {"INRQ", "SLEEP"}
    /\ cMSR \subseteq {"INAK", "SLAK"}

CanTxTypeOK ==
    /\ cTx \in [Mailboxes -> {"empty", "pending"}]
    /\ cDone \in [Mailboxes -> {"none", "ok", "failed"}]
    /\ cOwed \in [Mailboxes -> {"none", "ok", "failed", "misreported"}]
    /\ cLate \subseteq Mailboxes
    /\ cSend \in {"none", "load poll", "load IT", "wait"}
    /\ cBox \in Mailboxes
    /\ cHandler \in 0 .. 3
    /\ cIrqOn \in BOOLEAN

CanRxTypeOK ==
    /\ cFifo \in [Fifos -> Seq(Nat)] /\ cGot \in [Fifos -> Nat]
    /\ cPoll \in {<<>>} \cup (Fifos \X Nat)
    /\ cIsrRx \in {<<>>} \cup (Fifos \X Nat)

\* What CAN_init has reached by each of its waits, whatever an earlier call that timed out
\* has left: INRQ holds the controller in init mode until BTR is written.
InitSequence ==
    /\ cInit = "entering" => "INRQ" \in cMCR
    /\ cInit = "waking" => /\ "INRQ" \in cMCR /\ "SLEEP" \notin cMCR
                           /\ "INAK" \in cMSR
    /\ cInit \in {"leaving", "ready"} => cMCR = {} /\ "SLAK" \notin cMSR /\ cBTR = cWanted
    /\ cInit = "ready" => cMSR = {}

\* The sender polls with the lines off and sends by interrupt with them on, and the handler
\* runs with them on.
SendLines ==
    /\ cSend \in {"load poll", "wait"} => ~cIrqOn
    /\ cSend = "load IT" => cIrqOn
    /\ cHandler \in Mailboxes => cIrqOn

\* A mailbox that is pending has no outcome yet, and the one CAN_transmit waits for has an
\* outcome when it is empty.
PendingHasNoOutcome ==
    /\ \A m \in Mailboxes : cTx[m] = "pending" => ~Completed(m)
    /\ cSend \in {"load poll", "load IT"} => cTx[cBox] = "empty"
    /\ cSend = "wait" => cBox \notin cLate /\ (cTx[cBox] = "empty" => Completed(cBox))

\* With the lines off only the mailbox of the call in progress, and those whose call timed
\* out, are in use.  With them on one outcome at most is to be reported, as clearing its
\* RQCP clears the others'.
OneOutcomeAtMost ==
    /\ ~cIrqOn => \A m \in Mailboxes \ cLate :
                     \/ cTx[m] = "empty" /\ ~Completed(m)
                     \/ cSend = "wait" /\ m = cBox
    /\ cIrqOn => \A m \in Mailboxes \ cLate : Completed(m) =>
                    \A n \in Mailboxes : Completed(n) => n = m

CanTxInv == SendLines /\ PendingHasNoOutcome /\ OneOutcomeAtMost /\ CanCompletionsReported

\* CAN_receive and the handlers do not read at the same time, and the frame that has been
\* read is still the first of its FIFO.
ReadFrameIsFirst ==
    /\ cPoll # <<>> => /\ ~cIrqOn
                       /\ cFifo[cPoll[1]] # <<>> /\ cPoll[2] = Head(cFifo[cPoll[1]])
    /\ cIsrRx # <<>> => /\ cIrqOn
                        /\ cFifo[cIsrRx[1]] # <<>> /\ cIsrRx[2] = Head(cFifo[cIsrRx[1]])

CanRxInv == ReadFrameIsFirst /\ CanFramesInOrder

-----------------------------------------------------------------------------
\* Sending.  The steps that do not send leave its variables alone.
cTxVars == <<cMail, cSend, cBox, cHandler, cIrqOn>>

CanTxStep ==
    \/ \E enable \in BOOLEAN : CAN_IRQ_control(enable)
    \/ \E call \in {"load poll", "load IT"} : CAN_load_mailbox(call)
    \/ RequestTransmission \/ TransmitReturns \/ TransmitTimesOut
    \/ EnterTxHandler \/ CAN_TX_IRQHandler
    \/ \E m \in Mailboxes, outcome \in CanOutcomes : Transmitted(m, outcome)

\* Initialising, receiving and switching lines leave what transmission uses.
LEMMA OtherStepsDoNotSend == [CanNext]_cVars => CanTxStep \/ UNCHANGED cTxVars
<1>1. ASSUME NEW mode \in CanModes, CAN_init(mode) PROVE UNCHANGED cTxVars
  BY <1>1 DEF CAN_init, InitStep, cTxVars
<1>2. LeaveSleep \/ ConfigureAndLeave \/ InitDone \/ InitTimeout \/ Acknowledge
        => UNCHANGED cTxVars
  BY DEF LeaveSleep, ConfigureAndLeave, InitDone, InitTimeout, InitStep, Acknowledge, cTxVars
<1>3. ASSUME NEW f \in Fifos,
             CAN_configure_filter(f) \/ FrameArrives(f) \/ CAN_RX_IRQHandler(f)
      PROVE  UNCHANGED cTxVars
  BY <1>3 DEF CAN_configure_filter, FrameArrives, CAN_RX_IRQHandler, RxStep, cTxVars
<1>4. CAN_receive \/ ReceiveReturns \/ CanRxCallback => UNCHANGED cTxVars
  BY DEF CAN_receive, ReceiveReturns, CanRxCallback, RxStep, cTxVars
<1>5. UNCHANGED cVars => UNCHANGED cTxVars
  BY DEF cVars, cTxVars
<1> QED BY <1>1, <1>2, <1>3, <1>4, <1>5 DEF CanNext, CanTxStep

\* Every step of CAN_transmit, the TX handler and the mailboxes keeps the types.
LEMMA CanTxTypeStep == CanTxTypeOK /\ [CanNext]_cVars => CanTxTypeOK'
<1> SUFFICES ASSUME CanTxTypeOK, [CanNext]_cVars PROVE CanTxTypeOK'
  OBVIOUS
<1>1. CASE UNCHANGED cTxVars
  BY <1>1 DEF CanTxTypeOK, cTxVars, cMail
<1>2. ASSUME NEW enable \in BOOLEAN, CAN_IRQ_control(enable) PROVE CanTxTypeOK'
  BY <1>2 DEF CanTxTypeOK, CAN_IRQ_control, cMail
<1>3. ASSUME NEW call \in {"load poll", "load IT"}, CAN_load_mailbox(call)
      PROVE  CanTxTypeOK'
  BY <1>3, CanAssumption DEF CanTxTypeOK, CAN_load_mailbox, SendStep, cMail
<1>4. CASE RequestTransmission
  BY <1>4 DEF CanTxTypeOK, RequestTransmission, SendStep
<1>5. CASE TransmitReturns
  BY <1>5 DEF CanTxTypeOK, TransmitReturns, SendStep, ClearRQCP, Report
<1>6. CASE TransmitTimesOut
  BY <1>6 DEF CanTxTypeOK, TransmitTimesOut, SendStep
<1>7. CASE EnterTxHandler
  <2>1. cHandler' \in 0 .. 3
    BY <1>7 DEF EnterTxHandler
  <2> QED BY <1>7, <2>1 DEF CanTxTypeOK, EnterTxHandler, cMail
<1>8. CASE CAN_TX_IRQHandler
  <2>1. cHandler' \in 0 .. 3
    BY <1>8 DEF CAN_TX_IRQHandler, Mailboxes
  <2>2. /\ cDone' \in [Mailboxes -> {"none", "ok", "failed"}]
        /\ cOwed' \in [Mailboxes -> {"none", "ok", "failed", "misreported"}]
    BY <1>8 DEF CanTxTypeOK, CAN_TX_IRQHandler, ClearRQCP, Report
  <2> QED BY <1>8, <2>1, <2>2 DEF CanTxTypeOK, CAN_TX_IRQHandler
<1>9. ASSUME NEW m \in Mailboxes, NEW outcome \in CanOutcomes, Transmitted(m, outcome)
      PROVE  CanTxTypeOK'
  BY <1>9, CanAssumption DEF CanTxTypeOK, Transmitted
<1> QED
  BY <1>1, <1>2, <1>3, <1>4, <1>5, <1>6, <1>7, <1>8, <1>9, OtherStepsDoNotSend
  DEF CanTxStep

-----------------------------------------------------------------------------
\* CAN_init and the controller that follows MCR in its own time: they alone change what
\* the initialisation has set up.
CanSetupInv == CanSetupTypeOK /\ InitSequence

\* CAN_init and the filters start from what the configuration asks for.
LEMMA CanSetupInit == CanInit => CanSetupInv
BY DEF CanInit, CanSetupInv, CanSetupTypeOK, InitSequence

\* CAN_init writes the configuration in the mode that allows it, and nothing
\* else writes it.
LEMMA CanSetupStep == CanSetupInv /\ [CanNext]_cVars => CanSetupInv'
<1> SUFFICES ASSUME CanSetupInv, [CanNext]_cVars PROVE CanSetupInv'
  OBVIOUS
<1> USE DEF CanSetupInv, CanSetupTypeOK, InitSequence
<1>1. CASE UNCHANGED <<cInit, cWanted, cMCR, cMSR, cBTR>>
  BY <1>1
<1>2. ASSUME NEW mode \in CanModes, CAN_init(mode) PROVE CanSetupInv'
  BY <1>2 DEF CAN_init, InitStep
<1>3. CASE LeaveSleep
  BY <1>3 DEF LeaveSleep, InitStep, EnteredInit
<1>4. CASE ConfigureAndLeave
  BY <1>4 DEF ConfigureAndLeave, InitStep
<1>5. CASE InitDone
  BY <1>5 DEF InitDone, InitStep
<1>6. CASE InitTimeout
  BY <1>6 DEF InitTimeout, InitStep
<1>7. CASE Acknowledge
  BY <1>7 DEF Acknowledge
<1>8. ASSUME NEW enable \in BOOLEAN, CAN_IRQ_control(enable) PROVE UNCHANGED cSetup
  BY <1>8 DEF CAN_IRQ_control
<1>9. ASSUME NEW call \in {"load poll", "load IT"}, CAN_load_mailbox(call)
      PROVE  UNCHANGED cSetup
  BY <1>9 DEF CAN_load_mailbox, SendStep
<1>10. CASE RequestTransmission \/ TransmitReturns \/ TransmitTimesOut \/ EnterTxHandler
            \/ CAN_TX_IRQHandler
  BY <1>1, <1>10
  DEF RequestTransmission, TransmitReturns, TransmitTimesOut, EnterTxHandler,
      CAN_TX_IRQHandler, SendStep, cSetup
<1>11. ASSUME NEW m \in Mailboxes, NEW outcome \in CanOutcomes, Transmitted(m, outcome)
       PROVE  UNCHANGED cSetup
  BY <1>11 DEF Transmitted
<1>12. ASSUME NEW f \in Fifos,
              CAN_configure_filter(f) \/ FrameArrives(f) \/ CAN_RX_IRQHandler(f)
       PROVE  UNCHANGED <<cInit, cWanted, cMCR, cMSR, cBTR>>
  BY <1>12 DEF CAN_configure_filter, FrameArrives, CAN_RX_IRQHandler, RxStep, cSetup
<1>13. CASE CAN_receive \/ ReceiveReturns \/ CanRxCallback
  BY <1>1, <1>13 DEF CAN_receive, ReceiveReturns, CanRxCallback, RxStep, cSetup
<1>14. CASE UNCHANGED cVars
  BY <1>1, <1>14 DEF cVars, cSetup
<1> QED
  BY <1>1, <1>2, <1>3, <1>4, <1>5, <1>6, <1>7, <1>8, <1>9, <1>10, <1>11, <1>12, <1>13,
     <1>14
  DEF CanNext, cSetup

\* CAN_init returns KHAL_OK only with the controller running in the mode it was given, also
\* when an earlier call timed out half way.
THEOREM CanRunsConfigured == CanSpec => []CanRunsAsConfigured
<1>1. CanSetupInv => CanRunsAsConfigured
  BY DEF CanSetupInv, InitSequence, CanRunsAsConfigured
<1> QED BY <1>1, CanSetupInit, CanSetupStep, PTL DEF CanSpec

-----------------------------------------------------------------------------
\* The inductive step, in the setting the property is about: the handler is prompt and
\* polling is done with the lines off.
LEMMA CanTxInvStep ==
    ASSUME CanPrompt, ~CanMixed, CanTxTypeOK, CanTxInv, [CanNext]_cVars
    PROVE  CanTxInv'
<1> USE DEF CanTxTypeOK, CanTxInv, SendLines, PendingHasNoOutcome, OneOutcomeAtMost,
            CanCompletionsReported, Completed
<1>1. CASE UNCHANGED cTxVars
  BY <1>1 DEF cTxVars, cMail
<1>2. ASSUME NEW enable \in BOOLEAN, CAN_IRQ_control(enable) PROVE CanTxInv'
  BY <1>2 DEF CAN_IRQ_control, CanTaskRuns, TxPending, HandlersOut, cMail, Mailboxes
<1>3. ASSUME NEW call \in {"load poll", "load IT"}, CAN_load_mailbox(call)
      PROVE  CanTxInv'
  BY <1>3, CanAssumption DEF CAN_load_mailbox, SendStep, CanTaskRuns, TxPending, cMail
<1>4. CASE RequestTransmission
  <2>1. /\ cSend \in {"load poll", "load IT"} /\ cSend' \in {"wait", "none"}
        /\ cSend' = "wait" <=> cSend = "load poll"
        /\ UNCHANGED <<cBox, cHandler, cIrqOn>>
        /\ cIrqOn => \A m \in Mailboxes : cDone[m] = "none"
    BY <1>4 DEF RequestTransmission, SendStep, CanTaskRuns, TxPending
  <2>2. /\ cTx' = [cTx EXCEPT ![cBox] = "pending"]
        /\ cDone' = [cDone EXCEPT ![cBox] = "none"]
        /\ cOwed' = [cOwed EXCEPT ![cBox] = IF cBox \in cLate THEN "none" ELSE @]
        /\ cLate' = cLate \ {cBox}
    BY <1>4 DEF RequestTransmission
  <2>3. cBox \notin cLate => cDone[cBox] = "none"
    BY <2>1
  <2>4. SendLines'
    BY <2>1
  <2>5. PendingHasNoOutcome'
    <3>1. \A m \in Mailboxes : cTx'[m] = "pending" => cDone'[m] = "none"
      BY <2>2
    <3>2. cTx'[cBox] = "pending" /\ cBox \notin cLate'
      BY <2>2
    <3> QED BY <2>1, <3>1, <3>2
  <2>6. OneOutcomeAtMost'
    <3>1. CASE cIrqOn
      <4>1. \A m \in Mailboxes : cDone'[m] = "none"
        BY <2>1, <2>2, <3>1
      <4> QED BY <2>1, <3>1, <4>1
    <3>2. CASE ~cIrqOn
      BY <2>1, <2>2, <3>2
    <3> QED BY <3>1, <3>2
  <2>7. CanCompletionsReported'
    BY <2>2, <2>3
  <2> QED BY <2>4, <2>5, <2>6, <2>7
<1>5. CASE TransmitReturns
  BY <1>5 DEF TransmitReturns, SendStep, ClearRQCP, Report, ReadTXOK, CanTaskRuns, TxPending
<1>6. CASE TransmitTimesOut
  BY <1>6 DEF TransmitTimesOut, SendStep, CanTaskRuns, TxPending
<1>7. CASE EnterTxHandler
  BY <1>7 DEF EnterTxHandler, TxPending, cMail
<1>8. CASE CAN_TX_IRQHandler
  <2>1. /\ cHandler \in Mailboxes /\ cIrqOn
        /\ UNCHANGED <<cTx, cLate, cSend, cBox, cIrqOn>>
    BY <1>8 DEF CAN_TX_IRQHandler
  <2>2. CASE cDone[cHandler] = "none"
    <3>1. UNCHANGED <<cDone, cOwed>>
      BY <1>8, <2>2 DEF CAN_TX_IRQHandler
    <3> QED BY <2>1, <3>1
  <2>3. CASE cDone[cHandler] # "none"
    <3>1. /\ cDone' = [m \in Mailboxes |-> "none"]
          /\ cOwed' = [cOwed EXCEPT ![cHandler] =
                         IF @ = ReadTXOK(cHandler) THEN "none" ELSE "misreported"]
      BY <1>8, <2>3 DEF CAN_TX_IRQHandler, ClearRQCP, Report
    <3>2. ReadTXOK(cHandler) = cDone[cHandler]
      BY <2>1, <2>3 DEF ReadTXOK
    <3>3. \A m \in Mailboxes \ cLate : m # cHandler => cDone[m] = "none"
      <4>1. Completed(cHandler)
        BY <2>1, <2>3
      <4>2. \A m \in Mailboxes \ cLate : Completed(m) => cHandler = m
        BY <2>1, <4>1 DEF OneOutcomeAtMost
      <4> QED BY <4>2 DEF Completed
    <3>4. ASSUME NEW m \in Mailboxes \ cLate PROVE cOwed'[m] = "none"
      <4>1. CASE m = cHandler
        <5>1. cOwed[m] = cDone[m]
          BY <2>1, <2>3, <4>1
        <5>2. DOMAIN cOwed = Mailboxes /\ m \in Mailboxes
          OBVIOUS
        <5> HIDE DEF CanTxTypeOK, CanTxInv, SendLines, PendingHasNoOutcome, OneOutcomeAtMost,
                     CanCompletionsReported, Completed
        <5>3. cOwed'[m] = IF cOwed[m] = ReadTXOK(cHandler) THEN "none" ELSE "misreported"
          BY <3>1, <4>1, <5>2
        <5> QED BY <3>2, <4>1, <5>1, <5>3
      <4>2. CASE m # cHandler
        BY <3>1, <3>3, <4>2
      <4> QED BY <4>1, <4>2
    <3>5. CanCompletionsReported'
      BY <2>1, <3>1, <3>4
    <3> QED BY <2>1, <3>1, <3>5
  <2> QED BY <2>2, <2>3
<1>9. ASSUME NEW m \in Mailboxes, NEW outcome \in CanOutcomes, Transmitted(m, outcome)
      PROVE  CanTxInv'
  <2>1. /\ cTx[m] = "pending"
        /\ cTx' = [cTx EXCEPT ![m] = "empty"]
        /\ cDone' = [cDone EXCEPT ![m] = outcome]
        /\ cOwed' = [cOwed EXCEPT ![m] = outcome]
        /\ UNCHANGED <<cLate, cSend, cBox, cHandler, cIrqOn>>
        /\ cIrqOn => \A n \in Mailboxes : cDone[n] = "none"
    BY <1>9 DEF Transmitted, TxPending
  <2>2. outcome \in {"ok", "failed"}
    BY CanAssumption
  <2>3. SendLines'
    BY <2>1
  <2>4. PendingHasNoOutcome'
    BY <2>1, <2>2
  <2>5. OneOutcomeAtMost'
    <3>1. CASE cIrqOn
      <4>1. \A n \in Mailboxes : cDone'[n] # "none" => n = m
        BY <2>1, <3>1
      <4> QED BY <2>1, <3>1, <4>1
    <3>2. CASE ~cIrqOn
      BY <2>1, <2>2, <3>2
    <3> QED BY <3>1, <3>2
  <2>6. CanCompletionsReported'
    BY <2>1, <2>2
  <2> QED BY <2>3, <2>4, <2>5, <2>6
<1> QED
  BY <1>1, <1>2, <1>3, <1>4, <1>5, <1>6, <1>7, <1>8, <1>9, OtherStepsDoNotSend
  DEF CanTxStep

\* No mailbox is in use before the first transmission.
LEMMA CanTxInitInv == CanInit => CanTxTypeOK /\ CanTxInv
<1>1. 0 \in Mailboxes /\ 3 \in 0 .. 3 /\ 3 \notin Mailboxes
  BY DEF Mailboxes
<1>2. CanInit => CanTxTypeOK
  BY <1>1 DEF CanInit, CanTxTypeOK
<1>3. CanInit => CanTxInv
  BY <1>1
  DEF CanInit, CanTxInv, SendLines, PendingHasNoOutcome, OneOutcomeAtMost,
      CanCompletionsReported, Completed
<1> QED BY <1>2, <1>3

\* What a mailbox's transmission came to is reported once, as it was, when CAN_TX_IRQHandler
\* runs before another transmission ends and CAN_transmit is called with the lines off.
THEOREM CanReportsOnce ==
    ASSUME CanPrompt, ~CanMixed PROVE CanSpec => []CanCompletionsReported
<1>1. CanTxTypeOK /\ CanTxInv /\ [CanNext]_cVars => (CanTxTypeOK /\ CanTxInv)'
  BY CanTxTypeStep, CanTxInvStep
<1>2. CanTxInv => CanCompletionsReported
  BY DEF CanTxInv
<1> QED BY <1>1, <1>2, CanTxInitInv, PTL DEF CanSpec

-----------------------------------------------------------------------------
\* Receiving.
cRxVars == <<cRx, cIrqOn>>

CanRxStep ==
    \/ \E enable \in BOOLEAN : CAN_IRQ_control(enable)
    \/ \E f \in Fifos : FrameArrives(f) \/ CAN_RX_IRQHandler(f)
    \/ CAN_receive \/ ReceiveReturns \/ CanRxCallback

\* Initialising, transmitting and switching lines leave what reception uses.
LEMMA OtherStepsDoNotReceive == [CanNext]_cVars => CanRxStep \/ UNCHANGED cRxVars
<1>1. ASSUME NEW mode \in CanModes, CAN_init(mode) PROVE UNCHANGED cRxVars
  BY <1>1 DEF CAN_init, InitStep, cRxVars
<1>2. LeaveSleep \/ ConfigureAndLeave \/ InitDone \/ InitTimeout \/ Acknowledge
        => UNCHANGED cRxVars
  BY DEF LeaveSleep, ConfigureAndLeave, InitDone, InitTimeout, InitStep, Acknowledge, cRxVars
<1>3. ASSUME NEW f \in Fifos, CAN_configure_filter(f) PROVE UNCHANGED cRxVars
  BY <1>3 DEF CAN_configure_filter, cRxVars
<1>4. ASSUME NEW call \in {"load poll", "load IT"}, CAN_load_mailbox(call)
      PROVE  UNCHANGED cRxVars
  BY <1>4 DEF CAN_load_mailbox, SendStep, cRxVars
<1>5. RequestTransmission \/ TransmitReturns \/ TransmitTimesOut => UNCHANGED cRxVars
  BY DEF RequestTransmission, TransmitReturns, TransmitTimesOut, SendStep, cRxVars
<1>6. EnterTxHandler \/ CAN_TX_IRQHandler => UNCHANGED cRxVars
  BY DEF EnterTxHandler, CAN_TX_IRQHandler, cRxVars
<1>7. ASSUME NEW m \in Mailboxes, NEW outcome \in CanOutcomes, Transmitted(m, outcome)
      PROVE  UNCHANGED cRxVars
  BY <1>7 DEF Transmitted, cRxVars
<1>8. UNCHANGED cVars => UNCHANGED cRxVars
  BY DEF cVars, cRxVars
<1> QED BY <1>1, <1>2, <1>3, <1>4, <1>5, <1>6, <1>7, <1>8 DEF CanNext, CanRxStep

\* The frames of a FIFO are numbered: one that arrives gets the next number, and releasing
\* the FIFO drops the first.
InOrder(s, got) == s = [i \in 1 .. Len(s) |-> got + i]

\* A frame appended to a FIFO comes after those in it.
LEMMA ArrivalKeepsOrder ==
    ASSUME NEW s \in Seq(Nat), NEW got \in Nat, InOrder(s, got)
    PROVE  LET t == Append(s, got + Len(s) + 1)
           IN  t \in Seq(Nat) /\ InOrder(t, got) /\ t # <<>> /\ (s # <<>> => Head(t) = Head(s))
<1> DEFINE t == Append(s, got + Len(s) + 1)
<1>1. t \in Seq(Nat) /\ Len(t) = Len(s) + 1 /\ t # <<>>
  OBVIOUS
<1>2. \A i \in 1 .. Len(s) : t[i] = s[i] /\ s[i] = got + i
  BY DEF InOrder
<1>3. t[Len(s) + 1] = got + Len(s) + 1
  OBVIOUS
<1>4. InOrder(t, got)
  <2> HIDE DEF t
  <2>0. Len(s) \in Nat /\ Len(t) \in Nat
    BY <1>1
  <2>1. ASSUME NEW i \in 1 .. Len(t) PROVE t[i] = got + i
    <3>1. CASE i = Len(s) + 1
      BY <1>3, <2>0, <3>1
    <3>2. CASE i # Len(s) + 1
      <4>1. i \in 1 .. Len(s)
        BY <1>1, <2>0, <2>1, <3>2
      <4> QED BY <1>2, <4>1
    <3> QED BY <3>1, <3>2
  <2>2. t = [i \in 1 .. Len(t) |-> t[i]]
    BY <1>1
  <2> QED BY <2>1, <2>2 DEF InOrder
<1>5. s # <<>> => Head(t) = Head(s)
  BY <1>1, <1>2
<1> QED BY <1>1, <1>4, <1>5

\* Delivering the oldest frame of a FIFO keeps the order of both.
LEMMA ReleaseKeepsOrder ==
    ASSUME NEW s \in Seq(Nat), NEW got \in Nat, InOrder(s, got), s # <<>>
    PROVE  /\ Head(s) = got + 1
           /\ Tail(s) \in Seq(Nat) /\ InOrder(Tail(s), got + 1)
<1> DEFINE t == Tail(s)
<1>1. t \in Seq(Nat) /\ Len(t) = Len(s) - 1 /\ Len(s) \in Nat /\ Len(s) # 0
  OBVIOUS
<1>2. \A i \in 1 .. Len(s) : s[i] = got + i
  BY DEF InOrder
<1>3. Head(s) = got + 1
  BY <1>1, <1>2
<1>4. \A i \in 1 .. Len(t) : t[i] = s[i + 1]
  OBVIOUS
<1>5. InOrder(t, got + 1)
  <2> HIDE DEF t
  <2>1. ASSUME NEW i \in 1 .. Len(t) PROVE t[i] = got + 1 + i
    <3>1. i + 1 \in 1 .. Len(s) /\ i \in Nat
      BY <1>1, <2>1
    <3>2. t[i] = got + (i + 1)
      BY <1>2, <1>4, <2>1, <3>1
    <3> QED BY <3>1, <3>2
  <2>2. t = [i \in 1 .. Len(t) |-> t[i]]
    BY <1>1
  <2> QED BY <2>1, <2>2 DEF InOrder
<1> QED BY <1>1, <1>3, <1>5

\* Every step of CAN_receive, the RX handler and the FIFOs keeps the types.
LEMMA CanRxTypeStep == CanRxTypeOK /\ [CanNext]_cVars => CanRxTypeOK'
<1> SUFFICES ASSUME CanRxTypeOK, [CanNext]_cVars PROVE CanRxTypeOK'
  OBVIOUS
<1> USE DEF CanRxTypeOK
<1>1. CASE UNCHANGED cRxVars
  BY <1>1 DEF cRxVars, cRx
<1>2. ASSUME NEW enable \in BOOLEAN, CAN_IRQ_control(enable) PROVE CanRxTypeOK'
  BY <1>2 DEF CAN_IRQ_control, cRx
<1>3. ASSUME NEW f \in Fifos, FrameArrives(f) PROVE CanRxTypeOK'
  BY <1>3 DEF FrameArrives, Arrived
<1>4. ASSUME NEW f \in Fifos, CAN_RX_IRQHandler(f) PROVE CanRxTypeOK'
  BY <1>4 DEF CAN_RX_IRQHandler
<1>5. CASE CAN_receive
  BY <1>5 DEF CAN_receive
<1>6. CASE ReceiveReturns
  BY <1>6, CanAssumption DEF ReceiveReturns, ReleaseAndDeliver, ReleasedFifo
<1>7. CASE CanRxCallback
  BY <1>7, CanAssumption DEF CanRxCallback, ReleaseAndDeliver, ReleasedFifo
<1> QED
  BY <1>1, <1>2, <1>3, <1>4, <1>5, <1>6, <1>7, OtherStepsDoNotReceive DEF CanRxStep

\* Frames are read and released in the order the FIFOs hold them.
LEMMA CanRxInvStep ==
    ASSUME ~CanMixed, CanRxTypeOK, CanRxInv, [CanNext]_cVars
    PROVE  CanRxInv'
<1> USE DEF CanRxInv, ReadFrameIsFirst
<1>a. \A f \in Fifos : InOrder(cFifo[f], cGot[f])
  BY DEF CanFramesInOrder, InOrder
<1>b. ASSUME \A f \in Fifos : InOrder(cFifo'[f], cGot'[f]) PROVE CanFramesInOrder'
  BY <1>b DEF CanFramesInOrder, InOrder
<1>1. CASE UNCHANGED cRxVars
  BY <1>1 DEF cRxVars, cRx, CanFramesInOrder
<1>2. ASSUME NEW enable \in BOOLEAN, CAN_IRQ_control(enable) PROVE CanRxInv'
  BY <1>2 DEF CAN_IRQ_control, CanTaskRuns, HandlersOut, cRx, CanFramesInOrder
<1>3. ASSUME NEW f \in Fifos, FrameArrives(f) PROVE CanRxInv'
  <2>1. /\ UNCHANGED <<cGot, cPoll, cIsrRx, cIrqOn>>
        /\ cFifo' = [cFifo EXCEPT ![f] = Append(@, cGot[f] + Len(cFifo[f]) + 1)]
    BY <1>3 DEF FrameArrives, RxStep, Arrived
  <2>2. cFifo \in [Fifos -> Seq(Nat)] /\ cGot \in [Fifos -> Nat]
    BY DEF CanRxTypeOK
  <2>3. \A g \in Fifos : /\ InOrder(cFifo'[g], cGot[g])
                         /\ cFifo[g] # <<>> => cFifo'[g] # <<>> /\ Head(cFifo'[g]) = Head(cFifo[g])
    BY <1>a, <2>1, <2>2, ArrivalKeepsOrder
  <2>4. CanFramesInOrder'
    BY <1>b, <2>1, <2>3
  <2>5. cPoll # <<>> => cPoll[1] \in Fifos
    BY DEF CanRxTypeOK
  <2>6. cIsrRx # <<>> => cIsrRx[1] \in Fifos
    BY DEF CanRxTypeOK
  <2> QED BY <2>1, <2>3, <2>4, <2>5, <2>6
<1>4. ASSUME NEW f \in Fifos, CAN_RX_IRQHandler(f) PROVE CanRxInv'
  BY <1>4 DEF CAN_RX_IRQHandler, RxStep, CanFramesInOrder
<1>5. CASE CAN_receive
  BY <1>5 DEF CAN_receive, RxStep, CanTaskRuns, HandlersOut, CanFramesInOrder
<1>6. ASSUME NEW f \in Fifos, cFifo[f] # <<>>, ReleaseAndDeliver(f, Head(cFifo[f]))
      PROVE  CanFramesInOrder'
  <2>1. cFifo \in [Fifos -> Seq(Nat)] /\ cGot \in [Fifos -> Nat]
    BY DEF CanRxTypeOK
  <2>2. /\ Head(cFifo[f]) = cGot[f] + 1
        /\ InOrder(Tail(cFifo[f]), cGot[f] + 1)
    BY <1>a, <1>6, <2>1, ReleaseKeepsOrder
  <2>3. /\ cFifo' = [cFifo EXCEPT ![f] = Tail(@)]
        /\ cGot' = [cGot EXCEPT ![f] = @ + 1]
    BY <1>6, <2>1, <2>2 DEF ReleaseAndDeliver, ReleasedFifo
  <2>4. \A g \in Fifos : InOrder(cFifo'[g], cGot'[g])
    BY <1>a, <2>1, <2>2, <2>3
  <2> QED BY <1>b, <2>4
<1>7. CASE ReceiveReturns
  <2>1. cPoll # <<>> /\ cPoll[1] \in Fifos /\ cIsrRx = <<>> /\ cPoll' = <<>> /\ cIsrRx' = <<>>
    BY <1>7 DEF ReceiveReturns, CanTaskRuns, HandlersOut, CanRxTypeOK
  <2> QED BY <1>6, <1>7, <2>1 DEF ReceiveReturns
<1>8. CASE CanRxCallback
  <2>1. cIsrRx # <<>> /\ cIsrRx[1] \in Fifos /\ cPoll = <<>> /\ cPoll' = <<>> /\ cIsrRx' = <<>>
    BY <1>8 DEF CanRxCallback, CanRxTypeOK
  <2> QED BY <1>6, <1>8, <2>1 DEF CanRxCallback
<1> QED
  BY <1>1, <1>2, <1>3, <1>4, <1>5, <1>7, <1>8, OtherStepsDoNotReceive DEF CanRxStep

\* Nothing has been received at first.
LEMMA CanRxInitInv == CanInit => CanRxTypeOK /\ CanRxInv
<1>1. CanInit => CanRxTypeOK
  BY DEF CanInit, CanRxTypeOK
<1>2. CanInit => CanRxInv
  BY DEF CanInit, CanRxInv, ReadFrameIsFirst, CanFramesInOrder
<1> QED BY <1>1, <1>2

\* The application gets the frames of each FIFO in order, each once, when CAN_receive is
\* called with the lines off.
THEOREM CanReceivesInOrder == ASSUME ~CanMixed PROVE CanSpec => []CanFramesInOrder
<1>1. CanRxTypeOK /\ CanRxInv /\ [CanNext]_cVars => (CanRxTypeOK /\ CanRxInv)'
  BY CanRxTypeStep, CanRxInvStep
<1>2. CanRxInv => CanFramesInOrder
  BY DEF CanRxInv
<1> QED BY <1>1, <1>2, CanRxInitInv, PTL DEF CanSpec

-----------------------------------------------------------------------------
(* The tables of clocks, resets and interrupt lines.                        *)

\* No two peripherals share a bit.
LEMMA EnableBitsDiffer ==
    \A p, q \in DOMAIN EnableBit : EnableBit[p] = EnableBit[q] => p = q
BY DEF EnableBit

\* No two lines have the same place in vectors[].
LEMMA VectorsDiffer == \A l, m \in DOMAIN Vector : Vector[l] = Vector[m] => l = m
BY DEF Vector

\* The IRQ_NO_ numbers are those of vectors[], but for the lines of CAN2.
LEMMA NumbersFitVectors ==
    /\ DOMAIN Vector = DOMAIN IrqNo
    /\ \A l \in (DOMAIN IrqNo) \ Can2Lines : IrqNo[l] = Vector[l]
BY DEF IrqNo, Vector, Can2Lines

\* A write reaches the peripheral it is meant for or, at the three wrong addresses, none.
LEMMA WritesReachTheirOwn ==
  ASSUME NEW p \in DOMAIN EnableBit, NEW enr
  PROVE  Written(p, enr) = IF p \notin Misplaced /\ EnableBit[p] \in enr THEN {p} ELSE {}
<1>1. \A q \in DOMAIN EnableBit : Block[q] = Block[p] => q = p
  BY DEF Block, EnableBit
<1>2. Block[p] \notin {133, 134, 135}
  BY DEF Block, EnableBit
<1>3. /\ DOMAIN DeviceBlock = DOMAIN EnableBit
      /\ \A q \in DOMAIN EnableBit :
           IF q \in Misplaced THEN DeviceBlock[q] \in {133, 134, 135} ELSE DeviceBlock[q] = Block[q]
  <2>1. DOMAIN Block = DOMAIN EnableBit
    BY DEF Block, EnableBit
  <2>2. Misplaced \subseteq DOMAIN EnableBit
    BY DEF Misplaced, EnableBit
  <2>3. DOMAIN DeviceBlock = DOMAIN Block
    BY DEF DeviceBlock
  <2>4. ASSUME NEW q \in DOMAIN Block, q \notin Misplaced PROVE DeviceBlock[q] = Block[q]
    BY <2>4 DEF DeviceBlock, Misplaced
  <2>5. ASSUME NEW q \in Misplaced PROVE DeviceBlock[q] \in {133, 134, 135}
    <3>1. q \in DOMAIN Block
      BY <2>1, <2>2
    <3>2. CASE q = "GPIOF"  BY <3>1, <3>2 DEF DeviceBlock
    <3>3. CASE q = "GPIOG"  BY <3>1, <3>3 DEF DeviceBlock
    <3>4. CASE q = "GPIOH"  BY <3>1, <3>4 DEF DeviceBlock
    <3> QED BY <3>2, <3>3, <3>4 DEF Misplaced
  <2> QED BY <2>1, <2>3, <2>4, <2>5
<1> QED BY <1>1, <1>2, <1>3 DEF Written

\* The property, and that nothing else is asked for.
ClocksInv ==
    /\ pClocked \subseteq PPeripherals /\ pSetUp \subseteq PPeripherals
    /\ PeripheralsAsAsked

\* Turning a clock on or off moves its own bit, or that of none for GPIOG.
LEMMA ClockSwitched ==
  ASSUME ClocksInv, NEW p \in PPeripherals
  PROVE  /\ pENR \cup OwnBit(p, EnableBit) = {EnableBit[q] : q \in (pClocked \cup {p}) \ {"GPIOG"}}
         /\ pENR \ OwnBit(p, DisableBit) = {EnableBit[q] : q \in (pClocked \ {p}) \ {"GPIOG"}}
<1>1. pENR = {EnableBit[q] : q \in pClocked \ {"GPIOG"}}
  BY DEF ClocksInv, PeripheralsAsAsked
<1>2. \A q \in pClocked \cup {p} : EnableBit[q] = EnableBit[p] => q = p
  BY EnableBitsDiffer, PAssumption DEF ClocksInv
<1>3. CASE p = "GPIOG"
  <2>1. OwnBit(p, EnableBit) = {} /\ OwnBit(p, DisableBit) = {}
    BY <1>3 DEF OwnBit
  <2> QED BY <1>1, <1>3, <2>1
<1>4. CASE p # "GPIOG"
  <2>1. OwnBit(p, EnableBit) = {EnableBit[p]} /\ OwnBit(p, DisableBit) = {EnableBit[p]}
    BY <1>4 DEF OwnBit, DisableBit
  <2>2. pENR \cup {EnableBit[p]} = {EnableBit[q] : q \in (pClocked \cup {p}) \ {"GPIOG"}}
    BY <1>1, <1>4
  <2>3. pENR \ {EnableBit[p]} = {EnableBit[q] : q \in (pClocked \ {p}) \ {"GPIOG"}}
    BY <1>1, <1>2, <1>4
  <2> QED BY <2>1, <2>2, <2>3
<1> QED BY <1>3, <1>4

\* Enabling, disabling, configuring and resetting a peripheral touch its own bits only.
LEMMA ClocksInvStep == ClocksInv /\ [PeripheralsNext]_pVars => ClocksInv'
<1> SUFFICES ASSUME ClocksInv, [PeripheralsNext]_pVars PROVE ClocksInv'
  OBVIOUS
<1> USE DEF ClocksInv, PeripheralsAsAsked
<1>1. ASSUME NEW p \in PPeripherals, NEW enable \in BOOLEAN, ClockControl(p, enable)
      PROVE  ClocksInv'
  BY <1>1, ClockSwitched DEF ClockControl
<1>2. ASSUME NEW p \in PPeripherals, PeripheralInit(p) PROVE ClocksInv'
  <2>1. /\ pENR' = IF p \in Usarts THEN pENR ELSE pENR \cup OwnBit(p, EnableBit)
        /\ p \in Usarts => p \in pClocked
        /\ pRegs' = pRegs \cup Written(p, pENR')
        /\ pClocked' = pClocked \cup {p} /\ pSetUp' = pSetUp \cup {p}
    BY <1>2 DEF PeripheralInit
  <2>2. pENR' = {EnableBit[q] : q \in pClocked' \ {"GPIOG"}}
    <3>1. CASE p \in Usarts
      <4>1. pClocked' = pClocked
        BY <2>1, <3>1
      <4> QED BY <2>1, <3>1, <4>1
    <3>2. CASE p \notin Usarts
      BY <2>1, <3>2, ClockSwitched
    <3> QED BY <3>1, <3>2
  <2>3. pRegs' = pSetUp' \ Misplaced
    <3>1. p \in DOMAIN EnableBit
      BY PAssumption
    <3>2. CASE p \in Misplaced
      <4>1. Written(p, pENR') = {}
        BY <3>1, <3>2, WritesReachTheirOwn
      <4> QED BY <2>1, <3>2, <4>1
    <3>3. CASE p \notin Misplaced
      <4>1. EnableBit[p] \in pENR'
        BY <2>1, <2>2, <3>3 DEF Misplaced
      <4>2. Written(p, pENR') = {p}
        BY <3>1, <3>3, <4>1, WritesReachTheirOwn
      <4> QED BY <2>1, <3>3, <4>2
    <3> QED BY <3>2, <3>3
  <2> QED BY <2>1, <2>2, <2>3
<1>3. ASSUME NEW p \in PPeripherals, Deinit(p) PROVE ClocksInv'
  <2>1. /\ pRegs' = {q \in pRegs : ResetBit[q] \notin OwnBit(p, ResetBit)}
        /\ pSetUp' = pSetUp \ {p} /\ UNCHANGED <<pENR, pClocked>>
    BY <1>3 DEF Deinit
  <2>2. \A q \in pRegs : ResetBit[q] \in OwnBit(p, ResetBit) <=> q = p
    <3>1. "GPIOG" \notin pRegs
      BY DEF Misplaced
    <3>2. \A q \in pRegs : EnableBit[q] = EnableBit[p] => q = p
      BY EnableBitsDiffer, PAssumption
    <3> QED BY <3>1, <3>2 DEF OwnBit, ResetBit
  <2>3. pRegs' = pSetUp' \ Misplaced
    BY <2>1, <2>2
  <2> QED BY <2>1, <2>3
<1>4. ASSUME NEW p \in PPeripherals, PeripheralCall(p) PROVE ClocksInv'
  BY <1>1, <1>2, <1>3, <1>4
  DEF PeripheralCall, GPIO_clock_control, SPI_clock_control, I2C_clock_control,
      USART_clock_control, CAN_clock_control, GPIO_deinit, SPI_deinit, I2C_deinit,
      USART_deinit
<1>5. ASSUME NEW l \in PLines, NEW enable \in PSwitches, LineCall(l, enable)
      PROVE  UNCHANGED pRcc
  BY <1>5
  DEF LineCall, GPIO_IRQ_config, SPI_IRQ_config, I2C_IRQ_config, USART_IRQ_config,
      CanIrqControl, IrqConfig
<1>6. ASSUME NEW l \in DOMAIN Vector, Raise(l) PROVE UNCHANGED pRcc
  BY <1>6 DEF Raise
<1>7. HandlerReturns => UNCHANGED pRcc
  BY DEF HandlerReturns
<1>8. UNCHANGED pVars => UNCHANGED pRcc
  BY DEF pVars
<1>9. CASE UNCHANGED pRcc
  BY <1>9 DEF pRcc
<1> QED BY <1>4, <1>5, <1>6, <1>7, <1>8, <1>9 DEF PeripheralsNext

\* The clocks that run are those asked for, but GPIOG's, and the peripherals hold the
\* configurations they were last given, but the three ports at wrong addresses: for every
\* choice of peripherals and in every order of the calls.
THEOREM PeripheralsGetWhatTheyAsk == PeripheralsSpec => []PeripheralsAsAsked
<1>1. PeripheralsInit => ClocksInv
  BY DEF PeripheralsInit, ClocksInv, PeripheralsAsAsked
<1>2. ClocksInv => PeripheralsAsAsked
  BY DEF ClocksInv
<1> QED BY <1>1, <1>2, ClocksInvStep, PTL DEF PeripheralsSpec

\* The numbers enabled are those of the lines asked for and not taken, whose handlers exist.
LinesInv ==
    /\ pOn \subseteq PLines \cap pUsed
    /\ pISER = {IrqNo[l] : l \in pOn \ pTaken}
    /\ pHandler = "Default_Handler" => pOn \cap Can2Lines # {}

\* Enabling a line adds its number; disabling one takes every number of its word.
LEMMA LineSwitched ==
  ASSUME LinesInv, NEW l \in PLines, NEW enable \in BOOLEAN, IrqConfig(l, enable),
         pHandler # "Default_Handler"
  PROVE  LinesInv'
<1> USE DEF LinesInv
<1>1. /\ l \in pUsed /\ SwitchLine(IrqNo[l], enable)
      /\ pOn' = IF enable THEN pOn \cup {l} ELSE pOn \ {l}
      /\ pTaken' = (IF enable THEN pTaken
                    ELSE pTaken \cup {m \in pOn : Word(IrqNo[m]) = Word(IrqNo[l])}) \ {l}
      /\ pUsed' = pUsed /\ pHandler' = pHandler
  BY DEF IrqConfig
<1>2. CASE enable
  <2>1. pISER' = pISER \cup {IrqNo[l]} /\ pOn' \ pTaken' = (pOn \ pTaken) \cup {l}
    BY <1>1, <1>2 DEF SwitchLine
  <2>2. pISER' = {IrqNo[m] : m \in pOn' \ pTaken'}
    BY <2>1
  <2> QED BY <1>1, <1>2, <2>2
<1>3. CASE ~enable
  <2>1. pISER' = {n \in pISER : Word(n) # Word(IrqNo[l])} \ {IrqNo[l]}
    BY <1>1, <1>3 DEF SwitchLine
  <2>2. pOn' \ pTaken' = {m \in pOn \ pTaken : Word(IrqNo[m]) # Word(IrqNo[l])}
    BY <1>1, <1>3
  <2>3. pISER' = {IrqNo[m] : m \in pOn' \ pTaken'}
    BY <2>1, <2>2
  <2> QED BY <1>1, <1>3, <2>3
<1> QED BY <1>2, <1>3

\* No call, interrupt or return enables a line that was not asked for.
LEMMA LinesInvStep == LinesInv /\ [PeripheralsNext]_pVars => LinesInv'
<1> SUFFICES ASSUME LinesInv, [PeripheralsNext]_pVars PROVE LinesInv'
  OBVIOUS
<1> USE DEF LinesInv
<1>1. ASSUME NEW l \in PLines, NEW enable \in PSwitches, pHandler = "none", LineCall(l, enable)
      PROVE  LinesInv'
  <2>1. enable \in BOOLEAN /\ IrqConfig(l, enable)
    BY <1>1, PAssumption
    DEF LineCall, GPIO_IRQ_config, SPI_IRQ_config, I2C_IRQ_config, USART_IRQ_config,
        CanIrqControl
  <2> QED BY <1>1, <2>1, LineSwitched
<1>2. ASSUME NEW l \in DOMAIN Vector, Raise(l) PROVE LinesInv'
  <2>1. /\ Vector[l] \in pISER /\ UNCHANGED <<pUsed, pISER, pOn, pTaken>>
        /\ pHandler' = IF l \in pUsed THEN l ELSE "Default_Handler"
    BY <1>2 DEF Raise
  <2>2. PICK m \in pOn : Vector[l] = IrqNo[m]
    BY <2>1
  <2>3. pOn \cap Can2Lines = {} => l \in pUsed
    <3> SUFFICES ASSUME pOn \cap Can2Lines = {} PROVE l \in pUsed
      OBVIOUS
    <3>1. m \in (DOMAIN IrqNo) \ Can2Lines /\ m \in pUsed
      BY <2>2, PAssumption
    <3>2. Vector[l] = Vector[m] /\ m \in DOMAIN Vector
      BY <2>2, <3>1, NumbersFitVectors
    <3> QED BY <3>1, <3>2, VectorsDiffer
  <2>4. l # "Default_Handler"
    BY DEF Vector
  <2> QED BY <2>1, <2>3, <2>4
<1>3. CASE HandlerReturns
  BY <1>3 DEF HandlerReturns
<1>4. CASE UNCHANGED <<pUsed, pNvic>>
  BY <1>4 DEF pNvic
<1>5. ASSUME NEW p \in PPeripherals, PeripheralCall(p) PROVE UNCHANGED <<pUsed, pNvic>>
  BY <1>5
  DEF PeripheralCall, GPIO_clock_control, SPI_clock_control, I2C_clock_control,
      USART_clock_control, CAN_clock_control, GPIO_deinit, SPI_deinit, I2C_deinit,
      USART_deinit, ClockControl, PeripheralInit, Deinit
<1>6. UNCHANGED pVars => UNCHANGED <<pUsed, pNvic>>
  BY DEF pVars
<1> QED BY <1>1, <1>2, <1>3, <1>4, <1>5, <1>6 DEF PeripheralsNext

\* The lines enabled in the NVIC are those asked for, without those that a call for another
\* line of their word has turned off, at the places of their handlers unless they are
\* CAN2's: for every choice of lines, enabled and disabled in every order.
THEOREM LinesGetTheirHandlers == PeripheralsSpec => []LinesAsAsked
<1>1. PeripheralsInit => LinesInv
  BY DEF PeripheralsInit, LinesInv
<1>2. LinesInv => LinesAsAsked
  <2> SUFFICES ASSUME LinesInv PROVE LinesAsAsked
    OBVIOUS
  <2> DEFINE on == pOn \ pTaken
  <2>1. \A l \in on : l \notin Can2Lines => IrqNo[l] = Vector[l]
    BY NumbersFitVectors, PAssumption DEF LinesInv
  <2>2. pISER = {IrqNo[l] : l \in on}
    BY DEF LinesInv
  <2> HIDE DEF on
  <2>3. pISER = {Vector[l] : l \in on \ Can2Lines} \cup {IrqNo[l] : l \in on \cap Can2Lines}
    BY <2>1, <2>2
  <2> QED BY <2>3 DEF LinesAsAsked, LinesInv, on
<1> QED BY <1>1, <1>2, LinesInvStep, PTL DEF PeripheralsSpec

-----------------------------------------------------------------------------
(* USART.c.                                                                 *)

OneIf(full) == IF full # 0 THEN 1 ELSE 0

UsartTxTypeOK ==
    /\ uTxState \in {"READY", "BUSY_TX"}
    /\ uTxLen \in Nat /\ uTxNext \in Nat /\ uTotal \in Nat /\ uTxEvents \in Nat
    /\ uTC \in BOOLEAN /\ uDR \in Nat /\ uShift \in Nat /\ uWire \in Seq(Nat)
    /\ uLeft \in Nat

\* Between transfers, and once TC is set, DR and the shifter are empty.
NothingInFlight ==
    uTC \/ ~Sending => uShift = 0 /\ uDR = 0

\* No blocking transmission runs while an interrupt driven one does; the handler that closes
\* a transmission has found it whole on the wire.
OneTransmission ==
    /\ uCall = "send" => uTxState = "READY"
    /\ uIsr = "close" => uTC /\ uTxState = "BUSY_TX" /\ uTxLen = 0
    /\ uIsr = "TX_CMPLT" => ~Sending

\* The words of the buffer are on the wire, in the shifter, in DR, or still to be loaded.
WordsInOrder ==
    /\ uShift # 0 => uShift = Len(uWire) + 1
    /\ uDR # 0 => uDR = Len(uWire) + OneIf(uShift) + 1
    /\ uTxState = "BUSY_TX" =>
          /\ uTxNext = Len(uWire) + OneIf(uShift) + OneIf(uDR) + 1
          /\ uTxNext <= uTotal + 1
          /\ uTxLen = (uTotal + 1 - uTxNext) * UsartWordBytes
    /\ uCall = "send" => uLeft + Len(uWire) + OneIf(uShift) + OneIf(uDR) = uTotal

UsartTxInv == UsartTxTypeOK /\ NothingInFlight /\ OneTransmission /\ WordsInOrder

UsartRxTypeOK ==
    /\ uRxState \in {"READY", "BUSY_RX"}
    /\ uRxLen \in Nat /\ uRxTotal \in Nat /\ uRxEvents \in Nat /\ uRxBuffer \in Seq(Nat)
    /\ uRDR \in Nat /\ uArrived \in Nat /\ uLost \in BOOLEAN
    /\ uLeft \in Nat

\* As for transmissions.
OneReception ==
    /\ uCall = "receive" => uRxState = "READY"
    /\ uIsr = "RX_CMPLT" => ~Receiving

\* What is stored, and what is still to come.
WordsCounted ==
    /\ uRxState = "BUSY_RX" =>
          /\ Len(uRxBuffer) <= uRxTotal
          /\ uRxLen = (uRxTotal - Len(uRxBuffer)) * UsartWordBytes
    /\ uCall = "receive" => uLeft + Len(uRxBuffer) = uRxTotal

\* As long as none was lost the words stored are the first that arrived, and the one in DR
\* is the next.
StoredInOrder ==
    Receiving /\ ~uLost =>
        /\ \A i \in 1 .. Len(uRxBuffer) : uRxBuffer[i] = i
        /\ uArrived = Len(uRxBuffer) + OneIf(uRDR)
        /\ uRDR # 0 => uRDR = Len(uRxBuffer) + 1

UsartRxInv == UsartRxTypeOK /\ OneReception /\ WordsCounted /\ StoredInOrder

-----------------------------------------------------------------------------
\* What a step means for the transmission.
TxImplemented == UsartTxInv' /\ (UsartTx!Next \/ UNCHANGED UsartTx!vars)

\* The steps of the task, the handler and the line that do not transmit.
LEMMA TxUntouched ==
    ASSUME UsartTxInv, UNCHANGED <<uTxVars, uTxLine>>, uLeft' \in Nat,
           uCall' = "send" <=> uCall = "send", uCall = "send" => uLeft' = uLeft,
           uIsr' \in {"close", "TX_CMPLT"} => uIsr' = uIsr
    PROVE  TxImplemented
<1>1. /\ UNCHANGED <<uTxState, uTxLen, uTxNext, uTotal, uTxEvents, uTC, uDR, uShift, uWire>>
      /\ Sending' <=> Sending
  BY DEF uTxVars, uTxLine, Sending
<1>2. UsartTxInv'
  BY <1>1 DEF UsartTxInv, UsartTxTypeOK, NothingInFlight, OneTransmission, WordsInOrder
<1>3. UNCHANGED UsartTx!vars
  BY <1>1 DEF UsartTx!vars
<1> QED BY <1>2, <1>3 DEF TxImplemented

\* USART_send_IT and the completion callback prepare a transmission, USART_send begins one.
LEMMA TxStarts ==
    ASSUME UsartTxInv, ~Sending, Sending', NEW n \in UsartTxSizes, StartTx(n),
           UNCHANGED <<uTC, uDR, uShift>>, uLeft' \in Nat,
           \/ PrepareTx(n) /\ uCall' # "send"
           \/ UNCHANGED <<uTxState, uTxLen, uTxNext>> /\ uCall' = "send" /\ uLeft' = n,
           uIsr' \notin {"close", "TX_CMPLT"}
    PROVE  TxImplemented
<1>1. n \in Nat /\ n # 0 /\ UsartWordBytes \in {1, 2}
  BY UsartSizesAssumption
<1>2. uTotal' = n /\ uTxEvents' = 0 /\ uWire' = <<>> /\ Len(uWire') = 0
  BY DEF StartTx
<1>3. uShift' = 0 /\ uDR' = 0 /\ uTxState = "READY"
  BY DEF UsartTxInv, UsartTxTypeOK, NothingInFlight, Sending
<1>4. ASSUME PrepareTx(n), uCall' # "send" PROVE UsartTxInv'
  <2>1. uTxNext' = 1 /\ uTxLen' = n * UsartWordBytes /\ uTxState' = "BUSY_TX"
    BY <1>4 DEF PrepareTx
  <2>2. UsartTxTypeOK' /\ NothingInFlight' /\ OneTransmission'
    BY <1>1, <1>2, <1>3, <1>4, <2>1
    DEF UsartTxInv, UsartTxTypeOK, NothingInFlight, OneTransmission, Sending
  <2>3. OneIf(uShift') = 0 /\ OneIf(uDR') = 0 /\ uTotal' + 1 - uTxNext' = n
    BY <1>1, <1>2, <1>3, <2>1 DEF OneIf
  <2>4. WordsInOrder'
    BY <1>1, <1>2, <1>3, <1>4, <2>1, <2>3 DEF WordsInOrder
  <2> QED BY <2>2, <2>4 DEF UsartTxInv
<1>5. ASSUME UNCHANGED <<uTxState, uTxLen, uTxNext>>, uCall' = "send", uLeft' = n
      PROVE  UsartTxInv'
  <2>1. UsartTxTypeOK' /\ NothingInFlight' /\ OneTransmission'
    BY <1>1, <1>2, <1>3, <1>5
    DEF UsartTxInv, UsartTxTypeOK, NothingInFlight, OneTransmission, Sending
  <2>2. WordsInOrder'
    BY <1>1, <1>2, <1>3, <1>5 DEF WordsInOrder, OneIf
  <2> QED BY <2>1, <2>2 DEF UsartTxInv
<1>6. UsartTx!Start
  BY <1>2 DEF UsartTx!Start
<1> QED BY <1>4, <1>5, <1>6 DEF TxImplemented, UsartTx!Next

\* A buffer of so many words in bytes, as the handles count what is left.
LEMMA BytesOfWords ==
    ASSUME NEW words \in Nat, NEW bytes \in {1, 2}
    PROVE  /\ words * bytes \in Nat
           /\ words * bytes = 0 <=> words = 0
           /\ words > 0 => /\ words - 1 \in Nat
                           /\ words * bytes - bytes = (words - 1) * bytes
OBVIOUS

\* USART_send puts a word in DR, and so does the TXE branch.
LEMMA TxLoads ==
    ASSUME UsartTxInv, Sending, uDR = 0, NEW word \in Nat, WriteDR(word),
           word = Len(uWire) + OneIf(uShift) + 1,
           UNCHANGED <<uTxState, uTotal, uTxEvents, uCall>>, uLeft' \in Nat,
           \/ /\ uCall = "send"
              /\ uLeft > 0 /\ uLeft' = uLeft - 1
              /\ UNCHANGED <<uTxNext, uTxLen>>
           \/ /\ uTxState = "BUSY_TX"
              /\ uTxLen > 0 /\ uTxNext' = uTxNext + 1 /\ uTxLen' = uTxLen - UsartWordBytes,
           uIsr' \notin {"close", "TX_CMPLT"}
    PROVE  TxImplemented
<1>1. UsartWordBytes \in {1, 2} /\ Len(uWire) \in Nat /\ OneIf(uShift) \in {0, 1}
  BY UsartSizesAssumption DEF UsartTxInv, UsartTxTypeOK, OneIf
<1>2. /\ uDR' = word /\ uTC' = FALSE /\ uShift' = uShift /\ uWire' = uWire
      /\ uDR' # 0 /\ OneIf(uDR') = 1 /\ OneIf(uDR) = 0 /\ OneIf(uShift') = OneIf(uShift)
  BY <1>1 DEF WriteDR, OneIf
<1>3. Sending'
  BY DEF Sending
<1>4. UsartTxTypeOK' /\ WordsInOrder'
  <2>1. CASE uCall = "send"
    <3>1. /\ uTxState = "READY" /\ uLeft > 0 /\ uLeft' = uLeft - 1
          /\ UNCHANGED <<uTxNext, uTxLen>>
      BY <2>1 DEF UsartTxInv, OneTransmission
    <3>2. UsartTxTypeOK'
      BY <1>2, <3>1 DEF UsartTxInv, UsartTxTypeOK
    <3>3. WordsInOrder'
      <4> DEFINE placed == Len(uWire) + OneIf(uShift)
      <4>1. placed \in Nat /\ uLeft \in Nat /\ uTotal \in Nat /\ word = placed + 1
        BY <1>1 DEF UsartTxInv, UsartTxTypeOK
      <4>2. uLeft + placed = uTotal /\ (uShift # 0 => uShift = Len(uWire) + 1)
        BY <1>1, <1>2, <2>1, <4>1 DEF UsartTxInv, UsartTxTypeOK, WordsInOrder
      <4>3. Len(uWire') + OneIf(uShift') = placed
        BY <1>2
      <4>4. uLeft' + Len(uWire') + OneIf(uShift') + OneIf(uDR') = uTotal'
        <5>1. uTotal' = uTotal /\ OneIf(uDR') = 1 /\ uLeft' = uLeft - 1
          BY <1>2, <3>1
        <5> HIDE DEF placed
        <5>2. uLeft - 1 + placed + 1 = uTotal
          BY <4>1, <4>2
        <5>3. uLeft' + placed + 1 = uTotal'
          BY <5>1, <5>2
        <5>4. Len(uWire') \in Nat /\ OneIf(uShift') \in Nat /\ uLeft' \in Nat
          BY <1>1, <1>2
        <5> QED BY <4>3, <5>1, <5>3, <5>4
      <4>5. uTxState' # "BUSY_TX"
        BY <3>1
      <4> QED BY <1>2, <4>1, <4>2, <4>3, <4>4, <4>5 DEF WordsInOrder
    <3> QED BY <3>2, <3>3
  <2>2. CASE uCall # "send"
    <3>1. /\ uTxState = "BUSY_TX" /\ uTxLen > 0
          /\ uTxNext' = uTxNext + 1 /\ uTxLen' = uTxLen - UsartWordBytes
      BY <2>2
    <3> DEFINE left == uTotal + 1 - uTxNext
    <3>2. left \in Nat /\ uTotal \in Nat /\ uTxNext \in Nat
      BY <1>1, <1>2, <3>1 DEF UsartTxInv, UsartTxTypeOK, WordsInOrder
    <3>3. uTxNext = Len(uWire) + OneIf(uShift) + 1
      <4>1. uTxNext = Len(uWire) + OneIf(uShift) + OneIf(uDR) + 1
        BY <3>1 DEF UsartTxInv, WordsInOrder
      <4> QED BY <1>1, <1>2, <4>1
    <3>4. uTxLen = left * UsartWordBytes
      BY <3>1 DEF UsartTxInv, WordsInOrder
    <3>5. left > 0 /\ left - 1 \in Nat
      <4> HIDE DEF left
      <4>1. left # 0
        BY <1>1, <3>1, <3>2, <3>4
      <4> QED BY <3>2, <4>1
    <3>6. uTxLen' = (left - 1) * UsartWordBytes /\ uTxLen' \in Nat
      <4> HIDE DEF left
      <4>1. uTxLen' = (left - 1) * UsartWordBytes
        BY <1>1, <3>1, <3>2, <3>4, <3>5, BytesOfWords
      <4>2. (left - 1) * UsartWordBytes \in Nat
        BY <1>1, <3>5
      <4> QED BY <4>1, <4>2
    <3>7. uTxNext' <= uTotal + 1 /\ left - 1 = uTotal + 1 - uTxNext'
      <4>1. uTxNext' = uTxNext + 1
        BY <3>1
      <4> QED BY <3>2, <3>5, <4>1
    <3>8. UsartTxTypeOK'
      <4>1. uTxNext' \in Nat
        BY <3>1, <3>2
      <4> QED BY <1>2, <3>6, <4>1 DEF UsartTxInv, UsartTxTypeOK
    <3>9. WordsInOrder'
      <4>1. uTxLen' = (uTotal + 1 - uTxNext') * UsartWordBytes
        BY <3>6, <3>7
      <4> HIDE DEF left
      <4> QED
        BY <1>1, <1>2, <2>2, <3>1, <3>2, <3>3, <3>7, <4>1 DEF UsartTxInv, UsartTxTypeOK, WordsInOrder
    <3> QED BY <3>8, <3>9
  <2> QED BY <2>1, <2>2
<1>5. NothingInFlight' /\ OneTransmission'
  BY <1>2, <1>3 DEF UsartTxInv, NothingInFlight, OneTransmission
<1>6. UNCHANGED UsartTx!vars
  BY <1>2 DEF UsartTx!vars, Sending
<1> QED BY <1>4, <1>5, <1>6 DEF TxImplemented, UsartTxInv

\* The handler, and USART_send, find the last word sent: all of them are on the wire.
LEMMA TxCompletes ==
    ASSUME UsartTxInv, Sending, ~Sending', UNCHANGED <<uTotal, uWire, uDR, uShift>>,
           uTxEvents' = uTxEvents + 1, uTC,
           IF uCall = "send" THEN uLeft = 0 ELSE uTxLen = 0,
           uTxState' = "READY", uCall' # "send", uTxLen' \in Nat, uTxNext' \in Nat,
           uTC' \in BOOLEAN, uLeft' \in Nat, uIsr' # "close"
    PROVE  TxImplemented
<1>1. UsartWordBytes \in {1, 2} /\ Len(uWire) \in Nat
  BY UsartSizesAssumption DEF UsartTxInv, UsartTxTypeOK
<1>2. uShift = 0 /\ uDR = 0 /\ OneIf(uShift) = 0 /\ OneIf(uDR) = 0
  BY DEF UsartTxInv, NothingInFlight, OneIf
<1>3. Len(uWire) = uTotal
  <2>1. CASE uCall = "send"
    BY <1>1, <1>2, <2>1 DEF UsartTxInv, UsartTxTypeOK, WordsInOrder
  <2>2. CASE uCall # "send"
    <3>1. uTxState = "BUSY_TX" /\ uTxLen = 0
      BY <2>2 DEF Sending
    <3>2. /\ uTxLen = (uTotal + 1 - uTxNext) * UsartWordBytes
          /\ uTotal + 1 - uTxNext \in Nat /\ uTotal \in Nat
          /\ uTxNext = Len(uWire) + 1
      BY <1>1, <1>2, <3>1 DEF UsartTxInv, UsartTxTypeOK, WordsInOrder
    <3>3. uTotal + 1 - uTxNext = 0
      BY <1>1, <3>1, <3>2, BytesOfWords
    <3> QED BY <1>1, <3>2, <3>3
  <2> QED BY <2>1, <2>2
<1>4. UsartTx!Complete
  BY <1>3 DEF UsartTx!Complete
<1>5. UsartTxInv'
  BY <1>2
  DEF UsartTxInv, UsartTxTypeOK, NothingInFlight, OneTransmission, WordsInOrder, Sending
<1> QED BY <1>4, <1>5 DEF TxImplemented, UsartTx!Next

\* The hardware moves a word from DR to the shifter.
LEMMA TxShifts ==
    ASSUME UsartTxInv, Shift
    PROVE  TxImplemented
<1>1. /\ uShift = 0 /\ uDR # 0 /\ uShift' = uDR /\ uDR' = 0
      /\ UNCHANGED <<uTxState, uTxLen, uTxNext, uTotal, uTxEvents, uTC, uWire, uCall, uLeft, uIsr>>
      /\ OneIf(uShift) = 0 /\ OneIf(uDR) = 1 /\ OneIf(uShift') = 1 /\ OneIf(uDR') = 0
  BY DEF Shift, uTxVars, uTask, UsartTxInv, UsartTxTypeOK, OneIf
<1>2. Sending /\ ~uTC /\ (Sending' <=> Sending) /\ Len(uWire) \in Nat
  BY <1>1 DEF UsartTxInv, UsartTxTypeOK, NothingInFlight, Sending
<1>3. UsartTxTypeOK' /\ NothingInFlight' /\ OneTransmission'
  BY <1>1, <1>2
  DEF UsartTxInv, UsartTxTypeOK, NothingInFlight, OneTransmission
<1>4. WordsInOrder'
  BY <1>1, <1>2 DEF UsartTxInv, UsartTxTypeOK, WordsInOrder
<1>5. UNCHANGED UsartTx!vars
  BY <1>1, <1>2 DEF UsartTx!vars
<1> QED BY <1>3, <1>4, <1>5 DEF TxImplemented, UsartTxInv

\* The word in the shifter is on the wire.
LEMMA TxSendsOut ==
    ASSUME UsartTxInv, SendOut
    PROVE  TxImplemented
<1>1. /\ uShift # 0 /\ uShift' = 0 /\ uWire' = Append(uWire, uShift) /\ uTC' = (uDR = 0)
      /\ UNCHANGED <<uTxState, uTxLen, uTxNext, uTotal, uTxEvents, uDR, uCall, uLeft, uIsr>>
      /\ OneIf(uShift) = 1 /\ OneIf(uShift') = 0 /\ OneIf(uDR) \in {0, 1}
      /\ OneIf(uDR') = OneIf(uDR)
  BY DEF SendOut, uTxVars, uTask, OneIf
<1>2. UsartWordBytes \in {1, 2}
  BY UsartSizesAssumption
<1>3. Sending /\ ~uTC /\ (Sending' <=> Sending)
  BY <1>1 DEF UsartTxInv, UsartTxTypeOK, NothingInFlight, Sending
<1>4. /\ uWire \in Seq(Nat) /\ Len(uWire) \in Nat /\ uWire' \in Seq(Nat)
      /\ Len(uWire') = Len(uWire) + 1 /\ uShift = Len(uWire) + 1
  BY <1>1, <1>3 DEF UsartTxInv, UsartTxTypeOK, WordsInOrder
<1>5. Len(uWire) < uTotal
  BY <1>1, <1>2, <1>3, <1>4 DEF UsartTxInv, UsartTxTypeOK, WordsInOrder, Sending
<1>6. UsartTxTypeOK' /\ NothingInFlight' /\ OneTransmission'
  BY <1>1, <1>3, <1>4
  DEF UsartTxInv, UsartTxTypeOK, NothingInFlight, OneTransmission
<1>7. WordsInOrder'
  BY <1>1, <1>3, <1>4 DEF UsartTxInv, UsartTxTypeOK, WordsInOrder
<1>8. UsartTx!Move
  BY <1>1, <1>3, <1>4, <1>5 DEF UsartTx!Move, UsartTx!MoveOne
<1> QED BY <1>6, <1>7, <1>8 DEF TxImplemented, UsartTxInv, UsartTx!Next

\* The names of the task's places between the load and the store of CR1.
LEMMA UsartLoadedNames ==
    /\ UsartLoaded["TXEIE"] = "TXEIE loaded"
    /\ UsartLoaded["TCIE"] = "TCIE loaded"
    /\ UsartLoaded["RXNEIE"] = "RXNEIE loaded"
BY DEF UsartLoaded

\* Every step of the USART keeps the invariant of the transmission and is a step of it, or
\* none.
LEMMA UsartTxStep == UsartTxInv /\ [UsartNext]_uVars => TxImplemented
<1> SUFFICES ASSUME UsartTxInv, [UsartNext]_uVars PROVE TxImplemented
  OBVIOUS
<1>0. uLeft \in Nat /\ uTxLen \in Nat /\ uTxNext \in Nat
  BY DEF UsartTxInv, UsartTxTypeOK
<1>1. ASSUME NEW n \in UsartTxSizes, USART_send_IT(n) PROVE TxImplemented
  <2>1. ~Sending /\ Sending' /\ PrepareTx(n) /\ StartTx(n) /\ uCall' # "send"
    BY <1>1 DEF USART_send_IT, PrepareTx, Sending
  <2>2. UNCHANGED <<uTC, uDR, uShift, uLeft>> /\ uIsr' \notin {"close", "TX_CMPLT"}
    BY <1>1 DEF USART_send_IT, TaskRuns
  <2> QED BY <1>0, <2>1, <2>2, TxStarts
<1>2. ASSUME NEW n \in UsartTxSizes, USART_send(n) PROVE TxImplemented
  <2>1. ~Sending /\ Sending' /\ StartTx(n) /\ uCall' = "send" /\ uLeft' = n
    BY <1>2 DEF USART_send, Sending
  <2>2. UNCHANGED <<uTC, uDR, uShift, uTxState, uTxLen, uTxNext>>
        /\ uIsr' \notin {"close", "TX_CMPLT"}
    BY <1>2 DEF USART_send, TaskRuns
  <2>3. n \in Nat
    BY UsartSizesAssumption
  <2> QED BY <2>1, <2>2, <2>3, TxStarts
<1>3. ASSUME NEW n \in UsartRxSizes, USART_receive_IT(n) \/ USART_receive(n)
      PROVE  TxImplemented
  <2>1. n \in Nat
    BY UsartSizesAssumption
  <2> QED BY <1>0, <1>3, <2>1, TxUntouched DEF USART_receive_IT, USART_receive, TaskRuns
<1>4. CASE LoadCR1
  <2>1. uCall # "send" /\ uCall' # "send"
    BY <1>4, UsartLoadedNames DEF LoadCR1
  <2> QED BY <1>0, <1>4, <2>1, TxUntouched DEF LoadCR1, TaskRuns
<1>5. ASSUME NEW bit \in {"TXEIE", "TCIE", "RXNEIE"}, StoreCR1(bit) PROVE TxImplemented
  <2>1. uCall # "send" /\ uCall' # "send"
    BY <1>5, UsartLoadedNames DEF StoreCR1
  <2> QED BY <1>0, <1>5, <2>1, TxUntouched DEF StoreCR1, TaskRuns
<1>6. CASE SendWord
  <2>1. /\ uCall = "send" /\ uLeft > 0 /\ uLeft' = uLeft - 1 /\ uDR = 0
        /\ WriteDR(uTotal - uLeft + 1) /\ uIsr' \notin {"close", "TX_CMPLT"}
        /\ UNCHANGED <<uTxState, uTxNext, uTxLen, uTotal, uTxEvents, uCall>>
    BY <1>6 DEF SendWord, TaskRuns, uTxVars
  <2>2. uTotal - uLeft + 1 \in Nat /\ uTotal - uLeft + 1 = Len(uWire) + OneIf(uShift) + 1
    BY <2>1 DEF UsartTxInv, UsartTxTypeOK, WordsInOrder, OneIf
  <2>3. uLeft' \in Nat /\ Sending
    BY <1>0, <2>1 DEF Sending
  <2> QED BY <2>1, <2>2, <2>3, TxLoads
<1>7. CASE SendDone
  <2>1. /\ uCall = "send" /\ uLeft = 0 /\ uTC /\ uTxEvents' = uTxEvents + 1 /\ uCall' = "none"
        /\ UNCHANGED <<uTxState, uTxLen, uTxNext, uTotal, uTC, uWire, uDR, uShift, uLeft>>
        /\ uIsr' # "close"
    BY <1>7 DEF SendDone, SentOut, TaskRuns, uTxLine
  <2>2. uTxState = "READY" /\ Sending /\ ~Sending' /\ uTC' \in BOOLEAN
    BY <2>1 DEF UsartTxInv, UsartTxTypeOK, OneTransmission, Sending
  <2> QED BY <1>0, <2>1, <2>2, TxCompletes
<1>8. CASE ReceiveWord \/ ReceiveDone
  BY <1>0, <1>8, TxUntouched DEF ReceiveWord, ReceiveDone, TaskRuns
<1>9. CASE EnterHandler \/ CheckCTS \/ CheckErrors
  BY <1>0, <1>9, TxUntouched DEF EnterHandler, CheckCTS, CheckErrors, Discard, uTask
<1>10. CASE CheckTC
  <2>1. UNCHANGED <<uTxVars, uTxLine, uCall, uLeft>>
    BY <1>10 DEF CheckTC, uTask
  <2>2. CASE uIsr' # "close"
    BY <1>0, <1>10, <2>1, <2>2, TxUntouched DEF CheckTC
  <2>3. CASE uIsr' = "close"
    <3>1. uTC /\ uTxState = "BUSY_TX" /\ uTxLen = 0
      BY <1>10, <2>3 DEF CheckTC, AllLoaded
    <3>2. /\ UNCHANGED <<uTxState, uTxLen, uTxNext, uTotal, uTxEvents, uTC, uDR, uShift, uWire>>
          /\ Sending' <=> Sending
      BY <2>1 DEF uTxVars, uTxLine, Sending
    <3>3. UsartTxInv'
      BY <2>1, <2>3, <3>1, <3>2
      DEF UsartTxInv, UsartTxTypeOK, NothingInFlight, OneTransmission, WordsInOrder
    <3>4. UNCHANGED UsartTx!vars
      BY <3>2 DEF UsartTx!vars
    <3> QED BY <3>3, <3>4 DEF TxImplemented
  <2> QED BY <2>2, <2>3
<1>11. CASE CloseTransmission
  <2>1. /\ uTC /\ uTxState = "BUSY_TX" /\ uTxLen = 0 /\ uCall # "send"
    BY <1>11 DEF CloseTransmission, UsartTxInv, OneTransmission
  <2>2. /\ uTC' = FALSE /\ uTxState' = "READY" /\ uTxLen' = 0 /\ uTxNext' = 1
        /\ uTxEvents' = uTxEvents + 1 /\ uIsr' = "TX_CMPLT"
        /\ UNCHANGED <<uTotal, uDR, uShift, uWire, uCall, uLeft>>
    BY <1>11 DEF CloseTransmission, StoreSR, uTask
  <2>3. Sending /\ ~Sending'
    BY <2>1, <2>2 DEF Sending
  <2> QED BY <1>0, <2>1, <2>2, <2>3, TxCompletes
<1>12. CASE TxCallback
  <2>1. /\ ~Sending /\ uIsr' = "TXE" /\ UNCHANGED <<uTC, uDR, uShift, uCall, uLeft>>
    BY <1>12 DEF TxCallback, UsartTxInv, OneTransmission, uTask
  <2>2. CASE UNCHANGED <<uTxVars, uWire, uCR1>>
    BY <1>0, <2>1, <2>2, TxUntouched DEF uTxLine
  <2>3. ASSUME NEW n \in UsartTxSizes, PrepareTx(n) PROVE TxImplemented
    <3>1. Sending' /\ StartTx(n) /\ uCall' # "send"
      BY <2>1, <2>3 DEF PrepareTx, Sending
    <3> QED BY <1>0, <2>1, <2>3, <3>1, TxStarts
  <2> QED BY <1>12, <2>2, <2>3 DEF TxCallback
<1>13. CASE CheckTXE
  <2>1. /\ uIsr' = "RXNE" /\ UNCHANGED <<uTxState, uTotal, uTxEvents, uCall, uLeft>>
    BY <1>13 DEF CheckTXE, uTask
  <2>2. CASE uDR = 0 /\ uTxState = "BUSY_TX" /\ uTxLen > 0 /\ LoadNext
    <3>1. WriteDR(uTxNext) /\ uTxNext' = uTxNext + 1 /\ uTxLen' = uTxLen - UsartWordBytes
      BY <2>2 DEF LoadNext
    <3>2. uTxNext = Len(uWire) + OneIf(uShift) + 1
      BY <2>2 DEF UsartTxInv, UsartTxTypeOK, WordsInOrder, OneIf
    <3>3. Sending
      BY <2>2 DEF Sending
    <3> QED BY <1>0, <2>1, <2>2, <3>1, <3>2, <3>3, TxLoads
  <2>3. CASE UNCHANGED <<uTxNext, uTxLen, uTxLine>>
    BY <1>0, <2>1, <2>3, TxUntouched DEF uTxVars
  <2> QED BY <1>13, <2>2, <2>3 DEF CheckTXE
<1>14. CASE CheckRXNE \/ RxCallback
  BY <1>0, <1>14, TxUntouched DEF CheckRXNE, RxCallback, uTask
<1>15. CASE Shift \/ SendOut
  BY <1>15, TxShifts, TxSendsOut
<1>16. CASE LineEvent
  BY <1>0, <1>16, TxUntouched DEF LineEvent, Arrive, LineChange, uTask
<1>17. CASE UNCHANGED uVars
  BY <1>0, <1>17, TxUntouched DEF uVars, uTask
<1>18. CASE ClearCTS
  <2>1. /\ UNCHANGED <<uTxState, uTxLen, uTxNext, uTotal, uTxEvents, uDR, uShift, uWire>>
        /\ UNCHANGED <<uCall, uLeft>> /\ uIsr' = "IDLE"
        /\ Sending' <=> Sending
    BY <1>18 DEF ClearCTS, uTxVars, uTask, Sending
  <2>2. uTC' \in BOOLEAN /\ (uTC' => uTC)
    BY <1>18 DEF ClearCTS, StoreSR, UsartTxInv, UsartTxTypeOK
  <2>3. UsartTxInv'
    BY <2>1, <2>2
    DEF UsartTxInv, UsartTxTypeOK, NothingInFlight, OneTransmission, WordsInOrder
  <2>4. UNCHANGED UsartTx!vars
    BY <2>1 DEF UsartTx!vars
  <2> QED BY <2>3, <2>4 DEF TxImplemented
<1> QED
  BY <1>1, <1>2, <1>3, <1>4, <1>5, <1>6, <1>7, <1>8, <1>9, <1>10, <1>11, <1>12, <1>13,
     <1>14, <1>15, <1>16, <1>17, <1>18
  DEF UsartNext, UsartCall, UsartTaskStep, USART_IRQ_handling

\* A transmission puts the words of its buffer on the wire in order, each once, and is
\* reported once, after the last has left, for every length, word size and interleaving of
\* the task, the handler and the line.
THEOREM UsartTransmits == UsartSpec => UsartSends
<1>1. UsartInit => UsartTxInv /\ UsartTx!Init
  BY DEF UsartInit, UsartTxInv, UsartTxTypeOK, NothingInFlight, OneTransmission, WordsInOrder,
         Sending, UsartTx!Init
<1>2. UsartTxInv /\ [UsartNext]_uVars => UsartTxInv' /\ [UsartTx!Next]_UsartTx!vars
  BY UsartTxStep DEF TxImplemented
<1> QED BY <1>1, <1>2, PTL DEF UsartSpec, UsartSends, UsartTx!Spec

-----------------------------------------------------------------------------
\* The words of a reception as Transfer counts them: once one was lost only their number.
Counted(stored, lost) == [i \in DOMAIN stored |-> IF lost THEN i ELSE stored[i]]

\* Counting words keeps their number.
LEMMA CountedLength ==
    ASSUME NEW s \in Seq(Nat), NEW lost \in BOOLEAN
    PROVE  Counted(s, lost) \in Seq(Nat) /\ Len(Counted(s, lost)) = Len(s)
<1>1. DOMAIN s = 1 .. Len(s) /\ Len(s) \in Nat
  OBVIOUS
<1>2. \A i \in 1 .. Len(s) : (IF lost THEN i ELSE s[i]) \in Nat
  OBVIOUS
<1> QED BY <1>1, <1>2 DEF Counted

\* A word that is stored counts as the next.
LEMMA CountedAppends ==
    ASSUME NEW s \in Seq(Nat), NEW lost \in BOOLEAN, NEW word \in Nat,
           lost \/ word = Len(s) + 1
    PROVE  Counted(Append(s, word), lost) = Append(Counted(s, lost), Len(s) + 1)
<1> DEFINE t == Append(s, word)
           c == Counted(s, lost)
<1>1. t \in Seq(Nat) /\ Len(t) = Len(s) + 1 /\ DOMAIN t = 1 .. Len(s) + 1 /\ Len(s) \in Nat
  OBVIOUS
<1>2. t[Len(s) + 1] = word /\ \A i \in 1 .. Len(s) : t[i] = s[i]
  OBVIOUS
<1>3. c \in Seq(Nat) /\ Len(c) = Len(s)
  BY CountedLength
<1>4. DOMAIN s = 1 .. Len(s) /\ \A i \in 1 .. Len(s) : c[i] = IF lost THEN i ELSE s[i]
  BY DEF Counted
<1>5. Append(c, Len(s) + 1) = [i \in 1 .. Len(s) + 1 |-> IF i = Len(s) + 1 THEN i ELSE c[i]]
  BY <1>1, <1>3
<1>6. Counted(t, lost) = [i \in 1 .. Len(s) + 1 |-> IF lost THEN i ELSE t[i]]
  BY <1>1 DEF Counted
<1>7. ASSUME NEW i \in 1 .. Len(s) + 1
      PROVE  (IF lost THEN i ELSE t[i]) = (IF i = Len(s) + 1 THEN i ELSE c[i])
  <2>1. CASE i = Len(s) + 1
    BY <1>2, <2>1
  <2>2. CASE i # Len(s) + 1
    <3>1. i \in 1 .. Len(s)
      BY <1>1, <1>7, <2>2
    <3> QED BY <1>2, <1>4, <2>2, <3>1
  <2> QED BY <2>1, <2>2
<1> HIDE DEF t, c
<1> QED BY <1>5, <1>6, <1>7 DEF t, c

\* Losing a word changes no number.
LEMMA CountedAnyway ==
    ASSUME NEW s \in Seq(Nat), \A i \in 1 .. Len(s) : s[i] = i, NEW lost \in BOOLEAN
    PROVE  Counted(s, lost) = Counted(s, TRUE)
BY DEF Counted

-----------------------------------------------------------------------------
\* What a step means for the reception.
RxImplemented == UsartRxInv' /\ (UsartRx!Next \/ UNCHANGED UsartRx!vars)

\* Which variables the refinement of a reception looks at.
LEMMA UsartRxMoved ==
    UsartRx!vars = <<Receiving, uRxTotal, Counted(uRxBuffer, uLost), uRxEvents>>
BY DEF UsartRx!vars, Counted

\* The steps that store nothing.  A word may arrive, or be lost.
LEMMA RxUntouched ==
    ASSUME UsartRxInv, UNCHANGED uRxVars, uLeft' \in Nat,
           uCall' = "receive" <=> uCall = "receive", uCall = "receive" => uLeft' = uLeft,
           uIsr' = "RX_CMPLT" => uIsr = "RX_CMPLT",
           uRDR' \in Nat, uArrived' \in Nat, uLost' \in BOOLEAN,
           uLost => uLost', uLost' => uLost \/ Receiving,
           Receiving /\ ~uLost' => /\ uArrived' = Len(uRxBuffer) + OneIf(uRDR')
                                   /\ uRDR' # 0 => uRDR' = Len(uRxBuffer) + 1
    PROVE  RxImplemented
<1>1. /\ UNCHANGED <<uRxState, uRxLen, uRxBuffer, uRxTotal, uRxEvents>>
      /\ Receiving' <=> Receiving
  BY DEF uRxVars, Receiving
<1>2. UsartRxInv'
  BY <1>1 DEF UsartRxInv, UsartRxTypeOK, OneReception, WordsCounted, StoredInOrder
<1>3. Counted(uRxBuffer', uLost') = Counted(uRxBuffer, uLost)
  <2>1. CASE uLost' <=> uLost
    BY <1>1, <2>1 DEF UsartRxInv, UsartRxTypeOK
  <2>2. CASE uLost' /\ ~uLost
    <3>1. uRxBuffer \in Seq(Nat) /\ \A i \in 1 .. Len(uRxBuffer) : uRxBuffer[i] = i
      BY <2>2 DEF UsartRxInv, UsartRxTypeOK, StoredInOrder
    <3>2. uLost' = TRUE /\ uLost = FALSE
      BY <2>2 DEF UsartRxInv, UsartRxTypeOK
    <3> QED BY <1>1, <3>1, <3>2, CountedAnyway
  <2> QED BY <2>1, <2>2
<1>4. UNCHANGED UsartRx!vars
  BY <1>1, <1>3, UsartRxMoved DEF UsartRx!vars, Counted
<1> QED BY <1>2, <1>4 DEF RxImplemented

\* USART_receive_IT and the completion callback prepare a reception, USART_receive begins one.
LEMMA RxStarts ==
    ASSUME UsartRxInv, ~Receiving, Receiving', NEW n \in UsartRxSizes, StartRx(n),
           uLeft' \in Nat,
           \/ PrepareRx(n) /\ uCall' # "receive"
           \/ UNCHANGED <<uRxState, uRxLen>> /\ uCall' = "receive" /\ uLeft' = n,
           uIsr' # "RX_CMPLT"
    PROVE  RxImplemented
<1>1. n \in Nat /\ n * UsartWordBytes \in Nat /\ n - 0 = n /\ n + 0 = n /\ 0 <= n
  BY UsartSizesAssumption
<1>2. /\ uRxTotal' = n /\ uRxEvents' = 0 /\ uRxBuffer' = <<>> /\ Len(uRxBuffer') = 0
      /\ uRDR' \in {0, 1} /\ uArrived' = uRDR' /\ uLost' = FALSE
  BY DEF StartRx
<1>3. uRxState = "READY"
  BY DEF UsartRxInv, UsartRxTypeOK, Receiving
<1>4. /\ uRxTotal' \in Nat /\ uRxEvents' \in Nat /\ uRxBuffer' \in Seq(Nat)
      /\ uRDR' \in Nat /\ uArrived' \in Nat /\ uLost' \in BOOLEAN
  <2>1. n \in Nat
    BY <1>1
  <2>2. uRxBuffer' \in Seq(Nat)
    BY <1>2
  <2>3. uRDR' \in Nat /\ uArrived' \in Nat /\ uLost' \in BOOLEAN
    BY DEF StartRx
  <2> QED BY <1>2, <2>1, <2>2, <2>3
<1>5. StoredInOrder'
  BY <1>2 DEF StoredInOrder, OneIf
<1>6. ASSUME PrepareRx(n), uCall' # "receive" PROVE UsartRxInv'
  <2>1. uRxLen' = n * UsartWordBytes /\ uRxState' = "BUSY_RX"
    BY <1>6 DEF PrepareRx
  <2>2. uRxLen' \in Nat
    BY <1>1, <2>1
  <2>3. UsartRxTypeOK'
    BY <1>4, <2>1, <2>2 DEF UsartRxTypeOK
  <2>4. OneReception'
    BY <1>6 DEF OneReception
  <2>5. WordsCounted'
    BY <1>1, <1>2, <1>6, <2>1 DEF WordsCounted
  <2> QED BY <1>5, <2>3, <2>4, <2>5 DEF UsartRxInv
<1>7. ASSUME UNCHANGED <<uRxState, uRxLen>>, uCall' = "receive", uLeft' = n
      PROVE  UsartRxInv'
  <2>1. UsartRxTypeOK'
    BY <1>4, <1>7 DEF UsartRxInv, UsartRxTypeOK
  <2>2. OneReception'
    BY <1>3, <1>7 DEF OneReception
  <2>3. WordsCounted'
    BY <1>1, <1>2, <1>3, <1>7 DEF WordsCounted
  <2> QED BY <1>5, <2>1, <2>2, <2>3 DEF UsartRxInv
<1>8. UsartRx!Start
  <2>1. Counted(uRxBuffer', uLost') = <<>>
    BY <1>2 DEF Counted
  <2> QED BY <1>2, <2>1 DEF UsartRx!Start, Counted
<1> QED BY <1>6, <1>7, <1>8 DEF RxImplemented, UsartRx!Next

\* A word is taken out of DR and stored: by USART_receive, or by the RXNE branch, whose last
\* word completes the reception.
LEMMA RxStores ==
    ASSUME UsartRxInv, Receiving, uRDR # 0, uRDR' = 0,
           uRxBuffer' = Append(uRxBuffer, uRDR),
           UNCHANGED <<uRxTotal, uArrived, uLost, uCall>>, uLeft' \in Nat,
           \/ /\ uCall = "receive" /\ uLeft > 0 /\ uLeft' = uLeft - 1
              /\ UNCHANGED <<uRxState, uRxLen, uRxEvents>> /\ uIsr' # "RX_CMPLT"
           \/ /\ uRxState = "BUSY_RX" /\ uRxLen > 0 /\ uRxLen' = uRxLen - UsartWordBytes
              /\ IF uRxLen' = 0
                   THEN uRxState' = "READY" /\ uRxEvents' = uRxEvents + 1
                   ELSE UNCHANGED <<uRxState, uRxEvents>> /\ uIsr' # "RX_CMPLT"
    PROVE  RxImplemented
<1> DEFINE stored == Len(uRxBuffer)
<1>1. /\ uRxBuffer \in Seq(Nat) /\ uRDR \in Nat /\ uLost \in BOOLEAN /\ uLeft \in Nat
      /\ uRxLen \in Nat /\ uRxTotal \in Nat /\ uRxEvents \in Nat /\ uArrived \in Nat
      /\ stored \in Nat /\ UsartWordBytes \in {1, 2}
  BY UsartSizesAssumption DEF UsartRxInv, UsartRxTypeOK
<1>2. uLost \/ uRDR = stored + 1
  BY DEF UsartRxInv, UsartRxTypeOK, StoredInOrder
<1>3. /\ Len(Counted(uRxBuffer, uLost)) = stored
      /\ Counted(uRxBuffer', uLost') = Append(Counted(uRxBuffer, uLost), stored + 1)
  BY <1>1, <1>2, CountedAppends, CountedLength
<1>4. Len(uRxBuffer') = stored + 1 /\ uRxBuffer' \in Seq(Nat)
  BY <1>1
<1>5. StoredInOrder'
  <2> SUFFICES ASSUME Receiving', ~uLost' PROVE StoredInOrder'
    BY DEF StoredInOrder
  <2>1. /\ \A i \in 1 .. stored : uRxBuffer[i] = i
        /\ uArrived = stored + 1 /\ uRDR = stored + 1
    BY <1>1 DEF UsartRxInv, StoredInOrder, OneIf
  <2>2. \A i \in 1 .. stored + 1 : uRxBuffer'[i] = i
    <3>1. uRxBuffer'[stored + 1] = stored + 1 /\ \A i \in 1 .. stored : uRxBuffer'[i] = uRxBuffer[i]
      BY <1>1, <2>1
    <3>2. \A i \in 1 .. stored + 1 : i = stored + 1 \/ i \in 1 .. stored
      BY <1>1
    <3> QED BY <2>1, <3>1, <3>2
  <2>3. OneIf(uRDR') = 0 /\ uArrived' = Len(uRxBuffer') + 0
    BY <1>1, <1>4, <2>1 DEF OneIf
  <2> QED BY <1>4, <2>2, <2>3 DEF StoredInOrder
<1>6. CASE uCall = "receive"
  <2>1. /\ uRxState = "READY" /\ uLeft > 0 /\ uLeft' = uLeft - 1
        /\ UNCHANGED <<uRxState, uRxLen, uRxEvents>> /\ uIsr' # "RX_CMPLT"
        /\ uLeft + stored = uRxTotal
    BY <1>6 DEF UsartRxInv, OneReception, WordsCounted
  <2>2. UsartRxTypeOK' /\ OneReception'
    BY <1>1, <1>4, <1>6, <2>1 DEF UsartRxTypeOK, OneReception
  <2>3. WordsCounted'
    <3>1. uLeft' + Len(uRxBuffer') = uRxTotal'
      <4> HIDE DEF stored
      <4>1. uLeft - 1 + (stored + 1) = uRxTotal
        BY <1>1, <2>1
      <4>2. uRxTotal' = uRxTotal
        OBVIOUS
      <4> QED BY <1>4, <2>1, <4>1, <4>2
    <3> QED BY <1>6, <2>1, <3>1 DEF WordsCounted
  <2>4. UsartRx!Move
    <3>1. stored < uRxTotal /\ (Receiving' <=> Receiving)
      BY <1>1, <2>1 DEF Receiving
    <3> QED BY <1>3, <2>1, <3>1 DEF UsartRx!Move, UsartRx!MoveOne, Counted
  <2> QED BY <1>5, <2>2, <2>3, <2>4 DEF RxImplemented, UsartRxInv, UsartRx!Next
<1>7. CASE uCall # "receive"
  <2> DEFINE left == uRxTotal - stored
  <2>1. /\ uRxState = "BUSY_RX" /\ uRxLen > 0 /\ uRxLen' = uRxLen - UsartWordBytes
        /\ uRxLen = left * UsartWordBytes
    BY <1>7 DEF UsartRxInv, WordsCounted
  <2>2. left \in Nat
    BY <1>1, <2>1 DEF UsartRxInv, WordsCounted
  <2>3. left > 0 /\ left - 1 \in Nat
    <3> HIDE DEF left
    <3>1. left # 0
      BY <1>1, <2>1, <2>2
    <3> QED BY <2>2, <3>1
  <2>4. /\ uRxLen' = (left - 1) * UsartWordBytes /\ uRxLen' \in Nat
        /\ uRxLen' = 0 <=> left - 1 = 0
    <3> HIDE DEF left
    <3>1. uRxLen' = (left - 1) * UsartWordBytes
      BY <1>1, <2>1, <2>2, <2>3, BytesOfWords
    <3>2. /\ (left - 1) * UsartWordBytes \in Nat
          /\ (left - 1) * UsartWordBytes = 0 <=> left - 1 = 0
      <4> DEFINE rest == left - 1
      <4>1. rest \in Nat
        BY <2>3
      <4> HIDE DEF rest
      <4>2. rest * UsartWordBytes \in Nat /\ (rest * UsartWordBytes = 0 <=> rest = 0)
        BY <1>1, <4>1, BytesOfWords
      <4> QED BY <4>2 DEF rest
    <3> QED BY <3>1, <3>2
  <2>5. stored < uRxTotal /\ Len(uRxBuffer') <= uRxTotal' /\ left - 1 = uRxTotal' - Len(uRxBuffer')
    BY <1>1, <1>4, <2>3
  <2>6. CASE uRxLen' = 0
    <3>1. uRxState' = "READY" /\ uRxEvents' = uRxEvents + 1
      BY <1>7, <2>6
    <3>2. UsartRxTypeOK' /\ OneReception' /\ WordsCounted'
      BY <1>1, <1>4, <1>7, <2>4, <3>1
      DEF UsartRxTypeOK, OneReception, WordsCounted, Receiving
    <3>3. stored + 1 = uRxTotal /\ ~Receiving'
      BY <1>1, <1>7, <2>4, <2>6, <3>1 DEF Receiving
    <3>4. Len(Append(Counted(uRxBuffer, uLost), stored + 1)) = stored + 1
      BY <1>1, <1>3, CountedLength
    <3>5. UsartRx!Complete
      BY <1>3, <2>5, <3>1, <3>3, <3>4 DEF UsartRx!Complete, UsartRx!MoveOne, Counted
    <3> QED BY <1>5, <3>2, <3>5 DEF RxImplemented, UsartRxInv, UsartRx!Next
  <2>7. CASE uRxLen' # 0
    <3>1. UNCHANGED <<uRxState, uRxEvents>> /\ uIsr' # "RX_CMPLT"
      BY <1>7, <2>7
    <3>2. UsartRxTypeOK' /\ OneReception'
      BY <1>1, <1>4, <1>7, <2>1, <2>4, <3>1 DEF UsartRxTypeOK, OneReception
    <3>3. WordsCounted'
      <4>1. uRxLen' = (uRxTotal' - Len(uRxBuffer')) * UsartWordBytes
        BY <2>4, <2>5
      <4> QED BY <1>7, <2>5, <4>1 DEF WordsCounted
    <3>4. UsartRx!Move
      <4>1. Receiving' <=> Receiving
        BY <3>1 DEF Receiving
      <4> QED BY <1>3, <2>5, <3>1, <4>1 DEF UsartRx!Move, UsartRx!MoveOne, Counted
    <3> QED BY <1>5, <3>2, <3>3, <3>4 DEF RxImplemented, UsartRxInv, UsartRx!Next
  <2> QED BY <2>6, <2>7
<1> QED BY <1>6, <1>7

\* The steps that leave DR alone, too.
LEMMA RxUntouchedAtAll ==
    ASSUME UsartRxInv, UNCHANGED <<uRxVars, uRDR, uArrived, uLost>>, uLeft' \in Nat,
           uCall' = "receive" <=> uCall = "receive", uCall = "receive" => uLeft' = uLeft,
           uIsr' = "RX_CMPLT" => uIsr = "RX_CMPLT"
    PROVE  RxImplemented
<1>1. /\ uRDR' \in Nat /\ uArrived' \in Nat /\ uLost' \in BOOLEAN
      /\ Receiving /\ ~uLost' => /\ uArrived' = Len(uRxBuffer) + OneIf(uRDR')
                                 /\ uRDR' # 0 => uRDR' = Len(uRxBuffer) + 1
  BY DEF UsartRxInv, UsartRxTypeOK, StoredInOrder
<1> QED BY <1>1, RxUntouched

\* A word that waits in DR is taken out and dropped: by an error branch, or by a store of SR.
LEMMA RxDrops ==
    ASSUME UsartRxInv, UNCHANGED <<uRxVars, uArrived, uCall, uLeft>>, uRDR' = 0,
           uLost' \in BOOLEAN, uLost' <=> uLost \/ (uRDR # 0 /\ Receiving),
           uIsr' = "RX_CMPLT" => uIsr = "RX_CMPLT"
    PROVE  RxImplemented
<1>1. uLeft \in Nat /\ uArrived \in Nat
  BY DEF UsartRxInv, UsartRxTypeOK
<1>2. Receiving /\ ~uLost' => uArrived' = Len(uRxBuffer) + OneIf(uRDR')
  BY DEF UsartRxInv, StoredInOrder, OneIf
<1> QED BY <1>1, <1>2, RxUntouched

\* SR &= ~TC and SR &= ~CTS lose the word that comes between the load and the store.
LEMMA RxSurvivesStore ==
    ASSUME UsartRxInv, NEW flag, flag # "RXNE", StoreSR(flag),
           UNCHANGED <<uRxVars, uArrived, uCall, uLeft>>, uIsr' # "RX_CMPLT"
    PROVE  RxImplemented
<1>1. uLeft \in Nat /\ uLost \in BOOLEAN
  BY DEF UsartRxInv, UsartRxTypeOK
<1>2. CASE "RXNE" \in uSeen \ {flag}
  <2>1. UNCHANGED <<uRDR, uLost>>
    BY <1>2 DEF StoreSR
  <2> QED BY <1>1, <2>1, RxUntouchedAtAll
<1>3. CASE "RXNE" \notin uSeen \ {flag}
  <2>1. uRDR' = 0 /\ uLost' = (uLost \/ (uRDR # 0 /\ Receiving))
    BY <1>3 DEF StoreSR
  <2> QED BY <2>1, RxDrops
<1> QED BY <1>2, <1>3

\* A word arrives, or overruns the one before.
LEMMA RxArrives ==
    ASSUME UsartRxInv, NEW errors, Arrive(errors)
    PROVE  RxImplemented
<1>1. /\ UNCHANGED <<uRxVars, uCall, uLeft, uIsr>>
      /\ uArrived' = IF uLost' THEN 1 ELSE uRDR'
      /\ IF uRDR = 0
           THEN uRDR' = (IF Receiving /\ ~uLost THEN uArrived + 1 ELSE 1) /\ uLost' = uLost
           ELSE uLost' = (uLost \/ Receiving) /\ uRDR' = uRDR
  BY DEF Arrive, uTask
<1>2. uLeft \in Nat /\ uArrived \in Nat /\ uRDR \in Nat /\ uLost \in BOOLEAN
  BY DEF UsartRxInv, UsartRxTypeOK
<1>3. uRDR' \in Nat /\ uRDR' # 0 /\ uArrived' \in Nat /\ uLost' \in BOOLEAN
  <2>1. uLost' \in BOOLEAN
    BY <1>1, <1>2 DEF Receiving
  <2>2. uRDR' \in Nat /\ uRDR' # 0
    <3>1. CASE uRDR = 0
      BY <1>1, <1>2, <3>1
    <3>2. CASE uRDR # 0
      BY <1>1, <1>2, <3>2
    <3> QED BY <3>1, <3>2
  <2> QED BY <1>1, <2>1, <2>2
<1>4. Receiving /\ ~uLost' => /\ uArrived' = Len(uRxBuffer) + OneIf(uRDR')
                              /\ uRDR' # 0 => uRDR' = Len(uRxBuffer) + 1
  <2> SUFFICES ASSUME Receiving, ~uLost'
               PROVE  uRDR' = Len(uRxBuffer) + 1 /\ uArrived' = uRDR'
    BY <1>3 DEF OneIf
  <2>1. uRDR = 0 /\ ~uLost
    BY <1>1
  <2>2. uArrived = Len(uRxBuffer) + 0
    BY <2>1 DEF UsartRxInv, StoredInOrder, OneIf
  <2>3. Len(uRxBuffer) \in Nat
    BY DEF UsartRxInv, UsartRxTypeOK
  <2> QED BY <1>1, <2>1, <2>2, <2>3
<1>5. uLost => uLost'
  BY <1>1
<1>6. uLost' => uLost \/ Receiving
  BY <1>1
<1> QED BY <1>1, <1>2, <1>3, <1>4, <1>5, <1>6, RxUntouched

\* Every step of the USART keeps the invariant of the reception and is a step of it, or none.
LEMMA UsartRxStep == UsartRxInv /\ [UsartNext]_uVars => RxImplemented
<1> SUFFICES ASSUME UsartRxInv, [UsartNext]_uVars PROVE RxImplemented
  OBVIOUS
<1>0. uLeft \in Nat /\ uRDR \in Nat /\ uArrived \in Nat /\ uLost \in BOOLEAN
  BY DEF UsartRxInv, UsartRxTypeOK
<1>1. ASSUME NEW n \in UsartTxSizes, USART_send_IT(n) \/ USART_send(n)
      PROVE  RxImplemented
  <2>1. n \in Nat
    BY UsartSizesAssumption
  <2>2. uCall # "receive" /\ uCall' # "receive" /\ uLeft' \in Nat /\ uIsr' # "RX_CMPLT"
        /\ UNCHANGED <<uRxVars, uRDR, uArrived, uLost>>
    BY <1>0, <1>1, <2>1 DEF USART_send_IT, USART_send, TaskRuns, uRxLine
  <2> QED BY <2>2, RxUntouchedAtAll
<1>2. ASSUME NEW n \in UsartRxSizes, USART_receive_IT(n) PROVE RxImplemented
  <2>1. ~Receiving /\ Receiving' /\ PrepareRx(n) /\ StartRx(n) /\ uCall' # "receive"
    BY <1>2 DEF USART_receive_IT, PrepareRx, Receiving
  <2>2. uLeft' = uLeft /\ uIsr' # "RX_CMPLT"
    BY <1>2 DEF USART_receive_IT, TaskRuns
  <2> QED BY <1>0, <2>1, <2>2, RxStarts
<1>3. ASSUME NEW n \in UsartRxSizes, USART_receive(n) PROVE RxImplemented
  <2>1. ~Receiving /\ Receiving' /\ StartRx(n) /\ uCall' = "receive" /\ uLeft' = n
    BY <1>3 DEF USART_receive, Receiving
  <2>2. UNCHANGED <<uRxState, uRxLen>> /\ uIsr' # "RX_CMPLT"
    BY <1>3 DEF USART_receive, TaskRuns
  <2>3. n \in Nat
    BY UsartSizesAssumption
  <2> QED BY <2>1, <2>2, <2>3, RxStarts
<1>4. CASE LoadCR1
  <2>1. uCall # "receive" /\ uCall' # "receive" /\ uLeft' = uLeft /\ uIsr' = uIsr
        /\ UNCHANGED <<uRxVars, uRDR, uArrived, uLost>>
    BY <1>4, UsartLoadedNames DEF LoadCR1, uRxLine
  <2> QED BY <1>0, <2>1, RxUntouchedAtAll
<1>5. ASSUME NEW bit \in {"TXEIE", "TCIE", "RXNEIE"}, StoreCR1(bit) PROVE RxImplemented
  <2>1. uCall # "receive" /\ uCall' # "receive" /\ uLeft' = uLeft /\ uIsr' = uIsr
        /\ UNCHANGED <<uRxVars, uRDR, uArrived, uLost>>
    BY <1>5, UsartLoadedNames DEF StoreCR1, uRxLine
  <2> QED BY <1>0, <2>1, RxUntouchedAtAll
<1>6. CASE SendWord \/ SendDone
  <2>1. uCall # "receive" /\ uCall' # "receive" /\ uLeft' \in Nat /\ uIsr' = uIsr
        /\ UNCHANGED <<uRxVars, uRDR, uArrived, uLost>>
    BY <1>0, <1>6 DEF SendWord, SendDone, uRxLine
  <2> QED BY <2>1, RxUntouchedAtAll
<1>7. CASE ReceiveWord
  <2>1. /\ uCall = "receive" /\ uLeft > 0 /\ uLeft' = uLeft - 1 /\ uRDR # 0 /\ uRDR' = 0
        /\ uRxBuffer' = Append(uRxBuffer, uRDR) /\ uIsr' # "RX_CMPLT"
        /\ UNCHANGED <<uRxState, uRxLen, uRxTotal, uRxEvents, uArrived, uLost, uCall>>
    BY <1>7 DEF ReceiveWord, ReadDR, TaskRuns
  <2>2. uLeft' \in Nat /\ Receiving
    BY <1>0, <2>1 DEF Receiving
  <2> QED BY <2>1, <2>2, RxStores
<1>8. CASE ReceiveDone
  <2>1. /\ uCall = "receive" /\ uLeft = 0 /\ uRxEvents' = uRxEvents + 1 /\ uCall' = "none"
        /\ UNCHANGED <<uRxState, uRxLen, uRxBuffer, uRxTotal, uRDR, uArrived, uLost, uLeft>>
        /\ uIsr' # "RX_CMPLT"
    BY <1>8 DEF ReceiveDone, TaskRuns, uRxLine
  <2>2. uRxState = "READY" /\ Receiving /\ ~Receiving'
    BY <2>1 DEF UsartRxInv, OneReception, Receiving
  <2>3. Len(uRxBuffer) = uRxTotal
    BY <2>1 DEF UsartRxInv, UsartRxTypeOK, WordsCounted
  <2>4. Len(Counted(uRxBuffer, uLost)) = uRxTotal
    BY <2>3, CountedLength DEF UsartRxInv, UsartRxTypeOK
  <2>5. UsartRx!Complete
    BY <2>1, <2>2, <2>4 DEF UsartRx!Complete, Counted
  <2>6. UsartRxInv'
    BY <2>1, <2>2
    DEF UsartRxInv, UsartRxTypeOK, OneReception, WordsCounted, StoredInOrder
  <2> QED BY <2>5, <2>6 DEF RxImplemented, UsartRx!Next
<1>9. CASE EnterHandler \/ CheckTC \/ TxCallback \/ CheckTXE \/ CheckCTS
  <2>1. uCall' = uCall /\ uLeft' = uLeft /\ uIsr' # "RX_CMPLT"
        /\ UNCHANGED <<uRxVars, uRDR, uArrived, uLost>>
    BY <1>9 DEF EnterHandler, CheckTC, TxCallback, CheckTXE, CheckCTS, uRxLine, uTask
  <2> QED BY <1>0, <2>1, RxUntouchedAtAll
<1>10. CASE CloseTransmission
  <2>1. UNCHANGED <<uRxVars, uArrived, uCall, uLeft>> /\ uIsr' # "RX_CMPLT" /\ StoreSR("TC")
    BY <1>10 DEF CloseTransmission, uTask
  <2> QED BY <2>1, RxSurvivesStore
<1>11. CASE CheckRXNE
  <2>1. UNCHANGED <<uRxTotal, uArrived, uLost, uCall, uLeft>>
    BY <1>11 DEF CheckRXNE, uTask
  <2>2. CASE uRDR # 0 /\ "RXNEIE" \in uCR1 /\ uRxState = "BUSY_RX" /\ uRxLen > 0
    <3>1. /\ uRxBuffer' = Append(uRxBuffer, uRDR) /\ uRDR' = 0
          /\ uRxLen' = uRxLen - UsartWordBytes
          /\ IF uRxLen' = 0
               THEN uRxState' = "READY" /\ uRxEvents' = uRxEvents + 1
               ELSE UNCHANGED <<uRxState, uRxEvents>> /\ uIsr' # "RX_CMPLT"
      BY <1>11, <2>2 DEF CheckRXNE, ReadDR, LastWord
    <3>2. Receiving
      BY <2>2 DEF Receiving
    <3> QED BY <1>0, <2>1, <2>2, <3>1, <3>2, RxStores
  <2>3. CASE ~(uRDR # 0 /\ "RXNEIE" \in uCR1 /\ uRxState = "BUSY_RX" /\ uRxLen > 0)
    <3>1. UNCHANGED <<uRxVars, uRDR>> /\ uIsr' = "CTS"
      BY <1>11, <2>3 DEF CheckRXNE, uRxVars
    <3> QED BY <1>0, <2>1, <3>1, RxUntouchedAtAll
  <2> QED BY <2>2, <2>3
<1>12. CASE RxCallback
  <2>1. ~Receiving /\ uIsr' = "CTS" /\ UNCHANGED <<uCall, uLeft>>
    BY <1>12 DEF RxCallback, UsartRxInv, OneReception, uTask
  <2>2. CASE UNCHANGED <<uRxVars, uRDR, uArrived, uLost, uCR1>>
    BY <1>0, <2>1, <2>2, RxUntouchedAtAll
  <2>3. ASSUME NEW n \in UsartRxSizes, PrepareRx(n) PROVE RxImplemented
    <3>1. Receiving' /\ StartRx(n) /\ uCall' # "receive"
      BY <2>1, <2>3 DEF PrepareRx, Receiving
    <3> QED BY <1>0, <2>1, <2>3, <3>1, RxStarts
  <2> QED BY <1>12, <2>2, <2>3 DEF RxCallback
<1>13. CASE CheckErrors
  <2>1. ASSUME NEW branch, NEW next \in {"ORE", "ERR", "out"}, NEW raised \in BOOLEAN,
               Discard(branch, next, raised)
        PROVE  RxImplemented
    <3>1. UNCHANGED <<uRxVars, uArrived, uCall, uLeft>> /\ uIsr' # "RX_CMPLT"
      BY <2>1 DEF Discard, uTask
    <3>2. CASE raised
      <4>1. uRDR' = 0 /\ uLost' = (uLost \/ (uRDR # 0 /\ Receiving))
        BY <2>1, <3>2 DEF Discard, ReadDR
      <4> QED BY <3>1, <4>1, RxDrops
    <3>3. CASE ~raised
      <4>1. UNCHANGED <<uRDR, uLost>>
        BY <2>1, <3>3 DEF Discard
      <4> QED BY <1>0, <3>1, <4>1, RxUntouchedAtAll
    <3> QED BY <3>2, <3>3
  <2>2. CASE Discard("IDLE", "ORE", "IDLE" \in uFlags /\ "IDLEIE" \in UsartEnables)
    BY <2>1, <2>2
  <2>3. CASE Discard("ORE", "ERR", "ORE" \in uFlags /\ "RXNEIE" \in uCR1)
    BY <2>1, <2>3
  <2>4. CASE Discard("ERR", "out", uFlags \cap {"NF", "FE"} # {} /\ "EIE" \in UsartEnables)
    BY <2>1, <2>4
  <2> QED BY <1>13, <2>2, <2>3, <2>4 DEF CheckErrors
<1>14. CASE Shift \/ SendOut
  <2>1. UNCHANGED <<uRxVars, uRDR, uArrived, uLost, uCall, uLeft, uIsr>>
    BY <1>14 DEF Shift, SendOut, uRxLine, uTask
  <2> QED BY <1>0, <2>1, RxUntouchedAtAll
<1>15. ASSUME NEW errors, Arrive(errors) PROVE RxImplemented
  BY <1>15, RxArrives
<1>16. ASSUME NEW flag, LineChange(flag) PROVE RxImplemented
  <2>1. UNCHANGED <<uRxVars, uRDR, uArrived, uLost, uCall, uLeft, uIsr>>
    BY <1>16 DEF LineChange, uTask
  <2> QED BY <1>0, <2>1, RxUntouchedAtAll
<1>17. CASE UNCHANGED uVars
  <2>1. UNCHANGED <<uRxVars, uRDR, uArrived, uLost, uCall, uLeft, uIsr>>
    BY <1>17 DEF uVars, uRxLine, uTask
  <2> QED BY <1>0, <2>1, RxUntouchedAtAll
<1>18. CASE ClearCTS
  <2>1. UNCHANGED <<uRxVars, uArrived, uCall, uLeft>> /\ uIsr' # "RX_CMPLT" /\ StoreSR("CTS")
    BY <1>18 DEF ClearCTS, uTask
  <2> QED BY <2>1, RxSurvivesStore
<1> QED
  BY <1>1, <1>2, <1>3, <1>4, <1>5, <1>6, <1>7, <1>8, <1>9, <1>10, <1>11, <1>12, <1>13,
     <1>14, <1>15, <1>16, <1>17, <1>18
  DEF UsartNext, UsartCall, UsartTaskStep, USART_IRQ_handling, LineEvent

\* A reception stores the words that arrive in order, each once, without a gap unless a word
\* was lost (to an overrun, to a branch that clears its flag by reading DR, or to a store of SR,
\* USART.c:474 and :619), and is reported once, when it is full; whichever of the interrupts of
\* IDLE, CTS and errors the application enables.
THEOREM UsartReceivesWords == UsartSpec => UsartReceives
<1>1. UsartInit => UsartRxInv /\ UsartRx!Init
  <2> SUFFICES ASSUME UsartInit PROVE UsartRxInv /\ UsartRx!Init
    OBVIOUS
  <2>1. ~Receiving /\ uRxBuffer = <<>> /\ uRxTotal = 0 /\ uRxEvents = 0
    BY DEF UsartInit, Receiving
  <2>2. UsartRxTypeOK /\ OneReception
    <3>1. uRxBuffer \in Seq(Nat)
      BY <2>1
    <3>2. UsartRxTypeOK
      BY <3>1 DEF UsartInit, UsartRxTypeOK
    <3> QED BY <2>1, <3>2 DEF UsartInit, OneReception, Receiving
  <2>3. WordsCounted /\ StoredInOrder
    BY <2>1 DEF UsartInit, WordsCounted, StoredInOrder, Receiving
  <2>4. Counted(uRxBuffer, uLost) = <<>>
    BY <2>1 DEF Counted
  <2>5. UsartRx!Init
    BY <2>1, <2>4 DEF UsartRx!Init, Counted
  <2> QED BY <2>2, <2>3, <2>5 DEF UsartRxInv
<1>2. UsartRxInv /\ [UsartNext]_uVars => UsartRxInv' /\ [UsartRx!Next]_UsartRx!vars
  BY UsartRxStep DEF RxImplemented
<1> QED BY <1>1, <1>2, PTL DEF UsartSpec, UsartReceives, UsartRx!Spec

-----------------------------------------------------------------------------
(* SPI.c.                                                                   *)

SpiTxTypeOK ==
    /\ sTxState \in {"READY", "BUSY_IN_TX"}
    /\ sTxLen \in Nat /\ sTxNext \in Nat /\ sTotal \in Nat /\ sTxEvents \in Nat
    /\ sWritten \in Seq(Nat)
    /\ sLeft \in Nat

SpiRxTypeOK ==
    /\ sRxState \in {"READY", "BUSY_IN_RX"}
    /\ sRxLen \in Nat /\ sRxTotal \in Nat /\ sRxEvents \in Nat /\ sRxBuffer \in Seq(Nat)
    /\ sRDR \in Nat /\ sLost \in BOOLEAN
    /\ sLeft \in Nat

\* The handler looks at no state, only at the enables of CR2: they must never be on without
\* a transfer, also while a task's call has announced one and not yet enabled it.
EnabledInTransfer ==
    ~sClobbered =>
        /\ "TXEIE" \in sCR2 => sTxState = "BUSY_IN_TX"
        /\ "RXNEIE" \in sCR2 => sRxState = "BUSY_IN_RX"
        /\ sCall \in {"TXEIE", "TXEIE loaded"} => sTxState = "BUSY_IN_TX" /\ "TXEIE" \notin sCR2
        /\ sCall \in {"RXNEIE", "RXNEIE loaded"} => sRxState = "BUSY_IN_RX" /\ "RXNEIE" \notin sCR2

\* A direction makes one transfer at a time, and none in its callback before it starts one.
SpiOneTransmission ==
    /\ sCall = "send" => sTxState = "READY"
    /\ sIsr = "TX_CMPLT" => ~SpiSending
SpiOneReception ==
    /\ sCall = "receive" => sRxState = "READY"
    /\ sIsr = "RX_CMPLT" => ~SpiReceiving

\* What has been written and what is left make the buffer, in words and in bytes.
SpiWordsToWrite ==
    /\ sCall = "send" => sLeft > 0 /\ sLeft + Len(sWritten) = sTotal
    /\ sTxState = "BUSY_IN_TX" =>
          /\ Len(sWritten) < sTotal
          /\ sTxNext = Len(sWritten) + 1
          /\ sTxLen = (sTotal - Len(sWritten)) * SpiWordBytes
SpiWordsToStore ==
    /\ sCall = "receive" => sLeft > 0 /\ sLeft + Len(sRxBuffer) = sRxTotal
    /\ sRxState = "BUSY_IN_RX" =>
          /\ Len(sRxBuffer) < sRxTotal
          /\ sRxLen = (sRxTotal - Len(sRxBuffer)) * SpiWordBytes

\* As long as none was lost the words stored are the first that arrived, and the one in DR
\* is the next.
SpiStoredInOrder ==
    SpiReceiving /\ ~sLost =>
        /\ \A i \in 1 .. Len(sRxBuffer) : sRxBuffer[i] = i
        /\ sRDR # 0 => sRDR = Len(sRxBuffer) + 1

SpiTxInv == SpiTxTypeOK /\ SpiOneTransmission /\ SpiWordsToWrite
SpiRxInv == SpiRxTypeOK /\ SpiOneReception /\ SpiWordsToStore /\ SpiStoredInOrder
SpiInv   == EnabledInTransfer /\ SpiTxInv /\ SpiRxInv

\* The last word of a buffer, in bytes, is one word's bytes; before it more are left.
LEMMA LastWordOfBytes ==
    ASSUME NEW words \in Nat, words > 0, NEW bytes \in {1, 2}
    PROVE  /\ words * bytes = bytes <=> words = 1
           /\ words - 1 \in Nat
           /\ words * bytes - bytes = (words - 1) * bytes
           /\ (words - 1) * bytes \in Nat
<1>1. CASE bytes = 1
  BY <1>1
<1>2. CASE bytes = 2
  BY <1>2
<1> QED BY <1>1, <1>2

-----------------------------------------------------------------------------
\* What a step means for the transmission.
SpiTxImplemented == SpiTxInv' /\ (SpiTx!Next \/ UNCHANGED SpiTx!vars)

\* The steps that give no word to DR.
LEMMA SpiTxUntouched ==
    ASSUME SpiTxInv, UNCHANGED sTxVars, sLeft' \in Nat,
           sCall' = "send" <=> sCall = "send", sCall = "send" => sLeft' = sLeft,
           sIsr' = "TX_CMPLT" => sIsr = "TX_CMPLT"
    PROVE  SpiTxImplemented
<1>1. /\ UNCHANGED <<sTxState, sTxLen, sTxNext, sTotal, sWritten, sTxEvents>>
      /\ SpiSending' <=> SpiSending
  BY DEF sTxVars, SpiSending
<1>2. SpiTxInv'
  BY <1>1 DEF SpiTxInv, SpiTxTypeOK, SpiOneTransmission, SpiWordsToWrite
<1>3. UNCHANGED SpiTx!vars
  BY <1>1 DEF SpiTx!vars
<1> QED BY <1>2, <1>3 DEF SpiTxImplemented

\* SPI_send_IT and the completion callback prepare a transmission, SPI_send begins one.
LEMMA SpiTxStarts ==
    ASSUME SpiTxInv, ~SpiSending, SpiSending', NEW n \in SpiTxSizes, SpiStartTx(n),
           sLeft' \in Nat,
           \/ SpiPrepareTx(n) /\ sCall' # "send"
           \/ UNCHANGED <<sTxState, sTxLen, sTxNext>> /\ sCall' = "send" /\ sLeft' = n,
           sIsr' # "TX_CMPLT"
    PROVE  SpiTxImplemented
<1>1. n \in Nat /\ n > 0 /\ n * SpiWordBytes \in Nat /\ n - 0 = n /\ n + 0 = n /\ 0 < n
  BY SpiSizesAssumption
<1>2. sTotal' = n /\ sTxEvents' = 0 /\ sWritten' = <<>> /\ Len(sWritten') = 0
  BY DEF SpiStartTx
<1>3. sTxState = "READY" /\ sWritten' \in Seq(Nat)
  BY <1>2 DEF SpiTxInv, SpiTxTypeOK, SpiSending
<1>4. ASSUME SpiPrepareTx(n), sCall' # "send" PROVE SpiTxInv'
  <2>1. sTxNext' = 1 /\ sTxLen' = n * SpiWordBytes /\ sTxState' = "BUSY_IN_TX"
    BY <1>4 DEF SpiPrepareTx
  <2>2. SpiTxTypeOK' /\ SpiOneTransmission'
    BY <1>1, <1>2, <1>3, <1>4, <2>1 DEF SpiTxTypeOK, SpiOneTransmission
  <2>3. SpiWordsToWrite'
    <3>1. sTotal' - Len(sWritten') = n /\ Len(sWritten') < sTotal' /\ sTxNext' = Len(sWritten') + 1
      BY <1>1, <1>2, <2>1
    <3> QED BY <1>4, <2>1, <3>1 DEF SpiWordsToWrite
  <2> QED BY <2>2, <2>3 DEF SpiTxInv
<1>5. ASSUME UNCHANGED <<sTxState, sTxLen, sTxNext>>, sCall' = "send", sLeft' = n
      PROVE  SpiTxInv'
  <2>1. SpiTxTypeOK' /\ SpiOneTransmission'
    BY <1>1, <1>2, <1>3, <1>5 DEF SpiTxInv, SpiTxTypeOK, SpiOneTransmission
  <2>2. SpiWordsToWrite'
    BY <1>1, <1>2, <1>3, <1>5 DEF SpiWordsToWrite
  <2> QED BY <2>1, <2>2 DEF SpiTxInv
<1>6. SpiTx!Start
  BY <1>2 DEF SpiTx!Start
<1> QED BY <1>4, <1>5, <1>6 DEF SpiTxImplemented, SpiTx!Next

\* SPI_send or the TXE branch gives the next word to DR; the last one completes.
LEMMA SpiTxWrites ==
    ASSUME SpiTxInv, NEW word, word = Len(sWritten) + 1,
           sWritten' = Append(sWritten, word), UNCHANGED sTotal, sLeft' \in Nat,
           \/ /\ sCall = "send" /\ sLeft' = sLeft - 1
              /\ UNCHANGED <<sTxState, sTxLen, sTxNext>> /\ sIsr' # "TX_CMPLT"
              /\ IF sLeft' = 0 THEN sCall' = "none" /\ sTxEvents' = sTxEvents + 1
                               ELSE UNCHANGED <<sCall, sTxEvents>>
           \/ /\ sTxState = "BUSY_IN_TX" /\ UNCHANGED sCall
              /\ IF sTxLen = SpiWordBytes
                   THEN /\ sTxState' = "READY" /\ sTxLen' = 0 /\ sTxNext' = 1
                        /\ sTxEvents' = sTxEvents + 1
                   ELSE /\ sTxLen' = sTxLen - SpiWordBytes /\ sTxNext' = sTxNext + 1
                        /\ UNCHANGED <<sTxState, sTxEvents>> /\ sIsr' # "TX_CMPLT"
    PROVE  SpiTxImplemented
<1> DEFINE written == Len(sWritten)
           left == sTotal - written
<1>1. /\ sWritten \in Seq(Nat) /\ written \in Nat /\ sTotal \in Nat /\ sLeft \in Nat
      /\ sTxEvents \in Nat /\ sTxLen \in Nat /\ sTxNext \in Nat /\ SpiWordBytes \in {1, 2}
  BY SpiSizesAssumption DEF SpiTxInv, SpiTxTypeOK
<1>2. sWritten' \in Seq(Nat) /\ Len(sWritten') = written + 1
  BY <1>1
<1>3. CASE sCall = "send"
  <2>1. /\ sTxState = "READY" /\ sLeft > 0 /\ sLeft + written = sTotal
        /\ sLeft' = sLeft - 1 /\ UNCHANGED <<sTxState, sTxLen, sTxNext>> /\ sIsr' # "TX_CMPLT"
        /\ IF sLeft' = 0 THEN sCall' = "none" /\ sTxEvents' = sTxEvents + 1
                         ELSE UNCHANGED <<sCall, sTxEvents>>
    BY <1>3 DEF SpiTxInv, SpiOneTransmission, SpiWordsToWrite
  <2>2. written < sTotal /\ sLeft' + Len(sWritten') = sTotal'
    <3> HIDE DEF written
    <3>1. sLeft - 1 + (written + 1) = sTotal /\ written < sTotal
      BY <1>1, <2>1
    <3>2. sTotal' = sTotal
      OBVIOUS
    <3> QED BY <1>2, <2>1, <3>1, <3>2
  <2>3. CASE sLeft' = 0
    <3>1. ~SpiSending' /\ SpiSending
      BY <1>3, <2>1, <2>3 DEF SpiSending
    <3>2. SpiTxInv'
      BY <1>1, <1>2, <2>1, <2>3, <3>1
      DEF SpiTxInv, SpiTxTypeOK, SpiOneTransmission, SpiWordsToWrite
    <3>3. SpiTx!Complete
      BY <1>1, <1>2, <2>1, <2>2, <2>3, <3>1 DEF SpiTx!Complete, SpiTx!MoveOne
    <3> QED BY <3>2, <3>3 DEF SpiTxImplemented, SpiTx!Next
  <2>4. CASE sLeft' # 0
    <3>1. sLeft' > 0 /\ UNCHANGED <<sCall, sTxEvents>>
      BY <1>1, <2>1, <2>4
    <3>2. SpiTxTypeOK' /\ SpiOneTransmission'
      BY <1>1, <1>2, <2>1, <3>1 DEF SpiTxTypeOK, SpiOneTransmission
    <3>3. SpiWordsToWrite'
      BY <1>3, <2>1, <2>2, <3>1 DEF SpiWordsToWrite
    <3>4. SpiTx!Move
      BY <1>3, <2>1, <2>2, <3>1 DEF SpiTx!Move, SpiTx!MoveOne, SpiSending
    <3> QED BY <3>2, <3>3, <3>4 DEF SpiTxImplemented, SpiTxInv, SpiTx!Next
  <2> QED BY <2>3, <2>4
<1>4. CASE sCall # "send"
  <2>1. /\ sTxState = "BUSY_IN_TX" /\ UNCHANGED sCall /\ written < sTotal
        /\ sTxNext = written + 1 /\ sTxLen = left * SpiWordBytes
    BY <1>4 DEF SpiTxInv, SpiWordsToWrite
  <2>2. left \in Nat /\ left > 0
    BY <1>1, <2>1
  <2>3. /\ sTxLen = SpiWordBytes <=> left = 1
        /\ sTxLen - SpiWordBytes = (left - 1) * SpiWordBytes
        /\ (left - 1) * SpiWordBytes \in Nat
    <3> HIDE DEF left
    <3> QED BY <1>1, <2>1, <2>2, LastWordOfBytes
  <2>4. CASE sTxLen = SpiWordBytes
    <3>1. /\ sTxState' = "READY" /\ sTxLen' = 0 /\ sTxNext' = 1 /\ sTxEvents' = sTxEvents + 1
      BY <1>4, <2>4
    <3>2. ~SpiSending' /\ SpiSending
      BY <1>4, <2>1, <3>1 DEF SpiSending
    <3>3. SpiTxInv'
      BY <1>1, <1>2, <1>4, <2>1, <3>1, <3>2
      DEF SpiTxInv, SpiTxTypeOK, SpiOneTransmission, SpiWordsToWrite
    <3>4. written + 1 = sTotal
      BY <1>1, <2>3, <2>4
    <3>5. SpiTx!Complete
      BY <1>2, <2>1, <3>1, <3>2, <3>4 DEF SpiTx!Complete, SpiTx!MoveOne
    <3> QED BY <3>3, <3>5 DEF SpiTxImplemented, SpiTx!Next
  <2>5. CASE sTxLen # SpiWordBytes
    <3>1. /\ sTxLen' = sTxLen - SpiWordBytes /\ sTxNext' = sTxNext + 1
          /\ UNCHANGED <<sTxState, sTxEvents>> /\ sIsr' # "TX_CMPLT"
      BY <1>4, <2>5
    <3>2. sTxLen' = (left - 1) * SpiWordBytes /\ sTxLen' \in Nat /\ left # 1
      BY <2>3, <2>5, <3>1
    <3>3. /\ left - 1 = sTotal' - Len(sWritten') /\ Len(sWritten') < sTotal'
          /\ sTxNext' = Len(sWritten') + 1 /\ sTxNext' \in Nat
      BY <1>1, <1>2, <2>1, <3>1, <3>2
    <3>4. SpiTxTypeOK' /\ SpiOneTransmission'
      BY <1>1, <1>2, <1>4, <2>1, <3>1, <3>2, <3>3 DEF SpiTxTypeOK, SpiOneTransmission
    <3>5. SpiWordsToWrite'
      <4>1. sTxLen' = (sTotal' - Len(sWritten')) * SpiWordBytes
        BY <3>2, <3>3
      <4> QED BY <1>4, <2>1, <3>3, <4>1 DEF SpiWordsToWrite
    <3>6. SpiTx!Move
      BY <1>4, <2>1, <3>1 DEF SpiTx!Move, SpiTx!MoveOne, SpiSending
    <3> QED BY <3>4, <3>5, <3>6 DEF SpiTxImplemented, SpiTxInv, SpiTx!Next
  <2> QED BY <2>4, <2>5
<1> QED BY <1>3, <1>4

\* The names of the task's places between the load and the store of CR2.
LEMMA SpiLoadedNames ==
    /\ SpiLoaded["TXEIE"] = "TXEIE loaded"
    /\ SpiLoaded["RXNEIE"] = "RXNEIE loaded"
BY DEF SpiLoaded

\* The steps that leave the states and the enables alone.
LEMMA EnabledUntouched ==
    ASSUME EnabledInTransfer, UNCHANGED <<sTxState, sRxState, sCR2, sClobbered>>,
           sCall' = sCall \/ sCall' \in {"none", "send", "receive"}
    PROVE  EnabledInTransfer'
BY DEF EnabledInTransfer

\* TXEIE and RXNEIE are on in a transfer only, as long as no store has lost the handler's.
LEMMA EnabledStep == EnabledInTransfer /\ [SpiNext]_sVars => EnabledInTransfer'
<1> SUFFICES ASSUME EnabledInTransfer, [SpiNext]_sVars PROVE EnabledInTransfer'
  OBVIOUS
<1>1. CASE UNCHANGED sVars
  BY <1>1, EnabledUntouched DEF sVars, sTxVars, sRxVars, sTask
<1> SUFFICES ASSUME ~sClobbered, SpiNext PROVE EnabledInTransfer'
  BY <1>1 DEF SpiNext
<1>2. ASSUME NEW n \in SpiTxSizes, SPI_send_IT(n) PROVE EnabledInTransfer'
  BY <1>2 DEF EnabledInTransfer, SPI_send_IT, SpiPrepareTx, sRxVars
<1>3. ASSUME NEW n \in SpiRxSizes, SPI_receive_IT(n) PROVE EnabledInTransfer'
  BY <1>3 DEF EnabledInTransfer, SPI_receive_IT, SpiPrepareRx, sTxVars
<1>4. ASSUME NEW n \in SpiTxSizes, SPI_send(n) PROVE EnabledInTransfer'
  BY <1>4, EnabledUntouched DEF SPI_send, sRxVars
<1>5. ASSUME NEW n \in SpiRxSizes, SPI_receive(n) PROVE EnabledInTransfer'
  BY <1>5, EnabledUntouched DEF SPI_receive, sTxVars
<1>6. CASE LoadCR2
  BY <1>6, SpiLoadedNames DEF EnabledInTransfer, LoadCR2, sTxVars, sRxVars
<1>7. ASSUME NEW bit \in {"TXEIE", "RXNEIE"}, StoreCR2(bit) PROVE EnabledInTransfer'
  <2>1. /\ sCR2' = sCopy \cup {bit} /\ sClobbered' = (sCopy # sCR2) /\ sCall' = "none"
        /\ UNCHANGED <<sTxState, sRxState>>
    BY <1>7 DEF StoreCR2, sTxVars, sRxVars
  <2>2. ~sClobbered' => sCR2' = sCR2 \cup {bit}
    BY <2>1
  <2>3. /\ bit = "TXEIE" => sTxState = "BUSY_IN_TX"
        /\ bit = "RXNEIE" => sRxState = "BUSY_IN_RX"
    BY <1>7, SpiLoadedNames DEF EnabledInTransfer, StoreCR2
  <2> QED BY <1>7, <2>1, <2>2, <2>3 DEF EnabledInTransfer
<1>8. CASE SpiSendWord \/ SpiReceiveWord
  BY <1>8, EnabledUntouched DEF SpiSendWord, SpiReceiveWord, sTxVars, sRxVars
<1>9. CASE SpiEnterHandler \/ SpiCheckOVR
  BY <1>9, EnabledUntouched DEF SpiEnterHandler, SpiCheckOVR, sTxVars, sRxVars, sTask
<1>10. CASE SpiCheckTXE
  <2>1. sCall' = sCall /\ sRxState' = sRxState /\ sClobbered' = sClobbered
    BY <1>10 DEF SpiCheckTXE, sRxVars, sTask
  <2>2. \/ UNCHANGED <<sTxState, sCR2>>
        \/ sTxState' = "READY" /\ sCR2' = sCR2 \ {"TXEIE"} /\ "TXEIE" \in sCR2
    BY <1>10 DEF SpiCheckTXE, SPI_TXEIE_Handle, SPI_close_transmission, sTxVars
  <2> QED BY <2>1, <2>2 DEF EnabledInTransfer
<1>11. CASE SpiTxCallback
  <2>1. sCall' = sCall /\ sRxState' = sRxState /\ sClobbered' = sClobbered
    BY <1>11 DEF SpiTxCallback, sRxVars, sTask
  <2>2. \/ UNCHANGED <<sTxState, sCR2>>
        \/ /\ sTxState # "BUSY_IN_TX" /\ sTxState' = "BUSY_IN_TX"
           /\ sCR2' = sCR2 \cup {"TXEIE"}
    BY <1>11 DEF SpiTxCallback, SpiPrepareTx, sTxVars
  <2> QED BY <2>1, <2>2 DEF EnabledInTransfer
<1>12. CASE SpiCheckRXNE
  <2>1. sCall' = sCall /\ sTxState' = sTxState /\ sClobbered' = sClobbered
    BY <1>12 DEF SpiCheckRXNE, sTxVars, sTask
  <2>2. \/ UNCHANGED <<sRxState, sCR2>>
        \/ sRxState' = "READY" /\ sCR2' = sCR2 \ {"RXNEIE"} /\ "RXNEIE" \in sCR2
    BY <1>12 DEF SpiCheckRXNE, SPI_RXNEIE_Handle, SPI_close_reception, sRxVars
  <2> QED BY <2>1, <2>2 DEF EnabledInTransfer
<1>13. CASE SpiRxCallback
  <2>1. sCall' = sCall /\ sTxState' = sTxState /\ sClobbered' = sClobbered
    BY <1>13 DEF SpiRxCallback, sTxVars, sTask
  <2>2. \/ UNCHANGED <<sRxState, sCR2>>
        \/ /\ sRxState # "BUSY_IN_RX" /\ sRxState' = "BUSY_IN_RX"
           /\ sCR2' = sCR2 \cup {"RXNEIE"}
    BY <1>13 DEF SpiRxCallback, SpiPrepareRx, sRxVars
  <2> QED BY <2>1, <2>2 DEF EnabledInTransfer
<1>14. CASE SpiLoadShift \/ SpiExchange
  BY <1>14, EnabledUntouched DEF SpiLoadShift, SpiExchange, sTxVars, sRxVars, sTask
<1> QED
  BY <1>2, <1>3, <1>4, <1>5, <1>6, <1>7, <1>8, <1>9, <1>10, <1>11, <1>12, <1>13, <1>14
  DEF SpiNext, SpiCall, SpiTaskStep, SPI_IRQ_handler

\* Every step of the SPI keeps the invariant of the transmission and is a step of it, or
\* none.
LEMMA SpiTxStep == SpiInv /\ [SpiNext]_sVars => SpiTxImplemented
<1> SUFFICES ASSUME SpiInv, [SpiNext]_sVars PROVE SpiTxImplemented
  OBVIOUS
<1> USE DEF SpiInv
<1>0. sLeft \in Nat
  BY DEF SpiTxInv, SpiTxTypeOK
<1>1. CASE UNCHANGED sVars
  BY <1>0, <1>1, SpiTxUntouched DEF sVars, sTask
<1> SUFFICES ASSUME ~sClobbered, SpiNext PROVE SpiTxImplemented
  BY <1>1 DEF SpiNext
<1>2. ASSUME NEW n \in SpiTxSizes, SPI_send_IT(n) PROVE SpiTxImplemented
  <2>1. ~SpiSending /\ SpiSending' /\ SpiPrepareTx(n) /\ SpiStartTx(n) /\ sCall' # "send"
    BY <1>2 DEF SPI_send_IT, SpiPrepareTx, SpiSending
  <2>2. sLeft' = sLeft /\ sIsr' # "TX_CMPLT"
    BY <1>2 DEF SPI_send_IT, SpiTaskRuns
  <2> QED BY <1>0, <2>1, <2>2, SpiTxStarts
<1>3. ASSUME NEW n \in SpiTxSizes, SPI_send(n) PROVE SpiTxImplemented
  <2>1. ~SpiSending /\ SpiSending' /\ SpiStartTx(n) /\ sCall' = "send" /\ sLeft' = n
    BY <1>3 DEF SPI_send, SpiSending
  <2>2. UNCHANGED <<sTxState, sTxLen, sTxNext>> /\ sIsr' # "TX_CMPLT"
    BY <1>3 DEF SPI_send, SpiTaskRuns
  <2>3. n \in Nat
    BY SpiSizesAssumption
  <2> QED BY <2>1, <2>2, <2>3, SpiTxStarts
<1>4. ASSUME NEW n \in SpiRxSizes, SPI_receive_IT(n) \/ SPI_receive(n)
      PROVE  SpiTxImplemented
  <2>1. n \in Nat
    BY SpiSizesAssumption
  <2> QED BY <1>0, <1>4, <2>1, SpiTxUntouched DEF SPI_receive_IT, SPI_receive, SpiTaskRuns
<1>5. CASE LoadCR2
  <2>1. sCall # "send" /\ sCall' # "send"
    BY <1>5, SpiLoadedNames DEF LoadCR2
  <2> QED BY <1>0, <1>5, <2>1, SpiTxUntouched DEF LoadCR2, SpiTaskRuns
<1>6. ASSUME NEW bit \in {"TXEIE", "RXNEIE"}, StoreCR2(bit) PROVE SpiTxImplemented
  <2>1. sCall # "send" /\ sCall' # "send"
    BY <1>6, SpiLoadedNames DEF StoreCR2
  <2> QED BY <1>0, <1>6, <2>1, SpiTxUntouched DEF StoreCR2, SpiTaskRuns
<1>7. CASE SpiSendWord
  <2> DEFINE word == sTotal - sLeft + 1
  <2>1. /\ sCall = "send" /\ sWritten' = Append(sWritten, word) /\ sLeft' = sLeft - 1
        /\ UNCHANGED <<sTxState, sTxLen, sTxNext, sTotal>> /\ sIsr' # "TX_CMPLT"
        /\ IF sLeft' = 0 THEN sCall' = "none" /\ sTxEvents' = sTxEvents + 1
                         ELSE UNCHANGED <<sCall, sTxEvents>>
    BY <1>7 DEF SpiSendWord, SpiTaskRuns
  <2>2. word = Len(sWritten) + 1 /\ sLeft' \in Nat
    BY <1>0, <2>1 DEF SpiTxInv, SpiTxTypeOK, SpiWordsToWrite
  <2> QED BY <2>1, <2>2, SpiTxWrites
<1>8. CASE SpiReceiveWord
  <2>1. sLeft' \in Nat
    BY <1>0, <1>8 DEF SpiReceiveWord, SpiRxInv, SpiWordsToStore
  <2>2. UNCHANGED sTxVars /\ sCall = "receive" /\ sCall' # "send" /\ sIsr' # "TX_CMPLT"
    BY <1>8 DEF SpiReceiveWord, SpiTaskRuns
  <2> QED BY <1>0, <2>1, <2>2, SpiTxUntouched
<1>9. CASE SpiEnterHandler \/ SpiCheckOVR
  BY <1>0, <1>9, SpiTxUntouched DEF SpiEnterHandler, SpiCheckOVR, sTask
<1>10. CASE SpiCheckTXE
  <2>1. UNCHANGED <<sCall, sLeft>>
    BY <1>10 DEF SpiCheckTXE, sTask
  <2>2. CASE sDR = 0 /\ "TXEIE" \in sCR2
    <3>1. sTxState = "BUSY_IN_TX"
      BY <2>2 DEF EnabledInTransfer
    <3>2. sTxNext = Len(sWritten) + 1
      BY <3>1 DEF SpiTxInv, SpiWordsToWrite
    <3>3. SPI_TXEIE_Handle
      BY <1>10, <2>2 DEF SpiCheckTXE
    <3>4. /\ sWritten' = Append(sWritten, sTxNext) /\ UNCHANGED sTotal
          /\ IF sTxLen = SpiWordBytes
               THEN /\ sTxState' = "READY" /\ sTxLen' = 0 /\ sTxNext' = 1
                    /\ sTxEvents' = sTxEvents + 1
               ELSE /\ sTxLen' = sTxLen - SpiWordBytes /\ sTxNext' = sTxNext + 1
                    /\ UNCHANGED <<sTxState, sTxEvents>> /\ sIsr' # "TX_CMPLT"
      BY <3>3 DEF SPI_TXEIE_Handle, SPI_close_transmission
    <3> QED BY <1>0, <2>1, <3>1, <3>2, <3>4, SpiTxWrites
  <2>3. CASE ~(sDR = 0 /\ "TXEIE" \in sCR2)
    <3>1. UNCHANGED sTxVars /\ sIsr' = "RXNE"
      BY <1>10, <2>3 DEF SpiCheckTXE
    <3> QED BY <1>0, <2>1, <3>1, SpiTxUntouched
  <2> QED BY <2>2, <2>3
<1>11. CASE SpiTxCallback
  <2>1. ~SpiSending /\ sIsr' = "RXNE" /\ UNCHANGED <<sCall, sLeft>>
    BY <1>11 DEF SpiTxCallback, SpiTxInv, SpiOneTransmission, sTask
  <2>2. CASE UNCHANGED <<sTxVars, sCR2>>
    BY <1>0, <2>1, <2>2, SpiTxUntouched
  <2>3. ASSUME NEW n \in SpiTxSizes, SpiPrepareTx(n) PROVE SpiTxImplemented
    <3>1. SpiSending' /\ SpiStartTx(n) /\ sCall' # "send"
      BY <2>1, <2>3 DEF SpiPrepareTx, SpiSending
    <3> QED BY <1>0, <2>1, <2>3, <3>1, SpiTxStarts
  <2> QED BY <1>11, <2>2, <2>3 DEF SpiTxCallback
<1>12. CASE SpiCheckRXNE \/ SpiRxCallback
  <2>1. UNCHANGED <<sTxVars, sCall, sLeft>>
    BY <1>12 DEF SpiCheckRXNE, SpiRxCallback, sTask
  <2>2. sIsr' # "TX_CMPLT"
    BY <1>12 DEF SpiCheckRXNE, SPI_RXNEIE_Handle, SpiRxCallback
  <2> QED BY <1>0, <2>1, <2>2, SpiTxUntouched
<1>13. CASE SpiLoadShift \/ SpiExchange
  BY <1>0, <1>13, SpiTxUntouched DEF SpiLoadShift, SpiExchange, sTask
<1> QED
  BY <1>2, <1>3, <1>4, <1>5, <1>6, <1>7, <1>8, <1>9, <1>10, <1>11, <1>12, <1>13
  DEF SpiNext, SpiCall, SpiTaskStep, SPI_IRQ_handler

-----------------------------------------------------------------------------
\* What a step means for the reception.
SpiRxImplemented == SpiRxInv' /\ (SpiRx!Next \/ UNCHANGED SpiRx!vars)

\* Transfer counts the words stored as for the USART.
LEMMA SpiRxMoved ==
    SpiRx!vars = <<SpiReceiving, sRxTotal, Counted(sRxBuffer, sLost), sRxEvents>>
BY DEF SpiRx!vars, Counted

\* The steps that store nothing.  A word may arrive, or be lost.
LEMMA SpiRxUntouched ==
    ASSUME SpiRxInv, UNCHANGED sRxVars, sLeft' \in Nat,
           sCall' = "receive" <=> sCall = "receive", sCall = "receive" => sLeft' = sLeft,
           sIsr' = "RX_CMPLT" => sIsr = "RX_CMPLT",
           sRDR' \in Nat, sLost' \in BOOLEAN,
           sLost => sLost', sLost' => sLost \/ SpiReceiving,
           SpiReceiving /\ ~sLost' /\ sRDR' # 0 => sRDR' = Len(sRxBuffer) + 1
    PROVE  SpiRxImplemented
<1>1. /\ UNCHANGED <<sRxState, sRxLen, sRxBuffer, sRxTotal, sRxEvents>>
      /\ SpiReceiving' <=> SpiReceiving
  BY DEF sRxVars, SpiReceiving
<1>2. SpiRxInv'
  BY <1>1 DEF SpiRxInv, SpiRxTypeOK, SpiOneReception, SpiWordsToStore, SpiStoredInOrder
<1>3. Counted(sRxBuffer', sLost') = Counted(sRxBuffer, sLost)
  <2>1. CASE sLost' <=> sLost
    BY <1>1, <2>1 DEF SpiRxInv, SpiRxTypeOK
  <2>2. CASE sLost' /\ ~sLost
    <3>1. sRxBuffer \in Seq(Nat) /\ \A i \in 1 .. Len(sRxBuffer) : sRxBuffer[i] = i
      BY <2>2 DEF SpiRxInv, SpiRxTypeOK, SpiStoredInOrder
    <3>2. sLost' = TRUE /\ sLost = FALSE
      BY <2>2 DEF SpiRxInv, SpiRxTypeOK
    <3> QED BY <1>1, <3>1, <3>2, CountedAnyway
  <2> QED BY <2>1, <2>2
<1>4. UNCHANGED SpiRx!vars
  BY <1>1, <1>3, SpiRxMoved DEF SpiRx!vars, Counted
<1> QED BY <1>2, <1>4 DEF SpiRxImplemented

\* The steps that leave DR alone, too.
LEMMA SpiRxUntouchedAtAll ==
    ASSUME SpiRxInv, UNCHANGED <<sRxVars, sRDR, sLost>>, sLeft' \in Nat,
           sCall' = "receive" <=> sCall = "receive", sCall = "receive" => sLeft' = sLeft,
           sIsr' = "RX_CMPLT" => sIsr = "RX_CMPLT"
    PROVE  SpiRxImplemented
<1>1. /\ sRDR' \in Nat /\ sLost' \in BOOLEAN
      /\ SpiReceiving /\ ~sLost' /\ sRDR' # 0 => sRDR' = Len(sRxBuffer) + 1
  BY DEF SpiRxInv, SpiRxTypeOK, SpiStoredInOrder
<1> QED BY <1>1, SpiRxUntouched

\* SPI_receive_IT and the completion callback prepare a reception, SPI_receive begins one.
LEMMA SpiRxStarts ==
    ASSUME SpiRxInv, ~SpiReceiving, SpiReceiving', NEW n \in SpiRxSizes, SpiStartRx(n),
           sLeft' \in Nat,
           \/ SpiPrepareRx(n) /\ sCall' # "receive"
           \/ UNCHANGED <<sRxState, sRxLen>> /\ sCall' = "receive" /\ sLeft' = n,
           sIsr' # "RX_CMPLT"
    PROVE  SpiRxImplemented
<1>1. n \in Nat /\ n > 0 /\ n * SpiWordBytes \in Nat /\ n - 0 = n /\ n + 0 = n /\ 0 < n
  BY SpiSizesAssumption
<1>2. /\ sRxTotal' = n /\ sRxEvents' = 0 /\ sRxBuffer' = <<>> /\ Len(sRxBuffer') = 0
      /\ sRDR' \in {0, 1} /\ sLost' = FALSE
  BY DEF SpiStartRx
<1>3. sRxState = "READY"
  BY DEF SpiRxInv, SpiRxTypeOK, SpiReceiving
<1>4. /\ sRxTotal' \in Nat /\ sRxEvents' \in Nat /\ sRxBuffer' \in Seq(Nat)
      /\ sRDR' \in Nat /\ sLost' \in BOOLEAN
  <2>1. sRxBuffer' \in Seq(Nat)
    BY <1>2
  <2>2. sRDR' \in Nat /\ sLost' \in BOOLEAN
    BY DEF SpiStartRx
  <2> QED BY <1>1, <1>2, <2>1, <2>2
<1>5. SpiStoredInOrder'
  BY <1>2 DEF SpiStoredInOrder
<1>6. ASSUME SpiPrepareRx(n), sCall' # "receive" PROVE SpiRxInv'
  <2>1. sRxLen' = n * SpiWordBytes /\ sRxState' = "BUSY_IN_RX" /\ sRxLen' \in Nat
    BY <1>1, <1>6 DEF SpiPrepareRx
  <2>2. SpiRxTypeOK' /\ SpiOneReception'
    BY <1>4, <1>6, <2>1 DEF SpiRxTypeOK, SpiOneReception
  <2>3. SpiWordsToStore'
    <3>1. sRxTotal' - Len(sRxBuffer') = n /\ Len(sRxBuffer') < sRxTotal'
      BY <1>1, <1>2
    <3> QED BY <1>6, <2>1, <3>1 DEF SpiWordsToStore
  <2> QED BY <1>5, <2>2, <2>3 DEF SpiRxInv
<1>7. ASSUME UNCHANGED <<sRxState, sRxLen>>, sCall' = "receive", sLeft' = n
      PROVE  SpiRxInv'
  <2>1. SpiRxTypeOK' /\ SpiOneReception'
    BY <1>3, <1>4, <1>7 DEF SpiRxInv, SpiRxTypeOK, SpiOneReception
  <2>2. SpiWordsToStore'
    BY <1>1, <1>2, <1>3, <1>7 DEF SpiWordsToStore
  <2> QED BY <1>5, <2>1, <2>2 DEF SpiRxInv
<1>8. SpiRx!Start
  <2>1. Counted(sRxBuffer', sLost') = <<>>
    BY <1>2 DEF Counted
  <2> QED BY <1>2, <2>1 DEF SpiRx!Start, Counted
<1> QED BY <1>6, <1>7, <1>8 DEF SpiRxImplemented, SpiRx!Next

\* SPI_receive or the RXNE branch takes the word out of DR and stores it; the last one
\* completes.
LEMMA SpiRxStores ==
    ASSUME SpiRxInv, sRDR # 0, sRDR' = 0, sRxBuffer' = Append(sRxBuffer, sRDR),
           UNCHANGED <<sRxTotal, sLost>>, sLeft' \in Nat,
           \/ /\ sCall = "receive" /\ sLeft' = sLeft - 1
              /\ UNCHANGED <<sRxState, sRxLen>> /\ sIsr' # "RX_CMPLT"
              /\ IF sLeft' = 0 THEN sCall' = "none" /\ sRxEvents' = sRxEvents + 1
                               ELSE UNCHANGED <<sCall, sRxEvents>>
           \/ /\ sRxState = "BUSY_IN_RX" /\ UNCHANGED sCall
              /\ IF sRxLen = SpiWordBytes
                   THEN /\ sRxState' = "READY" /\ sRxLen' = 0
                        /\ sRxEvents' = sRxEvents + 1
                   ELSE /\ sRxLen' = sRxLen - SpiWordBytes
                        /\ UNCHANGED <<sRxState, sRxEvents>> /\ sIsr' # "RX_CMPLT"
    PROVE  SpiRxImplemented
<1> DEFINE stored == Len(sRxBuffer)
           left == sRxTotal - stored
<1>1. /\ sRxBuffer \in Seq(Nat) /\ stored \in Nat /\ sRxTotal \in Nat /\ sLeft \in Nat
      /\ sRxEvents \in Nat /\ sRxLen \in Nat /\ sRDR \in Nat /\ sLost \in BOOLEAN
      /\ SpiWordBytes \in {1, 2}
  BY SpiSizesAssumption DEF SpiRxInv, SpiRxTypeOK
<1>2. sRxBuffer' \in Seq(Nat) /\ Len(sRxBuffer') = stored + 1
  BY <1>1
<1>3. SpiReceiving
  BY DEF SpiReceiving
<1>4. sLost \/ sRDR = stored + 1
  BY <1>1, <1>3 DEF SpiRxInv, SpiStoredInOrder
<1>5. /\ Len(Counted(sRxBuffer, sLost)) = stored
      /\ Counted(sRxBuffer', sLost') = Append(Counted(sRxBuffer, sLost), stored + 1)
      /\ Len(Counted(sRxBuffer', sLost')) = stored + 1
  BY <1>1, <1>2, <1>4, CountedAppends, CountedLength
<1>6. SpiStoredInOrder'
  <2> SUFFICES ASSUME SpiReceiving', ~sLost' PROVE \A i \in 1 .. stored + 1 : sRxBuffer'[i] = i
    BY <1>2 DEF SpiStoredInOrder
  <2>1. sRDR = stored + 1 /\ \A i \in 1 .. stored : sRxBuffer[i] = i
    BY <1>3, <1>4 DEF SpiRxInv, SpiStoredInOrder
  <2>2. sRxBuffer'[stored + 1] = stored + 1 /\ \A i \in 1 .. stored : sRxBuffer'[i] = sRxBuffer[i]
    BY <1>1, <2>1
  <2>3. \A i \in 1 .. stored + 1 : i = stored + 1 \/ i \in 1 .. stored
    BY <1>1
  <2> QED BY <2>1, <2>2, <2>3
<1>7. CASE sCall = "receive"
  <2>1. /\ sRxState = "READY" /\ sLeft > 0 /\ sLeft + stored = sRxTotal
        /\ sLeft' = sLeft - 1 /\ UNCHANGED <<sRxState, sRxLen>> /\ sIsr' # "RX_CMPLT"
        /\ IF sLeft' = 0 THEN sCall' = "none" /\ sRxEvents' = sRxEvents + 1
                         ELSE UNCHANGED <<sCall, sRxEvents>>
    BY <1>7 DEF SpiRxInv, SpiOneReception, SpiWordsToStore
  <2>2. stored < sRxTotal /\ sLeft' + Len(sRxBuffer') = sRxTotal'
    <3>1. stored < sRxTotal /\ (sLeft - 1) + (stored + 1) = sRxTotal
      <4> HIDE DEF stored
      <4> QED BY <1>1, <2>1
    <3> QED BY <1>2, <2>1, <3>1
  <2>3. CASE sLeft' = 0
    <3>1. ~SpiReceiving' /\ stored + 1 = sRxTotal
      BY <1>1, <1>7, <2>1, <2>3 DEF SpiReceiving
    <3>2. SpiRxTypeOK' /\ SpiOneReception' /\ SpiWordsToStore'
      BY <1>1, <1>2, <2>1, <2>3, <3>1 DEF SpiRxTypeOK, SpiOneReception, SpiWordsToStore
    <3>3. SpiRx!Complete
      BY <1>3, <1>5, <2>1, <2>2, <2>3, <3>1 DEF SpiRx!Complete, SpiRx!MoveOne, Counted
    <3> QED BY <1>6, <3>2, <3>3 DEF SpiRxImplemented, SpiRxInv, SpiRx!Next
  <2>4. CASE sLeft' # 0
    <3>1. sLeft' > 0 /\ UNCHANGED <<sCall, sRxEvents>>
      BY <1>1, <2>1, <2>4
    <3>2. SpiRxTypeOK' /\ SpiOneReception'
      BY <1>1, <1>2, <2>1, <3>1 DEF SpiRxTypeOK, SpiOneReception
    <3>3. SpiWordsToStore'
      BY <1>7, <2>1, <2>2, <3>1 DEF SpiWordsToStore
    <3>4. SpiReceiving' <=> SpiReceiving
      BY <2>1, <3>1 DEF SpiReceiving
    <3>5. SpiRx!Move
      BY <1>3, <1>5, <2>2, <3>1, <3>4 DEF SpiRx!Move, SpiRx!MoveOne, Counted
    <3> QED BY <1>6, <3>2, <3>3, <3>5 DEF SpiRxImplemented, SpiRxInv, SpiRx!Next
  <2> QED BY <2>3, <2>4
<1>8. CASE sCall # "receive"
  <2>1. /\ sRxState = "BUSY_IN_RX" /\ UNCHANGED sCall /\ stored < sRxTotal
        /\ sRxLen = left * SpiWordBytes
    BY <1>8 DEF SpiRxInv, SpiWordsToStore
  <2>2. left \in Nat /\ left > 0
    BY <1>1, <2>1
  <2>3. /\ sRxLen = SpiWordBytes <=> left = 1
        /\ sRxLen - SpiWordBytes = (left - 1) * SpiWordBytes
        /\ (left - 1) * SpiWordBytes \in Nat
    <3> HIDE DEF left
    <3> QED BY <1>1, <2>1, <2>2, LastWordOfBytes
  <2>4. CASE sRxLen = SpiWordBytes
    <3>1. sRxState' = "READY" /\ sRxLen' = 0 /\ sRxEvents' = sRxEvents + 1
      BY <1>8, <2>4
    <3>2. ~SpiReceiving' /\ stored + 1 = sRxTotal
      BY <1>1, <1>8, <2>1, <2>3, <2>4, <3>1 DEF SpiReceiving
    <3>3. SpiRxTypeOK' /\ SpiOneReception' /\ SpiWordsToStore'
      BY <1>1, <1>2, <1>8, <2>1, <3>1, <3>2 DEF SpiRxTypeOK, SpiOneReception, SpiWordsToStore
    <3>4. SpiRx!Complete
      BY <1>3, <1>5, <2>1, <3>1, <3>2 DEF SpiRx!Complete, SpiRx!MoveOne, Counted
    <3> QED BY <1>6, <3>3, <3>4 DEF SpiRxImplemented, SpiRxInv, SpiRx!Next
  <2>5. CASE sRxLen # SpiWordBytes
    <3>1. /\ sRxLen' = sRxLen - SpiWordBytes
          /\ UNCHANGED <<sRxState, sRxEvents>> /\ sIsr' # "RX_CMPLT"
      BY <1>8, <2>5
    <3>2. sRxLen' = (left - 1) * SpiWordBytes /\ sRxLen' \in Nat /\ left # 1
      BY <2>3, <2>5, <3>1
    <3>3. left - 1 = sRxTotal' - Len(sRxBuffer') /\ Len(sRxBuffer') < sRxTotal'
      BY <1>1, <1>2, <2>1, <3>2
    <3>4. SpiRxTypeOK' /\ SpiOneReception'
      BY <1>1, <1>2, <1>8, <2>1, <3>1, <3>2 DEF SpiRxTypeOK, SpiOneReception
    <3>5. SpiWordsToStore'
      <4>1. sRxLen' = (sRxTotal' - Len(sRxBuffer')) * SpiWordBytes
        BY <3>2, <3>3
      <4> QED BY <1>8, <2>1, <3>3, <4>1 DEF SpiWordsToStore
    <3>6. SpiReceiving' <=> SpiReceiving
      BY <2>1, <3>1 DEF SpiReceiving
    <3>7. SpiRx!Move
      BY <1>3, <1>5, <2>1, <3>1, <3>6 DEF SpiRx!Move, SpiRx!MoveOne, Counted
    <3> QED BY <1>6, <3>4, <3>5, <3>7 DEF SpiRxImplemented, SpiRxInv, SpiRx!Next
  <2> QED BY <2>4, <2>5
<1> QED BY <1>7, <1>8

\* Every step of the SPI keeps the invariant of the reception and is a step of it, or none.
LEMMA SpiRxStep == SpiInv /\ [SpiNext]_sVars => SpiRxImplemented
<1> SUFFICES ASSUME SpiInv, [SpiNext]_sVars PROVE SpiRxImplemented
  OBVIOUS
<1> USE DEF SpiInv
<1>0. sLeft \in Nat /\ sRDR \in Nat /\ sLost \in BOOLEAN /\ Len(sRxBuffer) \in Nat
  BY DEF SpiRxInv, SpiRxTypeOK
<1>1. CASE UNCHANGED sVars
  <2>1. UNCHANGED <<sRxVars, sRDR, sLost, sCall, sLeft, sIsr>>
    BY <1>1 DEF sVars, sRxLine, sTask
  <2> QED BY <1>0, <2>1, SpiRxUntouchedAtAll
<1> SUFFICES ASSUME ~sClobbered, SpiNext PROVE SpiRxImplemented
  BY <1>1 DEF SpiNext
<1>2. ASSUME NEW n \in SpiTxSizes, SPI_send_IT(n) \/ SPI_send(n) PROVE SpiRxImplemented
  <2>1. n \in Nat
    BY SpiSizesAssumption
  <2>2. UNCHANGED <<sRxVars, sRDR, sLost>> /\ sCall # "receive" /\ sCall' # "receive"
        /\ sIsr' # "RX_CMPLT" /\ sLeft' \in Nat
    BY <1>0, <1>2, <2>1 DEF SPI_send_IT, SPI_send, SpiTaskRuns, sRxLine
  <2> QED BY <2>2, SpiRxUntouchedAtAll
<1>3. ASSUME NEW n \in SpiRxSizes, SPI_receive_IT(n) PROVE SpiRxImplemented
  <2>1. /\ ~SpiReceiving /\ SpiReceiving' /\ SpiPrepareRx(n) /\ SpiStartRx(n)
        /\ sCall' # "receive"
    BY <1>3 DEF SPI_receive_IT, SpiPrepareRx, SpiReceiving
  <2>2. sLeft' = sLeft /\ sIsr' # "RX_CMPLT"
    BY <1>3 DEF SPI_receive_IT, SpiTaskRuns
  <2> QED BY <1>0, <2>1, <2>2, SpiRxStarts
<1>4. ASSUME NEW n \in SpiRxSizes, SPI_receive(n) PROVE SpiRxImplemented
  <2>1. ~SpiReceiving /\ SpiReceiving' /\ SpiStartRx(n) /\ sCall' = "receive" /\ sLeft' = n
    BY <1>4 DEF SPI_receive, SpiReceiving
  <2>2. UNCHANGED <<sRxState, sRxLen>> /\ sIsr' # "RX_CMPLT"
    BY <1>4 DEF SPI_receive, SpiTaskRuns
  <2>3. n \in Nat
    BY SpiSizesAssumption
  <2> QED BY <2>1, <2>2, <2>3, SpiRxStarts
<1>5. CASE LoadCR2
  <2>1. UNCHANGED <<sRxVars, sRDR, sLost, sLeft, sIsr>> /\ sCall # "receive" /\ sCall' # "receive"
    BY <1>5, SpiLoadedNames DEF LoadCR2, sRxLine
  <2> QED BY <1>0, <2>1, SpiRxUntouchedAtAll
<1>6. ASSUME NEW bit \in {"TXEIE", "RXNEIE"}, StoreCR2(bit) PROVE SpiRxImplemented
  <2>1. UNCHANGED <<sRxVars, sRDR, sLost, sLeft, sIsr>> /\ sCall # "receive" /\ sCall' # "receive"
    BY <1>6, SpiLoadedNames DEF StoreCR2, sRxLine
  <2> QED BY <1>0, <2>1, SpiRxUntouchedAtAll
<1>7. CASE SpiSendWord
  <2>1. UNCHANGED <<sRxVars, sRDR, sLost>> /\ sCall = "send" /\ sCall' # "receive"
        /\ sIsr' # "RX_CMPLT" /\ sLeft' = sLeft - 1
    BY <1>7 DEF SpiSendWord, SpiTaskRuns
  <2>2. sLeft' \in Nat
    BY <1>0, <2>1 DEF SpiTxInv, SpiWordsToWrite
  <2> QED BY <2>1, <2>2, SpiRxUntouchedAtAll
<1>8. CASE SpiReceiveWord
  <2>1. /\ sCall = "receive" /\ sRDR # 0 /\ sRDR' = 0 /\ sRxBuffer' = Append(sRxBuffer, sRDR)
        /\ UNCHANGED <<sRxTotal, sLost, sRxState, sRxLen>>
        /\ sLeft' = sLeft - 1 /\ sIsr' # "RX_CMPLT"
        /\ IF sLeft' = 0 THEN sCall' = "none" /\ sRxEvents' = sRxEvents + 1
                         ELSE UNCHANGED <<sCall, sRxEvents>>
    BY <1>8 DEF SpiReceiveWord, SpiTaskRuns
  <2>2. sLeft' \in Nat
    BY <1>0, <2>1 DEF SpiRxInv, SpiWordsToStore
  <2> QED BY <2>1, <2>2, SpiRxStores
<1>9. CASE SpiEnterHandler
  <2>1. UNCHANGED <<sRxVars, sRDR, sLost, sCall, sLeft>> /\ sIsr' # "RX_CMPLT"
    BY <1>9 DEF SpiEnterHandler, sRxLine, sTask
  <2> QED BY <1>0, <2>1, SpiRxUntouchedAtAll
<1>10. CASE SpiCheckTXE \/ SpiTxCallback
  <2>1. UNCHANGED <<sRxVars, sRDR, sLost, sCall, sLeft>>
    BY <1>10 DEF SpiCheckTXE, SpiTxCallback, sRxLine, sTask
  <2>2. sIsr' # "RX_CMPLT"
    BY <1>10 DEF SpiCheckTXE, SPI_TXEIE_Handle, SpiTxCallback
  <2> QED BY <1>0, <2>1, <2>2, SpiRxUntouchedAtAll
<1>11. CASE SpiCheckRXNE
  <2>1. UNCHANGED <<sCall, sLeft, sLost>>
    BY <1>11 DEF SpiCheckRXNE, sTask
  <2>2. CASE sRDR # 0 /\ "RXNEIE" \in sCR2
    <3>1. sRxState = "BUSY_IN_RX"
      BY <2>2 DEF EnabledInTransfer
    <3>2. SPI_RXNEIE_Handle
      BY <1>11, <2>2 DEF SpiCheckRXNE
    <3>3. /\ sRDR' = 0 /\ sRxBuffer' = Append(sRxBuffer, sRDR) /\ UNCHANGED sRxTotal
          /\ IF sRxLen = SpiWordBytes
               THEN /\ sRxState' = "READY" /\ sRxLen' = 0
                    /\ sRxEvents' = sRxEvents + 1
               ELSE /\ sRxLen' = sRxLen - SpiWordBytes
                    /\ UNCHANGED <<sRxState, sRxEvents>> /\ sIsr' # "RX_CMPLT"
      BY <3>2 DEF SPI_RXNEIE_Handle, SPI_close_reception, Taken
    <3> QED BY <1>0, <2>1, <2>2, <3>1, <3>3, SpiRxStores
  <2>3. CASE ~(sRDR # 0 /\ "RXNEIE" \in sCR2)
    <3>1. UNCHANGED <<sRxVars, sRDR>> /\ sIsr' = "OVR"
      BY <1>11, <2>3 DEF SpiCheckRXNE
    <3> QED BY <1>0, <2>1, <3>1, SpiRxUntouchedAtAll
  <2> QED BY <2>2, <2>3
<1>12. CASE SpiRxCallback
  <2>1. ~SpiReceiving /\ sIsr' = "OVR" /\ UNCHANGED <<sCall, sLeft>>
    BY <1>12 DEF SpiRxCallback, SpiRxInv, SpiOneReception, sTask
  <2>2. CASE UNCHANGED <<sRxVars, sRDR, sLost, sCR2>>
    BY <1>0, <2>1, <2>2, SpiRxUntouchedAtAll
  <2>3. ASSUME NEW n \in SpiRxSizes, SpiPrepareRx(n) PROVE SpiRxImplemented
    <3>1. SpiReceiving' /\ SpiStartRx(n) /\ sCall' # "receive"
      BY <2>1, <2>3 DEF SpiPrepareRx, SpiReceiving
    <3> QED BY <1>0, <2>1, <2>3, <3>1, SpiRxStarts
  <2> QED BY <1>12, <2>2, <2>3 DEF SpiRxCallback
<1>13. CASE SpiCheckOVR
  <2>1. UNCHANGED <<sRxVars, sCall, sLeft>> /\ sIsr' = "out"
    BY <1>13 DEF SpiCheckOVR, sTask
  <2>2. CASE UNCHANGED <<sRDR, sLost>>
    BY <1>0, <2>1, <2>2, SpiRxUntouchedAtAll
  <2>3. CASE sRDR' = 0 /\ sLost' = (sLost \/ (SpiReceiving /\ sRDR # 0))
    <3>1. sLost' \in BOOLEAN /\ (sLost => sLost') /\ (sLost' => sLost \/ SpiReceiving)
      BY <2>3
    <3> QED BY <1>0, <2>1, <2>3, <3>1, SpiRxUntouched
  <2> QED BY <1>13, <2>2, <2>3 DEF SpiCheckOVR
<1>14. CASE SpiLoadShift
  <2>1. UNCHANGED <<sRxVars, sRDR, sLost, sCall, sLeft, sIsr>>
    BY <1>14 DEF SpiLoadShift, sRxLine, sTask
  <2> QED BY <1>0, <2>1, SpiRxUntouchedAtAll
<1>15. CASE SpiExchange
  <2>1. UNCHANGED <<sRxVars, sCall, sLeft, sIsr>>
    BY <1>15 DEF SpiExchange, sTask
  <2>2. CASE sRDR = 0
    <3>1. /\ sRDR' = (IF SpiReceiving /\ ~sLost THEN Len(sRxBuffer) + 1 ELSE 1)
          /\ sLost' = sLost
      BY <1>15, <2>2 DEF SpiExchange
    <3>2. sRDR' \in Nat
      BY <1>0, <3>1
    <3> QED BY <1>0, <2>1, <3>1, <3>2, SpiRxUntouched
  <2>3. CASE sRDR # 0
    <3>1. sLost' = (sLost \/ SpiReceiving) /\ sRDR' = sRDR
      BY <1>15, <2>3 DEF SpiExchange
    <3>2. sLost' \in BOOLEAN /\ (sLost => sLost') /\ (sLost' => sLost \/ SpiReceiving)
          /\ (SpiReceiving => sLost')
      BY <1>0, <3>1 DEF SpiReceiving
    <3> QED BY <1>0, <2>1, <3>1, <3>2, SpiRxUntouched
  <2> QED BY <2>2, <2>3
<1> QED
  BY <1>2, <1>3, <1>4, <1>5, <1>6, <1>7, <1>8, <1>9, <1>10, <1>11, <1>12, <1>13, <1>14, <1>15
  DEF SpiNext, SpiCall, SpiTaskStep, SPI_IRQ_handler

\* A transmission gives the words of its buffer to DR in order, each once; a reception stores
\* the words that arrive in order, each once, without a gap unless one was lost; each is
\* reported once, with its last word: for every length, word size and interleaving of the
\* task, the handler and the line, up to the first store of CR2 that loses the handler's.
THEOREM SpiTransfers == SpiSpec => SpiMoves
<1>1. SpiInit => SpiInv /\ SpiTx!Init /\ SpiRx!Init
  <2> SUFFICES ASSUME SpiInit PROVE SpiInv /\ SpiTx!Init /\ SpiRx!Init
    OBVIOUS
  <2>1. EnabledInTransfer
    BY DEF SpiInit, EnabledInTransfer
  <2>2. sWritten \in Seq(Nat) /\ sRxBuffer \in Seq(Nat)
    BY DEF SpiInit
  <2>3. SpiTxInv
    BY <2>2 DEF SpiInit, SpiTxInv, SpiTxTypeOK, SpiOneTransmission, SpiWordsToWrite
  <2>4. SpiRxInv
    BY <2>2
    DEF SpiInit, SpiRxInv, SpiRxTypeOK, SpiOneReception, SpiWordsToStore, SpiStoredInOrder,
        SpiReceiving
  <2>5. Counted(sRxBuffer, sLost) = <<>>
    BY DEF SpiInit, Counted
  <2>6. SpiTx!Init /\ SpiRx!Init
    BY <2>5 DEF SpiInit, SpiTx!Init, SpiRx!Init, SpiSending, SpiReceiving, Counted
  <2> QED BY <2>1, <2>3, <2>4, <2>6 DEF SpiInv
<1>2. SpiInv /\ [SpiNext]_sVars =>
          SpiInv' /\ [SpiTx!Next]_SpiTx!vars /\ [SpiRx!Next]_SpiRx!vars
  BY EnabledStep, SpiTxStep, SpiRxStep DEF SpiInv, SpiTxImplemented, SpiRxImplemented
<1> QED BY <1>1, <1>2, PTL DEF SpiSpec, SpiMoves, SpiTx!Spec, SpiRx!Spec

-----------------------------------------------------------------------------
\* GPIO: the fields of the registers, the sources of the lines, and the outputs.

\* The field of a value of at most four bits.
LEMMA BitsOf ==
    ASSUME NEW v \in 0 .. 15, NEW from \in Nat, NEW x
    PROVE  x \in Bits(v, from) <=>
              \/ x = from     /\ v % 2 = 1
              \/ x = from + 1 /\ (v \div 2) % 2 = 1
              \/ x = from + 2 /\ (v \div 4) % 2 = 1
              \/ x = from + 3 /\ (v \div 8) % 2 = 1
<1>1. 2 ^ 0 = 1 /\ 2 ^ 1 = 2 /\ 2 ^ 2 = 4 /\ 2 ^ 3 = 8 /\ v \div 1 = v
  OBVIOUS
<1>2. 0 .. 3 = {0, 1, 2, 3} /\ from + 0 = from
  OBVIOUS
<1> DEFINE ones == {j \in 0 .. 3 : (v \div 2 ^ j) % 2 = 1}
<1>3. /\ 0 \in ones <=> v % 2 = 1
      /\ 1 \in ones <=> (v \div 2) % 2 = 1
      /\ 2 \in ones <=> (v \div 4) % 2 = 1
      /\ 3 \in ones <=> (v \div 8) % 2 = 1
      /\ ones \subseteq {0, 1, 2, 3}
  BY <1>1, <1>2
<1>4. Bits(v, from) = {from + i : i \in ones}
  BY DEF Bits
<1> HIDE DEF ones
<1> QED BY <1>2, <1>3, <1>4

\* A value for a field of one, two or four bits.
Fits(v, width) ==
    \/ width = 1 /\ v \in 0 .. 1
    \/ width = 2 /\ v \in 0 .. 3
    \/ width = 4 /\ v \in 0 .. 15

\* A field holds what was put into it: temp &= ~(mask << pos); temp |= value << pos.
LEMMA PutIsRead ==
    ASSUME NEW reg, NEW pin \in 0 .. 15, NEW width, NEW v, Fits(v, width)
    PROVE  Value(Put(reg, pin, width, v), pin, width) = v
<1>0. width \in {1, 2, 4} /\ v \in 0 .. 15
  BY DEF Fits
<1> USE <1>0 DEF Fits
<1>1. 2 ^ 0 = 1 /\ 2 ^ 1 = 2 /\ 2 ^ 2 = 4 /\ 2 ^ 3 = 8
  OBVIOUS
<1>2. ASSUME NEW i \in 0 .. width - 1
      PROVE  width * pin + i \in Put(reg, pin, width, v) <=> width * pin + i \in Bits(v, width * pin)
  <2>1. width * pin + i \in Field(pin, width)
    BY DEF Field
  <2> QED BY <2>1 DEF Put
<1>3. v = (v % 2) + 2 * ((v \div 2) % 2) + 4 * ((v \div 4) % 2) + 8 * ((v \div 8) % 2)
  OBVIOUS
<1> DEFINE new == Put(reg, pin, width, v)
<1>4. CASE width = 1
  <2>1. pin + 0 = pin /\ 1 * pin + 0 = pin /\ 1 * pin = pin /\ v = v % 2
    BY <1>4
  <2>2. pin \in new <=> v % 2 = 1
    BY <1>2, <1>4, <2>1, BitsOf
  <2> HIDE DEF new
  <2>3. Value(new, pin, 1) = IF pin \in new THEN 1 ELSE 0
    BY <1>1, <2>1 DEF Value
  <2> QED BY <1>4, <2>1, <2>2, <2>3 DEF new
<1>5. CASE width = 2
  <2>1. v = (v % 2) + 2 * ((v \div 2) % 2)
    BY <1>5
  <2>2. /\ 2 * pin + 0 \in new <=> v % 2 = 1
        /\ 2 * pin + 1 \in new <=> (v \div 2) % 2 = 1
    BY <1>2, <1>5, BitsOf
  <2> HIDE DEF new
  <2>3. Value(new, pin, 2) = (IF 2 * pin + 0 \in new THEN 1 ELSE 0) + (IF 2 * pin + 1 \in new THEN 2 ELSE 0)
    BY <1>1 DEF Value
  <2> QED BY <1>5, <2>1, <2>2, <2>3 DEF new
<1>6. CASE width = 4
  <2>2. /\ 4 * pin + 0 \in new <=> v % 2 = 1
        /\ 4 * pin + 1 \in new <=> (v \div 2) % 2 = 1
        /\ 4 * pin + 2 \in new <=> (v \div 4) % 2 = 1
        /\ 4 * pin + 3 \in new <=> (v \div 8) % 2 = 1
    BY <1>2, <1>6, BitsOf
  <2> HIDE DEF new
  <2>3. Value(new, pin, 4) = (IF 4 * pin + 0 \in new THEN 1 ELSE 0) + (IF 4 * pin + 1 \in new THEN 2 ELSE 0)
           + ((IF 4 * pin + 2 \in new THEN 4 ELSE 0) + (IF 4 * pin + 3 \in new THEN 8 ELSE 0))
    BY <1>1 DEF Value
  <2> QED BY <1>3, <1>6, <2>2, <2>3 DEF new
<1> HIDE DEF new, Fits
<1> QED BY <1>4, <1>5, <1>6 DEF new

\* And its neighbours hold what they held.
LEMMA PutIsElsewhere ==
    ASSUME NEW reg, NEW pin \in 0 .. 15, NEW width, NEW v, Fits(v, width),
           NEW q \in 0 .. 15, q # pin
    PROVE  Value(Put(reg, pin, width, v), q, width) = Value(reg, q, width)
<1> DEFINE new == Put(reg, pin, width, v)
<1>0. width \in {1, 2, 4} /\ v \in 0 .. 15
  BY DEF Fits
<1> USE <1>0 DEF Fits
<1>1. ASSUME NEW i \in 0 .. width - 1
      PROVE  width * q + i \in new <=> width * q + i \in reg
  <2>1. width * q + i \notin Field(pin, width)
    <3>1. CASE width = 1
      BY <3>1 DEF Field
    <3>2. CASE width = 2
      BY <3>2 DEF Field
    <3>3. CASE width = 4
      BY <3>3 DEF Field
    <3> QED BY <3>1, <3>2, <3>3
  <2>2. width * q + i \notin Bits(v, width * pin)
    <3>1. CASE width = 1
      <4>1. v \div 2 = 0 /\ v \div 4 = 0 /\ v \div 8 = 0 /\ 0 % 2 = 0
        BY <3>1
      <4>2. 1 * q + i = q /\ 1 * pin = pin
        BY <3>1
      <4> QED BY <3>1, <4>1, <4>2, BitsOf
    <3>2. CASE width = 2
      <4>1. v \div 4 = 0 /\ v \div 8 = 0 /\ 0 % 2 = 0
        BY <3>2
      <4>2. \A x : x \in Bits(v, 2 * pin) => x = 2 * pin \/ x = 2 * pin + 1
        BY <4>1, BitsOf
      <4>3. i \in {0, 1}
        BY <3>2
      <4> QED BY <3>2, <4>2, <4>3
    <3>3. CASE width = 4
      BY <3>3, BitsOf
    <3> QED BY <3>1, <3>2, <3>3
  <2> QED BY <2>1, <2>2 DEF Put
<1> HIDE DEF new
<1>2. CASE width = 1
  <2>1. 1 * q + 0 \in new <=> 1 * q + 0 \in reg
    BY <1>1, <1>2
  <2> QED BY <1>2, <2>1 DEF Value, new
<1>3. CASE width = 2
  <2>1. /\ 2 * q + 0 \in new <=> 2 * q + 0 \in reg
        /\ 2 * q + 1 \in new <=> 2 * q + 1 \in reg
    BY <1>1, <1>3
  <2> QED BY <1>3, <2>1 DEF Value, new
<1>4. CASE width = 4
  <2>1. /\ 4 * q + 0 \in new <=> 4 * q + 0 \in reg
        /\ 4 * q + 1 \in new <=> 4 * q + 1 \in reg
        /\ 4 * q + 2 \in new <=> 4 * q + 2 \in reg
        /\ 4 * q + 3 \in new <=> 4 * q + 3 \in reg
    BY <1>1, <1>4
  <2> QED BY <1>4, <2>1 DEF Value, new
<1> QED BY <1>2, <1>3, <1>4

-----------------------------------------------------------------------------
\* The output port each writer has to itself.
PortOf(w) == IF w = 1 THEN "GPIOA" ELSE "GPIOC"

\* The function of gRegs, gODR and gLoaded, whatever their values are.
GpioTypeOK ==
    /\ gRegs = [p \in Ports |-> gRegs[p]]
    /\ gAsked \in [GPins -> {<<>>} \cup {<<c>> : c \in GConfigs}]
    /\ gODR = [p \in Ports |-> gODR[p]]
    /\ gLoaded = [w \in Writers |-> gLoaded[w]]

HasConfig(x, c) == gAsked[x] = <<c>>

PinAsAsked(x) ==
    \A c \in GConfigs : HasConfig(x, c) =>
         LET r == gRegs[x[1]]
             pin == x[2]
         IN  /\ Value(r.MODER, pin, 2) = IF IsInterrupt(c) THEN 0 ELSE c.mode
             /\ Value(r.PUPDR, pin, 2) = c.pupd
             /\ IsOutput(c) => Value(r.OTYPER, pin, 1) = c.out /\ Value(r.OSPEEDR, pin, 2) = c.speed
             /\ c.mode = 2 => Value(r.AFR, pin, 4) = c.alt

\* What a writer has loaded is what the port still is: nobody else writes to it.
LoadsAreFresh ==
    \A w \in Writers : gLoaded[w] \in {<<>>, <<PortOf(w), gODR[PortOf(w)]>>}

\* A port whose pin was given to the line.
IsSource(port, pin) ==
    <<port, pin>> \in GPins /\ \E c \in GConfigs : HasConfig(<<port, pin>>, c) /\ IsInterrupt(c)

Wants(port, pin, rising) ==
    <<port, pin>> \in GPins /\ \E c \in GConfigs :
        HasConfig(<<port, pin>>, c) /\ c.mode \in {IF rising THEN 5 ELSE 4, 6}

\* A line has one source at most, EXTICR has its code, and the edges are those it wants.
LinesMatch ==
    \A pin \in 0 .. 15 :
        /\ \A p, q \in Ports : IsSource(p, pin) /\ IsSource(q, pin) => p = q
        /\ {4 * pin, 4 * pin + 2, 4 * pin + 3} \cap gEXTICR = {}
        /\ 4 * pin + 1 \in gEXTICR <=> IsSource("GPIOC", pin)
        /\ pin \in gRTSR <=> \E p \in Ports : Wants(p, pin, TRUE)
        /\ pin \in gFTSR <=> \E p \in Ports : Wants(p, pin, FALSE)

\* The lines pending are those with an edge that was asked for: one at most.
PendingMatches == gPR = gSeen /\ \A a, b \in gPR : a = b

\* The inductive invariant.
GpioInv ==
    /\ GpioTypeOK /\ \A x \in GPins : PinAsAsked(x)
    /\ gODR = gWritten /\ LoadsAreFresh
    /\ LinesMatch /\ PendingMatches

\* Reset values: no pin is configured and no line enabled.
LEMMA GpioInitInv == GpioInit => GpioInv
<1> SUFFICES ASSUME GpioInit PROVE GpioInv
  OBVIOUS
<1>1. GpioTypeOK /\ gODR = gWritten /\ LoadsAreFresh /\ PendingMatches
  BY DEF GpioInit, GpioTypeOK, LoadsAreFresh, PendingMatches
<1>2. \A x \in GPins, c \in GConfigs : ~HasConfig(x, c)
  BY DEF GpioInit, HasConfig
<1>3. \A x \in GPins : PinAsAsked(x)
  BY <1>2 DEF PinAsAsked
<1>4. LinesMatch
  BY <1>2 DEF GpioInit, LinesMatch, IsSource, Wants
<1> QED BY <1>1, <1>3, <1>4 DEF GpioInv

\* The constants of a pin and a configuration.
LEMMA PinAndConfig ==
    /\ \A x \in GPins : x[1] \in Ports /\ x[2] \in 0 .. 15 /\ x = <<x[1], x[2]>>
    /\ \A c \in GConfigs : /\ c.mode \in 0 .. 6 /\ c.out \in 0 .. 1 /\ c.speed \in 0 .. 3
                           /\ c.pupd \in 0 .. 3 /\ c.alt \in 0 .. 15
BY GPinsAssumption, GConfigsAssumption

\* GPIO_init writes the fields of its pin and no others.
LEMMA InitConfiguresPin ==
    ASSUME GpioInv, NEW y \in GPins, NEW c \in GConfigs, GPIO_init(y[1], y[2], c),
           NEW x \in GPins
    PROVE  PinAsAsked(x)'
<1> DEFINE old == gRegs[y[1]]
           new == ConfiguredRegs(old, y[2], c)
<1>1. /\ y[1] \in Ports /\ y[2] \in 0 .. 15 /\ y = <<y[1], y[2]>>
      /\ x[1] \in Ports /\ x[2] \in 0 .. 15 /\ x = <<x[1], x[2]>>
      /\ c.mode \in 0 .. 6 /\ c.out \in 0 .. 1 /\ c.speed \in 0 .. 3
      /\ c.pupd \in 0 .. 3 /\ c.alt \in 0 .. 15
  BY PinAndConfig
<1>2. /\ gRegs'[y[1]] = new /\ \A p \in Ports : p # y[1] => gRegs'[p] = gRegs[p]
      /\ gAsked'[y] = <<c>> /\ \A z \in GPins : z # y => gAsked'[z] = gAsked[z]
  BY <1>1 DEF GPIO_init, GpioInv, GpioTypeOK
<1>3. PinAsAsked(x)
  BY DEF GpioInv
<1> DEFINE mode == IF IsInterrupt(c) THEN 0 ELSE c.mode
<1>4. /\ new.MODER = Put(old.MODER, y[2], 2, mode)
      /\ new.PUPDR = Put(old.PUPDR, y[2], 2, c.pupd)
      /\ new.OTYPER = IF IsOutput(c) THEN Put(old.OTYPER, y[2], 1, c.out) ELSE old.OTYPER
      /\ new.OSPEEDR = IF IsOutput(c) THEN Put(old.OSPEEDR, y[2], 2, c.speed) ELSE old.OSPEEDR
      /\ new.AFR = IF c.mode = 2 THEN Put(old.AFR, y[2], 4, c.alt) ELSE old.AFR
  BY DEF ConfiguredRegs
<1>5. /\ Fits(mode, 2) /\ Fits(c.pupd, 2) /\ Fits(c.out, 1) /\ Fits(c.speed, 2) /\ Fits(c.alt, 4)
      /\ mode \in 0 .. 15 /\ c.pupd \in 0 .. 15 /\ c.out \in 0 .. 15 /\ c.speed \in 0 .. 15
  BY <1>1 DEF Fits, IsInterrupt
<1> HIDE DEF old, new, mode
<1>6. CASE x = y
  <2>1. /\ Value(new.MODER, x[2], 2) = mode /\ Value(new.PUPDR, x[2], 2) = c.pupd
        /\ IsOutput(c) => Value(new.OTYPER, x[2], 1) = c.out /\ Value(new.OSPEEDR, x[2], 2) = c.speed
        /\ c.mode = 2 => Value(new.AFR, x[2], 4) = c.alt
    <3>1. ASSUME NEW reg, NEW width, NEW v, Fits(v, width)
          PROVE  Value(Put(reg, y[2], width, v), x[2], width) = v
      <4>1. PICK a \in 0 .. 15 : a = y[2]
        BY <1>1
      <4>2. Value(Put(reg, a, width, v), a, width) = v
        BY <3>1, PutIsRead
      <4> QED BY <1>6, <4>1, <4>2
    <3> QED BY <1>4, <1>5, <3>1
  <2> QED BY <1>2, <1>6, <2>1 DEF PinAsAsked, HasConfig, mode
<1>7. CASE x # y /\ x[1] # y[1]
  BY <1>1, <1>2, <1>3, <1>7 DEF PinAsAsked, HasConfig
<1>8. CASE x # y /\ x[1] = y[1]
  <2>1. x[2] # y[2]
    BY <1>1, <1>8
  <2>2. /\ Value(new.MODER, x[2], 2) = Value(old.MODER, x[2], 2)
        /\ Value(new.PUPDR, x[2], 2) = Value(old.PUPDR, x[2], 2)
        /\ Value(new.OTYPER, x[2], 1) = Value(old.OTYPER, x[2], 1)
        /\ Value(new.OSPEEDR, x[2], 2) = Value(old.OSPEEDR, x[2], 2)
        /\ Value(new.AFR, x[2], 4) = Value(old.AFR, x[2], 4)
    <3>1. ASSUME NEW reg, NEW width, NEW v, Fits(v, width)
          PROVE  Value(Put(reg, y[2], width, v), x[2], width) = Value(reg, x[2], width)
      <4>1. PICK a \in 0 .. 15 : a = y[2]
        BY <1>1
      <4>2. PICK b \in 0 .. 15 : b = x[2]
        BY <1>1
      <4>3. Fits(v, width) /\ b # a
        BY <2>1, <3>1, <4>1, <4>2
      <4>4. Value(Put(reg, a, width, v), b, width) = Value(reg, b, width)
        BY <4>3, PutIsElsewhere
      <4> QED BY <4>1, <4>2, <4>4
    <3>2. /\ Value(new.MODER, x[2], 2) = Value(old.MODER, x[2], 2)
          /\ Value(new.PUPDR, x[2], 2) = Value(old.PUPDR, x[2], 2)
      BY <1>4, <1>5, <3>1
    <3>3. Value(new.OTYPER, x[2], 1) = Value(old.OTYPER, x[2], 1)
      BY <1>4, <1>5, <3>1
    <3>4. Value(new.OSPEEDR, x[2], 2) = Value(old.OSPEEDR, x[2], 2)
      BY <1>4, <1>5, <3>1
    <3>5. Value(new.AFR, x[2], 4) = Value(old.AFR, x[2], 4)
      BY <1>1, <1>4, <1>5, <3>1
    <3> QED BY <3>2, <3>3, <3>4, <3>5
  <2> QED BY <1>2, <1>3, <1>8, <2>2 DEF PinAsAsked, HasConfig, old
<1> QED BY <1>6, <1>7, <1>8

\* Sources reads the same from the sequences.
LEMMA SourcesAre ==
    ASSUME GpioInv, NEW p \in Ports, NEW pin
    PROVE  p \in Sources(pin) <=> IsSource(p, pin)
<1>1. CASE <<p, pin>> \notin GPins
  BY <1>1 DEF Sources, IsSource
<1>2. CASE <<p, pin>> \in GPins
  <2>1. gAsked[<<p, pin>>] \in {<<>>} \cup {<<c>> : c \in GConfigs}
    BY <1>2 DEF GpioInv, GpioTypeOK
  <2>2. CASE gAsked[<<p, pin>>] = <<>>
    <3>1. DOMAIN gAsked[<<p, pin>>] = {}
      BY <2>2
    <3>2. \A d \in GConfigs : ~HasConfig(<<p, pin>>, d)
      BY <2>2 DEF HasConfig
    <3> QED BY <3>1, <3>2 DEF Sources, IsSource
  <2>3. ASSUME NEW c \in GConfigs, gAsked[<<p, pin>>] = <<c>>
        PROVE  p \in Sources(pin) <=> IsSource(p, pin)
    <3>1. DOMAIN gAsked[<<p, pin>>] = {1} /\ gAsked[<<p, pin>>][1] = c
      BY <2>3
    <3>2. \A d \in GConfigs : HasConfig(<<p, pin>>, d) <=> d = c
      BY <2>3 DEF HasConfig
    <3> QED BY <1>2, <2>3, <3>1, <3>2 DEF Sources, IsSource
  <2> QED BY <2>1, <2>2, <2>3
<1> QED BY <1>1, <1>2

\* And gives its line to the pin, if it is for an interrupt and the line is free or its own.
LEMMA InitConfiguresLine ==
    ASSUME GKeep, GpioInv, NEW y \in GPins, NEW c \in GConfigs, GPIO_init(y[1], y[2], c)
    PROVE  LinesMatch'
<1>1. PICK port \in Ports, pin \in 0 .. 15 : y = <<port, pin>>
  BY PinAndConfig
<1>2. c.mode \in 0 .. 6 /\ (IsInterrupt(c) <=> c.mode \in {4, 5, 6})
  BY PinAndConfig DEF IsInterrupt
<1>3. ASSUME NEW p \in Ports, NEW q \in 0 .. 15
      PROVE  /\ IsSource(p, q)' <=> IF <<p, q>> = y THEN IsInterrupt(c) ELSE IsSource(p, q)
             /\ \A rising \in BOOLEAN :
                   Wants(p, q, rising)' <=> IF <<p, q>> = y THEN c.mode \in {IF rising THEN 5 ELSE 4, 6}
                                                            ELSE Wants(p, q, rising)
  <2>1. gAsked' = [gAsked EXCEPT ![y] = <<c>>] /\ gAsked \in [GPins -> {<<>>} \cup {<<d>> : d \in GConfigs}]
    BY <1>1 DEF GPIO_init, GpioInv, GpioTypeOK
  <2>2. CASE <<p, q>> = y
    <3>1. gAsked'[<<p, q>>] = <<c>>
      BY <2>1, <2>2
    <3>2. \A d \in GConfigs : HasConfig(<<p, q>>, d)' <=> d = c
      BY <3>1 DEF HasConfig
    <3> QED BY <2>2, <3>2 DEF IsSource, Wants
  <2>3. CASE <<p, q>> # y
    <3>1. <<p, q>> \in GPins => gAsked'[<<p, q>>] = gAsked[<<p, q>>]
      BY <2>1, <2>3
    <3> QED BY <2>3, <3>1 DEF IsSource, Wants, HasConfig
  <2> QED BY <2>2, <2>3
<1>4. IF IsSource(port, pin) THEN IsInterrupt(c)
                             ELSE IsInterrupt(c) => \A p \in Ports : ~IsSource(p, pin)
  BY <1>1, SourcesAre DEF GPIO_init
<1>5. \A p, q \in Ports : IsSource(p, pin)' /\ IsSource(q, pin)' => p = q
  BY <1>1, <1>3, <1>4 DEF GpioInv, LinesMatch
<1>6. ASSUME NEW q \in 0 .. 15, q # pin
      PROVE  /\ \A p \in Ports : IsSource(p, q)' <=> IsSource(p, q)
             /\ \A p \in Ports, rising \in BOOLEAN : Wants(p, q, rising)' <=> Wants(p, q, rising)
  <2>1. \A p \in Ports : <<p, q>> # y
    BY <1>1, <1>6
  <2> QED BY <1>3, <1>6, <2>1
<1>7. CASE ~IsInterrupt(c)
  <2>1. ~IsSource(port, pin) /\ UNCHANGED gExti
    BY <1>1, <1>4, <1>7 DEF GPIO_init
  <2>2. ~Wants(port, pin, TRUE) /\ ~Wants(port, pin, FALSE)
    BY <2>1 DEF IsSource, Wants, IsInterrupt
  <2>3. \A p \in Ports, q \in 0 .. 15 :
           /\ IsSource(p, q)' <=> IsSource(p, q)
           /\ Wants(p, q, TRUE)' <=> Wants(p, q, TRUE)
           /\ Wants(p, q, FALSE)' <=> Wants(p, q, FALSE)
    <3>1. c.mode \notin {5, 4, 6}
      BY <1>2, <1>7
    <3> QED BY <1>1, <1>3, <1>7, <2>1, <2>2, <3>1
  <2>4. UNCHANGED <<gEXTICR, gRTSR, gFTSR>> /\ "GPIOC" \in Ports /\ LinesMatch
    BY <2>1 DEF gExti, Ports, GpioInv
  <2>5. ASSUME NEW q \in 0 .. 15
        PROVE  /\ {4 * q, 4 * q + 2, 4 * q + 3} \cap gEXTICR' = {}
               /\ 4 * q + 1 \in gEXTICR' <=> IsSource("GPIOC", q)'
    BY <2>3, <2>4 DEF LinesMatch
  <2>6. ASSUME NEW q \in 0 .. 15
        PROVE  /\ q \in gRTSR' <=> \E p \in Ports : Wants(p, q, TRUE)'
               /\ q \in gFTSR' <=> \E p \in Ports : Wants(p, q, FALSE)'
    BY <2>3, <2>4 DEF LinesMatch
  <2>7. \A q \in 0 .. 15 : \A p1, p2 \in Ports : IsSource(p1, q)' /\ IsSource(p2, q)' => p1 = p2
    BY <2>3, <2>4 DEF LinesMatch
  <2> QED BY <2>5, <2>6, <2>7 DEF LinesMatch
<1>8. CASE IsInterrupt(c)
  <2>1. ConfigureLine(port, pin, c)
    BY <1>1, <1>8 DEF GPIO_init
  <2>2. \A p \in Ports : p # port => ~IsSource(p, pin)
    BY <1>4, <1>8 DEF GpioInv, LinesMatch
  <2>3. \A p \in Ports : p # port => ~Wants(p, pin, TRUE) /\ ~Wants(p, pin, FALSE)
    BY <2>2 DEF IsSource, Wants, IsInterrupt
  <2>4. \A p \in Ports :
           /\ IsSource(p, pin)' <=> p = port
           /\ Wants(p, pin, TRUE)' <=> (p = port /\ c.mode # 4)
           /\ Wants(p, pin, FALSE)' <=> (p = port /\ c.mode # 5)
    <3>1. /\ c.mode \in {5, 6} <=> c.mode # 4
          /\ c.mode \in {4, 6} <=> c.mode # 5
      BY <1>2, <1>8
    <3>2. \A p \in Ports : <<p, pin>> = y <=> p = port
      BY <1>1
    <3>3. ASSUME NEW p \in Ports
          PROVE  /\ IsSource(p, pin)' <=> IF p = port THEN IsInterrupt(c) ELSE IsSource(p, pin)
                 /\ Wants(p, pin, TRUE)' <=> IF p = port THEN c.mode \in {5, 6} ELSE Wants(p, pin, TRUE)
                 /\ Wants(p, pin, FALSE)' <=> IF p = port THEN c.mode \in {4, 6} ELSE Wants(p, pin, FALSE)
      BY <1>3, <3>2
    <3>4. ASSUME NEW p \in Ports
          PROVE  /\ IsSource(p, pin)' <=> p = port
                 /\ Wants(p, pin, TRUE)' <=> (p = port /\ c.mode # 4)
                 /\ Wants(p, pin, FALSE)' <=> (p = port /\ c.mode # 5)
      <4>1. CASE p = port
        BY <1>8, <3>1, <3>3, <4>1
      <4>2. CASE p # port
        BY <2>2, <2>3, <3>3, <4>2
      <4> QED BY <4>1, <4>2
    <3> QED BY <3>4
  <2>5. /\ gRTSR' = IF c.mode = 4 THEN gRTSR \ {pin} ELSE gRTSR \cup {pin}
        /\ gFTSR' = IF c.mode = 5 THEN gFTSR \ {pin} ELSE gFTSR \cup {pin}
    BY <2>1 DEF ConfigureLine
  <2>6. gEXTICR' = gEXTICR \cup (IF port = "GPIOC" THEN {4 * pin + 1} ELSE {})
    <3>1. GPIO_BASEADDR_TO_CODE[port] = IF port = "GPIOC" THEN 2 ELSE 0
      BY DEF GPIO_BASEADDR_TO_CODE, Ports
    <3>2. Bits(2, 4 * pin) = {4 * pin + 1}
      <4>1. 2 % 2 = 0 /\ (2 \div 2) % 2 = 1 /\ (2 \div 4) % 2 = 0 /\ (2 \div 8) % 2 = 0
        OBVIOUS
      <4> QED BY <4>1, BitsOf
    <3>3. Bits(0, 4 * pin) = {}
      <4>1. 0 % 2 = 0 /\ (0 \div 2) % 2 = 0 /\ (0 \div 4) % 2 = 0 /\ (0 \div 8) % 2 = 0
        OBVIOUS
      <4> QED BY <4>1, BitsOf
    <3>4. gEXTICR' = gEXTICR \cup Bits(GPIO_BASEADDR_TO_CODE[port], 4 * pin)
      BY <2>1 DEF ConfigureLine
    <3> QED BY <3>1, <3>2, <3>3, <3>4
  <2>7. ASSUME NEW q \in 0 .. 15
        PROVE  /\ {4 * q, 4 * q + 2, 4 * q + 3} \cap gEXTICR' = {}
               /\ 4 * q + 1 \in gEXTICR' <=> 4 * q + 1 \in gEXTICR \/ (q = pin /\ port = "GPIOC")
    BY <2>6 DEF GpioInv, LinesMatch
  <2>8. ASSUME NEW q \in 0 .. 15
        PROVE  /\ \A p1, p2 \in Ports : IsSource(p1, q)' /\ IsSource(p2, q)' => p1 = p2
               /\ 4 * q + 1 \in gEXTICR' <=> IsSource("GPIOC", q)'
               /\ q \in gRTSR' <=> \E p \in Ports : Wants(p, q, TRUE)'
               /\ q \in gFTSR' <=> \E p \in Ports : Wants(p, q, FALSE)'
    <3>1. "GPIOC" \in Ports
      BY DEF Ports
    <3>2. CASE q = pin
      <4>1. port # "GPIOC" => 4 * pin + 1 \notin gEXTICR
        BY <2>2, <3>1 DEF GpioInv, LinesMatch
      <4>2. 4 * q + 1 \in gEXTICR' <=> port = "GPIOC"
        BY <2>7, <3>2, <4>1
      <4>3. 4 * q + 1 \in gEXTICR' <=> IsSource("GPIOC", q)'
        <5>1. IsSource("GPIOC", pin)' <=> "GPIOC" = port
          BY <2>4, <3>1
        <5> QED BY <3>2, <4>2, <5>1
      <4>4. /\ q \in gRTSR' <=> \E p \in Ports : Wants(p, q, TRUE)'
            /\ q \in gFTSR' <=> \E p \in Ports : Wants(p, q, FALSE)'
        <5>1. /\ (\E p \in Ports : Wants(p, pin, TRUE)') <=> c.mode # 4
              /\ (\E p \in Ports : Wants(p, pin, FALSE)') <=> c.mode # 5
          BY <2>4
        <5>2. /\ pin \in gRTSR' <=> c.mode # 4
              /\ pin \in gFTSR' <=> c.mode # 5
          BY <2>5
        <5> QED BY <3>2, <5>1, <5>2
      <4> QED BY <1>5, <3>2, <4>3, <4>4
    <3>3. CASE q # pin
      <4>1. /\ \A p1, p2 \in Ports : IsSource(p1, q) /\ IsSource(p2, q) => p1 = p2
            /\ 4 * q + 1 \in gEXTICR <=> IsSource("GPIOC", q)
            /\ q \in gRTSR <=> \E p \in Ports : Wants(p, q, TRUE)
            /\ q \in gFTSR <=> \E p \in Ports : Wants(p, q, FALSE)
        BY DEF GpioInv, LinesMatch
      <4>2. /\ q \in gRTSR' <=> q \in gRTSR
            /\ q \in gFTSR' <=> q \in gFTSR
            /\ 4 * q + 1 \in gEXTICR' <=> 4 * q + 1 \in gEXTICR
        BY <2>5, <2>7, <3>3
      <4> QED BY <1>6, <3>1, <3>3, <4>1, <4>2
    <3> QED BY <3>2, <3>3
  <2> QED BY <2>7, <2>8 DEF LinesMatch
<1> QED BY <1>7, <1>8

\* What is wanted of a line reads the same from the sequences.
LEMMA WantedAre ==
    ASSUME GpioInv, NEW p \in Ports, NEW pin, <<p, pin>> \in GPins, NEW rising \in BOOLEAN
    PROVE  {i \in DOMAIN gAsked[<<p, pin>>] : gAsked[<<p, pin>>][i].mode \in {IF rising THEN 5 ELSE 4, 6}} # {}
              <=> Wants(p, pin, rising)
<1>1. gAsked[<<p, pin>>] \in {<<>>} \cup {<<c>> : c \in GConfigs}
  BY DEF GpioInv, GpioTypeOK
<1>2. CASE gAsked[<<p, pin>>] = <<>>
  <2>1. DOMAIN gAsked[<<p, pin>>] = {}
    BY <1>2
  <2>2. \A d \in GConfigs : ~HasConfig(<<p, pin>>, d)
    BY <1>2 DEF HasConfig
  <2> QED BY <2>1, <2>2 DEF Wants
<1>3. ASSUME NEW c \in GConfigs, gAsked[<<p, pin>>] = <<c>>
      PROVE  {i \in DOMAIN gAsked[<<p, pin>>] : gAsked[<<p, pin>>][i].mode \in {IF rising THEN 5 ELSE 4, 6}} # {}
                <=> Wants(p, pin, rising)
  <2>1. DOMAIN gAsked[<<p, pin>>] = {1} /\ gAsked[<<p, pin>>][1] = c
    BY <1>3
  <2>2. \A d \in GConfigs : HasConfig(<<p, pin>>, d) <=> d = c
    BY <1>3 DEF HasConfig
  <2> QED BY <1>3, <2>1, <2>2 DEF Wants
<1> QED BY <1>1, <1>2, <1>3

\* An edge sets a line's bit exactly when the pin it is on wants it.
LEMMA EdgeIsPending ==
    ASSUME GPrompt, GpioInv, NEW y \in GPins, NEW rising \in BOOLEAN, Edge(y[1], y[2], rising)
    PROVE  PendingMatches'
<1>1. PICK port \in Ports, pin \in 0 .. 15 : y = <<port, pin>>
  BY PinAndConfig
<1>2. gPR = {} /\ gSeen = {}
  BY DEF Edge, GpioInv, PendingMatches
<1> DEFINE wanted == {i \in DOMAIN gAsked[<<port, pin>>] : gAsked[<<port, pin>>][i].mode \in {IF rising THEN 5 ELSE 4, 6}}
           enabled == pin \in IF rising THEN gRTSR ELSE gFTSR
<1>3. /\ gPR' = IF Selected(port, pin) /\ enabled THEN {pin} ELSE {}
      /\ gSeen' = IF wanted # {} THEN {pin} ELSE {}
  BY <1>1, <1>2 DEF Edge
<1>4. wanted # {} <=> Wants(port, pin, rising)
  BY <1>1, WantedAre
<1>5. "GPIOC" \in Ports /\ "GPIOA" \in Ports /\ \A p \in Ports : p = "GPIOA" \/ p = "GPIOC"
  BY DEF Ports
<1>6. /\ \A p, q \in Ports : IsSource(p, pin) /\ IsSource(q, pin) => p = q
      /\ {4 * pin, 4 * pin + 2, 4 * pin + 3} \cap gEXTICR = {}
      /\ 4 * pin + 1 \in gEXTICR <=> IsSource("GPIOC", pin)
      /\ pin \in gRTSR <=> \E p \in Ports : Wants(p, pin, TRUE)
      /\ pin \in gFTSR <=> \E p \in Ports : Wants(p, pin, FALSE)
  BY DEF GpioInv, LinesMatch
<1>7. enabled <=> \E p \in Ports : Wants(p, pin, rising)
  <2>1. CASE rising = TRUE
    BY <1>6, <2>1
  <2>2. CASE rising = FALSE
    BY <1>6, <2>2
  <2> QED BY <2>1, <2>2
<1>8. \A p \in Ports : Wants(p, pin, rising) => IsSource(p, pin)
  BY DEF Wants, IsSource, IsInterrupt
<1>9. Selected(port, pin) <=> (port = "GPIOC" <=> IsSource("GPIOC", pin))
  <2>1. 2 ^ 0 = 1 /\ 2 ^ 1 = 2 /\ 2 ^ 2 = 4 /\ 2 ^ 3 = 8 /\ 4 * pin + 0 = 4 * pin
    OBVIOUS
  <2>2. Value(gEXTICR, pin, 4) =
           (IF 4 * pin + 0 \in gEXTICR THEN 1 ELSE 0) + (IF 4 * pin + 1 \in gEXTICR THEN 2 ELSE 0)
           + ((IF 4 * pin + 2 \in gEXTICR THEN 4 ELSE 0) + (IF 4 * pin + 3 \in gEXTICR THEN 8 ELSE 0))
    BY <2>1 DEF Value
  <2>3. Value(gEXTICR, pin, 4) = IF 4 * pin + 1 \in gEXTICR THEN 2 ELSE 0
    BY <1>6, <2>1, <2>2
  <2>4. GPIO_BASEADDR_TO_CODE[port] = IF port = "GPIOC" THEN 2 ELSE 0
    BY <1>5 DEF GPIO_BASEADDR_TO_CODE
  <2> QED BY <1>6, <2>3, <2>4 DEF Selected
<1> HIDE DEF wanted, enabled
<1>10. Selected(port, pin) /\ enabled <=> Wants(port, pin, rising)
  BY <1>5, <1>6, <1>7, <1>8, <1>9
<1>11. gPR' = gSeen' /\ gPR' \subseteq {pin}
  BY <1>3, <1>4, <1>10
<1> QED BY <1>11 DEF PendingMatches

\* The invariant speaks of the pins, of the outputs and of the lines that are pending.
PinsInv == gRegs = [p \in Ports |-> gRegs[p]] /\ gAsked \in [GPins -> {<<>>} \cup {<<c>> : c \in GConfigs}]
              /\ (\A x \in GPins : PinAsAsked(x)) /\ LinesMatch
OutputsInv == gODR = [p \in Ports |-> gODR[p]] /\ gLoaded = [w \in Writers |-> gLoaded[w]]
                 /\ gODR = gWritten /\ LoadsAreFresh

\* Together they are the invariant, before a step and after it.
LEMMA GpioInvParts ==
    /\ GpioInv <=> PinsInv /\ OutputsInv /\ PendingMatches
    /\ GpioInv' <=> PinsInv' /\ OutputsInv' /\ PendingMatches'
BY DEF GpioInv, GpioTypeOK, PinsInv, OutputsInv

\* A step that leaves a part's variables alone keeps the part.
LEMMA GpioFrames ==
    /\ PinsInv /\ UNCHANGED <<gRegs, gAsked, gExti>> => PinsInv'
    /\ OutputsInv /\ UNCHANGED gOut => OutputsInv'
    /\ PendingMatches /\ UNCHANGED <<gPR, gSeen>> => PendingMatches'
<1>1. ASSUME PinsInv, UNCHANGED <<gRegs, gAsked, gExti>> PROVE PinsInv'
  <2>1. /\ gRegs' = gRegs /\ gAsked' = gAsked
        /\ gEXTICR' = gEXTICR /\ gRTSR' = gRTSR /\ gFTSR' = gFTSR
    BY <1>1 DEF gExti
  <2>2. \A x \in GPins : PinAsAsked(x)'
    BY <1>1, <2>1 DEF PinsInv, PinAsAsked, HasConfig
  <2>3. LinesMatch'
    <3>1. ASSUME NEW p \in Ports, NEW q \in 0 .. 15
          PROVE  /\ IsSource(p, q)' <=> IsSource(p, q)
                 /\ Wants(p, q, TRUE)' <=> Wants(p, q, TRUE)
                 /\ Wants(p, q, FALSE)' <=> Wants(p, q, FALSE)
      BY <2>1 DEF IsSource, Wants, HasConfig
    <3>2. LinesMatch /\ "GPIOC" \in Ports
      BY <1>1 DEF PinsInv, Ports
    <3>3. ASSUME NEW q \in 0 .. 15
          PROVE  /\ \A p1, p2 \in Ports : IsSource(p1, q)' /\ IsSource(p2, q)' => p1 = p2
                 /\ {4 * q, 4 * q + 2, 4 * q + 3} \cap gEXTICR' = {}
                 /\ 4 * q + 1 \in gEXTICR' <=> IsSource("GPIOC", q)'
                 /\ q \in gRTSR' <=> \E p \in Ports : Wants(p, q, TRUE)'
                 /\ q \in gFTSR' <=> \E p \in Ports : Wants(p, q, FALSE)'
      BY <2>1, <3>1, <3>2 DEF LinesMatch
    <3> QED BY <3>3 DEF LinesMatch
  <2> QED BY <1>1, <2>1, <2>2, <2>3 DEF PinsInv
<1>2. ASSUME OutputsInv, UNCHANGED gOut PROVE OutputsInv'
  BY <1>2 DEF OutputsInv, LoadsAreFresh, gOut
<1>3. ASSUME PendingMatches, UNCHANGED <<gPR, gSeen>> PROVE PendingMatches'
  BY <1>3 DEF PendingMatches
<1> QED BY <1>1, <1>2, <1>3

\* A writer reads its own port, and what it stores is the outputs that should be.
LEMMA WritersKeep ==
    ASSUME ~GShared, OutputsInv, NEW w \in Writers, NEW port \in Ports, NEW pin, Output(w, port, pin)
    PROVE  OutputsInv' /\ UNCHANGED <<gRegs, gAsked, gExti, gPR, gSeen>>
<1>1. PortOf(w) \in Ports /\ \A u \in Writers : u # w => PortOf(u) # PortOf(w)
  BY DEF Writers, Ports, PortOf
<1>2. CASE LoadODR(w, port)
  <2>1. port = PortOf(w)
    BY <1>2 DEF LoadODR, PortOf
  <2>2. gLoaded' = [gLoaded EXCEPT ![w] = <<port, gODR[port]>>] /\ gODR' = gODR /\ gWritten' = gWritten
    BY <1>2 DEF LoadODR
  <2>3. LoadsAreFresh'
    BY <2>1, <2>2 DEF OutputsInv, LoadsAreFresh
  <2>4. gLoaded' = [u \in Writers |-> gLoaded'[u]]
    BY <2>2 DEF OutputsInv
  <2> QED BY <1>2, <2>2, <2>3, <2>4 DEF LoadODR, OutputsInv
<1>3. ASSUME NEW val \in BOOLEAN, NEW toggle \in BOOLEAN, StoreODR(w, pin, val, toggle)
      PROVE  OutputsInv' /\ UNCHANGED <<gRegs, gAsked, gExti, gPR, gSeen>>
  <2> DEFINE old == gODR[PortOf(w)]
  <2>1. gLoaded[w] = <<PortOf(w), old>>
    BY <1>3 DEF StoreODR, OutputsInv, LoadsAreFresh
  <2>2. gLoaded[w][1] = PortOf(w) /\ gLoaded[w][2] = old
    BY <2>1
  <2>3. /\ toggle => val = (pin \notin old)
        /\ gODR' = [gODR EXCEPT ![PortOf(w)] = With(old, pin, val)]
        /\ gWritten' = [gWritten EXCEPT ![PortOf(w)] = With(@, pin, IF toggle THEN pin \notin @ ELSE val)]
        /\ gLoaded' = [gLoaded EXCEPT ![w] = <<>>]
    BY <1>3, <2>2 DEF StoreODR
  <2>4. gWritten' = [gWritten EXCEPT ![PortOf(w)] = With(old, pin, val)]
    <3>1. gWritten[PortOf(w)] = old
      BY DEF OutputsInv
    <3>2. (IF toggle THEN pin \notin old ELSE val) = val
      BY <2>3
    <3> QED BY <2>3, <3>1, <3>2
  <2>5. gODR' = gWritten' /\ gODR' = [p \in Ports |-> gODR'[p]] /\ gLoaded' = [u \in Writers |-> gLoaded'[u]]
    BY <1>1, <2>3, <2>4 DEF OutputsInv
  <2>6. LoadsAreFresh'
    <3>1. ASSUME NEW u \in Writers
          PROVE  gLoaded'[u] \in {<<>>, <<PortOf(u), gODR'[PortOf(u)]>>}
      <4>1. CASE u = w
        BY <2>3, <4>1 DEF OutputsInv
      <4>2. CASE u # w
        <5>1. gODR'[PortOf(u)] = gODR[PortOf(u)] /\ gLoaded'[u] = gLoaded[u]
          BY <1>1, <2>3, <4>2 DEF OutputsInv, PortOf, Ports
        <5> QED BY <5>1 DEF OutputsInv, LoadsAreFresh
      <4> QED BY <4>1, <4>2
    <3> QED BY <3>1 DEF LoadsAreFresh
  <2> QED BY <1>3, <2>5, <2>6 DEF StoreODR, OutputsInv
<1> QED BY <1>2, <1>3 DEF Output, GPIO_write_output_pin, GPIO_toggle_output_pin

\* Every step of GPIO.c, and every edge, keeps the invariant.
LEMMA GpioInvStep ==
    GKeep /\ GPrompt /\ ~GShared => (GpioInv /\ [GpioNext]_gVars => GpioInv')
<1> SUFFICES ASSUME GKeep, GPrompt, ~GShared, GpioInv, [GpioNext]_gVars PROVE GpioInv'
  OBVIOUS
<1>0. PinsInv /\ OutputsInv /\ PendingMatches
  BY GpioInvParts
<1>1. ASSUME NEW y \in GPins, NEW c \in GConfigs, GPIO_init(y[1], y[2], c) PROVE GpioInv'
  <2>1. y[1] \in Ports /\ y = <<y[1], y[2]>>
    BY PinAndConfig
  <2>2. /\ gRegs' = [gRegs EXCEPT ![y[1]] = ConfiguredRegs(@, y[2], c)]
        /\ gAsked' = [gAsked EXCEPT ![y] = <<c>>]
        /\ UNCHANGED <<gPR, gSeen, gOut>>
    BY <1>1, <2>1 DEF GPIO_init
  <2>3. /\ gRegs' = [p \in Ports |-> gRegs'[p]]
        /\ gAsked' \in [GPins -> {<<>>} \cup {<<d>> : d \in GConfigs}]
    BY <1>0, <2>1, <2>2 DEF PinsInv
  <2>4. \A x \in GPins : PinAsAsked(x)'
    BY <1>1, InitConfiguresPin
  <2>5. LinesMatch'
    BY <1>1, InitConfiguresLine
  <2>6. PinsInv'
    BY <2>3, <2>4, <2>5 DEF PinsInv
  <2> QED BY <1>0, <2>2, <2>6, GpioFrames, GpioInvParts
<1>2. ASSUME NEW y \in GPins, NEW rising \in BOOLEAN, Edge(y[1], y[2], rising) PROVE GpioInv'
  <2>1. PendingMatches'
    BY <1>2, EdgeIsPending
  <2> QED BY <1>0, <1>2, <2>1, GpioFrames, GpioInvParts DEF Edge
<1>3. ASSUME NEW pin, GPIO_IRQ_handler(pin) PROVE GpioInv'
  <2>1. pin \in gPR /\ gPR' = {} /\ gSeen' = gSeen \ {pin}
    BY <1>3 DEF GPIO_IRQ_handler, ClearPending
  <2>2. PendingMatches'
    BY <1>0, <2>1 DEF PendingMatches
  <2> QED BY <1>0, <1>3, <2>2, GpioFrames, GpioInvParts DEF GPIO_IRQ_handler
<1>4. ASSUME NEW y \in GPins, NEW w \in Writers, Output(w, y[1], y[2]) PROVE GpioInv'
  <2>1. OutputsInv' /\ UNCHANGED <<gRegs, gAsked, gExti, gPR, gSeen>>
    BY <1>0, <1>4, PinAndConfig, WritersKeep
  <2> QED BY <1>0, <2>1, GpioFrames, GpioInvParts
<1>5. CASE UNCHANGED gVars
  BY <1>0, <1>5, GpioFrames, GpioInvParts DEF gVars
<1> QED BY <1>1, <1>2, <1>3, <1>4, <1>5 DEF GpioNext, PinEvent

\* Each pin is configured and driven as it was last asked to, and the lines pending are those
\* with an edge the program asked for and has not served, if a line keeps its source, an edge
\* comes when the ones before are served and a port's outputs are one task's (GPIO.c).
THEOREM GpioPinsAsAsked == GKeep /\ GPrompt /\ ~GShared => (GpioSpec => []GpioAsAsked)
<1> SUFFICES ASSUME GKeep, GPrompt, ~GShared PROVE GpioSpec => []GpioAsAsked
  OBVIOUS
<1>1. GpioInv /\ [GpioNext]_gVars => GpioInv'
  BY GpioInvStep
<1>2. GpioInv => GpioAsAsked
  <2> SUFFICES ASSUME GpioInv PROVE GpioAsAsked
    OBVIOUS
  <2>1. ASSUME NEW x \in GPins, NEW i \in DOMAIN gAsked[x]
        PROVE  /\ Value(gRegs[x[1]].MODER, x[2], 2) = IF IsInterrupt(gAsked[x][i]) THEN 0 ELSE gAsked[x][i].mode
               /\ Value(gRegs[x[1]].PUPDR, x[2], 2) = gAsked[x][i].pupd
               /\ IsOutput(gAsked[x][i]) => /\ Value(gRegs[x[1]].OTYPER, x[2], 1) = gAsked[x][i].out
                                            /\ Value(gRegs[x[1]].OSPEEDR, x[2], 2) = gAsked[x][i].speed
               /\ gAsked[x][i].mode = 2 => Value(gRegs[x[1]].AFR, x[2], 4) = gAsked[x][i].alt
    <3>1. gAsked[x] \in {<<>>} \cup {<<c>> : c \in GConfigs} /\ PinAsAsked(x)
      BY DEF GpioInv, GpioTypeOK
    <3>2. gAsked[x] # <<>>
      BY <2>1
    <3>3. PICK c \in GConfigs : gAsked[x] = <<c>>
      BY <3>1, <3>2
    <3>4. gAsked[x][i] = c
      BY <2>1, <3>3
    <3> QED BY <3>1, <3>3, <3>4 DEF PinAsAsked, HasConfig
  <2>2. gODR = gWritten /\ gPR = gSeen
    BY DEF GpioInv, PendingMatches
  <2> QED BY <2>1, <2>2 DEF GpioAsAsked
<1> QED BY GpioInitInv, <1>1, <1>2, PTL DEF GpioSpec

-----------------------------------------------------------------------------
(* I2C.c.  A transfer that the slave refuses need not implement Transfer, and a *)
(* store of CR2 that loses the handler's ends the run.                          *)

\* Where the handle, the bus and the task are.
I2cTypeOK ==
    /\ iState \in {"READY", "BUSY_TX", "BUSY_RX"}
    /\ iBus \in {"idle", "sb", "address write", "address read", "addressed write", "addressed read",
                 "write", "read", "refused"}
    /\ iCall \in {"none", "ITBUFEN", "ITBUFEN loaded", "ITEVTEN", "ITEVTEN loaded", "ITERREN", "ITERREN loaded",
                  "send SB", "send ADDR", "send", "receive SB", "receive ADDR", "receive"}
    /\ iTotal \in Nat

I2cSends    == iState = "BUSY_TX" \/ iCall \in {"send SB", "send ADDR", "send"}
I2cReceives == iState = "BUSY_RX" \/ iCall \in {"receive SB", "receive ADDR", "receive"}
I2cActive   == iState # "READY" \/ BlockingCall
I2cLeft     == IF iState = "READY" THEN iLeft ELSE iLen

\* A call is a blocking one or has its enables set by the time the handler serves it, which
\* a task never interrupts.
I2cCallOK ==
    /\ BlockingCall => iState = "READY" /\ iIsr = "out"
    /\ iState = "READY" => "ITEVTEN" \notin iCR2
                           /\ iCall \notin {"ITBUFEN", "ITBUFEN loaded", "ITEVTEN", "ITEVTEN loaded"}
    /\ iState # "READY" =>
          /\ "ITEVTEN" \in iCR2 <=> iCall \in {"none", "ITERREN", "ITERREN loaded"}
          /\ iCall \notin {"ITBUFEN", "ITBUFEN loaded"} => "ITBUFEN" \in iCR2
          /\ iCall = "none" => "ITERREN" \in iCR2
    /\ iCall \in {"ITBUFEN loaded", "ITEVTEN loaded"} => iCopy = iCR2
    /\ iIsr # "out" => iCall \in {"none", "ITERREN", "ITERREN loaded"}
    /\ iIsr = "ACK" => iState = "BUSY_RX" /\ iBus = "read" /\ iRDR = 0 /\ iRxSize = 1

\* The phases of the bus.
I2cQuiet == iDR = 0 /\ iShift = 0 /\ iRDR = 0 /\ iAck
I2cAtFirstByte ==
    /\ iMoved = <<>> /\ iBytesIn = 0 /\ I2cLeft = iTotal /\ I2cLeft > 0
    /\ iState = "BUSY_TX" => iNext = 1
    /\ iState = "BUSY_RX" => iRxSize = iTotal

I2cAtRest == ~I2cActive /\ ~iStart /\ ~iAF /\ iBus \in {"idle", "write", "refused"} /\ I2cQuiet

I2cAsked ==
    /\ I2cActive /\ iStart /\ ~iAF /\ iBus \in {"idle", "write", "refused"} /\ I2cQuiet /\ I2cAtFirstByte
    /\ I2cSends => iBus # "write"
    /\ BlockingCall => iCall \in {"send SB", "receive SB"}

I2cAddressing ==
    /\ I2cActive /\ ~iStart /\ ~iStop /\ ~iAF /\ I2cQuiet /\ I2cAtFirstByte
    /\ \/ iBus = "sb" /\ (BlockingCall => iCall \in {"send SB", "receive SB"})
       \/ iBus \in {"address write", "addressed write"} /\ I2cSends /\ (BlockingCall => iCall = "send ADDR")
       \/ iBus \in {"address read", "addressed read"} /\ I2cReceives /\ (BlockingCall => iCall = "receive ADDR")
    /\ iBus # "sb" /\ iState # "READY" => "ITEVTEN" \in iCR2

\* The bytes in DR and in the shift register.
I2cInFlight == IF iShift = 0 THEN 0 ELSE IF iDR = 0 THEN 1 ELSE 2

I2cSending ==
    /\ I2cSends /\ ~iStart /\ ~iStop /\ ~iAF /\ iBus = "write" /\ iRDR = 0 /\ iAck
    /\ BlockingCall => iCall = "send"
    /\ iState # "READY" => "ITEVTEN" \in iCR2
    /\ I2cLeft \in Nat /\ iMoved \in Seq(Nat)
    /\ iShift \in {0, Len(iMoved) + 1} /\ iDR \in {0, Len(iMoved) + 2}
    /\ iShift = 0 => iDR = 0
    /\ I2cLeft + Len(iMoved) + I2cInFlight = iTotal
    /\ iBTF => I2cLeft = 0 /\ iShift = 0
    /\ iState = "BUSY_TX" => iNext = Len(iMoved) + 1 + I2cInFlight
    /\ iBytesIn = 0

I2cReceiving ==
    /\ I2cReceives /\ ~iStart /\ ~iAF /\ iBus \in {"read", "refused"} /\ iDR = 0 /\ iShift = 0
    /\ BlockingCall => iCall = "receive"
    /\ iState # "READY" => "ITEVTEN" \in iCR2 /\ ~iStop /\ iRxSize = iTotal
    /\ I2cLeft \in Nat /\ iMoved \in Seq(Nat)
    /\ I2cLeft > 0 /\ I2cLeft + Len(iMoved) = iTotal
    /\ iRDR \in {0, Len(iMoved) + 1}
    /\ iBytesIn = Len(iMoved) + (IF iRDR = 0 THEN 0 ELSE 1)
    /\ iBus = "read" /\ iRDR = 0 => (iAck <=> (I2cLeft > 1 \/ iIsr = "ACK"))
    /\ iBus = "read" /\ iRDR # 0 => iAck /\ I2cLeft > 1
    /\ iBus = "refused" => iRDR # 0 /\ I2cLeft = 1

I2cRefused ==
    /\ I2cActive /\ ~iStart /\ ~iStop /\ iAF /\ iBus = "refused" /\ I2cQuiet
    /\ iState # "READY" => "ITEVTEN" \in iCR2
    /\ BlockingCall => iCall \in {"send ADDR", "send", "receive ADDR"}

I2cStuck ==
    /\ iCall \in {"send ADDR", "send", "receive ADDR"} /\ iState = "READY"
    /\ ~iStart /\ ~iAF /\ iBus \in {"refused", "idle"} /\ I2cQuiet

I2cPhaseOK ==
    I2cAtRest \/ I2cAsked \/ I2cAddressing \/ I2cSending \/ I2cReceiving \/ I2cRefused \/ I2cStuck

I2cFlagsOK == (iBTF => iBus = "write") /\ iRShift = 0 /\ iBytesIn <= iTotal

I2cOrderly == I2cCallOK /\ I2cPhaseOK /\ I2cFlagsOK

\* The inductive invariant.
I2cInv == I2cTypeOK /\ iBytesIn <= iTotal /\ (iClobbered \/ I2cOrderly)

-----------------------------------------------------------------------------
\* What a step may do to the transfer.
I2cTransferStep == iAF \/ I2cTransfer!Next \/ UNCHANGED <<I2cTransfer!vars>>
I2cMapped == <<I2cActive, iTotal, iMoved, iEvents>>

\* The steps that Transfer allows.
LEMMA I2cTransferSteps ==
    /\ UNCHANGED I2cMapped => I2cTransferStep
    /\ ~I2cActive /\ I2cActive' /\ iTotal' \in I2cSizes /\ iMoved' = <<>> /\ iEvents' = 0 => I2cTransferStep
    /\ /\ I2cActive /\ Len(iMoved) < iTotal /\ iMoved' = Append(iMoved, Len(iMoved) + 1)
       /\ UNCHANGED <<I2cActive, iTotal, iEvents>>
       => I2cTransferStep
    /\ /\ I2cActive /\ ~I2cActive' /\ iEvents' = iEvents + 1 /\ UNCHANGED iTotal
       /\ \/ iMoved' = iMoved
          \/ Len(iMoved) < iTotal /\ iMoved' = Append(iMoved, Len(iMoved) + 1)
       /\ Len(iMoved') = iTotal
       => I2cTransferStep
BY DEF I2cTransferStep, I2cTransfer!Next, I2cTransfer!Start, I2cTransfer!Move, I2cTransfer!MoveOne,
       I2cTransfer!Complete, I2cTransfer!vars, I2cActive, I2cMapped

\* The names of the task's places between the load and the store of CR2.
LEMMA I2cLoadedNames ==
    /\ I2cLoaded["ITBUFEN"] = "ITBUFEN loaded"
    /\ I2cLoaded["ITEVTEN"] = "ITEVTEN loaded"
    /\ I2cLoaded["ITERREN"] = "ITERREN loaded"
BY DEF I2cLoaded

\* A driver just initialised is at rest.
LEMMA I2cInitInv == I2cInit => I2cInv /\ I2cTransfer!Init
<1> SUFFICES ASSUME I2cInit PROVE I2cInv /\ I2cTransfer!Init
  OBVIOUS
<1>1. I2cTypeOK
  BY DEF I2cInit, I2cTypeOK
<1>2. I2cCallOK
  BY DEF I2cInit, I2cCallOK, BlockingCall
<1>3. I2cAtRest /\ I2cFlagsOK
  BY DEF I2cInit, I2cAtRest, I2cActive, BlockingCall, I2cQuiet, I2cFlagsOK
<1>4. I2cTransfer!Init
  BY DEF I2cInit, I2cTransfer!Init, BlockingCall
<1> QED BY <1>1, <1>2, <1>3, <1>4 DEF I2cInv, I2cOrderly, I2cPhaseOK, I2cFlagsOK

-----------------------------------------------------------------------------
\* No step leaves the places of the handle, the bus and the task.
LEMMA I2cTypeStep == I2cTypeOK /\ [I2cNext]_iVars => I2cTypeOK'
<1> SUFFICES ASSUME I2cTypeOK, [I2cNext]_iVars PROVE I2cTypeOK'
  OBVIOUS
<1> USE DEF I2cTypeOK
<1>1. CASE UNCHANGED iVars
  BY <1>1 DEF iVars, iHandle, iCR1, iLine, iTask, iIrq, iHistory
<1>2. CASE I2cCall
  <2> SUFFICES ASSUME NEW n \in I2cSizes, NEW rs \in I2cRepeated,
                      \/ I2C_master_send_IT(n, rs) \/ I2C_master_receive_IT(n, rs)
                      \/ I2C_master_send(n, rs) \/ I2C_master_receive(n, rs)
               PROVE  I2cTypeOK'
    BY <1>2 DEF I2cCall
  <2>0. n \in Nat
    BY I2cSizesAssumption
  <2>1. CASE I2C_master_send_IT(n, rs)
    BY <2>0, <2>1 DEF I2C_master_send_IT, Begin, BeginTransfer, iLine, iIrq
  <2>2. CASE I2C_master_receive_IT(n, rs)
    BY <2>0, <2>2 DEF I2C_master_receive_IT, Begin, BeginTransfer, iLine, iIrq
  <2>3. CASE I2C_master_send(n, rs)
    BY <2>0, <2>3 DEF I2C_master_send, Begin, BeginTransfer, iLine, iIrq
  <2>4. CASE I2C_master_receive(n, rs)
    BY <2>0, <2>4 DEF I2C_master_receive, Begin, BeginTransfer, iLine, iIrq
  <2> QED BY <2>1, <2>2, <2>3, <2>4
<1>3. CASE I2cLoadCR2
  <2>1. iCall' \in {"ITBUFEN loaded", "ITEVTEN loaded", "ITERREN loaded"}
    BY <1>3, I2cLoadedNames DEF I2cLoadCR2
  <2> QED BY <1>3, <2>1 DEF I2cLoadCR2, iHandle, iCR1, iLine, iIrq, iHistory
<1>4. ASSUME NEW bit, NEW next \in {"ITEVTEN", "ITERREN", "none"}, I2cStoreCR2(bit, next) PROVE I2cTypeOK'
  BY <1>4 DEF I2cStoreCR2, iHandle, iCR1, iLine, iIrq, iHistory
<1>5. CASE SendAddress
  BY <1>5 DEF SendAddress, Blocking, I2C_execute_addr_phase, iHandle, iIrq, iHistory
<1>6. CASE ClearAddress
  BY <1>6 DEF ClearAddress, Blocking, I2C_clear_ADDR_flag, iHandle, iIrq, iHistory
<1>7. CASE SendNext
  BY <1>7 DEF SendNext, Blocking, SendByte, iHandle, iIrq, iHistory
<1>8. CASE SendEnd
  BY <1>8 DEF SendEnd, Blocking, iHandle, iLine, iIrq
<1>9. CASE ReceiveNext
  BY <1>9 DEF ReceiveNext, Blocking, ReadByte, iHandle, iIrq
<1>10. CASE I2cEnterHandler
  BY <1>10 DEF I2cEnterHandler, iHandle, iCR1, iLine, iTask, iHistory
<1>11. CASE CheckSB
  BY <1>11 DEF CheckSB, Branch, I2C_execute_addr_phase, iHandle, iTask, iHistory
<1>12. CASE CheckADDR
  BY <1>12 DEF CheckADDR, Branch, I2C_clear_ADDR_flag, iHandle, iTask, iHistory
<1>13. CASE DisableAck
  BY <1>13 DEF DisableAck, OnlyByte, Branch, iHandle, iLine, iTask, iHistory
<1>14. CASE CheckBTF
  BY <1>14 DEF CheckBTF, Branch, I2C_close_send, iHandle, iLine, iTask
<1>15. CASE CheckI2cTXE
  BY <1>15 DEF CheckI2cTXE, Branch, I2C_master_TXE_handler, SendByte, MoreToSend, iLine, iTask, iHistory
<1>16. CASE CheckI2cRXNE
  BY <1>16 DEF CheckI2cRXNE, Branch, I2C_master_RXNE_handler, ReadByte, I2C_close_receive, iHandle, iTask
<1>17. CASE I2C_ER_IRQ_handling
  BY <1>17 DEF I2C_ER_IRQ_handling, ClearAF, I2C_close_send, iLine, iTask, iIrq, iHistory
<1>18. CASE I2cBus
  <2>1. CASE StartCondition
    BY <2>1 DEF StartCondition, BusStep, iHandle, iTask, iIrq
  <2>2. CASE StopCondition
    BY <2>2 DEF StopCondition, BusStep, iHandle, iTask, iIrq
  <2>3. CASE SlaveAnswersAddress
    BY <2>3 DEF SlaveAnswersAddress, BusStep, iHandle, iTask, iIrq
  <2>4. CASE ByteOut
    BY <2>4 DEF ByteOut, BusStep, iHandle, iTask, iIrq
  <2>5. CASE ByteIn
    BY <2>5 DEF ByteIn, BusStep, iHandle, iTask, iIrq
  <2> QED BY <1>18, <2>1, <2>2, <2>3, <2>4, <2>5 DEF I2cBus
<1> QED BY <1>1, <1>2, <1>3, <1>4, <1>5, <1>6, <1>7, <1>8, <1>9, <1>10, <1>11, <1>12, <1>13, <1>14,
           <1>15, <1>16, <1>17, <1>18 DEF I2cNext, I2cTaskStep, I2cHandlerStep

\* The calls: a step of the task leaves the handler alone, and the other way round.
LEMMA I2cCallStep == I2cPrompt /\ I2cInv /\ ~iClobbered /\ [I2cNext]_iVars => iClobbered' \/ I2cCallOK'
<1> SUFFICES ASSUME I2cPrompt, I2cTypeOK, I2cOrderly, ~iClobbered, [I2cNext]_iVars PROVE iClobbered' \/ I2cCallOK'
  BY DEF I2cInv
<1> USE DEF I2cCallOK, BlockingCall
<1>0. I2cTypeOK /\ I2cCallOK
  BY DEF I2cOrderly
<1>1. CASE UNCHANGED iVars
  BY <1>0, <1>1 DEF iVars, iHandle, iCR1, iLine, iTask, iIrq, iHistory
<1>2. CASE I2cCall
  <2> SUFFICES ASSUME NEW n \in I2cSizes, NEW rs \in I2cRepeated,
                      \/ I2C_master_send_IT(n, rs) \/ I2C_master_receive_IT(n, rs)
                      \/ I2C_master_send(n, rs) \/ I2C_master_receive(n, rs)
               PROVE  I2cCallOK'
    BY <1>2 DEF I2cCall
  <2>0. PICK state : Begin(state, n, rs)
    BY DEF I2C_master_send_IT, I2C_master_receive_IT, I2C_master_send, I2C_master_receive
  <2>1. iIsr = "out" /\ iIsr' = "out" /\ iCall = "none" /\ iState = "READY" /\ iCR2' = iCR2
    BY <2>0 DEF Begin, I2cTaskRuns, iIrq
  <2>2. \/ iState' \in {"BUSY_TX", "BUSY_RX"} /\ iCall' = "ITBUFEN"
        \/ iState' = iState /\ iCall' \in {"send SB", "receive SB"}
    BY DEF I2C_master_send_IT, I2C_master_receive_IT, I2C_master_send, I2C_master_receive
  <2> QED BY <1>0, <2>1, <2>2
<1>3. CASE I2cLoadCR2
  <2>1. iCall \in {"ITBUFEN", "ITEVTEN", "ITERREN"} /\ iCall' = I2cLoaded[iCall] /\ iCopy' = iCR2
        /\ UNCHANGED <<iState, iIsr, iCR2, iBus, iRDR, iRxSize>>
    BY <1>3 DEF I2cLoadCR2, iHandle, iLine, iIrq
  <2>2. \/ iCall = "ITBUFEN" /\ iCall' = "ITBUFEN loaded"
        \/ iCall = "ITEVTEN" /\ iCall' = "ITEVTEN loaded"
        \/ iCall = "ITERREN" /\ iCall' = "ITERREN loaded"
    BY <2>1, I2cLoadedNames
  <2>3. iIsr = "out"
    BY <1>3 DEF I2cLoadCR2, I2cTaskRuns
  <2> QED BY <1>0, <2>1, <2>2, <2>3
<1>4. ASSUME NEW bit, NEW next, I2cStoreCR2(bit, next), 
             \/ bit = "ITBUFEN" /\ next = "ITEVTEN"
             \/ bit = "ITEVTEN" /\ next = "ITERREN"
             \/ bit = "ITERREN" /\ next = "none"
      PROVE  iClobbered' \/ I2cCallOK'
  <2>1. iCall' = next /\ iCopy' = {} /\ UNCHANGED <<iState, iIsr, iBus, iRDR, iRxSize>> /\ iIsr = "out"
    BY <1>4 DEF I2cStoreCR2, I2cTaskRuns, iHandle, iLine, iIrq
  <2>2. CASE iCopy # iCR2
    BY <1>4, <2>2 DEF I2cStoreCR2
  <2>3. CASE iCopy = iCR2
    <3>1. iCR2' = iCR2 \cup {bit} /\ iCall = I2cLoaded[bit]
      BY <1>4, <2>3 DEF I2cStoreCR2
    <3>2. CASE bit = "ITBUFEN"
      BY <1>0, <1>4, <2>1, <3>1, <3>2, I2cLoadedNames
    <3>3. CASE bit = "ITEVTEN"
      BY <1>0, <1>4, <2>1, <3>1, <3>3, I2cLoadedNames
    <3>4. CASE bit = "ITERREN"
      BY <1>0, <1>4, <2>1, <3>1, <3>4, I2cLoadedNames
    <3> QED BY <1>4, <3>2, <3>3, <3>4
  <2> QED BY <2>2, <2>3
<1>5. CASE SendAddress \/ ClearAddress \/ SendNext \/ SendEnd \/ ReceiveNext
  <2>1. PICK from, to : Blocking(from, to) /\ from \in {"send SB", "receive SB", "send ADDR", "receive ADDR", "send", "receive"}
                        /\ to \in {"send ADDR", "receive ADDR", "send", "receive", "none"}
    BY <1>5 DEF SendAddress, ClearAddress, SendNext, SendEnd, ReceiveNext
  <2>2. UNCHANGED <<iState, iIsr, iCR2>> /\ iIsr = "out" /\ iCall = from /\ iCall' = to
    BY <2>1 DEF Blocking, I2cTaskRuns, iHandle, iIrq
  <2> QED BY <1>0, <2>1, <2>2
<1>6. CASE I2cEnterHandler
  <2>1. iIsr = "out" /\ iIsr' = "SB" /\ "ITEVTEN" \in iCR2
        /\ UNCHANGED <<iState, iCall, iCopy, iCR2>>
    BY <1>6 DEF I2cEnterHandler, EventPending, iHandle, iTask
  <2>2. iState # "READY" /\ iCall \in {"none", "ITERREN", "ITERREN loaded"}
    BY <1>0, <2>1
  <2> QED BY <1>0, <2>1, <2>2
<1>7. CASE CheckSB
  <2>1. iIsr = "SB" /\ iIsr' = "ADDR" /\ UNCHANGED <<iState, iCall, iCopy, iCR2>>
    BY <1>7 DEF CheckSB, Branch, iHandle, iTask
  <2> QED BY <1>0, <2>1
<1>8. CASE CheckADDR
  <2>1. iIsr = "ADDR" /\ UNCHANGED <<iState, iCall, iCopy, iCR2, iRDR, iRxSize>>
        /\ (\/ iIsr' = "BTF"
            \/ iIsr' = "ACK" /\ Addressed /\ iState = "BUSY_RX" /\ iRxSize = 1)
    BY <1>8 DEF CheckADDR, Branch, iHandle, iTask
  <2>2. CASE iIsr' = "BTF"
    BY <1>0, <2>1, <2>2
  <2>3. CASE iIsr' = "ACK" /\ Addressed /\ iState = "BUSY_RX" /\ iRxSize = 1
    <3>1. I2cAddressing
      BY <1>0, <2>3 DEF Addressed, I2cOrderly, I2cPhaseOK, I2cAtRest, I2cAsked, I2cSending, I2cReceiving,
                 I2cRefused, I2cStuck
    <3>2. iBus = "addressed read" /\ iRDR = 0
      BY <1>0, <2>1, <2>3, <3>1 DEF I2cAddressing, I2cSends, I2cQuiet, Addressed
    <3>3. iBus' = "read"
      BY <1>8, <3>2 DEF CheckADDR, Addressed, I2C_clear_ADDR_flag
    <3> QED BY <1>0, <2>1, <2>3, <3>2, <3>3
  <2> QED BY <2>1, <2>2, <2>3
<1>9. CASE DisableAck
  <2>1. iIsr = "ACK" /\ iIsr' = "BTF" /\ UNCHANGED <<iState, iCall, iCopy, iCR2>>
    BY <1>9 DEF DisableAck, Branch, iHandle, iTask
  <2> QED BY <1>0, <2>1
<1>10. CASE CheckBTF
  <2>1. iIsr = "BTF" /\ iIsr' = "TXE" /\ UNCHANGED <<iCall, iCopy>>
        /\ \/ UNCHANGED <<iState, iCR2>>
           \/ iState' = "READY" /\ iCR2' = iCR2 \ {"ITBUFEN", "ITEVTEN"}
    BY <1>10 DEF CheckBTF, Branch, I2C_close_send, iHandle, iTask
  <2> QED BY <1>0, <2>1
<1>11. CASE CheckI2cTXE
  <2>1. iIsr = "TXE" /\ iIsr' = "RXNE" /\ UNCHANGED <<iState, iCall, iCopy, iCR2>>
    BY <1>11 DEF CheckI2cTXE, Branch, iTask
  <2> QED BY <1>0, <2>1
<1>12. CASE CheckI2cRXNE
  <2>1. iIsr = "RXNE" /\ iIsr' = "out" /\ UNCHANGED <<iCall, iCopy>>
        /\ \/ UNCHANGED <<iState, iCR2>>
           \/ iState' = "READY" /\ iCR2' = iCR2 \ {"ITBUFEN", "ITEVTEN"}
    BY <1>12 DEF CheckI2cRXNE, Branch, I2C_master_RXNE_handler, I2C_close_receive, iHandle, iTask
  <2> QED BY <1>0, <2>1
<1>13. CASE I2C_ER_IRQ_handling
  <2>1. iIsr = "out" /\ iIsr' = iIsr /\ UNCHANGED <<iCall, iCopy>>
        /\ iState' = "READY" /\ iCR2' = iCR2 \ {"ITBUFEN", "ITEVTEN"} /\ iAF
    BY <1>13 DEF I2C_ER_IRQ_handling, I2C_close_send, ErrorPending, iTask, iIrq
  <2>2. I2cRefused
    BY <2>1 DEF I2cOrderly, I2cPhaseOK, I2cAtRest, I2cAsked, I2cAddressing, I2cSending, I2cReceiving, I2cStuck
  <2> QED BY <1>0, <2>1, <2>2 DEF I2cRefused
<1>14. CASE I2cBus
  <2>1. BusStep
    BY <1>14 DEF I2cBus, StartCondition, StopCondition, SlaveAnswersAddress, ByteOut, ByteIn
  <2>2. UNCHANGED <<iState, iRxSize, iCall, iCopy, iIsr, iCR2>> /\ (I2cPrompt => iIsr = "out")
    BY <2>1 DEF BusStep, iHandle, iTask, iIrq
  <2>3. iIsr = "ACK" => iBus' = iBus /\ iRDR' = iRDR
    BY <2>2
  <2> QED BY <1>0, <2>2, <2>3
<1> QED BY <1>1, <1>2, <1>3, <1>4, <1>5, <1>6, <1>7, <1>8, <1>9, <1>10, <1>11, <1>12, <1>13, <1>14
        DEF I2cNext, I2cTaskStep, I2cHandlerStep

-----------------------------------------------------------------------------
\* What every step shows, beside the types and the calls.
I2cKept == I2cPhaseOK' /\ I2cFlagsOK' /\ I2cTransferStep

\* What a store that loses the handler's leaves.
I2cLost == iClobbered' /\ iBytesIn' <= iTotal' /\ I2cTransferStep

\* A step that changes neither the handle nor the bus stays in its phase.
LEMMA I2cSamePhase ==
    ASSUME I2cPhaseOK, I2cFlagsOK,
           UNCHANGED <<iState, iLen, iNext, iRxSize, iStart, iStop, iAck, iBus, iDR, iShift, iBTF, iRDR, iRShift,
                       iAF, iLeft, iTotal, iMoved, iEvents, iBytesIn>>,
           "ITEVTEN" \in iCR2 => "ITEVTEN" \in iCR2',
           iIsr' = "ACK" <=> iIsr = "ACK",
           iCall' = iCall \/ (~BlockingCall /\ ~BlockingCall')
    PROVE  I2cKept
<1>1. /\ I2cSends' <=> I2cSends
      /\ I2cReceives' <=> I2cReceives
      /\ I2cActive' <=> I2cActive
      /\ BlockingCall' <=> BlockingCall
      /\ I2cLeft' = I2cLeft
      /\ I2cQuiet' <=> I2cQuiet
  BY DEF I2cSends, I2cReceives, I2cActive, BlockingCall, I2cLeft, I2cQuiet
<1>2. I2cAtFirstByte => I2cAtFirstByte'
  BY <1>1 DEF I2cAtFirstByte
<1>3. BlockingCall => iCall' = iCall
  OBVIOUS
<1>4. I2cPhaseOK'
  <2>1. I2cAtRest => I2cAtRest'
    BY <1>1 DEF I2cAtRest
  <2>2. I2cAsked => I2cAsked'
    BY <1>1, <1>2, <1>3 DEF I2cAsked
  <2>3. I2cAddressing => I2cAddressing'
    BY <1>1, <1>2, <1>3 DEF I2cAddressing
  <2>4. I2cSending => I2cSending'
    BY <1>1, <1>3 DEF I2cSending, I2cInFlight
  <2>5. I2cReceiving => I2cReceiving'
    BY <1>1, <1>3 DEF I2cReceiving
  <2>6. I2cRefused => I2cRefused'
    BY <1>1, <1>3 DEF I2cRefused
  <2>7. I2cStuck => I2cStuck'
    BY <1>1, <1>3 DEF I2cStuck, BlockingCall
  <2> QED BY <2>1, <2>2, <2>3, <2>4, <2>5, <2>6, <2>7 DEF I2cPhaseOK
<1>5. I2cFlagsOK'
  BY DEF I2cFlagsOK
<1>6. I2cTransferStep
  <2>1. UNCHANGED I2cMapped
    BY <1>1 DEF I2cMapped, I2cActive
  <2> QED BY <2>1, I2cTransferSteps
<1> QED BY <1>4, <1>5, <1>6 DEF I2cKept

\* A transfer starts from rest.
LEMMA I2cCallKeeps == I2cTypeOK /\ I2cOrderly /\ ~I2cSendAfterRS /\ I2cCall => I2cKept
<1> SUFFICES ASSUME I2cTypeOK, I2cOrderly, ~I2cSendAfterRS, NEW n \in I2cSizes, NEW rs \in I2cRepeated,
                    \/ I2C_master_send_IT(n, rs) \/ I2C_master_receive_IT(n, rs)
                    \/ I2C_master_send(n, rs) \/ I2C_master_receive(n, rs)
             PROVE  I2cKept
  BY DEF I2cCall
<1>1. PICK state : /\ Begin(state, n, rs)
                   /\ \/ iState' = "BUSY_TX" /\ iLen' = n /\ iNext' = 1 /\ iCall' = "ITBUFEN" /\ state = "BUSY_TX"
                      \/ iState' = "BUSY_RX" /\ iLen' = n /\ iRxSize' = n /\ iCall' = "ITBUFEN" /\ state = "BUSY_RX"
                      \/ iState' = iState /\ iCall' = "send SB" /\ iLeft' = n /\ state = "BUSY_TX"
                      \/ iState' = iState /\ iCall' = "receive SB" /\ iLeft' = n /\ state = "BUSY_RX"
  BY DEF I2C_master_send_IT, I2C_master_receive_IT, I2C_master_send, I2C_master_receive
<1>2. /\ iState = "READY" /\ iCall = "none" /\ (state = "BUSY_RX" \/ iBus # "write")
      /\ iTotal' = n /\ iMoved' = <<>> /\ iEvents' = 0 /\ iBytesIn' = 0 /\ iStart' = TRUE
      /\ UNCHANGED <<iAck, iBus, iDR, iShift, iBTF, iRDR, iRShift, iAF>>
  BY <1>1 DEF Begin, BeginTransfer, iLine
<1>3. n \in Nat /\ n > 0
  BY I2cSizesAssumption
<1>4. I2cAtRest
  BY <1>2 DEF I2cOrderly, I2cPhaseOK, I2cAsked, I2cAddressing, I2cSending, I2cReceiving, I2cRefused, I2cStuck,
       I2cActive, I2cSends, I2cReceives, BlockingCall
<1>5. I2cActive' /\ ~I2cActive
  BY <1>1, <1>4 DEF I2cActive, BlockingCall, I2cAtRest
<1>6. I2cAsked'
  <2>1. I2cLeft' = n
    BY <1>1, <1>2 DEF I2cLeft
  <2>2. I2cAtFirstByte'
    BY <1>1, <1>2, <1>3, <2>1 DEF I2cAtFirstByte
  <2>3. I2cSends' => iBus' # "write"
    BY <1>1, <1>2 DEF I2cSends
  <2>4. BlockingCall' => iCall' \in {"send SB", "receive SB"}
    BY <1>1, <1>2 DEF BlockingCall
  <2> QED BY <1>2, <1>4, <1>5, <2>2, <2>3, <2>4 DEF I2cAsked, I2cAtRest, I2cQuiet
<1>7. I2cFlagsOK'
  BY <1>2, <1>3 DEF I2cFlagsOK, I2cOrderly
<1>8. I2cTransferStep
  BY <1>2, <1>5, I2cTransferSteps
<1> QED BY <1>6, <1>7, <1>8 DEF I2cKept, I2cPhaseOK

\* The task: its stores of CR2, and a blocking call from flag to flag.
LEMMA I2cTaskKeeps == I2cTypeOK /\ I2cOrderly /\ I2cTaskStep => I2cKept \/ I2cLost
<1> SUFFICES ASSUME I2cTypeOK, I2cOrderly, I2cTaskStep PROVE I2cKept \/ I2cLost
  OBVIOUS
<1>0. I2cPhaseOK /\ I2cFlagsOK /\ I2cCallOK
  BY DEF I2cOrderly
<1>1. CASE I2cLoadCR2
  <2>1. ~BlockingCall /\ ~BlockingCall'
    BY <1>1, I2cLoadedNames DEF I2cLoadCR2, BlockingCall
  <2> QED BY <1>0, <1>1, <2>1, I2cSamePhase DEF I2cLoadCR2, iHandle, iCR1, iLine, iIrq, iHistory
<1>2. ASSUME NEW bit, NEW next, I2cStoreCR2(bit, next),
             \/ bit = "ITBUFEN" /\ next = "ITEVTEN"
             \/ bit = "ITEVTEN" /\ next = "ITERREN"
             \/ bit = "ITERREN" /\ next = "none"
      PROVE  I2cKept \/ I2cLost
  <2>1. ~BlockingCall /\ ~BlockingCall'
    BY <1>2, I2cLoadedNames DEF I2cStoreCR2, BlockingCall
  <2>2. CASE ~iClobbered'
    <3>1. iCR2' = iCR2 \cup {bit}
      BY <1>2, <2>2 DEF I2cStoreCR2
    <3> QED BY <1>0, <1>2, <2>1, <3>1, I2cSamePhase DEF I2cStoreCR2, iHandle, iCR1, iLine, iIrq, iHistory
  <2>3. CASE iClobbered'
    <3>1. UNCHANGED <<iState, iTotal, iMoved, iEvents, iBytesIn>>
      BY <1>2 DEF I2cStoreCR2, iHandle, iHistory
    <3>2. UNCHANGED I2cMapped
      BY <2>1, <3>1 DEF I2cMapped, I2cActive
    <3> QED BY <1>0, <2>3, <3>1, <3>2, I2cTransferSteps DEF I2cLost, I2cFlagsOK
  <2> QED BY <2>2, <2>3
<1>3. CASE SendAddress
  <2>1. PICK from, to : /\ Blocking(from, to)
                        /\ \/ from = "send SB" /\ to = "send ADDR" /\ iBus' = "address write"
                           \/ from = "receive SB" /\ to = "receive ADDR" /\ iBus' = "address read"
    BY <1>3 DEF SendAddress, I2C_execute_addr_phase
  <2>2. /\ iCall = from /\ iCall' = to /\ iBus = "sb"
        /\ UNCHANGED <<iState, iLen, iNext, iRxSize, iStart, iAF, iCR2, iStop, iAck, iDR, iShift, iBTF, iRDR, iRShift,
                       iLeft, iTotal, iMoved, iEvents, iBytesIn>>
    BY <1>3, <2>1 DEF Blocking, SendAddress, FlagUp, iHandle, iHistory
  <2>3. I2cAddressing
    BY <1>0, <2>2 DEF I2cPhaseOK, I2cAtRest, I2cAsked, I2cSending, I2cReceiving, I2cRefused, I2cStuck
  <2>4. iState = "READY" /\ BlockingCall /\ BlockingCall'
    BY <1>0, <2>1, <2>2 DEF I2cCallOK, BlockingCall
  <2>5. I2cLeft' = I2cLeft /\ I2cActive /\ I2cActive' /\ ~iBTF
    BY <1>0, <2>2, <2>4 DEF I2cLeft, I2cActive, I2cFlagsOK
  <2>6. I2cAtFirstByte' /\ I2cQuiet'
    BY <2>2, <2>3, <2>4, <2>5 DEF I2cAddressing, I2cAtFirstByte, I2cQuiet
  <2>7. I2cAddressing'
    BY <2>1, <2>2, <2>3, <2>4, <2>5, <2>6 DEF I2cAddressing, I2cSends, I2cReceives
  <2>8. I2cFlagsOK'
    BY <1>0, <2>2, <2>5 DEF I2cFlagsOK
  <2>9. I2cTransferStep
    BY <2>2, <2>5, I2cTransferSteps DEF I2cMapped
  <2> QED BY <2>7, <2>8, <2>9 DEF I2cKept, I2cPhaseOK
<1>4. CASE ClearAddress
  <2>1. PICK from, to : /\ Blocking(from, to)
                        /\ \/ from = "send ADDR" /\ to = "send" /\ iAck' = iAck
                           \/ from = "receive ADDR" /\ to = "receive" /\ iAck' = (iLeft # 1)
    BY <1>4 DEF ClearAddress
  <2>2. /\ iCall = from /\ iCall' = to /\ Addressed
        /\ iBus' = (IF iBus = "addressed write" THEN "write" ELSE "read")
        /\ UNCHANGED <<iState, iLen, iNext, iRxSize, iStart, iAF, iCR2, iStop, iDR, iShift, iBTF, iRDR, iRShift,
                       iLeft, iTotal, iMoved, iEvents, iBytesIn>>
    BY <1>4, <2>1 DEF Blocking, ClearAddress, FlagUp, I2C_clear_ADDR_flag, iHandle, iHistory
  <2>3. I2cAddressing
    BY <1>0, <2>2 DEF I2cPhaseOK, I2cAtRest, I2cAsked, I2cSending, I2cReceiving, I2cRefused, I2cStuck, Addressed
  <2>4. iState = "READY" /\ BlockingCall /\ BlockingCall'
    BY <1>0, <2>1, <2>2 DEF I2cCallOK, BlockingCall
  <2>5. I2cLeft' = I2cLeft /\ I2cLeft = iLeft /\ I2cActive /\ I2cActive' /\ ~iBTF
    BY <1>0, <2>2, <2>4 DEF I2cLeft, I2cActive, I2cFlagsOK, Addressed
  <2>6. iMoved = <<>> /\ iLeft = iTotal /\ iTotal \in Nat /\ iTotal > 0
        /\ iBytesIn = 0 /\ iDR = 0 /\ iShift = 0 /\ iRDR = 0 /\ ~iStart /\ ~iStop /\ ~iAF /\ iAck
    BY <2>3, <2>5 DEF I2cAddressing, I2cAtFirstByte, I2cQuiet, I2cTypeOK
  <2>10. Len(iMoved) = 0 /\ iMoved \in Seq(Nat) /\ Len(iMoved') = 0 /\ iMoved' \in Seq(Nat)
    <3>1. iMoved = <<>> /\ iMoved' = <<>>
      BY <2>2, <2>6
    <3> QED BY <3>1
  <2>7. I2cSending' \/ I2cReceiving'
    <3>1. CASE from = "send ADDR"
      <4>1. iBus' = "write" /\ iCall' = "send"
        BY <2>1, <2>2, <2>3, <2>4, <3>1 DEF I2cAddressing, I2cReceives, Addressed
      <4>2. I2cSends' /\ iState' = "READY"
        BY <2>2, <2>4, <4>1 DEF I2cSends
      <4>3. /\ I2cLeft' = iTotal' /\ iTotal' \in Nat /\ iDR' = 0 /\ iShift' = 0 /\ iRDR' = 0 /\ iBytesIn' = 0
            /\ ~iStart' /\ ~iStop' /\ ~iAF' /\ ~iBTF'
        BY <2>2, <2>5, <2>6
      <4>4. iAck'
        BY <2>1, <2>6, <3>1
      <4>5. I2cLeft' + Len(iMoved') + I2cInFlight' = iTotal'
        <5>1. I2cInFlight' = 0
          BY <4>3 DEF I2cInFlight
        <5>2. I2cLeft' = iTotal /\ iTotal' = iTotal /\ iTotal \in Nat /\ Len(iMoved') = 0
          BY <2>2, <2>5, <2>6, <2>10
        <5> QED BY <5>1, <5>2
      <4>6. /\ I2cLeft' \in Nat /\ iShift' \in {0, Len(iMoved') + 1} /\ iDR' \in {0, Len(iMoved') + 2}
            /\ iShift' = 0 => iDR' = 0
        BY <4>3
      <4> QED BY <2>10, <4>1, <4>2, <4>3, <4>4, <4>5, <4>6 DEF I2cSending
    <3>2. CASE from = "receive ADDR"
      <4>1. iBus' = "read" /\ iCall' = "receive"
        BY <2>1, <2>2, <2>3, <2>4, <3>2 DEF I2cAddressing, I2cSends, Addressed
      <4>2. iAck' <=> iLeft > 1
        <5>1. iLeft # 1 <=> iLeft > 1
          BY <2>6
        <5>2. iAck' = (iLeft # 1)
          BY <2>1, <3>2
        <5> QED BY <5>1, <5>2, Zenon
      <4>3. iIsr' = "out"
        BY <1>0, <2>1, <2>4 DEF I2cCallOK, Blocking, iIrq
      <4>4. I2cReceives' /\ iState' = "READY"
        BY <2>2, <2>4, <4>1 DEF I2cReceives
      <4>5. /\ I2cLeft' = iTotal' /\ iTotal' \in Nat /\ iTotal' > 0 /\ iDR' = 0 /\ iShift' = 0 /\ iRDR' = 0
            /\ iBytesIn' = 0 /\ ~iStart' /\ ~iAF' /\ I2cLeft' = iLeft
        BY <2>2, <2>5, <2>6
      <4> QED BY <2>10, <4>1, <4>2, <4>3, <4>4, <4>5 DEF I2cReceiving
    <3> QED BY <2>1, <3>1, <3>2
  <2>8. I2cFlagsOK'
    BY <1>0, <2>2, <2>5 DEF I2cFlagsOK
  <2>9. I2cTransferStep
    BY <2>2, <2>5, I2cTransferSteps DEF I2cMapped
  <2> QED BY <2>7, <2>8, <2>9 DEF I2cKept, I2cPhaseOK
<1>5. CASE SendNext \/ SendEnd
  <2>1. /\ iCall = "send" /\ iBus = "write" /\ iDR = 0 /\ (iLeft > 0 \/ iBTF)
        /\ UNCHANGED <<iState, iLen, iNext, iRxSize, iStart, iAF, iCR2>>
    BY <1>5 DEF SendNext, SendEnd, Blocking, FlagUp, TxE, iHandle
  <2>2. I2cSending
    BY <1>0, <2>1 DEF I2cPhaseOK, I2cAtRest, I2cAsked, I2cAddressing, I2cReceiving, I2cRefused, I2cStuck,
         I2cActive, I2cSends, BlockingCall
  <2>3. iState = "READY" /\ BlockingCall /\ I2cLeft = iLeft /\ I2cActive
    BY <1>0, <2>1 DEF I2cCallOK, BlockingCall, I2cLeft, I2cActive
  <2>4. /\ iLeft \in Nat /\ iMoved \in Seq(Nat) /\ Len(iMoved) \in Nat /\ iShift \in {0, Len(iMoved) + 1}
        /\ iLeft + Len(iMoved) + I2cInFlight = iTotal /\ I2cInFlight = (IF iShift = 0 THEN 0 ELSE 1)
        /\ (iBTF => iLeft = 0 /\ iShift = 0)
    BY <2>1, <2>2, <2>3 DEF I2cSending, I2cInFlight
  <2>5. CASE SendNext
    <3>1. /\ iLeft > 0 /\ iLeft' = iLeft - 1 /\ iCall' = "send" /\ SendByte(iTotal - iLeft + 1)
          /\ UNCHANGED <<iStop, iAck, iTotal, iMoved, iEvents, iBytesIn>>
      BY <2>5 DEF SendNext, Blocking, iHistory
    <3>2. /\ iBTF' = FALSE /\ UNCHANGED <<iBus, iRDR, iRShift>>
          /\ IF iShift = 0 THEN iShift' = Len(iMoved) + 1 /\ iDR' = 0
                           ELSE iDR' = Len(iMoved) + 2 /\ iShift' = iShift
      BY <2>1, <2>4, <3>1 DEF SendByte
    <3>3. BlockingCall' /\ I2cLeft' = iLeft' /\ I2cActive' /\ I2cSends'
      BY <2>1, <2>3, <3>1 DEF BlockingCall, I2cLeft, I2cActive, I2cSends
    <3>4. I2cSending'
      <4>1. I2cInFlight' = I2cInFlight + 1 /\ I2cInFlight \in Nat
        BY <2>1, <2>4, <3>2 DEF I2cInFlight
      <4> QED BY <2>1, <2>2, <2>3, <2>4, <3>1, <3>2, <3>3, <4>1 DEF I2cSending
    <3>5. I2cFlagsOK'
      BY <1>0, <3>1, <3>2 DEF I2cFlagsOK
    <3>6. I2cTransferStep
      BY <2>3, <3>1, <3>3, I2cTransferSteps DEF I2cMapped
    <3> QED BY <3>4, <3>5, <3>6 DEF I2cKept, I2cPhaseOK
  <2>6. CASE SendEnd
    <3>1. /\ iLeft = 0 /\ iCall' = "none" /\ iEvents' = iEvents + 1
          /\ UNCHANGED <<iAck, iBus, iDR, iShift, iBTF, iRDR, iRShift, iLeft, iTotal, iMoved, iBytesIn>>
      BY <2>6 DEF SendEnd, Blocking, iLine
    <3>2. iShift = 0 /\ Len(iMoved) = iTotal
      BY <2>1, <2>4, <3>1
    <3>3. ~I2cActive'
      BY <2>1, <2>3, <3>1 DEF I2cActive, BlockingCall
    <3>4. I2cAtRest'
      BY <2>1, <2>2, <3>1, <3>2, <3>3 DEF I2cSending, I2cAtRest, I2cQuiet
    <3>5. I2cFlagsOK'
      BY <1>0, <3>1 DEF I2cFlagsOK
    <3>6. I2cTransferStep
      BY <2>3, <3>1, <3>2, <3>3, I2cTransferSteps
    <3> QED BY <3>4, <3>5, <3>6 DEF I2cKept, I2cPhaseOK
  <2> QED BY <1>5, <2>5, <2>6
<1>6. CASE ReceiveNext
  <2>1. /\ iCall = "receive" /\ iCall' = (IF iLeft = 1 THEN "none" ELSE "receive") /\ iRDR # 0
        /\ UNCHANGED <<iState, iLen, iNext, iRxSize, iStart, iAF, iCR2, iIsr>>
        /\ iMoved' = Append(iMoved, iRDR) /\ iRDR' = iRShift /\ iRShift' = 0 /\ iLeft' = iLeft - 1
        /\ iAck' = (iLeft = 1 \/ (iAck /\ iLeft # 2))
        /\ iEvents' = (IF iLeft = 1 THEN iEvents + 1 ELSE iEvents)
        /\ UNCHANGED <<iBus, iDR, iShift, iBTF, iBytesIn, iTotal>>
    BY <1>6 DEF ReceiveNext, Blocking, FlagUp, RxNE, ReadByte, iHandle, iIrq
  <2>2. I2cReceiving
    BY <1>0, <2>1 DEF I2cPhaseOK, I2cAtRest, I2cAsked, I2cAddressing, I2cSending, I2cRefused, I2cStuck,
         I2cQuiet
  <2>3. iState = "READY" /\ BlockingCall /\ I2cLeft = iLeft /\ I2cActive /\ iIsr = "out" /\ iRShift = 0 /\ ~iBTF
    BY <1>0, <2>1, <2>2 DEF I2cCallOK, BlockingCall, I2cLeft, I2cActive, I2cFlagsOK, I2cReceiving
  <2>4. /\ iLeft \in Nat /\ iLeft > 0 /\ iMoved \in Seq(Nat) /\ Len(iMoved) \in Nat /\ iRDR = Len(iMoved) + 1
        /\ iLeft + Len(iMoved) = iTotal /\ iBytesIn = Len(iMoved) + 1 /\ iDR = 0 /\ iShift = 0 /\ ~iStart /\ ~iAF
        /\ iBus \in {"read", "refused"}
        /\ (iBus = "read" => iAck /\ iLeft > 1)
        /\ (iBus = "refused" => iLeft = 1)
    BY <2>1, <2>2, <2>3 DEF I2cReceiving
  <2>5. iMoved' = Append(iMoved, Len(iMoved) + 1) /\ Len(iMoved') = Len(iMoved) + 1 /\ iMoved' \in Seq(Nat)
    BY <2>1, <2>4
  <2>6. I2cFlagsOK'
    BY <1>0, <2>1, <2>3 DEF I2cFlagsOK
  <2>7. CASE iLeft = 1
    <3>1. ~I2cActive' /\ iAck' /\ iRDR' = 0 /\ iCall' = "none" /\ iEvents' = iEvents + 1
      BY <2>1, <2>3, <2>7 DEF I2cActive, BlockingCall
    <3>2. iBus = "refused"
      BY <2>4, <2>7
    <3>3. I2cAtRest'
      BY <2>1, <2>4, <3>1, <3>2 DEF I2cAtRest, I2cQuiet
    <3>4. I2cTransferStep
      BY <2>1, <2>3, <2>4, <2>5, <2>7, <3>1, I2cTransferSteps
    <3> QED BY <2>6, <3>3, <3>4 DEF I2cKept, I2cPhaseOK
  <2>8. CASE iLeft # 1
    <3>0. iAck' <=> iLeft' > 1
      <4>1. iLeft # 2 <=> iLeft' > 1
        BY <2>1, <2>4, <2>8
      <4>2. iAck /\ iAck' = (iLeft = 1 \/ (iAck /\ iLeft # 2))
        BY <2>1, <2>4, <2>8
      <4> QED BY <2>8, <4>1, <4>2, Zenon
    <3>1. iBus = "read" /\ iBus' = "read" /\ iCall' = "receive" /\ (iAck' <=> iLeft' > 1) /\ iRDR' = 0
      BY <2>1, <2>3, <2>4, <2>8, <3>0
    <3>2. BlockingCall' /\ I2cActive' /\ I2cLeft' = iLeft' /\ I2cReceives' /\ iState' = "READY" /\ iIsr' = "out"
      BY <2>1, <2>3, <3>1 DEF BlockingCall, I2cActive, I2cLeft, I2cReceives
    <3>3. iLeft' \in Nat /\ iLeft' > 0 /\ iLeft' + Len(iMoved') = iTotal' /\ iBytesIn' = Len(iMoved')
      BY <2>1, <2>4, <2>5, <2>8
    <3>4. I2cReceiving'
      BY <2>1, <2>4, <2>5, <3>1, <3>2, <3>3 DEF I2cReceiving
    <3>5. I2cTransferStep
      <4>1. Len(iMoved) < iTotal
        BY <2>4
      <4>2. I2cActive' = I2cActive /\ iEvents' = iEvents /\ iTotal' = iTotal
        BY <2>1, <2>3, <2>8, <3>2 DEF I2cActive
      <4> QED BY <2>3, <2>5, <4>1, <4>2, I2cTransferSteps
    <3> QED BY <2>6, <3>4, <3>5 DEF I2cKept, I2cPhaseOK
  <2> QED BY <2>7, <2>8
<1> QED BY <1>1, <1>2, <1>3, <1>4, <1>5, <1>6 DEF I2cTaskStep

\* The branches of the handlers: the bus waits for them, or has a byte under way.
LEMMA I2cHandlerKeeps == I2cTypeOK /\ I2cOrderly /\ I2cHandlerStep => I2cKept
<1> SUFFICES ASSUME I2cTypeOK, I2cOrderly, I2cHandlerStep PROVE I2cKept
  OBVIOUS
<1>0. I2cPhaseOK /\ I2cFlagsOK /\ I2cCallOK
  BY DEF I2cOrderly
<1>1. iState # "READY" => ~BlockingCall /\ I2cActive /\ I2cLeft = iLen
  BY <1>0 DEF I2cCallOK, I2cActive, I2cLeft
<1>2. CASE I2cEnterHandler
  BY <1>0, <1>2, I2cSamePhase DEF I2cEnterHandler, iHandle, iCR1, iLine, iTask, iHistory
<1>3. CASE CheckSB
  <2>1. /\ iIsr = "SB" /\ iIsr' = "ADDR"
        /\ UNCHANGED <<iState, iLen, iNext, iRxSize, iStart, iStop, iAck, iDR, iShift, iBTF, iRDR, iRShift,
                       iAF, iLeft, iTotal, iMoved, iEvents, iBytesIn, iCall, iCR2>>
    BY <1>3 DEF CheckSB, Branch, iHandle, iTask, iHistory
  <2>2. CASE iBus = "sb" /\ iState # "READY"
    <3>1. iBus' = (IF iState = "BUSY_RX" THEN "address read" ELSE "address write")
      BY <1>3, <2>2 DEF CheckSB, I2C_execute_addr_phase
    <3>2. I2cAddressing
      BY <1>0, <2>2 DEF I2cPhaseOK, I2cAtRest, I2cAsked, I2cSending, I2cReceiving, I2cRefused, I2cStuck
    <3>3. "ITEVTEN" \in iCR2
      BY <1>0, <2>1, <2>2 DEF I2cCallOK
    <3>4. /\ I2cLeft' = I2cLeft /\ I2cActive' /\ I2cActive /\ ~BlockingCall' /\ ~iBTF
          /\ I2cSends' <=> iState = "BUSY_TX"
          /\ I2cReceives' <=> iState = "BUSY_RX"
      BY <1>0, <1>1, <2>1, <2>2 DEF I2cLeft, I2cActive, BlockingCall, I2cSends, I2cReceives, I2cFlagsOK
    <3>5. I2cAtFirstByte' /\ I2cQuiet'
      BY <2>1, <3>2, <3>4 DEF I2cAddressing, I2cAtFirstByte, I2cQuiet
    <3>6. I2cAddressing'
      BY <2>1, <2>2, <3>1, <3>2, <3>3, <3>4, <3>5 DEF I2cAddressing, I2cTypeOK
    <3>7. I2cFlagsOK'
      BY <1>0, <2>1, <3>4 DEF I2cFlagsOK
    <3>8. I2cTransferStep
      BY <2>1, <3>4, I2cTransferSteps DEF I2cMapped
    <3> QED BY <3>6, <3>7, <3>8 DEF I2cKept, I2cPhaseOK
  <2>3. CASE ~(iBus = "sb" /\ iState # "READY")
    <3>1. iBus' = iBus
      BY <1>3, <2>3 DEF CheckSB
    <3> QED BY <1>0, <2>1, <3>1, I2cSamePhase
  <2> QED BY <2>2, <2>3
<1>4. CASE CheckADDR
  <2>1. /\ iIsr = "ADDR" /\ iIsr' = (IF Addressed /\ iState = "BUSY_RX" /\ iRxSize = 1 THEN "ACK" ELSE "BTF")
        /\ UNCHANGED <<iState, iLen, iNext, iRxSize, iStart, iStop, iAck, iDR, iShift, iBTF, iRDR, iRShift,
                       iAF, iLeft, iTotal, iMoved, iEvents, iBytesIn, iCall, iCR2>>
    BY <1>4 DEF CheckADDR, Branch, iHandle, iTask, iHistory
  <2>2. CASE Addressed
    <3>1. iBus' = (IF iBus = "addressed write" THEN "write" ELSE "read")
      BY <1>4, <2>2 DEF CheckADDR, I2C_clear_ADDR_flag
    <3>2. I2cAddressing
      BY <1>0, <2>2 DEF I2cPhaseOK, I2cAtRest, I2cAsked, I2cSending, I2cReceiving, I2cRefused, I2cStuck, Addressed
    <3>3. iState # "READY"
      BY <1>0, <2>1, <3>2 DEF I2cCallOK, I2cAddressing, I2cActive
    <3>4. "ITEVTEN" \in iCR2 /\ I2cLeft' = iLen /\ I2cLeft = iLen /\ I2cActive' /\ I2cActive /\ ~BlockingCall' /\ ~iBTF
      BY <1>0, <1>1, <2>1, <2>2, <3>3 DEF I2cCallOK, I2cLeft, I2cActive, BlockingCall, I2cFlagsOK, Addressed
    <3>5. /\ iMoved = <<>> /\ iLen = iTotal /\ iTotal \in Nat /\ iTotal > 0 /\ iBytesIn = 0
          /\ iDR = 0 /\ iShift = 0 /\ iRDR = 0 /\ iAck /\ ~iStart /\ ~iStop /\ ~iAF
          /\ iState = "BUSY_TX" => iNext = 1
          /\ iState = "BUSY_RX" => iRxSize = iTotal
      BY <3>2, <3>4 DEF I2cAddressing, I2cAtFirstByte, I2cQuiet, I2cTypeOK
    <3>6. Len(iMoved') = 0 /\ iMoved' \in Seq(Nat)
      <4>1. iMoved' = <<>>
        BY <2>1, <3>5
      <4> QED BY <4>1
    <3>7. ASSUME iState = "BUSY_TX" PROVE I2cPhaseOK'
      <4>1. iBus' = "write" /\ I2cSends'
        BY <1>1, <2>1, <2>2, <3>1, <3>2, <3>7 DEF I2cAddressing, I2cReceives, I2cSends, Addressed, BlockingCall
      <4>2. I2cInFlight' = 0
        BY <2>1, <3>5 DEF I2cInFlight
      <4>3. /\ I2cLeft' = iTotal /\ iTotal' = iTotal /\ iTotal \in Nat /\ iNext' = 1
            /\ iDR' = 0 /\ iShift' = 0 /\ iRDR' = 0 /\ iAck' /\ ~iStart' /\ ~iStop' /\ ~iAF' /\ ~iBTF' /\ iBytesIn' = 0
            /\ iState' = "BUSY_TX" /\ "ITEVTEN" \in iCR2'
        BY <2>1, <3>4, <3>5, <3>7
      <4>4. I2cLeft' + Len(iMoved') + I2cInFlight' = iTotal'
        BY <3>6, <4>2, <4>3
      <4>5. iNext' = Len(iMoved') + 1 + I2cInFlight'
        BY <3>6, <4>2, <4>3
      <4>6. I2cLeft' \in Nat /\ iShift' \in {0, Len(iMoved') + 1} /\ iDR' \in {0, Len(iMoved') + 2}
        BY <4>3
      <4>7. I2cSending'
        BY <3>4, <3>6, <4>1, <4>3, <4>4, <4>5, <4>6 DEF I2cSending
      <4> QED BY <4>7 DEF I2cPhaseOK
    <3>8. ASSUME iState = "BUSY_RX" PROVE I2cPhaseOK'
      <4>1. iBus' = "read" /\ I2cReceives'
        BY <1>1, <2>1, <2>2, <3>1, <3>2, <3>8 DEF I2cAddressing, I2cReceives, I2cSends, Addressed, BlockingCall
      <4>2. iTotal > 1 \/ iIsr' = "ACK"
        BY <2>1, <2>2, <3>5, <3>8
      <4>3. /\ I2cLeft' = iTotal /\ iTotal' = iTotal /\ iTotal \in Nat /\ iTotal > 0 /\ iRxSize' = iTotal
            /\ iDR' = 0 /\ iShift' = 0 /\ iRDR' = 0 /\ iAck' /\ ~iStart' /\ ~iStop' /\ ~iAF' /\ iBytesIn' = 0
            /\ iState' = "BUSY_RX" /\ "ITEVTEN" \in iCR2'
        BY <2>1, <3>4, <3>5, <3>8
      <4>4. I2cLeft' + Len(iMoved') = iTotal' /\ I2cLeft' \in Nat /\ I2cLeft' > 0
        BY <3>6, <4>3
      <4>5. iAck' <=> (I2cLeft' > 1 \/ iIsr' = "ACK")
        BY <4>2, <4>3
      <4>6. iRDR' \in {0, Len(iMoved') + 1} /\ iBytesIn' = Len(iMoved') + (IF iRDR' = 0 THEN 0 ELSE 1)
        BY <3>6, <4>3
      <4>7. I2cReceiving'
        BY <3>4, <3>6, <4>1, <4>3, <4>4, <4>5, <4>6 DEF I2cReceiving
      <4> QED BY <4>7 DEF I2cPhaseOK
    <3>9. I2cFlagsOK'
      BY <1>0, <2>1, <3>4 DEF I2cFlagsOK
    <3>10. I2cTransferStep
      BY <2>1, <3>4, I2cTransferSteps DEF I2cMapped
    <3> QED BY <3>3, <3>7, <3>8, <3>9, <3>10 DEF I2cKept, I2cTypeOK
  <2>3. CASE ~Addressed
    <3>1. iBus' = iBus
      BY <1>4, <2>3 DEF CheckADDR
    <3> QED BY <1>0, <2>1, <2>3, <3>1, I2cSamePhase
  <2> QED BY <2>2, <2>3
<1>5. CASE DisableAck
  <2>1. /\ iIsr = "ACK" /\ iIsr' = "BTF" /\ iAck' = FALSE
        /\ UNCHANGED <<iState, iLen, iNext, iRxSize, iStart, iStop, iBus, iDR, iShift, iBTF, iRDR, iRShift,
                       iAF, iLeft, iTotal, iMoved, iEvents, iBytesIn, iCall, iCR2>>
    BY <1>5 DEF DisableAck, OnlyByte, Branch, iHandle, iLine, iTask, iHistory
  <2>2. iState = "BUSY_RX" /\ iBus = "read" /\ iRDR = 0 /\ iRxSize = 1
    BY <1>0, <2>1 DEF I2cCallOK
  <2>3. I2cReceiving
    BY <1>0, <2>2 DEF I2cPhaseOK, I2cAtRest, I2cAsked, I2cAddressing, I2cSending, I2cRefused, I2cStuck
  <2>4. I2cLeft' = I2cLeft /\ I2cLeft = 1
    <3>1. I2cLeft' = I2cLeft
      BY <2>1 DEF I2cLeft
    <3>2. I2cLeft \in Nat /\ I2cLeft > 0 /\ I2cLeft + Len(iMoved) = 1 /\ Len(iMoved) \in Nat
      BY <2>2, <2>3 DEF I2cReceiving
    <3> QED BY <3>1, <3>2
  <2>5. (BlockingCall' <=> BlockingCall) /\ I2cReceives'
    BY <2>1, <2>2 DEF BlockingCall, I2cReceives
  <2>6. I2cReceiving'
    BY <2>1, <2>2, <2>3, <2>4, <2>5 DEF I2cReceiving
  <2>7. I2cFlagsOK'
    BY <1>0, <2>1 DEF I2cFlagsOK
  <2>8. I2cTransferStep
    BY <2>1, <2>2, <2>5, I2cTransferSteps DEF I2cMapped, I2cActive
  <2> QED BY <2>6, <2>7, <2>8 DEF I2cKept, I2cPhaseOK
<1>6. CASE CheckBTF
  <2>1. iIsr = "BTF" /\ iIsr' = "TXE" /\ UNCHANGED <<iStart, iAF, iCall, iLeft, iBus, iDR, iShift, iBTF, iRDR, iRShift,
                                                    iTotal, iMoved, iBytesIn>>
    BY <1>6 DEF CheckBTF, Branch, iLine, iTask
  <2>2. CASE iBTF /\ iState = "BUSY_TX" /\ TxE
    <3>1. iState' = "READY" /\ iAck' = TRUE /\ iEvents' = iEvents + 1
      BY <1>6, <2>2 DEF CheckBTF, I2C_close_send
    <3>2. I2cSending
      BY <1>0, <2>2 DEF TxE, I2cPhaseOK, I2cAtRest, I2cAsked, I2cAddressing, I2cReceiving, I2cRefused, I2cStuck,
           I2cActive, I2cSends
    <3>3. iBus = "write" /\ iDR = 0 /\ iShift = 0 /\ I2cInFlight = 0 /\ I2cLeft = 0 /\ iMoved \in Seq(Nat)
      BY <2>2, <3>2 DEF TxE, I2cSending, I2cInFlight
    <3>4. Len(iMoved) = iTotal
      BY <3>2, <3>3 DEF I2cSending
    <3>5. ~BlockingCall' /\ ~I2cActive' /\ I2cActive
      BY <1>1, <2>1, <2>2, <3>1 DEF I2cActive, BlockingCall
    <3>6. I2cAtRest'
      BY <2>1, <3>1, <3>2, <3>3, <3>5 DEF I2cSending, I2cAtRest, I2cQuiet
    <3>7. I2cFlagsOK'
      BY <1>0, <2>1 DEF I2cFlagsOK
    <3>8. I2cTransferStep
      BY <2>1, <3>1, <3>4, <3>5, I2cTransferSteps
    <3> QED BY <3>6, <3>7, <3>8 DEF I2cKept, I2cPhaseOK
  <2>3. CASE ~(iBTF /\ iState = "BUSY_TX" /\ TxE)
    BY <1>0, <1>6, <2>1, <2>3, I2cSamePhase DEF CheckBTF, iHandle
  <2> QED BY <2>2, <2>3
<1>7. CASE CheckI2cTXE
  <2>1. /\ iIsr = "TXE" /\ iIsr' = "RXNE"
        /\ UNCHANGED <<iState, iRxSize, iStart, iStop, iAck, iAF, iCall, iLeft, iCR2, iTotal, iMoved, iEvents, iBytesIn>>
    BY <1>7 DEF CheckI2cTXE, Branch, iTask, iHistory
  <2>2. CASE {"ITBUFEN", "ITEVTEN"} \subseteq iEnabled /\ TxE /\ iState = "BUSY_TX" /\ MoreToSend
    <3>1. iLen > 0 /\ iLen' = iLen - 1 /\ iNext' = iNext + 1 /\ SendByte(iNext)
      BY <1>7, <2>2 DEF CheckI2cTXE, I2C_master_TXE_handler, MoreToSend
    <3>2. I2cSending
      BY <1>0, <2>2 DEF TxE, I2cPhaseOK, I2cAtRest, I2cAsked, I2cAddressing, I2cReceiving, I2cRefused, I2cStuck,
           I2cActive, I2cSends
    <3>3. /\ iBus = "write" /\ iDR = 0 /\ I2cLeft = iLen /\ iLen \in Nat /\ iMoved \in Seq(Nat) /\ Len(iMoved) \in Nat
          /\ iShift \in {0, Len(iMoved) + 1}
          /\ iLen + Len(iMoved) + I2cInFlight = iTotal
          /\ I2cInFlight = (IF iShift = 0 THEN 0 ELSE 1)
          /\ iNext = Len(iMoved) + 1 + I2cInFlight
      BY <1>1, <2>2, <3>2 DEF TxE, I2cSending, I2cInFlight
    <3>4. /\ iBTF' = FALSE /\ UNCHANGED <<iBus, iRDR, iRShift>>
          /\ IF iShift = 0 THEN iShift' = Len(iMoved) + 1 /\ iDR' = 0
                           ELSE iDR' = Len(iMoved) + 2 /\ iShift' = iShift
      BY <3>1, <3>3 DEF SendByte
    <3>5. ~BlockingCall' /\ I2cLeft' = iLen' /\ I2cActive /\ I2cActive' /\ I2cSends'
      BY <1>1, <2>1, <2>2 DEF BlockingCall, I2cLeft, I2cActive, I2cSends
    <3>6. I2cInFlight' = I2cInFlight + 1 /\ I2cInFlight \in Nat
      BY <3>3, <3>4 DEF I2cInFlight
    <3>7. I2cSending'
      BY <2>1, <2>2, <3>1, <3>2, <3>3, <3>4, <3>5, <3>6 DEF I2cSending
    <3>8. I2cFlagsOK'
      BY <1>0, <2>1, <3>4 DEF I2cFlagsOK
    <3>9. I2cTransferStep
      BY <2>1, <3>5, I2cTransferSteps DEF I2cMapped
    <3> QED BY <3>7, <3>8, <3>9 DEF I2cKept, I2cPhaseOK
  <2>3. CASE ~({"ITBUFEN", "ITEVTEN"} \subseteq iEnabled /\ TxE /\ iState = "BUSY_TX" /\ MoreToSend)
    BY <1>0, <1>7, <2>1, <2>3, I2cSamePhase DEF CheckI2cTXE, iLine
  <2> QED BY <2>2, <2>3
<1>8. CASE CheckI2cRXNE
  <2>1. /\ iIsr = "RXNE" /\ iIsr' = "out"
        /\ UNCHANGED <<iStart, iAF, iCall, iLeft, iBus, iDR, iShift, iBTF, iBytesIn, iTotal>>
    BY <1>8 DEF CheckI2cRXNE, Branch, iTask
  <2>2. CASE {"ITBUFEN", "ITEVTEN"} \subseteq iEnabled /\ RxNE /\ iBus # "idle" /\ iState = "BUSY_RX"
    <3>1. I2C_master_RXNE_handler
      BY <1>8, <2>2 DEF CheckI2cRXNE
    <3>2. I2cReceiving
      BY <1>0, <2>2 DEF RxNE, I2cPhaseOK, I2cAtRest, I2cAsked, I2cAddressing, I2cSending, I2cRefused, I2cStuck,
           I2cQuiet
    <3>3. /\ I2cLeft = iLen /\ iLen \in Nat /\ iLen > 0 /\ iMoved \in Seq(Nat) /\ Len(iMoved) \in Nat
          /\ iRDR = Len(iMoved) + 1 /\ iLen + Len(iMoved) = iTotal /\ iBytesIn = Len(iMoved) + 1
          /\ iDR = 0 /\ iShift = 0 /\ ~iStart /\ ~iAF /\ ~iStop /\ iRxSize = iTotal /\ "ITEVTEN" \in iCR2
          /\ iBus \in {"read", "refused"}
          /\ (iBus = "read" => iAck /\ iLen > 1)
          /\ (iBus = "refused" => iLen = 1)
      BY <1>1, <2>2, <3>2 DEF I2cReceiving, RxNE
    <3>4. iMoved' = Append(iMoved, Len(iMoved) + 1) /\ iRDR' = 0 /\ iRShift' = 0
      BY <1>0, <3>1, <3>3 DEF I2C_master_RXNE_handler, ReadByte, I2cFlagsOK
    <3>5. Len(iMoved') = Len(iMoved) + 1 /\ iMoved' \in Seq(Nat) /\ Len(iMoved) < iTotal
      BY <3>3, <3>4
    <3>6. I2cFlagsOK'
      BY <1>0, <2>1, <3>4 DEF I2cFlagsOK
    <3>7. CASE iLen = 1
      <4>1. iState' = "READY" /\ iAck' = TRUE /\ iEvents' = iEvents + 1
        BY <3>1, <3>7 DEF I2C_master_RXNE_handler, I2C_close_receive
      <4>2. ~BlockingCall' /\ ~I2cActive' /\ I2cActive
        BY <1>1, <2>1, <2>2, <4>1 DEF I2cActive, BlockingCall
      <4>3. I2cAtRest'
        BY <2>1, <3>3, <3>4, <3>7, <4>1, <4>2 DEF I2cAtRest, I2cQuiet
      <4>4. Len(iMoved') = iTotal
        BY <3>3, <3>5, <3>7
      <4>5. I2cTransferStep
        BY <2>1, <3>4, <3>5, <4>1, <4>2, <4>4, I2cTransferSteps
      <4> QED BY <3>6, <4>3, <4>5 DEF I2cKept, I2cPhaseOK
    <3>8. CASE iLen # 1
      <4>1. iLen' = iLen - 1 /\ iAck' = (iAck /\ iLen # 2)
            /\ UNCHANGED <<iState, iNext, iRxSize, iRS, iStop, iCR2, iEvents>>
        BY <3>1, <3>8 DEF I2C_master_RXNE_handler
      <4>2. ~BlockingCall' /\ I2cActive' /\ I2cActive /\ I2cLeft' = iLen' /\ I2cReceives' /\ iState' = "BUSY_RX"
        BY <1>1, <2>1, <2>2, <4>1 DEF I2cActive, BlockingCall, I2cLeft, I2cReceives
      <4>3. iBus = "read" /\ iAck
        BY <3>3, <3>8
      <4>4. iAck' <=> iLen' > 1
        <5>1. iLen # 2 <=> iLen' > 1
          BY <3>3, <3>8, <4>1
        <5> QED BY <4>1, <4>3, <5>1, Zenon
      <4>5. iLen' \in Nat /\ iLen' > 0 /\ iLen' + Len(iMoved') = iTotal' /\ iBytesIn' = Len(iMoved')
        BY <2>1, <3>3, <3>5, <3>8, <4>1
      <4>6. I2cReceiving'
        BY <2>1, <3>3, <3>4, <3>5, <4>1, <4>2, <4>3, <4>4, <4>5 DEF I2cReceiving
      <4>7. I2cTransferStep
        <5>1. I2cActive' = I2cActive /\ iEvents' = iEvents /\ iTotal' = iTotal
          BY <2>1, <2>2, <4>1 DEF I2cActive
        <5> QED BY <3>4, <3>5, <4>2, <5>1, I2cTransferSteps
      <4> QED BY <3>6, <4>6, <4>7 DEF I2cKept, I2cPhaseOK
    <3> QED BY <3>7, <3>8
  <2>3. CASE ~({"ITBUFEN", "ITEVTEN"} \subseteq iEnabled /\ RxNE /\ iBus # "idle" /\ iState = "BUSY_RX")
    BY <1>0, <1>8, <2>1, <2>3, I2cSamePhase DEF CheckI2cRXNE, iHandle
  <2> QED BY <2>2, <2>3
<1>9. CASE I2C_ER_IRQ_handling
  <2>1. /\ iAF /\ iAF' = FALSE /\ iState' = "READY" /\ iAck' = TRUE
        /\ UNCHANGED <<iStart, iBus, iDR, iShift, iBTF, iRDR, iRShift, iCall, iLeft, iTotal, iMoved, iBytesIn>>
    BY <1>9 DEF I2C_ER_IRQ_handling, ErrorPending, ClearAF, I2C_close_send, iLine, iTask, iHistory
  <2>2. I2cRefused
    BY <1>0, <2>1 DEF I2cPhaseOK, I2cAtRest, I2cAsked, I2cAddressing, I2cSending, I2cReceiving, I2cStuck
  <2>3. I2cQuiet' /\ ~iStart' /\ ~iAF' /\ iBus' = "refused"
    BY <2>1, <2>2 DEF I2cRefused, I2cQuiet
  <2>4. I2cAtRest' \/ I2cStuck'
    <3>1. CASE BlockingCall
      BY <2>1, <2>2, <2>3, <3>1 DEF I2cRefused, I2cStuck
    <3>2. CASE ~BlockingCall
      <4>1. ~I2cActive'
        BY <2>1, <3>2 DEF I2cActive, BlockingCall
      <4> QED BY <2>3, <4>1 DEF I2cAtRest
    <3> QED BY <3>1, <3>2
  <2>5. I2cFlagsOK'
    BY <1>0, <2>1 DEF I2cFlagsOK
  <2>6. I2cTransferStep
    BY <2>1 DEF I2cTransferStep
  <2> QED BY <2>4, <2>5, <2>6 DEF I2cKept, I2cPhaseOK
<1> QED BY <1>2, <1>3, <1>4, <1>5, <1>6, <1>7, <1>8, <1>9 DEF I2cHandlerStep

\* The bus: a byte ends when the handler, or the task, has done what the flags call for.
LEMMA I2cBusKeeps == I2cPrompt /\ I2cTypeOK /\ I2cOrderly /\ I2cBus => I2cKept
<1> SUFFICES ASSUME I2cPrompt, I2cTypeOK, I2cOrderly, I2cBus PROVE I2cKept
  OBVIOUS
<1>0. I2cPhaseOK /\ I2cFlagsOK /\ I2cCallOK
  BY DEF I2cOrderly
<1>1. /\ iIsr = "out" /\ ~HandlerHasWork /\ ~FlagUp
      /\ UNCHANGED <<iState, iLen, iNext, iRxSize, iAck, iCall, iLeft, iIsr, iTotal, iEvents, iCR2>>
  BY DEF I2cBus, StartCondition, StopCondition, SlaveAnswersAddress, ByteOut, ByteIn, BusStep, iHandle, iTask, iIrq
<1>2. /\ BlockingCall' <=> BlockingCall
      /\ I2cSends' <=> I2cSends
      /\ I2cReceives' <=> I2cReceives
      /\ I2cActive' <=> I2cActive
      /\ I2cLeft' = I2cLeft
  BY <1>1 DEF BlockingCall, I2cSends, I2cReceives, I2cActive, I2cLeft
<1>3. CASE StartCondition
  <2>1. /\ iStart /\ iBus' = "sb" /\ iStart' = FALSE /\ iBTF' = FALSE /\ ~iStop
        /\ UNCHANGED <<iStop, iDR, iShift, iRDR, iRShift, iBytesIn, iAF, iMoved>>
    BY <1>3 DEF StartCondition
  <2>2. I2cAsked
    BY <1>0, <2>1 DEF I2cPhaseOK, I2cAtRest, I2cAddressing, I2cSending, I2cReceiving, I2cRefused, I2cStuck
  <2>3. I2cAtFirstByte' /\ I2cQuiet'
    BY <1>1, <1>2, <2>1, <2>2 DEF I2cAsked, I2cAtFirstByte, I2cQuiet
  <2>4. I2cAddressing'
    BY <1>1, <1>2, <2>1, <2>2, <2>3 DEF I2cAsked, I2cAddressing
  <2>5. I2cFlagsOK'
    BY <1>0, <1>1, <2>1 DEF I2cFlagsOK
  <2>6. I2cTransferStep
    BY <1>1, <1>2, <2>1, I2cTransferSteps DEF I2cMapped, I2cActive
  <2> QED BY <2>4, <2>5, <2>6 DEF I2cKept, I2cPhaseOK
<1>4. CASE StopCondition
  <2>1. /\ iStop /\ iBus \in {"write", "refused"} /\ iBus' = "idle" /\ iStop' = FALSE /\ iBTF' = FALSE
        /\ UNCHANGED <<iStart, iDR, iShift, iRDR, iRShift, iBytesIn, iAF, iMoved>>
    BY <1>4 DEF StopCondition
  <2>2. ~I2cReceiving
    <3> SUFFICES ASSUME I2cReceiving PROVE FALSE
      OBVIOUS
    <3>1. iBus = "refused" /\ iRDR # 0 /\ iState = "READY"
      BY <2>1 DEF I2cReceiving
    <3>2. iCall = "receive"
      BY <1>0, <3>1 DEF I2cReceiving, I2cReceives, BlockingCall
    <3> QED BY <1>1, <3>1, <3>2 DEF FlagUp, RxNE
  <2>3. I2cQuiet => I2cQuiet'
    BY <1>1, <2>1 DEF I2cQuiet
  <2>4. I2cAtFirstByte => I2cAtFirstByte'
    BY <1>1, <1>2, <2>1 DEF I2cAtFirstByte
  <2>5. I2cAtRest => I2cAtRest'
    BY <1>2, <2>1, <2>3 DEF I2cAtRest
  <2>6. I2cAsked => I2cAsked'
    BY <1>1, <1>2, <2>1, <2>3, <2>4 DEF I2cAsked
  <2>7. I2cStuck => I2cStuck'
    BY <1>1, <2>1, <2>3 DEF I2cStuck
  <2>8. ~I2cAddressing /\ ~I2cSending /\ ~I2cRefused
    BY <2>1 DEF I2cAddressing, I2cSending, I2cRefused
  <2>9. I2cPhaseOK'
    BY <1>0, <2>2, <2>5, <2>6, <2>7, <2>8 DEF I2cPhaseOK
  <2>10. I2cFlagsOK'
    BY <1>0, <1>1, <2>1 DEF I2cFlagsOK
  <2>11. I2cTransferStep
    BY <1>1, <1>2, <2>1, I2cTransferSteps DEF I2cMapped, I2cActive
  <2> QED BY <2>9, <2>10, <2>11 DEF I2cKept
<1>5. CASE SlaveAnswersAddress
  <2>1. /\ iBus \in {"address write", "address read"}
        /\ \/ iBus = "address write" /\ iBus' = "addressed write" /\ UNCHANGED iAF
           \/ iBus = "address read" /\ iBus' = "addressed read" /\ UNCHANGED iAF
           \/ iBus' = "refused" /\ iAF' = TRUE
        /\ UNCHANGED <<iStart, iStop, iDR, iShift, iBTF, iRDR, iRShift, iBytesIn, iMoved>>
    BY <1>5 DEF SlaveAnswersAddress
  <2>2. I2cAddressing
    BY <1>0, <2>1 DEF I2cPhaseOK, I2cAtRest, I2cAsked, I2cSending, I2cReceiving, I2cRefused, I2cStuck
  <2>3. I2cAtFirstByte' /\ I2cQuiet'
    BY <1>1, <1>2, <2>1, <2>2 DEF I2cAddressing, I2cAtFirstByte, I2cQuiet
  <2>4. I2cAddressing' \/ I2cRefused'
    <3>1. CASE iBus' = "refused"
      BY <1>1, <1>2, <2>1, <2>2, <2>3, <3>1 DEF I2cAddressing, I2cRefused
    <3>2. CASE iBus' # "refused"
      BY <1>1, <1>2, <2>1, <2>2, <2>3, <3>2 DEF I2cAddressing
    <3> QED BY <3>1, <3>2
  <2>5. I2cFlagsOK'
    BY <1>0, <1>1, <2>1 DEF I2cFlagsOK
  <2>6. I2cTransferStep
    BY <1>1, <1>2, <2>1, I2cTransferSteps DEF I2cMapped, I2cActive
  <2> QED BY <2>4, <2>5, <2>6 DEF I2cKept, I2cPhaseOK
<1>6. CASE ByteOut
  <2>1. /\ iBus = "write" /\ iShift # 0
        /\ UNCHANGED <<iStart, iStop, iRDR, iRShift, iBytesIn>>
    BY <1>6 DEF ByteOut
  <2>2. I2cSending
    BY <1>0, <2>1 DEF I2cPhaseOK, I2cAtRest, I2cAsked, I2cAddressing, I2cReceiving, I2cRefused, I2cStuck, I2cQuiet
  <2>3. /\ iMoved \in Seq(Nat) /\ Len(iMoved) \in Nat /\ I2cLeft \in Nat /\ iTotal \in Nat
        /\ iShift = Len(iMoved) + 1 /\ iDR \in {0, Len(iMoved) + 2}
        /\ I2cInFlight = (IF iDR = 0 THEN 1 ELSE 2)
        /\ I2cLeft + Len(iMoved) + I2cInFlight = iTotal
        /\ ~iBTF
    <3>1. /\ iMoved \in Seq(Nat) /\ I2cLeft \in Nat /\ iTotal \in Nat
          /\ iDR \in {0, Len(iMoved) + 2} /\ I2cLeft + Len(iMoved) + I2cInFlight = iTotal
      BY <1>0, <2>2 DEF I2cSending, I2cTypeOK
    <3>2. Len(iMoved) \in Nat
      BY <3>1
    <3>3. iShift = Len(iMoved) + 1 /\ ~iBTF
      BY <2>1, <2>2 DEF I2cSending
    <3>4. I2cInFlight = (IF iDR = 0 THEN 1 ELSE 2)
      BY <2>1 DEF I2cInFlight
    <3> QED BY <3>1, <3>2, <3>3, <3>4
  <2>4. I2cActive /\ (BlockingCall => iCall = "send" /\ iState = "READY")
    BY <1>0, <2>2 DEF I2cSending, I2cSends, I2cActive, BlockingCall, I2cCallOK
  \* With nothing in DR there is nothing left to send.
  <2>5. iDR = 0 => I2cLeft = 0
    <3> SUFFICES ASSUME iDR = 0, I2cLeft > 0 PROVE FALSE
      BY <2>3
    <3>1. TxE
      BY <2>1 DEF TxE
    <3>2. CASE iState = "READY"
      <4>1. iCall = "send" /\ iLeft > 0
        BY <2>4, <3>2 DEF I2cActive, I2cLeft
      <4> QED BY <1>1, <3>1, <4>1 DEF FlagUp
    <3>3. CASE iState # "READY"
      <4>1. iLen > 0 /\ iState = "BUSY_TX"
        BY <1>0, <2>2, <3>3 DEF I2cLeft, I2cSending, I2cSends, I2cCallOK, BlockingCall
      <4>2. "ITEVTEN" \in iCR2 /\ "ITBUFEN" \in iCR2
        BY <1>0, <2>2, <3>3 DEF I2cSending, I2cCallOK
      <4> QED BY <1>1, <3>1, <4>1, <4>2 DEF HandlerHasWork, EventPending
    <3> QED BY <3>2, <3>3
  <2>6. CASE iAF' = TRUE /\ iBus' = "refused" /\ iShift' = 0 /\ iDR' = 0 /\ UNCHANGED <<iMoved, iBTF>>
    <3>1. I2cQuiet'
      BY <1>1, <2>1, <2>2, <2>6 DEF I2cQuiet, I2cSending
    <3>2. I2cRefused'
      BY <1>1, <1>2, <2>1, <2>2, <2>4, <2>6, <3>1 DEF I2cSending, I2cRefused
    <3>3. I2cFlagsOK'
      BY <1>0, <1>1, <2>1, <2>3, <2>6 DEF I2cFlagsOK
    <3>4. I2cTransferStep
      BY <1>1, <1>2, <2>6, I2cTransferSteps DEF I2cMapped, I2cActive
    <3> QED BY <3>2, <3>3, <3>4 DEF I2cKept, I2cPhaseOK
  <2>7. CASE iMoved' = Append(iMoved, iShift) /\ iShift' = iDR /\ iDR' = 0 /\ iBTF' = (iDR = 0) /\ UNCHANGED <<iBus, iAF>>
    <3>1. iMoved' = Append(iMoved, Len(iMoved) + 1) /\ Len(iMoved') = Len(iMoved) + 1 /\ iMoved' \in Seq(Nat)
      BY <2>3, <2>7
    <3>2. I2cInFlight' = I2cInFlight - 1
      BY <2>3, <2>7 DEF I2cInFlight
    <3>3. I2cLeft' + Len(iMoved') + I2cInFlight' = iTotal'
      <4>1. I2cLeft' = I2cLeft /\ iTotal' = iTotal /\ I2cInFlight \in {1, 2}
        BY <1>1, <1>2, <2>3
      <4> DEFINE moved == Len(iMoved)
      <4>2. moved \in Nat /\ I2cLeft \in Nat /\ I2cLeft + moved + I2cInFlight = iTotal
        BY <2>3
      <4>3. Len(iMoved') = moved + 1
        BY <3>1
      <4> HIDE DEF moved
      <4>4. I2cLeft + (moved + 1) + (I2cInFlight - 1) = iTotal
        BY <4>1, <4>2
      <4> QED BY <3>2, <4>1, <4>3, <4>4
    <3>4. iState' = "BUSY_TX" => iNext' = Len(iMoved') + 1 + I2cInFlight'
      <4>1. iState' = "BUSY_TX" => iNext' = Len(iMoved) + 1 + I2cInFlight
        BY <1>1, <2>2 DEF I2cSending
      <4>2. I2cInFlight \in {1, 2}
        BY <2>3
      <4> QED BY <2>3, <3>1, <3>2, <4>1, <4>2
    <3>5. /\ iShift' \in {0, Len(iMoved') + 1} /\ iDR' = 0 /\ I2cLeft' \in Nat
          /\ iBTF' => I2cLeft' = 0 /\ iShift' = 0
      <4>1. I2cLeft' = I2cLeft
        BY <1>1, <1>2
      <4>2. CASE iDR = 0
        BY <2>3, <2>5, <2>7, <4>1, <4>2
      <4>3. CASE iDR # 0
        <5>1. ~iBTF'
          BY <2>7, <4>3
        <5>2. iShift' = Len(iMoved') + 1
          BY <2>3, <2>7, <3>1, <4>3
        <5> QED BY <2>3, <2>7, <4>1, <5>1, <5>2
      <4> QED BY <4>2, <4>3
    <3>6. I2cSending'
      BY <1>1, <1>2, <2>1, <2>2, <2>7, <3>1, <3>3, <3>4, <3>5 DEF I2cSending
    <3>7. I2cFlagsOK'
      BY <1>0, <1>1, <2>1, <2>7 DEF I2cFlagsOK
    <3>8. Len(iMoved) < iTotal
      BY <2>3
    <3>9. I2cTransferStep
      BY <1>1, <1>2, <2>4, <3>1, <3>8, I2cTransferSteps DEF I2cActive
    <3> QED BY <3>6, <3>7, <3>9 DEF I2cKept, I2cPhaseOK
  <2> QED BY <1>6, <2>6, <2>7 DEF ByteOut
<1>7. CASE ByteIn
  <2>1. /\ iBus = "read" /\ iBytesIn' = iBytesIn + 1
        /\ IF iRDR = 0 THEN iRDR' = iBytesIn + 1 /\ UNCHANGED iRShift
                       ELSE iRShift' = iBytesIn + 1 /\ UNCHANGED iRDR
        /\ iBus' = (IF iAck THEN "read" ELSE "refused")
        /\ UNCHANGED <<iStart, iStop, iDR, iShift, iBTF, iAF, iMoved>>
    BY <1>7 DEF ByteIn
  <2>2. I2cReceiving
    BY <1>0, <2>1 DEF I2cPhaseOK, I2cAtRest, I2cAsked, I2cAddressing, I2cSending, I2cRefused, I2cStuck
  \* The byte before has been read.
  <2>3. iRDR = 0
    <3> SUFFICES ASSUME RxNE PROVE FALSE
      BY DEF RxNE
    <3>1. CASE iState = "READY"
      <4>1. iCall = "receive"
        BY <1>0, <2>2, <3>1 DEF I2cReceiving, I2cReceives, BlockingCall
      <4> QED BY <1>1, <4>1 DEF FlagUp
    <3>2. CASE iState # "READY"
      <4>1. iState = "BUSY_RX"
        BY <1>0, <2>2, <3>2 DEF I2cReceiving, I2cReceives, I2cCallOK, BlockingCall
      <4>2. "ITEVTEN" \in iCR2 /\ "ITBUFEN" \in iCR2
        BY <1>0, <2>2, <3>2 DEF I2cReceiving, I2cCallOK
      <4> QED BY <1>1, <4>1, <4>2 DEF HandlerHasWork, EventPending
    <3> QED BY <3>1, <3>2
  <2>4. /\ iMoved \in Seq(Nat) /\ Len(iMoved) \in Nat /\ I2cLeft \in Nat /\ I2cLeft > 0
        /\ I2cLeft + Len(iMoved) = iTotal /\ iBytesIn = Len(iMoved)
        /\ (iAck <=> I2cLeft > 1)
    BY <1>1, <2>1, <2>2, <2>3 DEF I2cReceiving
  <2>5. iRDR' = Len(iMoved) + 1 /\ iRDR' # 0 /\ iRShift' = iRShift /\ iBytesIn' = Len(iMoved) + 1 /\ iMoved' = iMoved
    BY <2>1, <2>3, <2>4
  <2>6. /\ iBus' = "read" => iAck' /\ I2cLeft' > 1
        /\ iBus' = "refused" => I2cLeft' = 1
        /\ iBus' \in {"read", "refused"}
    <3>1. CASE iAck
      BY <1>1, <1>2, <2>1, <2>4, <3>1
    <3>2. CASE ~iAck
      BY <1>1, <1>2, <2>1, <2>4, <3>2
    <3> QED BY <3>1, <3>2
  <2>7. I2cReceiving'
    BY <1>1, <1>2, <2>1, <2>2, <2>4, <2>5, <2>6 DEF I2cReceiving
  <2>8. I2cFlagsOK'
    <3>1. iBytesIn' <= iTotal'
      BY <1>1, <2>4, <2>5
    <3> QED BY <1>0, <2>1, <2>5, <3>1 DEF I2cFlagsOK
  <2>9. I2cTransferStep
    BY <1>1, <1>2, <2>5, I2cTransferSteps DEF I2cMapped, I2cActive
  <2> QED BY <2>7, <2>8, <2>9 DEF I2cKept, I2cPhaseOK
<1> QED BY <1>3, <1>4, <1>5, <1>6, <1>7 DEF I2cBus

\* One step of the driver or the bus, once no store has lost the handler's.
LEMMA I2cInvStep ==
    I2cPrompt /\ ~I2cSendAfterRS /\ I2cInv /\ [I2cNext]_iVars => I2cInv' /\ I2cTransferStep
<1> SUFFICES ASSUME I2cPrompt, ~I2cSendAfterRS, I2cInv, [I2cNext]_iVars PROVE I2cInv' /\ I2cTransferStep
  OBVIOUS
<1>1. I2cTypeOK'
  BY I2cTypeStep DEF I2cInv
<1>2. CASE UNCHANGED iVars
  <2>1. UNCHANGED <<iState, iLen, iNext, iRxSize, iStart, iStop, iAck, iBus, iDR, iShift, iBTF, iRDR, iRShift,
                    iAF, iLeft, iTotal, iMoved, iEvents, iBytesIn, iIsr, iCall, iCR2, iClobbered>>
    BY <1>2 DEF iVars, iHandle, iCR1, iLine, iTask, iIrq, iHistory
  <2>2. I2cTransferStep
    BY <2>1, I2cTransferSteps DEF I2cMapped, I2cActive, BlockingCall
  <2>3. CASE iClobbered
    BY <1>1, <2>1, <2>2, <2>3 DEF I2cInv
  <2>4. CASE ~iClobbered
    <3>1. I2cKept
      BY <2>1, <2>4, I2cSamePhase DEF I2cInv, I2cOrderly
    <3>2. I2cCallOK'
      BY <2>1, <2>4, I2cCallStep
    <3> QED BY <1>1, <3>1, <3>2 DEF I2cKept, I2cInv, I2cOrderly, I2cFlagsOK
  <2> QED BY <2>3, <2>4
<1>3. CASE I2cNext
  <2>1. ~iClobbered /\ I2cTypeOK /\ I2cOrderly
    BY <1>3 DEF I2cNext, I2cInv
  <2>2. iClobbered' \/ I2cCallOK'
    BY <2>1, I2cCallStep
  <2>3. I2cKept \/ I2cLost
    BY <1>3, <2>1, I2cCallKeeps, I2cTaskKeeps, I2cHandlerKeeps, I2cBusKeeps DEF I2cNext
  <2> QED BY <1>1, <2>2, <2>3 DEF I2cKept, I2cLost, I2cInv, I2cOrderly, I2cFlagsOK
<1> QED BY <1>2, <1>3

\* The slave is never asked for a byte more than the reception's length (I2C.c: ACK is off
\* before the last byte is clocked in), if the handler takes less than a byte's time.
THEOREM I2cRefusesLastByte == I2cPrompt /\ ~I2cSendAfterRS => (I2cSpec => []I2cLastByteRefused)
<1> SUFFICES ASSUME I2cPrompt, ~I2cSendAfterRS PROVE I2cSpec => []I2cLastByteRefused
  OBVIOUS
<1>1. I2cInv /\ [I2cNext]_iVars => I2cInv'
  BY I2cInvStep
<1>2. I2cInv => I2cLastByteRefused
  BY DEF I2cInv, I2cLastByteRefused
<1> QED BY I2cInitInv, <1>1, <1>2, PTL DEF I2cSpec

\* Transfers, blocking or interrupt driven, implement Transfer unless the slave refuses.
THEOREM I2cTransfers == I2cPrompt /\ ~I2cSendAfterRS => (I2cSpec => I2cMoves)
<1> SUFFICES ASSUME I2cPrompt, ~I2cSendAfterRS PROVE I2cSpec => I2cMoves
  OBVIOUS
<1>1. I2cInv /\ [I2cNext]_iVars => I2cInv' /\ [iAF \/ I2cTransfer!Next]_<<I2cTransfer!vars>>
  BY I2cInvStep DEF I2cTransferStep
<1> QED BY I2cInitInv, <1>1, PTL DEF I2cSpec, I2cMoves

-----------------------------------------------------------------------------
(* USART_init, I2C_init, SPI_init and rcc.c.                                *)

\* Where the settings can be what was asked for: RE, TE and the flow control are not asked to go
\* away without USART_deinit, and CCR has twelve bits.
SettingsWithinLimits == ~XUsartAgain /\ \A speed \in XI2cSpeeds : speed >= 1954

\* The divisors of the clock tree.
PowersOfTwo ==
    /\ 2 ^ 0 = 1 /\ 2 ^ 1 = 2 /\ 2 ^ 2 = 4 /\ 2 ^ 3 = 8 /\ 2 ^ 4 = 16
    /\ 2 ^ 6 = 64 /\ 2 ^ 7 = 128 /\ 2 ^ 8 = 256 /\ 2 ^ 9 = 512

\* They are what they are.
LEMMA Powers == PowersOfTwo
  BY DEF PowersOfTwo

\* PossiblePscals is the table of the reference manual, which skips 32.
LEMMA AhbTable ==
  ASSUME NEW s \in 1 .. 8
  PROVE  PossiblePscals[s] = 2 ^ (IF s > 4 THEN s + 1 ELSE s)
<1>1. CASE s = 1  BY <1>1, Powers DEF PossiblePscals, PowersOfTwo
<1>2. CASE s = 2  BY <1>2, Powers DEF PossiblePscals, PowersOfTwo
<1>3. CASE s = 3  BY <1>3, Powers DEF PossiblePscals, PowersOfTwo
<1>4. CASE s = 4  BY <1>4, Powers DEF PossiblePscals, PowersOfTwo
<1>5. CASE s = 5  BY <1>5, Powers DEF PossiblePscals, PowersOfTwo
<1>6. CASE s = 6  BY <1>6, Powers DEF PossiblePscals, PowersOfTwo
<1>7. CASE s = 7  BY <1>7, Powers DEF PossiblePscals, PowersOfTwo
<1>8. CASE s = 8  BY <1>8, Powers DEF PossiblePscals, PowersOfTwo
<1> QED BY <1>1, <1>2, <1>3, <1>4, <1>5, <1>6, <1>7, <1>8

\* The fields of RCC->CFGR without the PLL.
ClockTrees == [SW : {0, 1}, HPRE : 0 .. 15, PPRE1 : 0 .. 7, PPRE2 : 0 .. 7]

\* The AHB clock is the manual's, and what it can be.
LEMMA AhbIsTrue ==
  ASSUME xCFGR \in ClockTrees
  PROVE  /\ AhbClock(xCFGR) = TrueAhb
         /\ AhbClock(xCFGR) \in Nat
         /\ AhbClock(xCFGR) \in {16000000, 8000000, 4000000} \/ AhbClock(xCFGR) <= 2000000
<1> DEFINE clock == SystemClock(xCFGR)
           s == xCFGR.HPRE - 7
<1>1. clock \in {8000000, 16000000}
  BY DEF SystemClock
<1>2. xCFGR.HPRE \in 0 .. 15
  BY DEF ClockTrees
<1>3. CASE xCFGR.HPRE < 8
  <2>1. AhbClock(xCFGR) = clock \div 1
    BY <1>3 DEF AhbClock
  <2>2. TrueAhb = clock \div 2 ^ 0
    BY <1>3 DEF TrueAhb, Divided, SystemClock
  <2>3. clock \div 1 = clock
    BY <1>1
  <2> HIDE DEF clock
  <2> QED BY <1>1, <2>1, <2>2, <2>3, Powers DEF PowersOfTwo
<1>4. CASE ~(xCFGR.HPRE < 8)
  <2>1. s \in 1 .. 8
    BY <1>2, <1>4
  <2>2. AhbClock(xCFGR) = clock \div PossiblePscals[s]
    BY <1>4 DEF AhbClock
  <2>3. TrueAhb = clock \div 2 ^ (IF s > 4 THEN s + 1 ELSE s)
    BY <1>4 DEF TrueAhb, Divided, SystemClock
  <2>4. AhbClock(xCFGR) = TrueAhb
    BY <2>1, <2>2, <2>3, AhbTable
  <2>5. PossiblePscals[s] \in {2, 4, 8, 16, 64, 128, 256, 512}
    BY <2>1 DEF PossiblePscals
  <2> HIDE DEF clock, s
  <2>6. clock \div PossiblePscals[s] \in Nat
        /\ (clock \div PossiblePscals[s] \in {16000000, 8000000, 4000000} \/ clock \div PossiblePscals[s] <= 2000000)
    <3> DEFINE d == PossiblePscals[s]
    <3> SUFFICES ASSUME d \in {2, 4, 8, 16, 64, 128, 256, 512}
                 PROVE  clock \div d \in Nat /\ (clock \div d \in {16000000, 8000000, 4000000} \/ clock \div d <= 2000000)
      BY <2>5
    <3> HIDE DEF d
    <3>1. CASE clock = 8000000   BY <3>1
    <3>2. CASE clock = 16000000  BY <3>2
    <3> QED BY <1>1, <3>1, <3>2
  <2> QED BY <2>2, <2>4, <2>6
<1> QED BY <1>3, <1>4

\* So is a peripheral bus's.
LEMMA ApbIsTrue ==
  ASSUME xCFGR \in ClockTrees, NEW ppre \in 0 .. 7
  PROVE  /\ ApbClock(xCFGR, ppre) = TruePclk(ppre)
         /\ ApbClock(xCFGR, ppre) \in Nat
         /\ ApbClock(xCFGR, ppre) \in {16000000, 8000000, 4000000} \/ ApbClock(xCFGR, ppre) <= 2000000
<1> DEFINE ahb == AhbClock(xCFGR)
<1>1. ahb = TrueAhb /\ ahb \in Nat /\ (ahb \in {16000000, 8000000, 4000000} \/ ahb <= 2000000)
  BY AhbIsTrue
<1>2. CASE ppre < 4
  <2>1. ApbClock(xCFGR, ppre) = ahb \div 1
    BY <1>2 DEF ApbClock
  <2>2. TruePclk(ppre) = TrueAhb \div 2 ^ 0
    BY <1>2 DEF TruePclk, Divided
  <2> HIDE DEF ahb
  <2>3. ahb \div 1 = ahb
    BY <1>1
  <2> QED BY <1>1, <2>1, <2>2, <2>3, Powers DEF PowersOfTwo
<1>3. CASE ~(ppre < 4)
  <2> DEFINE s == ppre - 3
  <2>1. s \in 1 .. 4
    BY <1>3
  <2>2. ApbClock(xCFGR, ppre) = ahb \div PossiblePscals[s]
    BY <1>3 DEF ApbClock
  <2>3. TruePclk(ppre) = TrueAhb \div 2 ^ s
    BY <1>3 DEF TruePclk, Divided
  <2>4. PossiblePscals[s] = 2 ^ s
    <3>1. s \in 1 .. 8 /\ ~(s > 4)
      BY <2>1
    <3> HIDE DEF s
    <3>2. PossiblePscals[s] = 2 ^ (IF s > 4 THEN s + 1 ELSE s)
      BY <3>1, AhbTable
    <3> QED BY <3>1, <3>2
  <2>5. PossiblePscals[s] \in {2, 4, 8, 16}
    BY <2>1 DEF PossiblePscals
  <2> HIDE DEF ahb, s
  <2>6. ahb \div PossiblePscals[s] \in Nat
        /\ (ahb \div PossiblePscals[s] \in {16000000, 8000000, 4000000} \/ ahb \div PossiblePscals[s] <= 2000000)
    <3> DEFINE d == PossiblePscals[s]
    <3> SUFFICES ASSUME d \in {2, 4, 8, 16}
                 PROVE  ahb \div d \in Nat /\ (ahb \div d \in {16000000, 8000000, 4000000} \/ ahb \div d <= 2000000)
      BY <2>5
    <3> HIDE DEF d
    <3>1. CASE ahb = 4000000   BY <3>1
    <3>2. CASE ahb = 8000000   BY <3>2
    <3>3. CASE ahb = 16000000  BY <3>3
    <3>4. CASE ahb <= 2000000  BY <1>1, <3>4
    <3> QED BY <1>1, <3>1, <3>2, <3>3, <3>4
  <2> QED BY <1>1, <2>2, <2>3, <2>4, <2>6
<1> QED BY <1>2, <1>3

\* What a division loses is less than the divisor.
LEMMA QuotientBounds ==
  ASSUME NEW p \in Nat, NEW d \in Nat \ {0}
  PROVE  /\ p \div d \in Nat
         /\ (p \div d) * d <= p /\ p < (p \div d + 1) * d
  OBVIOUS

\* The baud rate register is the clock over the baud rate to the rounding of Close, for just
\* the rates the divider can be computed for.
LEMMA BrrIsClose ==
  ASSUME NEW P \in Nat, P <= 16000000, NEW B \in Nat, B >= 1200
  PROVE  Close(UsartBRR(P, B), P, B) <=> BaudFits(P, B)
<1> DEFINE u == (100 * P) \div (16 * B)
           M == u \div 100
           r == u % 100
           F == ((r * 16 + 50) \div 100) % 16
           brr == 16 * M + F
           y == brr * B
           v == B * u
<1>1. u \in Nat /\ 16 * v <= 100 * P /\ 100 * P < 16 * v + 16 * B /\ v \in Nat
  <2> DEFINE p == 100 * P  b == 16 * B
  <2>1. p \in Nat /\ b \in Nat \ {0}
    OBVIOUS
  <2> HIDE DEF p, b
  <2>2. /\ p \div b \in Nat
        /\ (p \div b) * b <= p /\ p < (p \div b + 1) * b
    BY <2>1, QuotientBounds
  <2>3. b * (p \div b) <= p /\ p < b * (p \div b) + b
    BY <2>1, <2>2
  <2> QED BY <2>2, <2>3 DEF p, b
<1>2. BaudFits(P, B) <=> 16 * B <= P /\ r < 97
  BY DEF BaudFits
<1> HIDE DEF u
<1>3. M \in Nat /\ r \in 0 .. 99 /\ u = 100 * M + r
  BY <1>1
<1>4. v >= 1200 * u
  BY <1>1
<1>5. M < 4096
  BY <1>1, <1>3, <1>4
<1>6. F \in 0 .. 15
  BY <1>3
<1>7. (r < 97 => F = (r * 16 + 50) \div 100) /\ (r >= 97 => F = 0)
  <2>1. CASE r < 97
    BY <1>3, <2>1
  <2>2. CASE r >= 97
    <3>1. r \in {97, 98, 99}
      BY <1>3, <2>2
    <3> QED BY <2>2, <3>1
  <2> QED BY <1>3, <2>1, <2>2
<1> HIDE DEF M, r, F
<1>8. UsartBRR(P, B) = brr /\ brr \in Nat
  <2>1. UsartBRR(P, B) = brr % 65536
    BY DEF UsartBRR, u, M, r, F
  <2>2. brr \in Nat /\ brr < 65536
    BY <1>3, <1>5, <1>6
  <2> HIDE DEF brr
  <2> QED BY <2>1, <2>2
<1>9. Close(UsartBRR(P, B), P, B) <=> brr >= 16 /\ 2 * y <= 2 * P + B /\ 3 * P < 3 * y + 2 * B
  <2>1. 2 * brr * B = 2 * y /\ (3 * brr + 2) * B = 3 * y + 2 * B
    BY <1>8
  <2> HIDE DEF brr, y
  <2> QED BY <1>8, <2>1 DEF Close
<1>10. brr >= 16 <=> 16 * B <= P
  <2>1. brr >= 16 <=> u >= 100
    BY <1>3, <1>6
  <2>2. u >= 100 => v >= 100 * B
    BY <1>1
  <2>3. u < 100 => v <= 99 * B
    BY <1>1
  <2> HIDE DEF v
  <2> QED BY <1>1, <2>1, <2>2, <2>3
<1>11. CASE r < 97
  <2> DEFINE e == 100 * F - 16 * r  w == e * B
  <2>1. e \in Int /\ -50 <= e /\ e <= 50
    BY <1>3, <1>6, <1>7, <1>11
  <2>2. 100 * brr = 16 * u + e
    BY <1>3, <1>6
  <2> HIDE DEF brr, e
  <2>3. 100 * y = 16 * v + w
    BY <1>1, <1>8, <2>1, <2>2
  <2>4. -50 * B <= w /\ w <= 50 * B /\ w \in Int
    BY <2>1
  <2>5. y \in Int
    BY <1>8
  <2> HIDE DEF y, v, w
  <2>6. 2 * y <= 2 * P + B /\ 3 * P < 3 * y + 2 * B
    BY <1>1, <2>3, <2>4, <2>5
  <2> QED BY <1>2, <1>3, <1>9, <1>10, <1>11, <2>6
<1>12. CASE r >= 97
  <2>1. brr = 16 * M /\ u >= 100 * M + 97
    BY <1>3, <1>7, <1>12
  <2> DEFINE z == M * B
  <2>2. y = 16 * z /\ z \in Int /\ v >= 100 * z + 97 * B
    <3>1. v >= (100 * M + 97) * B
      BY <1>1, <1>3, <2>1
    <3> QED BY <1>3, <2>1, <3>1
  <2> HIDE DEF y, z, v
  <2>3. ~(3 * P < 3 * y + 2 * B)
    BY <1>1, <2>2
  <2> QED BY <1>2, <1>3, <1>9, <1>12, <2>3
<1> QED BY <1>3, <1>11, <1>12

\* CCR gives the clock asked for to one step, if it fits in its twelve bits.
LEMMA CcrIsClose ==
  ASSUME NEW P \in Nat, P <= 16000000, NEW low \in Nat, low >= 2, NEW speed \in Nat, speed >= 1954
  PROVE  LET ccr == (P \div (low * speed)) % 4096
         IN  ccr * low * speed <= P /\ P < (ccr + 1) * low * speed
<1> DEFINE d == low * speed
           q == P \div d
           ccr == (P \div (low * speed)) % 4096
<1>1. d \in Nat /\ d >= 3908
  BY SMTT(30)
<1>2. ccr = q % 4096
  OBVIOUS
<1> SUFFICES ccr * low * speed <= P /\ P < (ccr + 1) * low * speed
  OBVIOUS
<1> HIDE DEF ccr
<1> HIDE DEF d
<1>3. q \in Nat /\ q * d <= P /\ P < (q + 1) * d
  BY <1>1, QuotientBounds
<1> HIDE DEF q
<1>4. q < 4096
  <2> SUFFICES ASSUME q >= 4096 PROVE FALSE
    BY <1>3
  <2>1. q * d >= 4096 * 3908
    BY <1>1, <1>3
  <2> QED BY <1>1, <1>3, <2>1
<1>5. ccr = q
  BY <1>2, <1>3, <1>4
<1>6. ccr * low * speed = q * d /\ (ccr + 1) * low * speed = (q + 1) * d
  BY <1>3, <1>5 DEF d
<1> QED BY <1>3, <1>6

\* The rise time is a microsecond in standard mode and 300 ns in fast mode, as long as
\* pclk * 300 fits in 32 bits.
LEMMA RiseTimeIsRight ==
  ASSUME NEW P \in Nat, P \in {16000000, 8000000, 4000000} \/ P <= 2000000, NEW c
  PROVE  StandardMode(c) \/ P < 14316557 =>
            I2cTRISE(P, c) = 1 + (IF StandardMode(c) THEN P \div 1000000
                                                     ELSE ((P \div 10000) * 3) \div 1000)
<1>1. CASE StandardMode(c)
  <2>1. P \div 1000000 \in 0 .. 16
    OBVIOUS
  <2>2. I2cTRISE(P, c) = (P \div 1000000 + 1) % 64
    BY <1>1 DEF I2cTRISE
  <2> QED BY <1>1, <2>1, <2>2
<1>2. CASE ~StandardMode(c) /\ P < 14316557
  <2> DEFINE manual == ((P \div 10000) * 3) \div 1000
  <2>1. I2cTRISE(P, c) = (RiseTicksFast(P) + 1) % 64
    BY <1>2 DEF I2cTRISE
  <2>2. RiseTicksFast(P) = manual /\ manual \in 0 .. 2
    <3>1. CASE P = 8000000
      BY <3>1 DEF RiseTicksFast
    <3>2. CASE P = 4000000
      BY <3>2 DEF RiseTicksFast
    <3>3. CASE P <= 2000000
      <4>1. manual = 0
        BY <3>3
      <4>2. RiseTicksFast(P) = 0
        BY <3>3 DEF RiseTicksFast
      <4> QED BY <4>1, <4>2
    <3> QED BY <1>2, <3>1, <3>2, <3>3
  <2> HIDE DEF manual
  <2>3. I2cTRISE(P, c) = 1 + manual
    BY <2>1, <2>2
  <2> QED BY <1>2, <2>3 DEF manual
<1> QED BY <1>1, <1>2

\* What the registers hold: what was last asked for, or the state of reset.
UsartHolds ==
    \/ xUsartAsked = <<>> /\ xUsart = UsartReset
    \/ \E c \in UsartConfigs : xUsartAsked = <<c>> /\ UsartAsAsked(c)

I2cHolds == xI2cAsked = <<>> \/ \E c \in I2cConfigs : xI2cAsked = <<c>> /\ I2cAsAsked(c)

SpiHolds ==
    /\ DOMAIN xSpi = {"bits", "BR"}
    /\ \/ xSpiAsked = <<>>
       \/ \E c \in SpiConfigs :
             /\ xSpiAsked = <<c>>
             /\ xSpi.bits \ {"SPE", "SSI"} = c.device \cup BusBits(c.bus) \cup c.other
             /\ xSpi.BR = c.BR

\* The three together, and a clock tree that is one of those.
SettingsInv == xCFGR \in XClocks /\ UsartHolds /\ I2cHolds /\ SpiHolds

\* A driver's registers hold what they held as long as nothing writes them.
LEMMA HeldUntouched ==
  ASSUME xCFGR' = xCFGR
  PROVE  /\ UsartHolds /\ UNCHANGED <<xUsart, xUsartAsked>> => UsartHolds'
         /\ I2cHolds /\ UNCHANGED <<xI2c, xI2cAsked>> => I2cHolds'
         /\ SpiHolds /\ UNCHANGED <<xSpi, xSpiAsked>> => SpiHolds'
<1>1. ASSUME NEW ppre PROVE TruePclk(ppre)' = TruePclk(ppre)
  BY DEF TruePclk, TrueAhb, Divided
<1>2. ASSUME UsartHolds, UNCHANGED <<xUsart, xUsartAsked>> PROVE UsartHolds'
  <2>1. ASSUME NEW c, UsartAsAsked(c) PROVE UsartAsAsked(c)'
    BY <1>1, <1>2, <2>1 DEF UsartAsAsked
  <2> QED BY <1>2, <2>1 DEF UsartHolds
<1>3. ASSUME I2cHolds, UNCHANGED <<xI2c, xI2cAsked>> PROVE I2cHolds'
  <2>1. ASSUME NEW c, I2cAsAsked(c) PROVE I2cAsAsked(c)'
    BY <1>1, <1>3, <2>1 DEF I2cAsAsked
  <2> QED BY <1>3, <2>1 DEF I2cHolds
<1>4. ASSUME SpiHolds, UNCHANGED <<xSpi, xSpiAsked>> PROVE SpiHolds'
  BY <1>4 DEF SpiHolds
<1> QED BY <1>2, <1>3, <1>4

\* The frame, the flow control and the baud rate are those asked for, after whatever compatible call.
LEMMA UsartIsConfigured ==
  ASSUME SettingsWithinLimits, SettingsInv, NEW c \in UsartConfigs, Compatible(c), USART_init(c)
  PROVE  UsartHolds'
<1>1. c.mode \in XUsartModes /\ c.baud \in Nat /\ c.baud >= 1200 /\ c.stop \in XStops
      /\ c.flow \in XFlows /\ c.bus \in {1, 2} /\ c.parity \in {"none", "even", "odd"} /\ c.word \in {8, 9}
  <2>1. /\ c.mode \in XUsartModes /\ c.baud \in XBauds /\ c.stop \in XStops /\ c.flow \in XFlows
        /\ c.bus \in {1, 2} /\ c.parity \in {"none", "even", "odd"} /\ c.word \in {8, 9}
    BY DEF UsartConfigs
  <2>2. c.baud \in Nat /\ c.baud >= 1200
    BY <2>1, BaudsAssumption
  <2> QED BY <2>1, <2>2
<1>2. /\ c.mode \in {"RX", "TX", "TXRX"} /\ c.stop \in {"1", "0.5", "1.5", "2"}
      /\ c.flow \subseteq {"CTSE", "RTSE"}
  <2>1. /\ XStops \subseteq {"1", "0.5", "1.5", "2"} /\ XUsartModes \subseteq {"RX", "TX", "TXRX"}
        /\ XFlows \subseteq SUBSET {"CTSE", "RTSE"}
    BY UsartSettingsAssumption
  <2> QED BY <1>1, <2>1
<1>3. xUsart.CR1 \cap {"RE", "TE"} \in {{}, ModeBits(c.mode)} /\ xUsart.CR3 \in {{}, c.flow}
  <2>1. CASE xUsartAsked = <<>> /\ xUsart = UsartReset
    BY <2>1 DEF UsartReset
  <2>2. CASE \E b \in UsartConfigs : xUsartAsked = <<b>> /\ UsartAsAsked(b)
    <3> PICK b \in UsartConfigs : xUsartAsked = <<b>> /\ UsartAsAsked(b)
      BY <2>2
    <3>1. xUsartAsked[1] = b /\ 1 \in DOMAIN xUsartAsked
      OBVIOUS
    <3>2. c.mode = b.mode /\ c.flow = b.flow
      BY <3>1 DEF Compatible, SettingsWithinLimits
    <3> QED BY <3>2 DEF UsartAsAsked
  <2> QED BY <2>1, <2>2 DEF SettingsInv, UsartHolds
<1>4. xUsartAsked' = <<c>> /\ UNCHANGED <<xCFGR, xI2c, xI2cAsked, xSpi, xSpiAsked>>
  BY DEF USART_init
<1> DEFINE new == UsartCR1(xUsart.CR1, c)
<1>5. /\ xUsart'.CR1 = new
      /\ xUsart'.STOP = UsartSTOP(c.stop)
      /\ xUsart'.CR3 = UsartCR3(xUsart.CR3, c)
      /\ xUsart'.BRR = UsartBRR(IF c.bus = 2 THEN RCC_get_pclk2(xCFGR) ELSE RCC_get_pclk1(xCFGR), c.baud)
  BY DEF USART_init
<1>6. /\ new \cap {"RE", "TE"} = ModeBits(c.mode)
      /\ "M" \in new <=> c.word = 9
      /\ "PCE" \in new <=> c.parity # "none"
      /\ c.parity # "none" => ("PS" \in new <=> c.parity = "odd")
  <2>1. ModeBits(c.mode) \subseteq {"RE", "TE"}
    BY <1>2 DEF ModeBits
  <2>2. new \cap {"RE", "TE"} = ModeBits(c.mode)
    BY <1>3, <2>1 DEF UsartCR1
  <2>3. "M" \in new <=> c.word = 9
    BY <2>1 DEF UsartCR1
  <2>4. "PCE" \in new <=> c.parity # "none"
    BY <2>1 DEF UsartCR1
  <2>5. c.parity # "none" => ("PS" \in new <=> c.parity = "odd")
    BY <2>1 DEF UsartCR1
  <2> QED BY <2>2, <2>3, <2>4, <2>5
<1>7. UsartCR3(xUsart.CR3, c) = c.flow
  BY <1>3 DEF UsartCR3
<1>8. StopBits[UsartSTOP(c.stop) + 1] = StopsMade(c.stop)
  BY <1>2 DEF UsartSTOP, StopBits, StopsMade
<1> DEFINE manual == TruePclk(IF c.bus = 2 THEN xCFGR.PPRE2 ELSE xCFGR.PPRE1)
<1>9. Close(xUsart'.BRR, manual, c.baud) <=> BaudFits(manual, c.baud)
  <2> DEFINE ppre == IF c.bus = 2 THEN xCFGR.PPRE2 ELSE xCFGR.PPRE1
  <2>1. ppre \in 0 .. 7 /\ xCFGR \in ClockTrees
    BY ClocksAssumption DEF SettingsInv, ClockTrees
  <2>2. xUsart'.BRR = UsartBRR(ApbClock(xCFGR, ppre), c.baud)
    BY <1>5 DEF RCC_get_pclk1, RCC_get_pclk2
  <2> HIDE DEF ppre
  <2>3. /\ ApbClock(xCFGR, ppre) = TruePclk(ppre)
        /\ ApbClock(xCFGR, ppre) \in Nat /\ ApbClock(xCFGR, ppre) <= 16000000
    BY <2>1, ApbIsTrue
  <2>4. Close(xUsart'.BRR, TruePclk(ppre), c.baud) <=> BaudFits(TruePclk(ppre), c.baud)
    BY <1>1, <2>2, <2>3, BrrIsClose
  <2> QED BY <2>4 DEF ppre
<1>10. UsartAsAsked(c)'
  <2>1. manual' = manual
    BY <1>4 DEF TruePclk, TrueAhb, Divided
  <2> HIDE DEF new
  <2> QED BY <1>4, <1>5, <1>6, <1>7, <1>8, <1>9, <2>1 DEF UsartAsAsked

<1> QED BY <1>4, <1>10 DEF UsartHolds

\* So are the mode, the clock and the rise time.
LEMMA I2cIsConfigured ==
  ASSUME SettingsWithinLimits, SettingsInv, NEW c \in I2cConfigs, I2C_init(c)
  PROVE  I2cHolds'
<1> DEFINE pclk == ApbClock(xCFGR, xCFGR.PPRE1)
           low == IF StandardMode(c) THEN 2 ELSE IF c.duty = 1 THEN 25 ELSE 3
           manual == TruePclk(xCFGR.PPRE1)
<1>1. c.speed \in Nat /\ c.speed >= 1954 /\ c.duty \in {0, 1}
  <2>1. c.speed \in XI2cSpeeds /\ c.duty \in {0, 1}
    BY DEF I2cConfigs
  <2>2. c.speed >= 1954
    BY <2>1 DEF SettingsWithinLimits
  <2>3. c.speed \in Nat
    BY <2>1, I2cSettingsAssumption
  <2> QED BY <2>1, <2>2, <2>3
<1>2. /\ xI2cAsked' = <<c>> /\ xCFGR' = xCFGR
      /\ xI2c'.mode = I2cMode(xI2c.mode, c)
      /\ xI2c'.CCR = (pclk \div (low * c.speed)) % 4096
      /\ xI2c'.TRISE = I2cTRISE(pclk, c)
  BY DEF I2C_init, RCC_get_pclk1, I2cCCR
<1>3. /\ pclk = manual /\ pclk \in Nat
      /\ pclk \in {16000000, 8000000, 4000000} \/ pclk <= 2000000
  <2>1. xCFGR \in ClockTrees /\ xCFGR.PPRE1 \in 0 .. 7
    BY ClocksAssumption DEF SettingsInv, ClockTrees
  <2> QED BY <2>1, ApbIsTrue
<1>4. manual' = manual
  BY <1>2 DEF TruePclk, TrueAhb, Divided
<1>5. /\ "FS" \in xI2c'.mode <=> ~StandardMode(c)
      /\ ~StandardMode(c) => ("DUTY" \in xI2c'.mode <=> c.duty = 1)
  BY <1>2 DEF I2cMode
<1>6. low \in Nat /\ low >= 2
      /\ low = IF StandardMode(c) THEN 2 ELSE IF "DUTY" \in xI2c'.mode THEN 25 ELSE 3
  BY <1>1, <1>5
<1> HIDE DEF pclk, low, manual
<1>7. xI2c'.CCR * low * c.speed <= manual /\ manual < (xI2c'.CCR + 1) * low * c.speed
  <2> DEFINE ccr == xI2c'.CCR  speed == c.speed
  <2>1. pclk \in Nat /\ pclk <= 16000000 /\ pclk = manual
    BY <1>3
  <2>2. ccr = (pclk \div (low * speed)) % 4096
    BY <1>2
  <2>3. low \in Nat /\ low >= 2 /\ speed \in Nat /\ speed >= 1954
    BY <1>1, <1>6
  <2> HIDE DEF ccr, speed
  <2>4. ccr * low * speed <= pclk /\ pclk < (ccr + 1) * low * speed
    BY <2>1, <2>2, <2>3, CcrIsClose, SMT
  <2> QED BY <2>1, <2>4 DEF ccr, speed
<1>8. StandardMode(c) \/ manual < 14316557 =>
        xI2c'.TRISE = 1 + (IF StandardMode(c) THEN manual \div 1000000
                                              ELSE ((manual \div 10000) * 3) \div 1000)
  BY <1>2, <1>3, RiseTimeIsRight
<1>9. I2cAsAsked(c)'
  BY <1>4, <1>5, <1>6, <1>7, <1>8 DEF I2cAsAsked, manual
<1> QED BY <1>2, <1>9 DEF I2cHolds

\* The SPI's control bits and divider are those asked for; SPE and SSI are left alone.
LEMMA SpiIsConfigured ==
  ASSUME NEW c \in SpiConfigs, SPI_init(c)
  PROVE  SpiHolds'
<1>1. c.device \subseteq {"MSTR"} /\ c.bus \in {"FD", "HD", "RXONLY"}
      /\ c.other \subseteq {"DFF", "CPOL", "CPHA", "SSM"}
  BY SpiSettingsAssumption DEF SpiConfigs
<1>2. BusBits(c.bus) \subseteq {"BIDIMODE", "RXONLY"}
  BY <1>1 DEF BusBits
<1>3. /\ xSpiAsked' = <<c>>
      /\ xSpi'.bits = (xSpi.bits \cap {"SPE", "SSI"}) \cup c.device \cup BusBits(c.bus) \cup c.other
      /\ xSpi'.BR = c.BR
      /\ DOMAIN xSpi' = {"bits", "BR"}
  BY DEF SPI_init, SpiCR1
<1>4. xSpi'.bits \ {"SPE", "SSI"} = c.device \cup BusBits(c.bus) \cup c.other
  BY <1>1, <1>2, <1>3
<1> QED BY <1>3, <1>4 DEF SpiHolds

\* Enabling the SPI or its internal select leaves its configuration alone.
LEMMA SpiBitKeepsSettings ==
  ASSUME SpiHolds, NEW bit \in {"SPE", "SSI"}, NEW enable \in BOOLEAN, SpiBit(bit, enable)
  PROVE  SpiHolds'
<1> DEFINE bits == IF enable THEN xSpi.bits \cup {bit} ELSE xSpi.bits \ {bit}
<1>1. /\ xSpi' = [xSpi EXCEPT !.bits = bits] /\ xSpiAsked' = xSpiAsked
      /\ DOMAIN xSpi = {"bits", "BR"} /\ DOMAIN xSpi' = {"bits", "BR"}
  BY DEF SpiBit, SpiHolds
<1>2. CASE xSpiAsked = <<>>
  BY <1>1, <1>2 DEF SpiHolds
<1>3. ASSUME NEW c \in SpiConfigs, xSpiAsked = <<c>>,
             xSpi.bits \ {"SPE", "SSI"} = c.device \cup BusBits(c.bus) \cup c.other, xSpi.BR = c.BR
      PROVE  SpiHolds'
  <2>1. xSpi'.bits = bits /\ xSpi'.BR = xSpi.BR
    BY <1>1
  <2>2. bits \ {"SPE", "SSI"} = xSpi.bits \ {"SPE", "SSI"}
    OBVIOUS
  <2> HIDE DEF bits
  <2> QED BY <1>1, <1>3, <2>1, <2>2 DEF SpiHolds
<1> QED BY <1>2, <1>3 DEF SpiHolds

\* No call disturbs what another one has set.
LEMMA SettingsInvStep ==
  SettingsWithinLimits /\ SettingsInv /\ [DriverSettingsNext]_xVars => SettingsInv'
<1> SUFFICES ASSUME SettingsWithinLimits, SettingsInv, [DriverSettingsNext]_xVars
             PROVE  SettingsInv'
  OBVIOUS
<1> USE DEF SettingsInv
<1>1. ASSUME NEW c \in UsartConfigs, Compatible(c), USART_init(c) PROVE SettingsInv'
  <2>1. UNCHANGED <<xCFGR, xI2c, xI2cAsked, xSpi, xSpiAsked>>
    BY <1>1 DEF USART_init
  <2> QED BY <1>1, <2>1, UsartIsConfigured, HeldUntouched
<1>2. CASE ResetUsart
  <2>1. xUsart' = UsartReset /\ xUsartAsked' = <<>>
        /\ UNCHANGED <<xCFGR, xI2c, xI2cAsked, xSpi, xSpiAsked>>
    BY <1>2 DEF ResetUsart
  <2>2. UsartReset' = UsartReset
    BY DEF UsartReset
  <2> QED BY <2>1, <2>2, HeldUntouched DEF UsartHolds
<1>3. ASSUME NEW c \in I2cConfigs, I2C_init(c) PROVE SettingsInv'
  <2>1. UNCHANGED <<xCFGR, xUsart, xUsartAsked, xSpi, xSpiAsked>>
    BY <1>3 DEF I2C_init
  <2> QED BY <1>3, <2>1, I2cIsConfigured, HeldUntouched
<1>4. ASSUME NEW c \in SpiConfigs, SPI_init(c) PROVE SettingsInv'
  <2>1. UNCHANGED <<xCFGR, xUsart, xUsartAsked, xI2c, xI2cAsked>>
    BY <1>4 DEF SPI_init
  <2> QED BY <1>4, <2>1, SpiIsConfigured, HeldUntouched
<1>5. ASSUME NEW bit \in {"SPE", "SSI"}, NEW enable \in BOOLEAN, SpiBit(bit, enable) PROVE SettingsInv'
  <2>1. UNCHANGED <<xCFGR, xUsart, xUsartAsked, xI2c, xI2cAsked>>
    BY <1>5 DEF SpiBit
  <2> QED BY <1>5, <2>1, SpiBitKeepsSettings, HeldUntouched
<1>6. CASE UNCHANGED xVars
  BY <1>6, HeldUntouched DEF xVars
<1> QED BY <1>1, <1>2, <1>3, <1>4, <1>5, <1>6 DEF DriverSettingsNext, SPI_periph_control, SPI_SSI_config

\* The registers are then as asked.
LEMMA SettingsInvHolds == SettingsInv => SettingsAsAsked
  BY DEF SettingsInv, UsartHolds, I2cHolds, SpiHolds, SettingsAsAsked

\* However often and in whatever order USART_init, I2C_init and SPI_init are called, the
\* registers hold what was last asked for, for every clock tree, every number of stop bits but
\* the two that are exchanged, and just the baud rates that the divider can be computed for.
THEOREM SettingsHold == SettingsWithinLimits => (DriverSettingsSpec => []SettingsAsAsked)
<1> SUFFICES ASSUME SettingsWithinLimits PROVE DriverSettingsSpec => []SettingsAsAsked
  OBVIOUS
<1>1. DriverSettingsInit => SettingsInv
  BY DEF DriverSettingsInit, SettingsInv, UsartHolds, I2cHolds, SpiHolds
<1>2. SettingsInv /\ [DriverSettingsNext]_xVars => SettingsInv'
  BY SettingsInvStep
<1> QED BY <1>1, <1>2, SettingsInvHolds, PTL DEF DriverSettingsSpec

=============================================================================
