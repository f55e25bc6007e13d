------------------------------ MODULE MCTransfers ------------------------------
(***************************************************************************)
(* The drivers that move a buffer word by word.  They share no state, so   *)
(* one run checks the three: each behaviour is one driver's, chosen in the *)
(* initial state, the others at rest.                                      *)
(***************************************************************************)
EXTENDS UsartDriver, SpiDriver, I2cDriver

VARIABLE part

TransfersVars == <<part, uVars, sVars, iVars>>

TransfersInit ==
    /\ part \in {"USART", "SPI", "I2C"}
    /\ UsartInit /\ SpiInit /\ I2cInit

TransfersNext ==
    \/ part = "USART" /\ UsartNext /\ UNCHANGED <<part, sVars, iVars>>
    \/ part = "SPI" /\ SpiNext /\ UNCHANGED <<part, uVars, iVars>>
    \/ part = "I2C" /\ I2cNext /\ UNCHANGED <<part, uVars, sVars>>

TransfersSpec ==
    TransfersInit /\ [][TransfersNext]_TransfersVars
        /\ UsartFairness /\ SpiFairness /\ I2cFairness

=============================================================================
