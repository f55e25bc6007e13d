SPECIFICATION TransfersSpec
CONSTANTS
    UsartTxSizes = {2}
    UsartRxSizes = {2}
    UsartWordBytes = 2
    UsartMaxBurst = 2
    UsartLineErrors = {"FE"}
    UsartLineFlags = {"CTS"}
    UsartEnables = {"CTSIE", "EIE"}
    SpiTxSizes = {1, 2}
    SpiRxSizes = {1, 2}
    SpiWordBytes = 2
    SpiCallbackClears = TRUE
    SpiEnables = {"ERRIE"}
    I2cSizes = {1, 2, 3}
    I2cRepeated = {TRUE, FALSE}
    I2cSendAfterRS = FALSE
    I2cPrompt = TRUE
INVARIANT I2cLastByteRefused
PROPERTIES
    UsartSends
    UsartReceives
    UsartTransmissionsEnd
    SpiMoves
    SpiOverrunEnds
    I2cMoves
    I2cTransfersEnd
CHECK_DEADLOCK FALSE
