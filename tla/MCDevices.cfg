SPECIFICATION DevicesSpec
CONSTANTS
    CanModes = {"normal", "loopback"}
    CanOutcomes = {"ok", "failed"}
    CanFrames = 2
    CanBoxes = {0, 1, 2}
    CanMixed = FALSE
    CanPrompt = TRUE
    XClocks <- MCClocks
    XBauds = {1200, 9600, 115200, 336000, 921600, 3000000}
    XStops = {"1", "0.5", "1.5", "2"}
    XUsartModes = {"TXRX"}
    XFlows = {{}, {"CTSE", "RTSE"}}
    XI2cSpeeds = {100000, 200000, 400000}
    XSpiSpeeds = {0, 7}
    XSpiBits = {{}, {"DFF"}, {"CPHA", "SSM"}, {"CPOL"}}
    XUsartAgain = FALSE
    PPeripherals <- MCPeripherals
    PLines <- MCLines
    PSwitches = {TRUE, FALSE}
    GPins <- MCPins
    GConfigs <- MCConfigs
    GKeep = TRUE
    GPrompt = TRUE
    GShared = FALSE
INVARIANTS
    CanRunsAsConfigured
    CanCompletionsReported
    CanFramesInOrder
    SettingsAsAsked
    PeripheralsAsAsked
    LinesAsAsked
    GpioAsAsked
CHECK_DEADLOCK FALSE
