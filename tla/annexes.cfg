SPECIFICATION AnnexesSpec
CONSTANTS
    MAX_BUFFERED_POSITIONS = 3
    MAX_STATIONARY_BEACONS = 3
    Hedgehogs = {7}
    Beacons = {1, 2, 3}
    Bytes = 16
    DataLength = 4
    TailleFIFO = 3
    Measures = 2
    Sizes = {9, 16, 17}
    Relayed = 3
    FifoSize = 4
    MaxLost = 1
    Patterns = {89}
    Mistaken = {"consigneVitesse"}
    MaxSets = 2
    Payloads <- XbeePayloads
    MaxFrames = 3
    MaxFaults = 1
    Lengths = {0, 1, 3}
    Fills = {0, 200}
    Engines = {0, 2}
INVARIANTS
    PrintedOnce
    NotTorn
    NothingLost
    CompleteAddsUp
    WholeIsComplete
    VariablesCross
    RoundTrip
PROPERTIES
    KeepsPrinting
    EndsOnCtrlC
    Resynchronises
    InOrder
    Closes
    CutInOrder
    SetsOnlyIt
    AcceptedAfterSilence
CHECK_DEADLOCK FALSE
