SPECIFICATION PacketSpec
CONSTANTS
    Inputs <- MCInputs
    Shares <- MCShares
    CallersK = 1
    Base = 90
    Envelope = 150
    HitBytes = 320
INVARIANT
    RowsAccounted
