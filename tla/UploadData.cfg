SPECIFICATION MCSpec
CONSTANTS
    ChunkSize = 2
    MaxShards = 3
    MaxLevels = 2
    Parities <- SomeParity
    Lengths = {0, 3, 9, 13}
    Replicas = 2
    StampWindow = 4
    SlotWindow = 2
    ReceiptWindow = 3
    Permits = 2
    MaxFailures = 1
    Peer = {1, 2, 3, 4}
    Confirmations = 2
    MaxErrors = 2
    MaxRefusals = 2
    MaxChanges = 2
INVARIANTS ReferenceIsConfirmed TreeIsReadable PushIsSound
PROPERTIES UploadsEnd
CHECK_DEADLOCK FALSE
