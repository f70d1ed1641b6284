SPECIFICATION SlotsSpec
CONSTANTS
    full = full
    long = long
    SlotDuration = 12
    NumberOfSlots = 3
    SlotNumber = 2
    TransmitDuration = 10
    MaxTweak = 5
    HeaderLength = 1
    Lateness = 1
    Chats = {full, long}
    ChatLength <- MCChatLength
    PliUsers = {1, 2}
    RelayLength <- MCRelayLength
    PliRelayPerCycle = 1
    PliSendFrequency = 2
    Outdated = 1
INVARIANTS
    TypeOK
    StaysInSlot
PROPERTIES
    ChatsLeave
    PositionsAreRelayed
