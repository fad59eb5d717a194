SPECIFICATION Spec
CONSTANTS
    Delegates <- MCDelegates
    Selectors <- MCSelectors
    Slots <- MCSlots
    Lists <- MCLists
    MaxPieces = 4
CHECK_DEADLOCK FALSE
INVARIANTS
    ScriptDoesWhatIsRead
    SelectorsReturned
