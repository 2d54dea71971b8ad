\* Files with one change made by hand, and what the program and its inspector do.
CONSTANTS
    Classes <- MCClasses
    PropertiesOf <- MCPropertiesOf
    Default <- MCDefault
    Systems <- MCSystems
    Inputs <- MCInputs
    Edits <- MCEdits
    Texts <- MCTexts
    ByteStrings <- MCByteStrings
    LengthOf <- MCLengthOf
    Cut <- MCCut
    NoText = ""
    MaxDepth = 8
    Spins <- MCSpins
    Width = 4
    Components = 2
    MaxLength = 2
    MaxObjects = 2
    MaxSystems = 1
    MaxTime = 1
    MaxId = 2
    MaxEdits = 1
SPECIFICATION SceneFileSpec
INVARIANTS RoundTrip SceneIsSane LoadIsAllOrNothing
