SPECIFICATION Spec
CONSTANTS
    Side = 3
    Width = 2
    Height = 2
    MaxLight = 2
    Definitions <- MCDefinitions
    Default <- Out
    Worlds <- MCWorlds
    Edits <- MCEdits
    MaxEdits = 1
    MaxUnloads = 1
    MaxRelights = 1
INVARIANTS LightInvariant NotOverlit
PROPERTIES MeshesSettle QueueDrains
CHECK_DEADLOCK FALSE
