SPECIFICATION BufSpec
CONSTANTS
    Max = 2
    MaxEvents = 3
    TornWrites = TRUE
PROPERTY
    OldestFirst
