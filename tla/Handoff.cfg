SPECIFICATION HandoffSpec
CONSTANTS
    w1 = w1
    w2 = w2
    Items = {i1}
    Chats = {c1, c2}
    Junk = Junk
    Torn = Torn
    None = None
    Publishers = {w1, w2}
    Names = 2
    Attempts = 2
    MaxFaults = 1
    MaxStops = 1
    Keys = {i1}
    Sessions = {c1, c2}
    NoRun = NoRun
    Clients = {w1, w2}
    MaxLate = 1
SYMMETRY Symmetry
INVARIANT OneRunPerItem
PROPERTIES DropImplementsHandoff RunsImplementHandoff
