SPECIFICATION OpenedSpec
CONSTANTS
    Contents = {a, b}
    Inodes = {i1, i2}
    Savers = {s1, s2}
    Handlers = {poll}
    Missing = Missing
    OpenedText = a
    OpenedInode = i1
    MaxRev = 2
    MaxExternal = 2

    
PROPERTIES
    SavesInOrder
    DifferenceIsFound
