SPECIFICATION FoldersFairSpec
CONSTANTS
    Writers = {w1, w2, w3}
    Ids = {1, 2, 3, 4}
    NoFolder = NoFolder
    MaxLost = 1
INVARIANTS NoSecondCreate
PROPERTIES OnlyDownwards EventuallyAgree
