SPECIFICATION FairSpec
CONSTANTS
    t1 = t1
    t2 = t2
    t3 = t3
    Tags <- MCTags
    Unsupported = {t3}
    LastBlk = 1
    Values = {0, 1}
    Zero = 0
    KeyTries = 2
    OverreadHits <- NoHits
    NoTag = NoTag
    Unseen = Unseen
INVARIANTS OpReported FreshView
PROPERTIES OnlyEdited OpTerminates Refines
