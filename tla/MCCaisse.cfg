SPECIFICATION Spec
CONSTANTS
    debit = debit
    blank = blank
    conso = conso
    admin = admin
    sos = sos
    other = other
    Tags <- MCTags
    Unsupported = {other}
    InitCard <- MCCard
    Credits <- MCCredits
    Typed <- MCTyped
    Limit = 2
    MaxSuspect = 1
    Top = "poll"
    NoTag = NoTag
INVARIANTS Ledger
PROPERTIES KindKept
