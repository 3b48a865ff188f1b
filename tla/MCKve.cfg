SPECIFICATION Spec
CONSTANTS
    debit = debit
    blank = blank
    admin = admin
    sos = sos
    other = other
    Tags <- MCTags
    Unsupported = {other}
    InitCard <- MCCard
    Credits <- MCCredits
    Typed <- MCTyped
    MaxSuspect = 1
    Top = "top"
    NoTag = NoTag
INVARIANTS Ledger
PROPERTIES NoOverdraft TicketPerPress
