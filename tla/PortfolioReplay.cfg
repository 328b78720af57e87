\* Every order of twelve transactions in two accounts, every rounding.
SPECIFICATION ValuationSpec
CONSTANTS
    a1 = a1
    a2 = a2
    x = x
    open = open
    cheap = cheap
    dear = dear
    some = some
    rest = rest
    undoOpen = undoOpen
    undoCheap = undoCheap
    undoSale = undoSale
    again = again
    other = other
    foreign = foreign
    theirs = theirs
    None = None
    Id = {open, cheap, dear, some, rest, undoOpen, undoCheap, undoSale, again, other, foreign, theirs}
    Tx <- MCTx
    Account = {a1, a2}
    Instrument = {x}
    Scope = {a1, a2}
    Focus = a1
    Price <- MCPrice
    Grain = 2
    Slack = 1
CHECK_DEADLOCK FALSE
INVARIANTS TypeOK BooksBalance KnownCovered
PROPERTIES ScopeIsolated
