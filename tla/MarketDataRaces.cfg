\* Two sessions ingest overlapping requests of two providers.
SPECIFICATION FairSpec
CONSTANTS
    i1 = i1
    i2 = i2
    p1 = p1
    p2 = p2
    ticker = ticker
    alias = alias
    CLOSE = CLOSE
    s1 = s1
    s2 = s2
    None = None
    Identifier = {ticker, alias}
    Instrument = {i1, i2}
    Provider = {p1, p2}
    PriceType = {CLOSE}
    Session = {s1, s2}
    Scale = 10
    Request <- MCRequest
    Fetched <- MCFetched
    Mapping <- MCMapping
    Rank <- MCRank
INVARIANTS TypeOK ResultsStand CountsTrue
PROPERTIES QuoteMoves ImplementsBook IngestReturns
CHECK_DEADLOCK FALSE
