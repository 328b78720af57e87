---------------------------- MODULE MCMarketData ----------------------------
(* Model values for MarketData.                                            *)
EXTENDS MarketData

CONSTANTS i1, i2, p1, p2, ticker, alias, CLOSE, s1, s2

\* An identifier of every provider that passes from i1 to i2 at 2 for p1, and
\* another name of i1.
MCMapping ==
    {[value |-> ticker, provider |-> None, instrument |-> i1, from |-> 0, to |-> None, primary |-> TRUE],
     [value |-> ticker, provider |-> p1, instrument |-> i2, from |-> 2, to |-> None, primary |-> FALSE],
     [value |-> alias, provider |-> None, instrument |-> i1, from |-> 0, to |-> 2, primary |-> FALSE]}

Ask(p, names, to) == [provider |-> p, identifiers |-> names, start |-> 1, end |-> to, kind |-> CLOSE]

At(name, time, price) == [identifier |-> name, at |-> time, price |-> price, kind |-> CLOSE]

\* Two requests of one provider that overlap, and one of another provider.
MCRequest == {Ask(p1, {ticker, alias}, 2), Ask(p1, {ticker}, 2), Ask(p2, {ticker}, 1)}

\* Two observations in both orders, a restatement, another name of a priced
\* instrument with the same price and with another, a price of more decimals
\* than the column keeps, and one that rounds to zero.
MCExport ==
    {<<At(ticker, 1, 10), At(ticker, 2, 20)>>,
     <<At(ticker, 2, 20), At(ticker, 1, 20), At(alias, 1, 20)>>,
     <<At(alias, 1, 12), At(ticker, 1, 12)>>,
     <<At(ticker, 1, 4)>>,
     <<At(ticker, 1, 10), At(alias, 2, 10)>>,
     <<At(ticker, 1, None)>>}

MCFetched == [r \in Request |-> {FetchPrices(r, export) : export \in MCExport}]

MCRank == [p \in Provider |-> IF p = p1 THEN 1 ELSE 2]
=============================================================================
