--------------------------- MODULE MCSymbolSwitch ---------------------------
(* Two feeds and two symbols; requests that follow one another while the   *)
(* supervisors are anywhere in the switch before.                          *)
EXTENDS SymbolSwitch

CONSTANTS btc, eth, h1

const_NumFeeds == 2
const_Catalog == {btc, eth}
const_FirstSymbol == btc
const_Handlers == {h1}
const_MaxRequests == 2
const_OneAtATime == TRUE
=============================================================================
