---------------------------- MODULE MCRiskEngine ----------------------------
(* Requests for TLC.  An arbitrage order on btc alone fills the limit and, *)
(* at a price of one, the exposure cap; at two it exceeds it, as does an   *)
(* order on eth after it.  A reduce-only order counts against neither.     *)
EXTENDS RiskEngine

CONSTANTS r1, r2, r3, btc, eth

Arb(s, q) ==
  [symbol |-> s, legs |-> Exchanges, reduceOnly |-> FALSE,
   qty |-> [bybit |-> q, lighter |-> -q]]
Maker(s, q) ==
  [symbol |-> s, legs |-> {"bybit"}, reduceOnly |-> FALSE,
   qty |-> [bybit |-> q, lighter |-> 0]]

Iceberg(s, q) == [Maker(s, q) EXCEPT !.reduceOnly = TRUE]

(* An arbitrage, a reduce-only order of the same symbol, a third request   *)
(* on another symbol.                                                      *)
MCBatch ==
  [r \in Requests |->
     IF r = r1 THEN Arb(btc, 1) ELSE IF r = r2 THEN Iceberg(btc, 1) ELSE Maker(eth, -1)]

MCMids == [s \in Symbols |-> IF s = btc THEN {1, 2} ELSE {1}]

(* Single-leg requests on one symbol, as POST /execute/maker_test sends.   *)
MCMakers == [r \in Requests |-> Maker(btc, 1)]

=============================================================================
