----------------------------- MODULE MCStopLoss -----------------------------
(* StopLoss for TLC.  Trading opens a hedge with unequal legs; a leg alone *)
(* comes of closes that end halfway, or is held from the start.            *)
EXTENDS StopLoss

UnequalHedge == {<<2, -1>>}
LoneLong == {<<1, 0>>}

=============================================================================
