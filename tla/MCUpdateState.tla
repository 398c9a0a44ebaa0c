---------------------------- MODULE MCUpdateState ----------------------------
(* Two checks, two installs and one channel change over two channels that      *)
(* publish different versions.                                                 *)
EXTENDS UpdateState, TLC

CONSTANTS c1, c2, i1, i2, k1, main, dev

MCChecks == {c1, c2}
MCInstalls == {i1, i2}
MCChoosers == {k1}
MCChannels == {main, dev}
MCTarget == k1 :> dev
MCOffer == (main :> 2) @@ (dev :> 1)
=============================================================================
