--------------------------- MODULE MCCompanionInbox ---------------------------
(* Two direct messages and one channel message against an offline limit of two *)
(* and a write queue of two frames: both stores overflow, the tail moves while *)
(* a store is in a thread, and frames are dropped.                             *)
EXTENDS CompanionInbox

CONSTANTS d1, d2, c1

MCMsgs == {d1, d2, c1}
MCTwoDirect == {d1, d2}
MCNoChannel == {}
MCChannel == {c1}
=============================================================================
