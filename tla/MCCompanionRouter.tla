--------------------------- MODULE MCCompanionRouter ---------------------------
(* Two bridges and a helper.  Packets do not meet except in time, so most        *)
(* behaviours receive copies of one packet: a PATH packet with an ephemeral     *)
(* destination, offered to both bridges; a PATH packet for a bridge of its own; *)
(* one without a deduplication key; a protocol response, two of whose copies    *)
(* come at the final hop; and packets for the helper and for a bridge that      *)
(* share one hash.                                                              *)
EXTENDS CompanionRouter, TLC

CONSTANTS b1, b2, ephemeral, direct, plain, response, text, login,
          e1, e2, e3, d1, d2, n1, n2, r1, r2, r3, t1, t2, g1

MCPackets == {ephemeral, direct, plain, response, text, login}
MCTraffic == {{e1, e2, e3}, {d1, d2}, {n1, n2}, {r1, r2, r3}, {t1, t2, g1},
              {e1, r1, t1}}
MCCopies == UNION MCTraffic
MCOf == [c \in MCCopies |-> CASE c \in {e1, e2, e3} -> ephemeral
                              [] c \in {d1, d2} -> direct
                              [] c \in {n1, n2} -> plain
                              [] c \in {r1, r2, r3} -> response
                              [] c \in {t1, t2} -> text
                              [] c = g1 -> login]
MCBridges == {b1, b2}
MCKind == [p \in MCPackets |-> CASE p \in {ephemeral, direct, plain} -> "path"
                                 [] p = response -> "response"
                                 [] OTHER -> "local"]
MCDest == [p \in MCPackets |-> IF p \in {ephemeral, response} THEN Nobody ELSE b1]
MCOwner == [p \in MCPackets |-> CASE p = ephemeral -> b2
                                  [] p = plain -> Helper
                                  [] p = text -> Helper
                                  [] OTHER -> b1]
MCColliding == {plain, text, login}
MCKeyless == {plain}
MCFinalHop == {r2, r3}
=============================================================================
