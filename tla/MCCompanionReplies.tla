--------------------------- MODULE MCCompanionReplies ---------------------------
(* Three commands with a response each and a plain text; three logins, two to   *)
(* contacts of one destination hash; two other listeners and two connections;   *)
(* and a command, a login and their messages together.                          *)
EXTENDS CompanionReplies

CONSTANTS c1, c2, c3, l1, l2, l3, t1, t2, plain, g1, g2, h1, h2

MCCommands == {c1, c2, c3}
MCLogins == {l1, l2, l3}
MCHash == [r \in MCLogins |-> IF r = l3 THEN h2 ELSE h1]
MCTexts == {t1, t2, plain}
MCGrants == {g1, g2}
MCAbout == [m \in MCTexts \cup MCGrants |->
              CASE m = t1 -> c1 [] m = t2 -> c2
                [] m = g1 -> l1 [] m = g2 -> l3 [] OTHER -> None]
MCTraffic == {{c1, c2, c3, t1, plain}, {l1, l2, l3, g1, g2}, {c1, c2, t1, t2, plain},
              {c1, l1, t1, g1, plain}}
=============================================================================
