--------------------------- MODULE MCConfigStore ---------------------------
(* Three requests of the kinds that meet in the file, in memory and in the copies. *)
EXTENDS ConfigStore, TLC

CONSTANTS a, b, c

Requests == {a, b, c}

Mix3 == {<<"duty", "import", "quick">>, <<"advert", "import", "radio">>,
         <<"password", "password", "cli">>, <<"password", "advert", "cli">>,
         <<"duty", "radio", "password">>}
MCTraffic == {(a :> m[1]) @@ (b :> m[2]) @@ (c :> m[3]) : m \in Mix3}
MCOrder == <<"limit", "rate", "password", "power", "enforcement", "cliPassword">>
=============================================================================
