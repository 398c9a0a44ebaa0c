---------------------------- MODULE MCRadioCommand ----------------------------
(* Three requests that expect CMD_CONFIG_RESP, as overlapping setters do, and  *)
(* one that expects another response.                                          *)
EXTENDS RadioCommand, TLC

CONSTANTS r1, r2, r3, r4, config, cad

MCRequests == {r1, r2, r3, r4}
MCTypes == {config, cad}
MCExpect == [r \in MCRequests |-> IF r = r4 THEN cad ELSE config]
=============================================================================
