----------------------------- MODULE MCGateway -----------------------------
(***************************************************************************)
(* Small instances of Gateway.                                             *)
(***************************************************************************)
EXTENDS Gateway

CONSTANTS r1, r2, acme, globex, s1, s2

OneRequest == {r1}
TwoRequests == {r1, r2}
OneName == {"calculator"}
TwoNames == {"calculator", "clock"}
TwoVendors == {acme, globex}
MCSchemas == {s1, s2}
MCPayloads == {{s1}}
=============================================================================
