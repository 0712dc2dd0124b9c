------------------------------ MODULE MCServing ------------------------------
(* A small instance of Serving: three requests for two slots, two visitors   *)
(* for one key of the bot limiter, an hour that turns once; CDN URLs that    *)
(* expire within the bound; a ring whose share of hidden answers meets its   *)
(* limit exactly.                                                            *)
EXTENDS Serving

CONSTANTS r1, r2, r3, b1, b2

MCClients == {r1, r2, r3}
MCBots == {b1, b2}
MCCDNExpiries == {4}
=============================================================================
