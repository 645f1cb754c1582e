------------------------ MODULE MCTrading212Events ------------------------
(* Instances of Trading212Events for TLC. *)
EXTENDS Trading212Events

TwoEndpoints == <<"orders", "dividends">>
============================================================================
