---------------------------- MODULE MCOutboxRelay ----------------------------
(* TLC instance of OutboxRelay: two relays, a row that does not decode.        *)
EXTENDS OutboxRelay

CONSTANTS r1, r2

TwoRelays  == {r1, r2}
OnePoison  == {1}
=============================================================================
