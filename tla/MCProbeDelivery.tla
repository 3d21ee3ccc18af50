--------------------------- MODULE MCProbeDelivery ---------------------------
\* ProbeDelivery for TLC: both suites of one model, one suite of the other.
EXTENDS ProbeDelivery

McCanaries == {<<"a", "v1">>, <<"a", "v2">>, <<"b", "v1">>}
=============================================================================
