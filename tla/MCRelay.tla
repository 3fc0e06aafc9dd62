------------------------------- MODULE MCRelay -------------------------------
EXTENDS Relay

MCKinds   == {"tcp", "ssl", "ssl_rev", "web"}
MCMaxSent == [client |-> 2, server |-> 3]
=============================================================================
