--------------------------- MODULE MCDNSOverTCPTLS ---------------------------
(* Model-checking instance of DNSOverTCPTLS: two goroutines each doing one *)
(* LookupHost (an A and an AAAA round trip) on the shared connection, and  *)
(* one CloseIdleConnections call.                                          *)
EXTENDS DNSOverTCPTLS

MCQueriers == {"q1", "q2"}
MCCloses   == {"cl"}

\* q1 has both an IPv4 and an IPv6 address; q2 only an IPv4 one, so its
\* AAAA query is answered with an empty success reply.
MCZone == {<<"q1", "A">>, <<"q1", "AAAA">>, <<"q2", "A">>}
=============================================================================
