------------------------ MODULE MCDNSOverTCPTLSFaults ------------------------
(* The instance of MCDNSOverTCPTLS (two queriers, one closer, the zone)     *)
(* with expiring contexts or read deadlines, for the runs that show what    *)
(* an abandoned I/O goroutine does.                                         *)
EXTENDS DNSOverTCPTLSFaults, MCDNSOverTCPTLS
=============================================================================
