----------------------------- MODULE MCDnsProbe -----------------------------
\* Two clients that ask for one name.
EXTENDS DnsProbe
=============================================================================
