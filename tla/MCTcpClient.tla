---------------------------- MODULE MCTcpClient -----------------------------
(* Clients of every kind, and the groups of them that the properties look at. *)
EXTENDS TcpClient

\* Only configured clients are clustered.
AllClients ==
    {c \in [kind : Kinds, named : BOOLEAN, clustered : BOOLEAN, proxied : BOOLEAN,
            fallible : BOOLEAN, trailing : BOOLEAN] :
        c.clustered => c.kind \in {"plain", "periodic"}}

\* Clients whose schedule does not depend on a lease, nor on the lifetime of a record
\* of the resolver, and whose end does not depend on a probe that tells them.
Steady ==
    {c \in AllClients :
        /\ ~ c.clustered /\ ~ c.proxied /\ c.kind # "sync"
        /\ c.kind \in {"periodic", "oneshot"} => ~ c.named}

LiteralSync ==
    {[kind |-> "sync", named |-> FALSE, clustered |-> FALSE, proxied |-> FALSE,
      fallible |-> FALSE, trailing |-> FALSE]}

\* A steady permanent client that is not deleted connects again and again.
SteadyKeepsCrawling == client \in Steady => KeepsCrawling

\* A steady oneshot, or a steady client that is deleted, is freed at last.
SteadyOneshotEnds == client \in Steady => OneshotEnds
=============================================================================
