---------------------------- MODULE MCEventLoop -----------------------------
(* Six parts of the daemon that do not interact with each other: a behaviour *)
(* runs one of them.                                                         *)
EXTENDS HttpLimit, Await, ThreadedLoop, LogTcp, HttpServer, DnsProbe

VARIABLE user    \* which of them runs

\* Two requests at once in each block; the shared one is the slower.
MCRps == [b \in Blocks |-> 2]
MCInterval == [b \in Blocks |-> IF b = "shared" THEN 2 ELSE 1]

allVars == <<user, limitVars, awaitVars, threadVars, sinkVars, serverVars, probe>>

\* The parts that do not run have one initial state.
LoopInit ==
    /\ user \in {"limit", "await", "threads", "log", "http", "dns"}
    /\ LimitInit /\ AwaitInit /\ ThreadsInit /\ SinkInit /\ ServerInit /\ ProbeInit
    /\ user # "http" => ~ entry.keepalive /\ ~ entry.replies
    /\ user # "dns" => probe.ephemeral /\ probe.transport = "udp"

LoopNext ==
    /\ \/ /\ user = "limit" /\ LimitNext
          /\ UNCHANGED <<awaitVars, threadVars, sinkVars, serverVars, probe>>
       \/ /\ user = "await" /\ AwaitNext
          /\ UNCHANGED <<limitVars, threadVars, sinkVars, serverVars, probe>>
       \/ /\ user = "threads" /\ ThreadsNext
          /\ UNCHANGED <<limitVars, awaitVars, sinkVars, serverVars, probe>>
       \/ /\ user = "log" /\ SinkNext
          /\ UNCHANGED <<limitVars, awaitVars, threadVars, serverVars, probe>>
       \/ /\ user = "http" /\ ServerNext
          /\ UNCHANGED <<limitVars, awaitVars, threadVars, sinkVars, probe>>
       \/ /\ user = "dns" /\ ProbeNext
          /\ UNCHANGED <<limitVars, awaitVars, threadVars, sinkVars, serverVars>>
    /\ UNCHANGED user

\* A part that does not run has nothing due.
LoopSpec ==
    /\ LoopInit /\ [][LoopNext]_allVars
    /\ AwaitFairness /\ ThreadsFairness /\ SinkFairness /\ ServerFairness /\ ProbeFairness
=============================================================================
