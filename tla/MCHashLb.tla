------------------------------ MODULE MCHashLb ------------------------------
(***************************************************************************)
(* The two hash policies, for TLC.  policy says which one runs: HashLb     *)
(* itself is lb_hash_blocking.v; inter-core transfers, and a host that     *)
(* flushes the slots of the first core, compete for the slots with         *)
(* lb_hash_dropping.v only.                                                *)
(***************************************************************************)
EXTENDS HashLb

VARIABLE policy

\* The host lets the cores receive packets.
MCHostCommands ==
  {[reg |-> "none"], [reg |-> "enable", data |-> Cores], [reg |-> "receive", data |-> Cores]}

Never == {{}}

Dropping == INSTANCE HashLb WITH
  POLICY <- "dropping", BusySets <- {{}, {1}}, FullSets <- {{0}},
  HostCommands <- HostCommands \cup {[reg |-> "flush", data |-> {0}]}

MCInit == policy \in {"blocking", "dropping"} /\ Init

MCNext == /\ UNCHANGED policy
          /\ \/ policy = "blocking" /\ Next
             \/ policy = "dropping" /\ Dropping!Next

FairSpec == MCInit /\ [][MCNext]_<<policy, vars>> /\ Fairness

-----------------------------------------------------------------------------
(* While all cores receive, a port with packets gets slots again and again *)
(* (lb_hash_blocking.v).                                                   *)
BlockingServes == policy = "blocking" => PortServed
=============================================================================
