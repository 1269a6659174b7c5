------------------------------ MODULE MCLbRrLu ------------------------------
(***************************************************************************)
(* An instance of LbRrLu for TLC: two clusters of two cores, of which the  *)
(* host has loaded the three in Loaded.                                    *)
(***************************************************************************)
EXTENDS LbRrLu

Loaded == {0, 1, 2}

(* The host enables the cores, disables the first one, and releases the    *)
(* reservation of the first port.                                          *)
MCHostCommands ==
  {[reg |-> "none"],
   [reg |-> "enable", data |-> Loaded], [reg |-> "enable", data |-> Loaded \ {0}],
   [reg |-> "receive", data |-> Loaded],
   [reg |-> "release", data |-> {0}]}

MCBusySets == {{}, {1}}

\* The host writes a register only to change it.
Useful(cmd) == CASE cmd.reg = "enable"  -> cmd.data # enabled_cores
                 [] cmd.reg = "receive" -> cmd.data \cap enabled_cores # income_cores
                 [] OTHER -> TRUE

MCNext == \E word \in Words, busy \in BusySets, ret \in Returns, cmd \in HostCommands :
            /\ ret.kind = "init" => ret.core \in Loaded
            /\ Useful(cmd)
            /\ Clock(word, busy, ret, cmd)

(* The clock never stops.  In every state some input changes a register,   *)
(* so this is weak fairness of MCNext.                                     *)
FairSpec == Init /\ [][MCNext]_vars /\ []<><<TRUE>>_vars
=============================================================================
