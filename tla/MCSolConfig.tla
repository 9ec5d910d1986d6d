----------------------------- MODULE MCSolConfig -----------------------------
(***************************************************************************)
(* Model values for SolConfig: two SOL channels, hosted by one SOL        *)
(* service or by one service per channel (netipmid runs one instance per  *)
(* interface, each owning sol/<eth> of its own interface).                *)
(***************************************************************************)
EXTENDS SolConfig

TwoSolChannels == {1, 2}
OneService == {"netipmid"}
SharedOwner == [ch \in TwoSolChannels |-> "netipmid"]
TwoServices == {"netipmid@eth0", "netipmid@eth1"}
PerChannelOwner == (1 :> "netipmid@eth0") @@ (2 :> "netipmid@eth1")

\* the SOL object's values before any Set: enabled, Admin, the defaults
InitSolValues ==
    [Progress |-> 0, Enable |-> 1, Privilege |-> 4,
     AccumulateIntervalMS |-> 12, Threshold |-> 96,
     RetryCount |-> 7, RetryIntervalMS |-> 10]

AccPairs == {<<12, 96>>, <<20, 0>>, <<20, 50>>}
RetryPairs == {<<7, 10>>, <<11, 20>>}
\* a uint32 baud rate, and one of another D-Bus type (the variant is not
\* a uint32)
Bauds == {[type |-> "uint32", v |-> 115200], [type |-> "uint64", v |-> 115200]}
U32Bauds == {[type |-> "uint32", v |-> 115200], [type |-> "uint32", v |-> 1200]}
=============================================================================
