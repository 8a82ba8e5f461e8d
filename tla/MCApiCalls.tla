----------------------------- MODULE MCApiCalls -----------------------------
(* Model values and interfaces for checking ApiCalls with TLC.            *)
EXTENDS ApiCalls

Eth0 == [index |-> 2, loopback |-> FALSE, rdma |-> TRUE, hosts |-> {"v4", "linklocal"}]
Eth1 == [index |-> 3, loopback |-> FALSE, rdma |-> FALSE, hosts |-> {"v6", "linklocal"}]
Lo   == [index |-> 1, loopback |-> TRUE, rdma |-> FALSE, hosts |-> {"v4"}]

MCInterfaces == {Lo, Eth0, Eth1}

MCStrings == {[host |-> "linklocal", scope |-> 2], [host |-> "linklocal", scope |-> 3],
              [host |-> "v6", scope |-> 3], [host |-> "none", scope |-> 3]}

=============================================================================
