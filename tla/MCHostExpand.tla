----------------------------- MODULE MCHostExpand -----------------------------
(* Addresses of 4 bits, subnets of 4 hosts, and the lists and strategies that *)
(* reach every branch: overlap, families, each cap, an oversized pool.        *)
EXTENDS HostExpand

v4(base, bits) == [fam |-> 4, base |-> base, bits |-> bits, bare |-> FALSE]
v6(base, bits) == [fam |-> 6, base |-> base, bits |-> bits, bare |-> FALSE]
ip4(base) == [fam |-> 4, base |-> base, bits |-> 4, bare |-> TRUE]

CidrLists == { <<v4(0, 1)>>, <<v4(8, 2), v4(10, 3)>>, <<v4(8, 2), v4(0, 2)>>, <<v4(8, 2), v4(1, 4)>>,
               <<v6(0, 3), v4(4, 3)>>, <<v6(0, 2), v6(8, 4)>>, <<v4(0, 3), Invalid>>,
               <<v4(8, 2), v4(0, 3), ip4(5)>>, <<>> }

Strategies == [SamplePer24 : {0, 1, 3}, MaxHostsPerCIDR : {0, 2}, MaxTotal : {0, 2},
               Family : {{4}, {4, 6}}, MaxHostsPerV6CIDR : {0, 1}]

MCInputs == [cidrs : CidrLists, strategy : Strategies]
=============================================================================
