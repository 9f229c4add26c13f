--------------------------- MODULE MCHostReactor ---------------------------
(* A service that may have no host, one host, the same host with another     *)
(* weight, or two hosts.                                                     *)
EXTENDS HostReactor

MCNoHosts  == [a \in {} |-> 0]
MCHostList == {MCNoHosts,
               [a \in {"a"} |-> 1],
               [a \in {"a"} |-> 2],
               [a \in {"a", "b"} |-> 1]}

MCOneAddress == {h \in MCHostList : DOMAIN h \subseteq {"a"}}
=============================================================================
