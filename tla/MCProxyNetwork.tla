--------------------------- MODULE MCProxyNetwork ---------------------------
(***************************************************************************)
(* Instances of ProxyNetwork for TLC.                                      *)
(***************************************************************************)
EXTENDS ProxyNetwork, TLC

CONSTANTS l1

\* nameToDNSForm gives every server the same label.
OneLabel == [s \in Servers |-> l1]

\* Two launches on a host, then two on the next.
TwoOnAHost == [i \in 1..MaxProxies |-> (i + 1) \div 2]

Interchangeable == Permutations(Admins) \cup Permutations(Servers)
=============================================================================
