--------------------------- MODULE HostGrantPair ---------------------------
(***************************************************************************)
(* What the host cluster sees of one bridged grant: a ClusterRole and a    *)
(* ClusterRoleBinding of the same name that come and go in an order in     *)
(* which the binding always has its role.                                  *)
(***************************************************************************)
CONSTANT Pairs              \* the names

VARIABLE pair               \* [Pairs -> {"none", "role", "bound"}]

Init == pair = [n \in Pairs |-> "none"]

Move(n, from, to) == pair[n] = from /\ pair' = [pair EXCEPT ![n] = to]

WriteRole(n)     == Move(n, "none", "role")
WriteBinding(n)  == Move(n, "role", "bound")
DeleteBinding(n) == Move(n, "bound", "role")
DeleteRole(n)    == Move(n, "role", "none")

Next == \E n \in Pairs : WriteRole(n) \/ WriteBinding(n) \/ DeleteBinding(n) \/ DeleteRole(n)

Spec == Init /\ [][Next]_pair
=============================================================================
