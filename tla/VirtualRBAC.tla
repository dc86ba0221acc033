---------------------------- MODULE VirtualRBAC ----------------------------
(***************************************************************************)
(* The RBAC objects of virtual clusters, as the bridge and the pod hook    *)
(* read them.  An object's key is a record of its vCluster, kind,          *)
(* namespace (none for a cluster-scoped kind) and name; the content of a   *)
(* binding is its roleRef and its set of subjects, that of a role its set  *)
(* of rules.  A name is a sequence of hyphen-free words.                   *)
(***************************************************************************)
EXTENDS SCCRules, Naturals, Sequences, FiniteSets

CONSTANTS
    VClusters,      \* the vClusters, by name
    Bindings,       \* the keys of the (Cluster)RoleBindings tenants may create
    Roles,          \* the keys of the (Cluster)Roles tenants may create
    SCCNames,       \* every name that an SCC object or a rule may have
    RoleRefs,       \* for each binding, the roleRefs it may have
    SubjectSets,    \* for each binding, the sets of subjects it may have
    RuleSets,       \* the sets of rules a role may have
    None            \* absent

ClusterBinding == "ClusterRoleBinding"
Words == Seq(STRING)
Binding == [vc : VClusters, kind : {ClusterBinding, "RoleBinding"}, ns : Words, name : Words]
Role == [vc : VClusters, kind : {"ClusterRole", "Role"}, ns : Words, name : Words]

ASSUME ConstantsAssumption ==
    /\ Bindings \subseteq Binding
    /\ Roles \subseteq Role
    /\ \A b \in Bindings : b.kind = ClusterBinding <=> b.ns = << >>
    /\ \A r \in Roles : r.kind = "ClusterRole" <=> r.ns = << >>
    /\ RoleRefs \in [Bindings -> SUBSET [kind : {"ClusterRole", "Role"}, name : Words]]
    /\ \A b \in Bindings : b.kind = ClusterBinding =>      \* the API server's validation
           /\ \A ref \in RoleRefs[b] : ref.kind = "ClusterRole"
           /\ \A subjects \in SubjectSets[b] : \A s \in subjects :
                  s.kind = "ServiceAccount" => s.ns # << >>
    /\ DOMAIN SubjectSets = Bindings
    /\ \A rules \in RuleSets : \A rule \in rules : rule.resourceNames \subseteq SCCNames

ASSUME NamesAssumption == VClusters \subseteq Words /\ SCCNames \subseteq Words

Bodies(b) == [roleRef : RoleRefs[b], subjects : SubjectSets[b]]

\* The key of the role a binding refers to: a Role is one of its namespace.
roleOf(b, ref) ==
    [vc |-> b.vc, kind |-> ref.kind, name |-> ref.name,
     ns |-> IF ref.kind = "Role" THEN b.ns ELSE << >>]
=============================================================================
