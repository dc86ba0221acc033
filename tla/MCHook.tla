------------------------------ MODULE MCHook ------------------------------
(* A small instance of the pod hook.                                        *)
EXTENDS SCCHook

v1 == <<"v1">>
V1 == {v1}
ns1 == <<"ns1">>
ns2 == <<"ns2">>

TeamCRB  == [vc |-> v1, kind |-> "ClusterRoleBinding", ns |-> << >>, name |-> <<"team">>]
DevRB    == [vc |-> v1, kind |-> "RoleBinding", ns |-> ns1, name |-> <<"dev">>]
OtherRB  == [vc |-> v1, kind |-> "RoleBinding", ns |-> ns2, name |-> <<"dev">>]
UseCR    == [vc |-> v1, kind |-> "ClusterRole", ns |-> << >>, name |-> <<"use">>]
UseRole  == [vc |-> v1, kind |-> "Role", ns |-> ns1, name |-> <<"use">>]
HookBindings == {TeamCRB, DevRB, OtherRB}
HookRoles == {UseCR, UseRole}

ToCR   == [kind |-> "ClusterRole", name |-> <<"use">>]
ToRole == [kind |-> "Role", name |-> <<"use">>]
HookRefs == [b \in Bindings |-> IF b = DevRB THEN {ToRole} ELSE {ToCR}]

app == [kind |-> "ServiceAccount", ns |-> ns1, name |-> <<"app">>]
default(b) ==
    [kind |-> "ServiceAccount", name |-> <<"default">>,
     ns |-> IF b.kind = ClusterBinding THEN ns1 ELSE << >>]
HookSubjects == [b \in Bindings |-> {{app, default(b)}}]

anyuid == <<"anyuid">>
priv   == <<"privileged">>
restricted == <<"restricted", "v2">>
HookSCCs == {anyuid, priv}
HookRank == [scc \in SCCNames |-> IF scc = anyuid THEN 1 ELSE 2]

Use(names) ==
    {[apiGroups |-> {"security.openshift.io"}, resources |-> {"*"},
      verbs |-> {"use"}, resourceNames |-> names]}
HookRules == {Use({anyuid}), Use({})}

HookPods == { [namespaceLabel |-> ns1, namespaceAnnotation |-> << >>, saAnnotation |-> <<"app">>],
              [namespaceLabel |-> << >>, namespaceAnnotation |-> ns1, saAnnotation |-> << >>],
              [namespaceLabel |-> << >>, namespaceAnnotation |-> << >>, saAnnotation |-> <<"app">>] }
=============================================================================
