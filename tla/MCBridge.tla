----------------------------- MODULE MCBridge -----------------------------
(* Small instances of the SCC RBAC bridge; each .cfg picks its sets.        *)
EXTENDS SCCRBACBridge

v1 == <<"v1">>
v2 == <<"v2">>
V1 == {v1}
V12 == {v1, v2}

CRB(v, n)    == [vc |-> v, kind |-> "ClusterRoleBinding", ns |-> << >>, name |-> n]
RB(v, ns, n) == [vc |-> v, kind |-> "RoleBinding", ns |-> ns, name |-> n]
CR(v, n)     == [vc |-> v, kind |-> "ClusterRole", ns |-> << >>, name |-> n]
RO(v, ns, n) == [vc |-> v, kind |-> "Role", ns |-> ns, name |-> n]
ns1 == <<"ns1">>

TeamCRB(v) == CRB(v, <<"team">>)
DevRB(v)   == RB(v, ns1, <<"dev">>)
UseCR(v)   == CR(v, <<"use">>)
UseRole(v) == RO(v, ns1, <<"use">>)

OneCRB == {TeamCRB(v1)}
OneRB  == {DevRB(v1)}
BothBindings == {TeamCRB(v1), DevRB(v1)}
OneCR == {UseCR(v1)}
OneRole == {UseRole(v1)}
BothRoles == {UseCR(v1), UseRole(v1)}
TwoTenantsCRB == {TeamCRB(v1), TeamCRB(v2)}
TwoTenantsCR == {UseCR(v1), UseCR(v2)}

\* "team" with "dev-anyuid" and "team-dev" with "anyuid" share a host name.
Clashing == {TeamCRB(v1), CRB(v1, <<"team", "dev">>)}
DevAnyuid == <<"dev", "anyuid">>

ToCR   == [kind |-> "ClusterRole", name |-> <<"use">>]
ToRole == [kind |-> "Role", name |-> <<"use">>]
RefCR   == [b \in Bindings |-> {ToCR}]
RefOwn  == [b \in Bindings |-> IF b.kind = ClusterBinding THEN {ToCR} ELSE {ToRole}]
RefBoth == [b \in Bindings |-> IF b.kind = ClusterBinding THEN {ToCR} ELSE {ToCR, ToRole}]

sa(ns, n) == [kind |-> "ServiceAccount", ns |-> ns, name |-> n]
usr(n)    == [kind |-> "User", ns |-> << >>, name |-> n]
\* A RoleBinding's subject may leave its namespace out.
own(b, n) == IF b.kind = ClusterBinding THEN sa(ns1, n) ELSE sa(<< >>, n)
SubjSA    == [b \in Bindings |-> {{sa(ns1, <<"app">>)}}]
SubjTwo   == [b \in Bindings |-> {{own(b, <<"app">>)}, {sa(ns1, <<"web">>), usr(<<"ann">>)}}]
SubjMixed == [b \in Bindings |-> {{own(b, <<"app">>)}, {usr(<<"ann">>)}}]
SubjAll   == [b \in Bindings |-> SubjTwo[b] \cup SubjMixed[b]]

anyuid == <<"anyuid">>
priv   == <<"privileged">>
OneSCC == {anyuid}
TwoSCCs == {anyuid, priv}

rule(groups, verbs, names) ==
    [apiGroups |-> groups, resources |-> {"securitycontextconstraints"},
     verbs |-> verbs, resourceNames |-> names]
UseNamed(names) == {rule({"security.openshift.io"}, {"use"}, names)}
UseAny   == {rule({"*"}, {"*"}, {})}
ReadOnly == {rule({"security.openshift.io"}, {"get"}, {})}

ClashSCCs == {anyuid, DevAnyuid}
RulesClash == {UseNamed(ClashSCCs)}
RulesNamed    == {UseNamed({anyuid}), UseNamed(TwoSCCs)}
RulesOne      == {UseNamed({anyuid})}
RulesWildcard == {UseAny}
RulesMixed    == {UseNamed({anyuid}), UseAny, ReadOnly}
RulesToggle   == {UseNamed({anyuid}), ReadOnly}
RulesNarrow   == {UseNamed({anyuid}), UseNamed(TwoSCCs), ReadOnly}
=============================================================================
