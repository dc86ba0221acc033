----------------------------- MODULE MCAdmission -----------------------------
(* A small instance of the plugin's admission of a pod: the account is bound *)
(* in its own namespace, and named by a RoleBinding of another one.          *)
EXTENDS SCCAdmission

v1 == <<"v1">>
V1 == {v1}
ns1 == <<"ns1">>
ns2 == <<"ns2">>
anyuid == <<"anyuid">>
OneSCC == {anyuid}
restricted == <<"restricted", "v2">>

RB(ns) == [vc |-> v1, kind |-> "RoleBinding", ns |-> ns, name |-> <<"dev">>]
RO(ns) == [vc |-> v1, kind |-> "Role", ns |-> ns, name |-> <<"use">>]
TwoBindings == {RB(ns1), RB(ns2)}
TwoRoles == {RO(ns1), RO(ns2)}
ToRole == [b \in Bindings |-> {[kind |-> "Role", name |-> <<"use">>]}]
sa(ns) == [kind |-> "ServiceAccount", ns |-> ns, name |-> <<"app">>]
ToApp == [b \in Bindings |-> IF b.ns = ns1 THEN {{sa(<< >>)}} ELSE {{sa(ns1)}}]

rule(names) ==
    [apiGroups |-> {"security.openshift.io"}, resources |-> {"securitycontextconstraints"},
     verbs |-> {"use"}, resourceNames |-> names]

AppPod == [namespaceLabel |-> ns1, namespaceAnnotation |-> << >>, saAnnotation |-> <<"app">>]

RunAsUser == {"runAsUser"}
content(strategy) == [f \in RunAsUser |-> strategy]
TwoContents == {content("MustRunAsNonRoot"), content("RunAsAny")}
OneCeiling == {content("MustRunAsNonRoot")}

Own   == [roleRef |-> [kind |-> "Role", name |-> <<"use">>], subjects |-> {sa(<< >>)}]
Cross == [roleRef |-> [kind |-> "Role", name |-> <<"use">>], subjects |-> {sa(ns1)}]
In(ns, body, other) == [b \in Bindings |-> IF b.ns = ns THEN body ELSE other]
For(ns, rules, other) == [r \in Roles |-> IF r.ns = ns THEN rules ELSE other]
Named == {rule({anyuid})}
Wildcard == {rule({})}
UseRules == {Named, Wildcard}
Low == [scc |-> content("MustRunAsNonRoot"), uid |-> 0]
start(own, cross, r1, r2, d, n) ==
    [bindings |-> In(ns1, own, cross), roles |-> For(ns1, r1, r2), scc |-> Low,
     demanding |-> d, allowance |-> n]
SomeStarts ==
    { start(Own, None, Wildcard, None, TRUE, 1),
      start(None, Cross, None, Named, TRUE, 1),
      start(None, None, Named, None, TRUE, 2),
      start(None, None, None, None, FALSE, 2) }
=============================================================================
