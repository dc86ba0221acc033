------------------------------ MODULE SCCRules ------------------------------
(***************************************************************************)
(* The RBAC rules that grant the use of SecurityContextConstraints (SCCs). *)
(* A PolicyRule is a record of four sets of strings or names; a role's     *)
(* list of rules is the set of them, since neither the bridge              *)
(* (syncers/sccrbac.go) nor the pod hook (hooks/scc.go) looks at their     *)
(* order or at repetitions.                                                *)
(***************************************************************************)

sccAPIGroup == "security.openshift.io"
sccResource == "securitycontextconstraints"
sccUseVerb  == "use"

\* pkg.ContainsStr on the wanted value, or on the wildcard.
Covers(values, wanted) == wanted \in values \/ "*" \in values

IsSCCRule(rule) ==
    /\ Covers(rule.apiGroups, sccAPIGroup)
    /\ Covers(rule.resources, sccResource)
    /\ Covers(rule.verbs, sccUseVerb)

\* The SCC grants of a role: named ones, or a wildcard when the rule names
\* no resource.
extractSCCRules(rules) ==
    { [names    |-> rule.resourceNames,
       wildcard |-> rule.resourceNames = {}] : rule \in {r \in rules : IsSCCRule(r)} }

\* The SCC names the grants stand for when the virtual cluster has the SCCs
\* all.  A named SCC need not exist.
resolveSCCMatches(matches, all) ==
    UNION { IF m.wildcard THEN all ELSE m.names : m \in matches }
=============================================================================
