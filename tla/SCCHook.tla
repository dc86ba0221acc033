------------------------------ MODULE SCCHook ------------------------------
(***************************************************************************)
(* The pod hook (plugins/resource-syncer/hooks/scc.go): before vCluster    *)
(* writes a pod to the host, the hook selects the SCC the pod must be      *)
(* admitted under, the one of highest priority among those the virtual     *)
(* RBAC grants to the pod's service account, and names its host copy in    *)
(* the annotation openshift.io/required-scc.                               *)
(*                                                                         *)
(* The hook reads the bindings, each matching binding's role, the list of  *)
(* SCCs for a role that grants them all, and each granted SCC with a call  *)
(* of its own, while the tenant goes on editing.  It writes its own pod    *)
(* only, so that the module follows one call.  Several rules of one role   *)
(* that grant all SCCs share one reading of the list.                      *)
(***************************************************************************)
EXTENDS VirtualRBAC

CONSTANTS
    Pods,           \* pods, as [namespaceLabel, namespaceAnnotation, saAnnotation]
    vcluster,       \* the vCluster the hook runs in
    defaultSCC,     \* restricted-v2
    Priorities,     \* the priorities an SCC may have
    NameRank,       \* the place of each SCC name in the order of strings
    MaxEdits,       \* bound: tenants' edits during the call
    MaxFaults       \* bound: reads that fail

ASSUME HookAssumption ==
    /\ VClusters = {vcluster}
    /\ defaultSCC \in Words
    /\ IsFiniteSet(SCCNames)        \* a name has at most 253 characters
    /\ NameRank \in [SCCNames -> Nat]
    /\ \A m, n \in SCCNames : NameRank[m] = NameRank[n] => m = n
    /\ Priorities \subseteq Nat
    /\ MaxEdits \in Nat
    /\ MaxFaults \in Nat

VARIABLES
    bindings,   \* [Bindings -> None or [roleRef, subjects]]
    roles,      \* [Roles -> None or a set of rules]
    sccs,       \* [SCCNames -> None or a priority]
    pod,        \* the pod the hook was called with
    call,       \* what the call has read and has still to read
    required,   \* the annotation of the host pod, None until the call returns
    seen,       \* history: what held at each instant of the call
    edits, faults   \* used budgets

virtual == <<bindings, roles, sccs>>
vars == <<virtual, pod, call, required, seen, edits, faults>>

-----------------------------------------------------------------------------
(* The pod's service account.                                              *)

\* The virtual namespace is a label or an annotation of the translated pod,
\* the service account an annotation, "default" when it has none.
resolveVirtualSA(p) ==
    [ns   |-> IF p.namespaceLabel # << >> THEN p.namespaceLabel ELSE p.namespaceAnnotation,
     name |-> IF p.saAnnotation # << >> THEN p.saAnnotation ELSE <<"default">>]

subjectMatches(subjects, account) ==
    \E s \in subjects : /\ s.kind = "ServiceAccount"
                        /\ s.name = account.name
                        /\ s.ns \in {account.ns, << >>}

\* Mutant of hostSCCName: the vCluster's name is left out.
hostSCCNameOfNoOne(scc) == IF scc = defaultSCC THEN defaultSCC ELSE <<"vc">> \o scc

\* "vc-<vcluster>-<name>", but for the default.
hostSCCName(scc) == IF scc = defaultSCC THEN defaultSCC ELSE <<"vc">> \o vcluster \o scc

\* The marker of an annotation not yet written is nobody's name.
ASSUME NoneAssumption == \A scc \in SCCNames \cup {defaultSCC} : hostSCCName(scc) # None

-----------------------------------------------------------------------------
(* What a call that reads everything at one instant selects.               *)

existing == {scc \in SCCNames : sccs[scc] # None}

\* What a role grants, whoever is bound to it; an absent one grants nothing.
roleGrants(r) ==
    IF r \notin Roles THEN {} ELSE IF roles[r] = None THEN {} ELSE extractSCCRules(roles[r])

applies(b, account) ==
    /\ bindings[b] # None
    /\ b.kind = "RoleBinding" => b.ns = account.ns
    /\ subjectMatches(bindings[b].subjects, account)

boundRoles(account) ==
    Roles \cap {roleOf(b, bindings[b].roleRef) : b \in {c \in Bindings : applies(c, account)}}

grantedTo(account) ==
    UNION {resolveSCCMatches(roleGrants(r), existing) : r \in boundRoles(account)}

outranks(m, n, priority) ==
    \/ priority[m] > priority[n]
    \/ priority[m] = priority[n] /\ NameRank[m] < NameRank[n]

bestFor(account) ==
    LET usable == grantedTo(account) \cap existing
    IN  IF account.ns = << >> \/ usable = {} THEN defaultSCC
        ELSE CHOOSE m \in usable : \A n \in usable \ {m} : outranks(m, n, sccs)

\* For the history: the best SCC, the granted ones, those that exist, the
\* roles the account is bound to, and what each role grants.
Instant ==
    LET account == resolveVirtualSA(pod) IN
    [best    |-> bestFor(account),
     granted |-> grantedTo(account),
     existing |-> existing,
     bound   |-> boundRoles(account),
     grants  |-> [r \in Roles |-> roleGrants(r)]]

-----------------------------------------------------------------------------
\* The bindings still to resolve, the grants of a role that wait for the list
\* of SCCs, the SCCs granted so far, those whose priority is still to read,
\* and the candidates, with their priorities.
Start == [pc |-> "start", todo |-> {}, matches |-> {}, granted |-> {}, unread |-> {},
          candidates |-> << >>]

Init ==
    /\ bindings \in [Bindings -> {None} \cup UNION {Bodies(b) : b \in Bindings}]
    /\ \A b \in Bindings : bindings[b] \in {None} \cup Bodies(b)
    /\ roles \in [Roles -> {None} \cup RuleSets]
    /\ sccs \in [SCCNames -> {None} \cup Priorities]
    /\ pod \in Pods
    /\ call = Start
    /\ required = None
    /\ seen = {Instant}
    /\ edits = 0 /\ faults = 0

-----------------------------------------------------------------------------
(* The tenant, while the call is under way.                                *)

Edit ==
    /\ required = None
    /\ edits < MaxEdits
    /\ edits' = edits + 1
    /\ virtual' # virtual
    /\ UNCHANGED <<pod, call, required, faults>>
    /\ seen' = seen \cup {Instant'}

EditBinding(b) ==
    /\ \/ bindings' = [bindings EXCEPT ![b] = None]
       \/ \E body \in Bodies(b) :
              /\ bindings[b] # None => bindings[b].roleRef = body.roleRef
              /\ bindings' = [bindings EXCEPT ![b] = body]
    /\ UNCHANGED <<roles, sccs>>
    /\ Edit

EditRole(r) ==
    /\ \E rules \in RuleSets \cup {None} : roles' = [roles EXCEPT ![r] = rules]
    /\ UNCHANGED <<bindings, sccs>>
    /\ Edit

EditSCC(scc) ==
    /\ \E priority \in Priorities \cup {None} : sccs' = [sccs EXCEPT ![scc] = priority]
    /\ UNCHANGED <<bindings, roles>>
    /\ Edit

-----------------------------------------------------------------------------
(* The call.                                                               *)

Select(scc) ==
    /\ required' = hostSCCName(scc)
    /\ call' = [Start EXCEPT !.pc = "done"]

Continue(c) ==
    /\ call' = c
    /\ UNCHANGED required

NoFault == UNCHANGED <<virtual, pod, seen, edits, faults>>

Fault ==
    /\ faults < MaxFaults
    /\ faults' = faults + 1
    /\ UNCHANGED <<virtual, pod, seen, edits>>

sa == resolveVirtualSA(pod)

\* A pod of no known virtual namespace gets the default.
Unidentified ==
    /\ call.pc = "start"
    /\ sa.ns = << >>
    /\ Select(defaultSCC)
    /\ NoFault

Resolved == call.todo = {} /\ call.matches = {}

matching(kind) ==
    {b \in Bindings : b.kind = kind /\ applies(b, sa)}

\* The list holds the bindings' contents as they are now.
todoOf(kind) == {[key |-> b, ref |-> bindings[b].roleRef] : b \in matching(kind)}

ListClusterRoleBindings ==
    /\ call.pc = "start"
    /\ sa.ns # << >>
    /\ Continue([call EXCEPT !.pc = "clusterBindings", !.todo = todoOf(ClusterBinding)])
    /\ NoFault

\* Mutant of ListRoleBindings: the RoleBindings of all namespaces are listed.
ListRoleBindingsAnywhere ==
    /\ call.pc = "clusterBindings"
    /\ Resolved
    /\ Continue([call EXCEPT !.pc = "bindings",
                             !.todo = {[key |-> b, ref |-> bindings[b].roleRef] : b \in
                                 {c \in Bindings : /\ c.kind = "RoleBinding"
                                                  /\ bindings[c] # None
                                                  /\ subjectMatches(bindings[c].subjects, sa)}}])
    /\ NoFault

ListRoleBindings ==
    /\ call.pc = "clusterBindings"
    /\ Resolved
    /\ Continue([call EXCEPT !.pc = "bindings", !.todo = todoOf("RoleBinding")])
    /\ NoFault

\* On a failed list the call gives up all it has found.
ListFails ==
    /\ call.pc \in {"start", "clusterBindings"}
    /\ Resolved
    /\ sa.ns # << >>
    /\ Select(defaultSCC)
    /\ Fault

Wild(matches) == \E m \in matches : m.wildcard

\* The role the listed binding refers to is read now.
ResolveRoleRef ==
    /\ call.pc \in {"clusterBindings", "bindings"}
    /\ call.matches = {}
    /\ \E t \in call.todo :
        LET matches == roleGrants(roleOf(t.key, t.ref)) IN
        Continue(IF Wild(matches)
                 THEN [call EXCEPT !.todo = @ \ {t}, !.matches = matches]
                 ELSE [call EXCEPT !.todo = @ \ {t},
                                   !.granted = @ \cup resolveSCCMatches(matches, {})])
    /\ NoFault

\* The list of SCCs, read after a role that grants them all.
ListAllVirtualSCCs ==
    /\ call.matches # {}
    /\ Continue([call EXCEPT !.matches = {},
                             !.granted = @ \cup resolveSCCMatches(call.matches, existing)])
    /\ NoFault

\* Mutant of ResolveFails: an unreadable role is taken to grant every SCC.
ResolveFailsOpen ==
    /\ call.pc \in {"clusterBindings", "bindings"}
    /\ call.matches = {}
    /\ \E t \in call.todo :
        Continue([call EXCEPT !.todo = @ \ {t}, !.granted = @ \cup existing])
    /\ Fault

\* A binding whose role or SCCs cannot be read is passed over, with the SCCs
\* its role names.
ResolveFails ==
    /\ call.pc \in {"clusterBindings", "bindings"}
    /\ \/ call.matches # {} /\ Continue([call EXCEPT !.matches = {}])
       \/ call.matches = {} /\ \E t \in call.todo : Continue([call EXCEPT !.todo = @ \ {t}])
    /\ Fault

\* Mutant of RBACRead: the priorities of all SCCs are read.
RBACReadAll ==
    /\ call.pc = "bindings"
    /\ Resolved
    /\ Continue([call EXCEPT !.pc = "priorities", !.unread = existing])
    /\ NoFault

RBACRead ==
    /\ call.pc = "bindings"
    /\ Resolved
    /\ Continue([call EXCEPT !.pc = "priorities", !.unread = call.granted])
    /\ NoFault

\* An SCC that is granted and does not exist is no candidate.
GetPriority ==
    /\ call.pc = "priorities"
    /\ \E scc \in call.unread :
        Continue([call EXCEPT !.unread = @ \ {scc},
                              !.candidates = IF sccs[scc] = None THEN @
                                             ELSE [n \in DOMAIN @ \cup {scc} |->
                                                      IF n = scc THEN sccs[scc] ELSE @[n]]])
    /\ NoFault

GetPriorityFails ==
    /\ call.pc = "priorities"
    /\ \E scc \in call.unread : Continue([call EXCEPT !.unread = @ \ {scc}])
    /\ Fault

\* Mutant of SelectBest: the candidates are sorted by name alone.
SelectFirstName ==
    /\ call.pc = "priorities"
    /\ call.unread = {}
    /\ LET candidates == DOMAIN call.candidates IN
       Select(IF candidates = {} THEN defaultSCC
              ELSE CHOOSE m \in candidates :
                       \A n \in candidates \ {m} : NameRank[m] < NameRank[n])
    /\ NoFault

\* The candidates sorted by priority, highest first, then by name.
SelectBest ==
    /\ call.pc = "priorities"
    /\ call.unread = {}
    /\ LET candidates == DOMAIN call.candidates IN
       Select(IF candidates = {} THEN defaultSCC
              ELSE CHOOSE m \in candidates :
                       \A n \in candidates \ {m} : outranks(m, n, call.candidates))
    /\ NoFault

Tenant ==
    \/ \E b \in Bindings : EditBinding(b)
    \/ \E r \in Roles : EditRole(r)
    \/ \E scc \in SCCNames : EditSCC(scc)

Hook ==
    \/ Unidentified \/ ListClusterRoleBindings \/ ListRoleBindings \/ ListFails
    \/ ResolveRoleRef \/ ListAllVirtualSCCs \/ ResolveFails \/ RBACRead
    \/ GetPriority \/ GetPriorityFails \/ SelectBest

Next == Tenant \/ Hook

Spec == Init /\ [][Next]_vars

-----------------------------------------------------------------------------
(* Properties.                                                             *)

PCs == {"start", "clusterBindings", "bindings", "priorities", "done"}

\* Every variable has its type.
TypeOK ==
    /\ DOMAIN bindings = Bindings
    /\ \A b \in Bindings : bindings[b] \in Bodies(b) \cup {None}
    /\ roles \in [Roles -> RuleSets \cup {None}]
    /\ sccs \in [SCCNames -> Priorities \cup {None}]
    /\ pod \in Pods
    /\ DOMAIN call = DOMAIN Start /\ call.pc \in PCs
    /\ \A t \in call.todo : t.key \in Bindings /\ t.ref \in RoleRefs[t.key]
    /\ call.matches \subseteq UNION {extractSCCRules(rules) : rules \in RuleSets}
    /\ call.granted \subseteq SCCNames
    /\ call.unread \subseteq call.granted
    /\ DOMAIN call.candidates \subseteq call.granted
    /\ \A scc \in DOMAIN call.candidates : call.candidates[scc] \in Priorities
    /\ required = None <=> call.pc # "done"
    /\ edits \in 0..MaxEdits /\ faults \in 0..MaxFaults

\* When all reads succeed and the tenant edits at most once during the call,
\* the selection is the best SCC of some instant of the call, although the
\* call reads bindings, roles and SCCs one after the other.
SelectionIsBestOfAnInstant ==
    required # None /\ faults = 0 /\ edits <= 1 =>
        \E i \in seen : required = hostSCCName(i.best)

\* Whatever reads fail, with at most one edit during the call the selection
\* is the default or an SCC the account was granted at some instant of it: a
\* failure never selects more than was granted.
SelectionWasGranted ==
    required # None /\ edits <= 1 =>
        \/ required = defaultSCC
        \/ \E i \in seen : \E scc \in i.granted : required = hostSCCName(scc)

\* However many edits and failures there are, an SCC is selected only when
\* at some instant of the call it existed, at some the account was bound to a
\* role, and at some that role granted the SCC, by name or with all others.
SelectionHasAGrant ==
    required # None /\ required # defaultSCC =>
        \E i, j, k \in seen : \E scc \in k.existing, r \in i.bound : \E m \in j.grants[r] :
            required = hostSCCName(scc) /\ (m.wildcard \/ scc \in m.names)
=============================================================================
