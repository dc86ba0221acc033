---------------------------- MODULE SCCAdmission ----------------------------
(***************************************************************************)
(* The three parts of the plugin that together decide under which SCC a    *)
(* tenant's pod runs (main.go): the SCC syncer copies the virtual SCC to   *)
(* the host (SCCSyncer), the RBAC bridge grants the copy's use to the      *)
(* host's accounts (SCCRBACBridge), and the pod hook names the copy in the *)
(* pod (SCCHook).  They run in one process, read the same virtual objects  *)
(* and never talk to each other: that the names and accounts they work out *)
(* for the host agree, and that what one has not done yet is made up for,  *)
(* is what lets a pod start.                                               *)
(*                                                                         *)
(* The module follows one virtual SCC and one pod.  The host's admission   *)
(* and vCluster's repetition of a rejected pod are external.               *)
(***************************************************************************)
EXTENDS VirtualRBAC

CONSTANTS
    vcluster,       \* the vCluster the plugin runs in
    sccName,        \* the name of the virtual SCC
    Pod,            \* the pod, as SCCHook has it
    defaultSCC,     \* restricted-v2, which the host grants to everyone
    Fields, Absent, SCCs, Ceilings,     \* as in SCCSyncer
    LabelMax,       \* as in SCCRBACBridge
    Starts,         \* the initial bindings, roles, SCC, demand and allowance to check
    MaxEdits,       \* bound: tenants' edits
    MaxFaults,      \* bound: API calls that fail
    MaxCrashes      \* bound: stops of the process

ASSUME AdmissionAssumption ==
    /\ \A start \in Starts : start.allowance \in Nat
    /\ VClusters = {vcluster}
    /\ SCCNames = {sccName}
    /\ None # 0             \* an SCC that exists, of priority 0, is not an absent one

VARIABLES
    bindings, roles,                                    \* the virtual RBAC objects
    scc, copy, remembered, pending, event, ceiling,     \* those of SCCSyncer
    hostCR, hostCRB, up, events, queue, worker,         \* those of SCCRBACBridge
    call, required,                                     \* those of SCCHook
    demanding,      \* the pod needs more than the default SCC allows
    admitted,       \* the SCC the host admitted the pod under, None before
    bound,          \* history: the roles the pod's account was ever bound to
    granting,       \* history: the roles that ever granted the SCC
    edits, faults, crashes, restarts,   \* used budgets
    allowance       \* bound of this start: edits, failures and stops, all together

fixed      == <<demanding, allowance>>
rbacVars   == <<bindings, roles>>
syncerVars == <<scc, copy, remembered, pending, event, ceiling>>
bridgeVars == <<hostCR, hostCRB, up, events, queue, worker>>
hookVars   == <<call, required>>
podVars    == <<admitted, fixed>>
history    == <<bound, granting>>
budgets    == <<edits, faults, crashes, restarts>>
vars == <<rbacVars, syncerVars, bridgeVars, hookVars, podVars, history, budgets>>

Bridge == INSTANCE SCCRBACBridge WITH
    sccs <- [v \in VClusters |-> IF scc = None THEN {} ELSE SCCNames],
    hostFaults <- faults, MaxHostFaults <- MaxFaults,
    sccEdits <- 0, MaxSCCEdits <- 0, virtualFaults <- 0, MaxVirtualFaults <- 0

Syncer == INSTANCE SCCSyncer WITH
    virtual <- scc, host <- copy,
    adminDeletes <- 0, MaxAdminDeletes <- 0, MaxRestarts <- MaxCrashes

Hook == INSTANCE SCCHook WITH
    sccs <- [n \in SCCNames |-> IF scc = None THEN None ELSE 0],
    Pods <- {Pod}, pod <- Pod, Priorities <- {0}, NameRank <- [n \in SCCNames |-> 0],
    seen <- {}

account == Hook!resolveVirtualSA(Pod)

-----------------------------------------------------------------------------
(* What Kubernetes' RBAC allows, independently of hook and bridge.          *)

Allows(rule) ==
    /\ {"security.openshift.io", "*"} \cap rule.apiGroups # {}
    /\ {"securitycontextconstraints", "*"} \cap rule.resources # {}
    /\ {"use", "*"} \cap rule.verbs # {}
    /\ rule.resourceNames = {} \/ sccName \in rule.resourceNames

BoundTo(r) ==
    \E b \in Bindings :
        IF bindings[b] = None THEN FALSE
        ELSE /\ b.kind = "RoleBinding" => b.ns = account.ns
             /\ bindings[b].roleRef = [kind |-> r.kind, name |-> r.name]
             /\ r.kind = "Role" => r.ns = b.ns
             /\ \E s \in bindings[b].subjects :
                   /\ s.kind = "ServiceAccount" /\ s.name = account.name
                   /\ (IF s.ns = << >> THEN b.ns ELSE s.ns) = account.ns

Granting(r) == IF roles[r] = None THEN FALSE ELSE \E rule \in roles[r] : Allows(rule)

BoundNow    == {r \in Roles : BoundTo(r)}
GrantingNow == {r \in Roles : Granting(r)}

-----------------------------------------------------------------------------
(* The host's admission of a pod that names its SCC.                        *)

\* The name the syncer gives the host copy.
copyName == <<"vc">> \o vcluster \o sccName

hostAccount == [vc |-> vcluster, ns |-> account.ns, name |-> account.name]

\* What the three parts assume of their constants, as they are given here.
ASSUME PartsAssumption ==
    /\ {LabelMax, MaxEdits, MaxFaults, MaxCrashes} \subseteq Nat
    /\ Fields \subseteq STRING
    /\ \A content \in SCCs : content = [field \in Fields |-> content[field]]
    /\ \A c \in Ceilings : DOMAIN c = Fields
    /\ None \notin Syncer!VirtualObject \cup Syncer!Copies \cup Syncer!Events
    /\ \A b \in Bindings :
           /\ Bridge!HostRole(b, sccName) # None
           /\ \A subjects \in SubjectSets[b] :
                  Bridge!HostBinding(b, Bridge!translateSubjects(b, subjects)) # None
    /\ None \notin {defaultSCC, copyName}
    /\ account.ns # << >>       \* the hook finds the pod's virtual namespace

\* The host's RBAC allows the account the use of the SCC of this name.
HostGrants(name) ==
    \E n \in Bridge!HostNames :
        IF hostCR[n] = None \/ hostCRB[n] = None THEN FALSE
        ELSE hostCR[n].resourceName = name /\ hostAccount \in hostCRB[n].subjects

Admits(name) ==
    \/ name = defaultSCC /\ ~demanding
    \/ name = copyName /\ copy # None /\ HostGrants(name)

-----------------------------------------------------------------------------
Init ==
    /\ \E start \in Starts : /\ bindings = start.bindings /\ roles = start.roles
                             /\ scc = start.scc /\ demanding = start.demanding
                             /\ allowance = start.allowance
    /\ Syncer!Init /\ Bridge!Init
    /\ call = Hook!Start /\ required = None
    /\ admitted = None
    /\ bound = BoundNow /\ granting = GrantingNow
    /\ edits = 0 /\ faults = 0 /\ crashes = 0 /\ restarts = 0

Recorded == bound' = bound \cup BoundNow' /\ granting' = granting \cup GrantingNow'

EditsRBAC ==
    /\ UNCHANGED <<syncerVars, hookVars, podVars, restarts>>
    /\ \/ \E b \in Bindings :
            Bridge!DeleteBinding(b) \/ \E body \in Bodies(b) : Bridge!PutBinding(b, body)
       \/ \E r \in Roles : Bridge!DeleteRole(r) \/ \E rules \in RuleSets : Bridge!PutRole(r, rules)
    /\ Recorded

EditsSCC ==
    /\ Syncer!Tenant
    /\ UNCHANGED <<rbacVars, bridgeVars, hookVars, podVars, history, crashes>>

BridgeWorks ==
    /\ UNCHANGED <<rbacVars, syncerVars, hookVars, podVars, history, restarts>>
    /\ Bridge!Deliver(vcluster) \/ Bridge!Work(vcluster)

BridgeFails ==
    /\ UNCHANGED <<rbacVars, syncerVars, hookVars, podVars, history, restarts>>
    /\ Bridge!HostCallFails(vcluster)

SyncerWorks ==
    /\ up[vcluster]
    /\ Syncer!Read \/ Syncer!Handle
    /\ UNCHANGED <<rbacVars, bridgeVars, hookVars, podVars, history, crashes>>

SyncerFails ==
    /\ up[vcluster]
    /\ Syncer!CallFails
    /\ UNCHANGED <<rbacVars, bridgeVars, hookVars, podVars, history, crashes>>

\* The hook's calls for the pod go on until the host admits it.
Called == up[vcluster] /\ admitted = None

HookWorks ==
    /\ Called
    /\ UNCHANGED <<rbacVars, syncerVars, bridgeVars, podVars, history, crashes, restarts>>
    /\ \/ Hook!ListClusterRoleBindings \/ Hook!ListRoleBindings \/ Hook!ResolveRoleRef
       \/ Hook!ListAllVirtualSCCs \/ Hook!RBACRead \/ Hook!GetPriority \/ Hook!SelectBest

HookFails ==
    /\ Called
    /\ UNCHANGED <<rbacVars, syncerVars, bridgeVars, podVars, history, crashes, restarts>>
    /\ Hook!ListFails \/ Hook!ResolveFails \/ Hook!GetPriorityFails

\* The host admits the pod, or rejects it and vCluster tries again.
Admission ==
    /\ Called
    /\ required # None
    /\ admitted' = IF Admits(required) THEN required ELSE None
    /\ call' = Hook!Start /\ required' = None
    /\ UNCHANGED <<rbacVars, syncerVars, bridgeVars, fixed, history, budgets>>

\* The process stops in all its parts; a start finds what exists.
Crash ==
    /\ UNCHANGED <<rbacVars, syncerVars, podVars, history, restarts>>
    /\ Bridge!Crash(vcluster)
    /\ call' = Hook!Start /\ required' = None

Restart ==
    /\ Syncer!Restart
    /\ UNCHANGED <<rbacVars, hookVars, podVars, history>>
    /\ Bridge!Restart(vcluster)

Mishap == EditsRBAC \/ EditsSCC \/ BridgeFails \/ SyncerFails \/ HookFails \/ Crash

Next ==
    \/ BridgeWorks \/ SyncerWorks \/ HookWorks \/ Admission \/ Restart
    \/ edits + faults + crashes < allowance /\ Mishap

Spec == Init /\ [][Next]_vars

\* The controllers' goroutines, the pod's repeated synchronisation and the
\* StatefulSet that starts the process again; tenants and faults owe nothing.
FairSpec ==
    /\ Spec
    /\ WF_vars(BridgeWorks) /\ WF_vars(SyncerWorks)
    /\ WF_vars(HookWorks) /\ WF_vars(Admission) /\ WF_vars(Restart)

-----------------------------------------------------------------------------
(* Properties.                                                             *)

\* Every variable has its type, in each part that shares it.
TypeOK ==
    /\ Bridge!TypeOK /\ Syncer!TypeOK
    /\ call.pc \in Hook!PCs /\ call.granted \subseteq SCCNames
    /\ required = None <=> call.pc # "done"
    /\ admitted \in {None, defaultSCC, copyName}
    /\ bound \in SUBSET Roles /\ granting \in SUBSET Roles

Allowed  == BoundNow \cap GrantingNow # {}
Existing == IF scc = None THEN {} ELSE SCCNames

\* The SCCs the bridge wants the pod's host account to have.
bridgedTo ==
    UNION {Bridge!Desired(b) : b \in {c \in Bindings : hostAccount \in Bridge!grantedSubjects(c)}}

\* Whatever the bindings and roles, the hook's own evaluation of the virtual
\* RBAC is Kubernetes', and the bridge, which evaluates it a second time, gives
\* the pod's host account every SCC the hook may select for it.
HookAndBridgeAgree ==
    /\ Hook!grantedTo(account) \cap Existing = IF Allowed THEN Existing ELSE {}
    /\ Hook!grantedTo(account) \subseteq bridgedTo

NamedBy(r) == IF roles[r] = None THEN FALSE
              ELSE \E rule \in roles[r] : Allows(rule) /\ sccName \in rule.resourceNames

\* An SCC within the ceiling that the account is granted by name.  (A role that
\* grants all SCCs is bridged for those that exist when its binding is
\* reconciled: the SCCs are not watched.)
Usable ==
    /\ \E r \in BoundNow : NamedBy(r)
    /\ IF scc = None THEN FALSE ELSE Syncer!Within(scc.scc, ceiling)

Quiet == Bridge!Settled(vcluster) /\ Syncer!Settled

\* Once bridge and syncer have settled, the hook selects the SCC that the
\* account may use, and the host admits the pod under the name it is given: the
\* three parts mean the same object and the same account.
UsableIsAdmitted ==
    Quiet /\ Usable => Admits(Hook!hostSCCName(Hook!bestFor(account)))

\* A pod is admitted under a copied SCC only when its account was bound, in its
\* own namespace, to a role that granted the SCC, though maybe at different
\* instants: neither what the host grants for RoleBindings of other namespaces
\* (sccrbac.go:242), nor a stale host grant, nor a failed read of the hook is
\* enough.
AdmittedHadAGrant ==
    admitted \notin {None, defaultSCC} => bound \cap granting # {}

\* A pod whose account can use the SCC for good is admitted in the end, whatever
\* was rejected before the copy and the grant were there; so is one that needs
\* no more than the default and whose account has no grant.
PodStarts ==
    /\ <>[]Usable => <>(admitted # None)
    /\ ~demanding /\ <>[]~Allowed => <>(admitted # None)
=============================================================================
