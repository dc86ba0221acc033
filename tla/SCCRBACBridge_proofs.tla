------------------------ MODULE SCCRBACBridge_proofs ------------------------
(***************************************************************************)
(* Theorems about the SCC RBAC bridge, for every set of vClusters,         *)
(* bindings, roles and SCCs and every bound.                               *)
(***************************************************************************)
EXTENDS SCCRBACBridge, TLAPS

\* The grants of a role of the system name SCCs of the system, and so do the
\* SCCs they resolve to (resolveSCCMatches, sccrbac.go:162).
LEMMA ResolvedNames ==
    ASSUME NEW matches \in SUBSET RuleMatches, NEW all \in SUBSET SCCNames
    PROVE  resolveSCCMatches(matches, all) \in SUBSET SCCNames
<1>1. ASSUME NEW m \in matches PROVE m.names \in SUBSET SCCNames
  <2>1. PICK rules \in RuleSets : m \in extractSCCRules(rules)
    BY <1>1 DEF RuleMatches
  <2>2. PICK rule \in rules : m.names = rule.resourceNames
    BY <2>1 DEF extractSCCRules
  <2>3. QED
    BY <2>2, ConstantsAssumption
<1>2. QED
  BY <1>1 DEF resolveSCCMatches

\* A mapping function queues bindings only, and those of the object's own
\* vCluster (clusterRoleToBindings, sccrbac.go:366, roleToBindings, :388).
LEMMA RequestsAreBindings ==
    ASSUME NEW obj \in Bindings \cup Roles
    PROVE  requests(obj) \in SUBSET {b \in Bindings : b.vc = obj.vc}
BY DEF requests, clusterRoleToBindings, roleToBindings

\* The host subjects of a binding's content are among those the type allows.
LEMMA TranslatedSubjects ==
    ASSUME NEW b \in Bindings, NEW body \in Bodies(b)
    PROVE  translateSubjects(b, body.subjects) \in HostSubjectSets
BY DEF Bodies, HostSubjectSets

\* What the host objects of a grant hold.
LEMMA HostObjectTypes ==
    ASSUME NEW b \in Bindings, NEW scc \in SCCNames, NEW subjects \in HostSubjectSets
    PROVE  /\ hostName(b, scc) \in HostNames
           /\ HostRole(b, scc) \in [labels : Labels, resourceName : HostCopies]
           /\ HostBinding(b, subjects) \in [labels : Labels, subjects : HostSubjectSets]
BY DEF HostNames, HostRole, HostBinding, Labels, HostCopies

\* TypeOK, split: the virtual and the host objects, the queues, the workers.
VirtualType ==
    /\ DOMAIN bindings = Bindings
    /\ \A b \in Bindings : bindings[b] \in Bodies(b) \cup {None}
    /\ roles \in [Roles -> RuleSets \cup {None}]
    /\ sccs \in [VClusters -> SUBSET SCCNames]

HostType ==
    /\ hostCR \in [HostNames -> [labels : Labels, resourceName : HostCopies] \cup {None}]
    /\ hostCRB \in [HostNames -> [labels : Labels, subjects : HostSubjectSets] \cup {None}]

QueueType ==
    /\ up \in [VClusters -> BOOLEAN]
    /\ events \in [VClusters -> SUBSET (Bindings \cup Roles)]
    /\ queue \in [VClusters -> SUBSET Bindings]

WorkerOK(w) ==
    /\ w \in Workers
    /\ w.pc # "idle" => w.req \in Bindings
    /\ w.pc \in {"getRole", "listSCCs", "ensureCR", "ensureCRB"} => w.body \in Bodies(w.req)
    /\ w.pc = "ensureCRB" => w.current \in SCCNames

WorkerType ==
    /\ worker \in [VClusters -> Workers]
    /\ \A v \in VClusters : WorkerOK(worker[v])

LEMMA TypeParts == TypeOK <=> VirtualType /\ HostType /\ QueueType /\ WorkerType
BY DEF TypeOK, VirtualType, HostType, QueueType, WorkerType, WorkerOK

LEMMA IdleOK == WorkerOK(Idle)
BY DEF WorkerOK, Workers, Idle, PCs

\* A worker that starts a cleanup keeps its key.
LEMMA StartCleanupOK ==
    ASSUME NEW w, w.req \in Bindings
    PROVE  WorkerOK(StartCleanup(w))
BY DEF WorkerOK, Workers, StartCleanup, Idle, PCs

\* Replacing one worker by a well-typed one keeps the workers well typed.
LEMMA WorkerStep ==
    ASSUME WorkerType, NEW v \in VClusters, NEW w, WorkerOK(w),
           worker' = [worker EXCEPT ![v] = w]
    PROVE  WorkerType'
<1>1. w \in Workers
  BY DEF WorkerOK
<1>2. worker' \in [VClusters -> Workers]
  BY <1>1 DEF WorkerType
<1>3. \A u \in VClusters : worker'[u] = IF u = v THEN w ELSE worker[u]
  BY DEF WorkerType
<1>4. \A u \in VClusters : WorkerOK(worker'[u])
  BY <1>3 DEF WorkerType
<1>5. QED
  BY <1>2, <1>4 DEF WorkerType, WorkerOK

\* Step and Fail (l.77 to l.133: a reconcile goes on, or returns an error).
LEMMA StepType ==
    ASSUME QueueType, WorkerType, UnchangedByWork, NEW v \in VClusters, NEW w, WorkerOK(w),
           Step(v, w)
    PROVE  QueueType' /\ WorkerType'
BY WorkerStep DEF Step, UnchangedByWork, QueueType

LEMMA FailType ==
    ASSUME QueueType, WorkerType, UnchangedByWork, NEW v \in VClusters,
           worker[v].req \in Bindings, Fail(v)
    PROVE  QueueType' /\ WorkerType'
<1>1. WorkerType'
  BY WorkerStep, IdleOK DEF Fail
<1>2. QueueType'
  BY DEF Fail, UnchangedByWork, QueueType
<1>3. QED
  BY <1>1, <1>2

LEMMA WorkKeepsVirtual ==
    ASSUME VirtualType, UnchangedByWork
    PROVE  VirtualType'
BY DEF VirtualType, UnchangedByWork, virtual

LEMMA UnchangedHost ==
    ASSUME HostType, UNCHANGED host
    PROVE  HostType'
BY DEF HostType, host

-----------------------------------------------------------------------------
LEMMA InitType == Init => TypeOK
<1> SUFFICES ASSUME Init PROVE TypeOK
  OBVIOUS
<1>1. VirtualType
  BY DEF Init, VirtualType
<1>2. HostType
  BY DEF Init, HostType
<1>3. QueueType
  BY DEF Init, QueueType, Existing
<1>4. WorkerType
  <2>1. Idle \in Workers
    BY IdleOK DEF WorkerOK
  <2>2. QED
    BY <2>1, IdleOK DEF Init, WorkerType
<1>5. QED
  BY <1>1, <1>2, <1>3, <1>4, TypeParts

\* A notification of objects of the system is typed.
LEMMA NotifyType ==
    ASSUME QueueType, NEW v \in VClusters, NEW objs \in SUBSET (Bindings \cup Roles),
           Notify(v, objs)
    PROVE  events' \in [VClusters -> SUBSET (Bindings \cup Roles)]
<1>1. events \in [VClusters -> SUBSET (Bindings \cup Roles)]
  BY DEF QueueType
<1>2. events[v] \cup objs \in SUBSET (Bindings \cup Roles)
  BY <1>1
<1>3. QED
  BY <1>1, <1>2 DEF Notify

LEMMA KeysHaveVCluster ==
    /\ \A b \in Bindings : b.vc \in VClusters
    /\ \A r \in Roles : r.vc \in VClusters
BY ConstantsAssumption DEF Binding, Role

\* An edit leaves the host, the queue and the worker alone.
LEMMA EditType ==
    ASSUME HostType, QueueType, WorkerType, Edit,
           events' \in [VClusters -> SUBSET (Bindings \cup Roles)]
    PROVE  HostType' /\ QueueType' /\ WorkerType'
BY DEF Edit, HostType, QueueType, WorkerType, WorkerOK, host

\* The tenants' edits.
LEMMA TenantsType == TypeOK /\ Tenants => TypeOK'
<1> SUFFICES ASSUME VirtualType, HostType, QueueType, WorkerType, Tenants
             PROVE  VirtualType' /\ HostType' /\ QueueType' /\ WorkerType'
  BY TypeParts DEF TypeOK, VirtualType, HostType, QueueType, WorkerType, WorkerOK
<1>1. ASSUME NEW b \in Bindings, DeleteBinding(b)
      PROVE  VirtualType' /\ HostType' /\ QueueType' /\ WorkerType'
  <2>1. Notify(b.vc, {b}) /\ Edit
    BY <1>1 DEF DeleteBinding
  <2>2. VirtualType'
    BY <1>1 DEF DeleteBinding, Edit, VirtualType
  <2>3. QED
    BY <2>1, <2>2, EditType, NotifyType, KeysHaveVCluster
<1>2. ASSUME NEW b \in Bindings, NEW body \in Bodies(b), PutBinding(b, body)
      PROVE  VirtualType' /\ HostType' /\ QueueType' /\ WorkerType'
  <2>1. Notify(b.vc, {b}) /\ Edit
    BY <1>2 DEF PutBinding
  <2>2. VirtualType'
    BY <1>2 DEF PutBinding, Edit, VirtualType
  <2>3. QED
    BY <2>1, <2>2, EditType, NotifyType, KeysHaveVCluster
<1>3. ASSUME NEW r \in Roles, NEW rules \in RuleSets \cup {None}, ChangeRole(r, rules)
      PROVE  VirtualType' /\ HostType' /\ QueueType' /\ WorkerType'
  <2>1. (Notify(r.vc, {r}) \/ Notify(r.vc, {})) /\ Edit
    BY <1>3 DEF ChangeRole
  <2>2. VirtualType'
    BY <1>3 DEF ChangeRole, Edit, VirtualType
  <2>3. QED
    BY <2>1, <2>2, EditType, NotifyType, KeysHaveVCluster
<1>4. ASSUME NEW v \in VClusters, NEW scc \in SCCNames, EditSCC(v, scc)
      PROVE  VirtualType' /\ HostType' /\ QueueType' /\ WorkerType'
  BY <1>4, SMTT(30) DEF EditSCC, VirtualType, HostType, QueueType, WorkerType, WorkerOK, host
<1>5. QED
  BY <1>1, <1>2, <1>3, <1>4 DEF Tenants, DeleteRole, PutRole

\* The watches, the stops and the starts.
LEMMA ControllerType ==
    ASSUME TypeOK, NEW v \in VClusters,
           Deliver(v) \/ MappingFails(v) \/ GetBindingFails(v) \/ Crash(v) \/ Restart(v)
    PROVE  TypeOK'
<1>0. VirtualType /\ HostType /\ QueueType /\ WorkerType
  BY TypeParts
<1> SUFFICES VirtualType' /\ HostType' /\ QueueType' /\ WorkerType'
  BY TypeParts DEF TypeOK, VirtualType, HostType, QueueType, WorkerType, WorkerOK
<1>1. CASE Deliver(v)
  <2>1. PICK obj \in events[v] : queue' = [queue EXCEPT ![v] = @ \cup requests(obj)]
    BY <1>1 DEF Deliver
  <2>2. requests(obj) \in SUBSET Bindings
    BY <1>0, RequestsAreBindings DEF QueueType
  <2>3. QueueType'
    BY <1>0, <1>1, <2>1, <2>2 DEF Deliver, QueueType
  <2>4. VirtualType' /\ HostType' /\ WorkerType'
    BY <1>0, <1>1 DEF Deliver, VirtualType, HostType, WorkerType, WorkerOK, virtual, host
  <2>5. QED
    BY <2>3, <2>4
<1>2. CASE MappingFails(v)
  BY <1>0, <1>2 DEF MappingFails, VirtualFault, VirtualType, HostType, QueueType, WorkerType,
     WorkerOK, virtual, host
<1>3. CASE GetBindingFails(v)
  BY <1>0, <1>3 DEF GetBindingFails, VirtualFault, VirtualType, HostType, QueueType, WorkerType,
     WorkerOK, virtual, host
<1>4. CASE Crash(v)
  <2>1. WorkerType'
    BY <1>0, <1>4, WorkerStep, IdleOK DEF Crash
  <2>2. QueueType'
    BY <1>0, <1>4 DEF Crash, QueueType
  <2>3. VirtualType' /\ HostType'
    BY <1>0, <1>4 DEF Crash, VirtualType, HostType, virtual, host
  <2>4. QED
    BY <2>1, <2>2, <2>3
<1>5. CASE Restart(v)
  <2>1. Existing(v) \subseteq Bindings \cup Roles
    BY DEF Existing
  <2>2. QED
    BY <1>0, <1>5, <2>1 DEF Restart, VirtualType, HostType, QueueType, WorkerType,
       WorkerOK, virtual, host
<1>6. QED
  BY <1>1, <1>2, <1>3, <1>4, <1>5

\* The steps of a reconcile that read the virtual cluster.
LEMMA ResolveType ==
    ASSUME TypeOK, NEW v \in VClusters,
           Reconcile(v) \/ GetRole(v) \/ ListSCCs(v) \/ ResolveFails(v)
    PROVE  TypeOK'
<1>0. VirtualType /\ HostType /\ QueueType /\ WorkerType /\ WorkerOK(worker[v])
  BY TypeParts DEF WorkerType
<1> SUFFICES VirtualType' /\ HostType' /\ QueueType' /\ WorkerType'
  BY TypeParts DEF TypeOK, VirtualType, HostType, QueueType, WorkerType, WorkerOK
<1> DEFINE w == worker[v]
<1>1. CASE Reconcile(v)
  <2>1. PICK b \in queue[v] :
            /\ queue' = [queue EXCEPT ![v] = @ \ {b}]
            /\ worker' = [worker EXCEPT ![v] =
                  IF bindings[b] = None
                  THEN StartCleanup([Idle EXCEPT !.req = b])
                  ELSE [Idle EXCEPT !.pc = "getRole", !.req = b, !.body = bindings[b]]]
    BY <1>1 DEF Reconcile
  <2>2. b \in Bindings /\ bindings[b] \in Bodies(b) \cup {None}
    BY <1>0 DEF QueueType, VirtualType
  <2>3. WorkerOK(StartCleanup([Idle EXCEPT !.req = b]))
    BY <2>2, StartCleanupOK DEF Idle
  <2>4. bindings[b] # None =>
            WorkerOK([Idle EXCEPT !.pc = "getRole", !.req = b, !.body = bindings[b]])
    BY <2>2 DEF WorkerOK, Workers, Idle, PCs
  <2>5. WorkerType'
    <3>1. CASE bindings[b] = None
      BY <1>0, <2>1, <2>3, <3>1, WorkerStep
    <3>2. CASE bindings[b] # None
      BY <1>0, <2>1, <2>4, <3>2, WorkerStep
    <3>3. QED
      BY <3>1, <3>2
  <2>6. VirtualType' /\ HostType'
    BY <1>0, <1>1, WorkKeepsVirtual, UnchangedHost DEF Reconcile
  <2>7. QueueType'
    BY <1>0, <1>1, <2>1 DEF Reconcile, UnchangedByWork, QueueType
  <2>8. QED
    BY <2>5, <2>6, <2>7
<1>2. CASE GetRole(v)
  <2> DEFINE r       == roleOf(w.req, w.body.roleRef)
             matches == IF r \in Roles /\ relevant(roles[r])
                        THEN extractSCCRules(roles[r]) ELSE {}
  <2>1. w.pc = "getRole" /\ w.req \in Bindings /\ w.body \in Bodies(w.req)
    BY <1>0, <1>2 DEF GetRole, WorkerOK
  <2>2. matches \in SUBSET RuleMatches
    BY <1>0 DEF relevant, VirtualType, RuleMatches
  <2>3. WorkerOK([w EXCEPT !.pc = "listSCCs", !.matches = matches])
    <3> HIDE DEF matches
    <3>1. QED
      BY <1>0, <2>1, <2>2 DEF WorkerOK, Workers, PCs
  <2>4. WorkerOK(StartCleanup(w))
    BY <2>1, StartCleanupOK
  <2>5. Step(v, StartCleanup(w)) \/ Step(v, [w EXCEPT !.pc = "listSCCs", !.matches = matches])
    BY <1>2 DEF GetRole
  <2>6. UnchangedByWork /\ UNCHANGED host
    BY <1>2 DEF GetRole
  <2>7. QED
    <3> HIDE DEF matches
    <3>1. QED
      BY <1>0, <2>3, <2>4, <2>5, <2>6, StepType, WorkKeepsVirtual, UnchangedHost
<1>3. CASE ListSCCs(v)
  <2> DEFINE names == resolveSCCMatches(w.matches, sccs[v])
  <2>1. w.pc = "listSCCs" /\ w.req \in Bindings /\ w.body \in Bodies(w.req)
    BY <1>0, <1>3 DEF ListSCCs, WorkerOK
  <2>2. names \in SUBSET SCCNames
    <3>1. w.matches \in SUBSET RuleMatches /\ sccs[v] \in SUBSET SCCNames
      BY <1>0 DEF WorkerOK, Workers, VirtualType
    <3>2. QED
      BY <3>1, ResolvedNames
  <2>3. WorkerOK([w EXCEPT !.pc = "ensureCR", !.matches = {}, !.grants = names])
    <3> HIDE DEF names
    <3>1. QED
      BY <1>0, <2>1, <2>2 DEF WorkerOK, Workers, PCs
  <2>4. WorkerOK(StartCleanup(w))
    BY <2>1, StartCleanupOK
  <2>5. \/ Step(v, StartCleanup(w))
        \/ Step(v, [w EXCEPT !.pc = "ensureCR", !.matches = {}, !.grants = names])
    BY <1>3 DEF ListSCCs
  <2>6. UnchangedByWork /\ UNCHANGED host
    BY <1>3 DEF ListSCCs
  <2>7. QED
    <3> HIDE DEF names
    <3>1. QED
      BY <1>0, <2>3, <2>4, <2>5, <2>6, StepType, WorkKeepsVirtual, UnchangedHost
<1>4. CASE ResolveFails(v)
  <2>1. w.req \in Bindings
    BY <1>0, <1>4 DEF ResolveFails, WorkerOK
  <2>2. WorkerType'
    BY <1>0, <1>4, <2>1, StartCleanupOK, WorkerStep DEF ResolveFails
  <2>3. VirtualType' /\ HostType' /\ QueueType'
    BY <1>0, <1>4 DEF ResolveFails, VirtualFault, VirtualType, HostType, QueueType, virtual, host
  <2>4. QED
    BY <2>2, <2>3
<1>5. QED
  BY <1>1, <1>2, <1>3, <1>4

\* The steps of ensureHostRBAC (l.258).
LEMMA EnsureType ==
    ASSUME TypeOK, NEW v \in VClusters,
           EnsureClusterRole(v) \/ EnsureClusterRoleBinding(v)
    PROVE  TypeOK'
<1>0. VirtualType /\ HostType /\ QueueType /\ WorkerType /\ WorkerOK(worker[v])
  BY TypeParts DEF WorkerType
<1> SUFFICES VirtualType' /\ HostType' /\ QueueType' /\ WorkerType'
  BY TypeParts DEF TypeOK, VirtualType, HostType, QueueType, WorkerType, WorkerOK
<1> DEFINE w == worker[v]
<1>1. CASE EnsureClusterRole(v)
  <2>1. w.pc = "ensureCR" /\ w.req \in Bindings /\ w.body \in Bodies(w.req)
    BY <1>0, <1>1 DEF EnsureClusterRole, WorkerOK
  <2>2. PICK scc \in w.grants :
            /\ hostCR' = [hostCR EXCEPT ![hostName(w.req, scc)] = HostRole(w.req, scc)]
            /\ \/ Step(v, [w EXCEPT !.pc = "ensureCRB", !.current = scc])
               \/ Fail(v)
    BY <1>1 DEF EnsureClusterRole
  <2>3. scc \in SCCNames
    BY <1>0 DEF WorkerOK, Workers
  <2>4. WorkerOK([w EXCEPT !.pc = "ensureCRB", !.current = scc])
    BY <1>0, <2>1, <2>3 DEF WorkerOK, Workers, PCs
  <2>5. UnchangedByWork /\ UNCHANGED hostCRB
    BY <1>1 DEF EnsureClusterRole
  <2>6. QueueType' /\ WorkerType'
    BY <1>0, <2>1, <2>2, <2>4, <2>5, StepType, FailType
  <2>7. HostRole(w.req, scc) \in [labels : Labels, resourceName : HostCopies]
    BY <2>1, <2>3 DEF HostRole, Labels, HostCopies
  <2>8. HostType'
    BY <1>0, <2>2, <2>5, <2>7 DEF HostType
  <2>9. QED
    BY <1>0, <2>5, <2>6, <2>8, WorkKeepsVirtual
<1>2. CASE EnsureClusterRoleBinding(v)
  <2> DEFINE left     == w.grants \ {w.current}
             subjects == translateSubjects(w.req, w.body.subjects)
  <2>1. /\ w.pc = "ensureCRB" /\ w.req \in Bindings
        /\ w.body \in Bodies(w.req) /\ w.current \in SCCNames
    BY <1>0, <1>2 DEF EnsureClusterRoleBinding, WorkerOK
  <2>2. WorkerOK([w EXCEPT !.pc = "ensureCR", !.grants = left, !.current = None])
    BY <1>0, <2>1 DEF WorkerOK, Workers, PCs
  <2>3. UnchangedByWork /\ UNCHANGED hostCR
    BY <1>2 DEF EnsureClusterRoleBinding
  <2>4. \/ Step(v, Idle)
        \/ Step(v, [w EXCEPT !.pc = "ensureCR", !.grants = left, !.current = None])
        \/ Fail(v)
    BY <1>2 DEF EnsureClusterRoleBinding
  <2>5. QueueType' /\ WorkerType'
    BY <1>0, <2>1, <2>2, <2>3, <2>4, IdleOK, StepType, FailType
  <2>6. hostCRB' = [hostCRB EXCEPT ![hostName(w.req, w.current)] = HostBinding(w.req, subjects)]
    BY <1>2 DEF EnsureClusterRoleBinding
  <2>7. HostBinding(w.req, subjects) \in [labels : Labels, subjects : HostSubjectSets]
    <3>1. subjects \in HostSubjectSets
      BY <2>1, TranslatedSubjects
    <3>2. QED
      BY <2>1, <3>1 DEF HostBinding, Labels
  <2>8. HostType'
    <3> HIDE DEF subjects
    <3>1. QED
      BY <1>0, <2>3, <2>6, <2>7 DEF HostType
  <2>9. QED
    BY <1>0, <2>3, <2>5, <2>8, WorkKeepsVirtual
<1>3. QED
  BY <1>1, <1>2

\* The steps of cleanupHostRBAC (l.335), and a host call that fails.
LEMMA CleanupType ==
    ASSUME TypeOK, NEW v \in VClusters,
           \/ ListHostBindings(v) \/ DeleteHostBinding(v)
           \/ ListHostRoles(v) \/ DeleteHostRole(v) \/ CleanupDone(v) \/ HostCallFails(v)
    PROVE  TypeOK'
<1>0. VirtualType /\ HostType /\ QueueType /\ WorkerType /\ WorkerOK(worker[v])
  BY TypeParts DEF WorkerType
<1> SUFFICES VirtualType' /\ HostType' /\ QueueType' /\ WorkerType'
  BY TypeParts DEF TypeOK, VirtualType, HostType, QueueType, WorkerType, WorkerOK
<1> DEFINE w == worker[v]
<1>1. w.pc # "idle" /\ w.req \in Bindings /\ UnchangedByWork
  BY <1>0 DEF WorkerOK, ListHostBindings, DeleteHostBinding, ListHostRoles, DeleteHostRole,
     CleanupDone, HostCallFails
<1>2. VirtualType'
  BY <1>0, <1>1, WorkKeepsVirtual
<1>3. HostType'
  <2>1. CASE UNCHANGED host
    BY <1>0, <2>1, UnchangedHost
  <2>2. CASE DeleteHostBinding(v)
    BY <1>0, <2>2 DEF DeleteHostBinding, HostType
  <2>3. CASE DeleteHostRole(v)
    BY <1>0, <2>3 DEF DeleteHostRole, HostType
  <2>4. QED
    BY <2>1, <2>2, <2>3 DEF ListHostBindings, ListHostRoles, CleanupDone, HostCallFails
<1>4. QueueType' /\ WorkerType'
  <2>1. ASSUME NEW pc \in {"deleteCRB", "deleteCR"}, NEW doomed \in SUBSET HostNames,
               w.pc \in {"listCRB", "deleteCRB", "deleteCR"}
        PROVE  WorkerOK([w EXCEPT !.pc = pc, !.doomed = doomed])
    BY <1>0, <1>1, <2>1 DEF WorkerOK, Workers, PCs
  <2>2. CASE Fail(v)
    BY <1>0, <1>1, <2>2, FailType
  <2>3. CASE CleanupDone(v)
    BY <1>0, <1>1, <2>3, IdleOK, StepType DEF CleanupDone
  <2>4. CASE ListHostBindings(v)
    <3>1. labelled(hostCRB, w.req) \in SUBSET HostNames
      BY DEF labelled
    <3>2. QED
      BY <1>0, <1>1, <2>1, <2>4, <3>1, StepType DEF ListHostBindings
  <2>5. CASE ListHostRoles(v)
    <3>1. labelled(hostCR, w.req) \in SUBSET HostNames
      BY DEF labelled
    <3>2. QED
      BY <1>0, <1>1, <2>1, <2>5, <3>1, StepType DEF ListHostRoles
  <2>6. ASSUME NEW n \in w.doomed, w.pc \in {"deleteCRB", "deleteCR"}
        PROVE  WorkerOK([w EXCEPT !.doomed = @ \ {n}])
    BY <1>0, <1>1, <2>6 DEF WorkerOK, Workers, PCs
  <2>7. CASE DeleteHostBinding(v)
    BY <1>0, <1>1, <2>2, <2>6, <2>7, StepType DEF DeleteHostBinding
  <2>8. CASE DeleteHostRole(v)
    BY <1>0, <1>1, <2>2, <2>6, <2>8, StepType DEF DeleteHostRole
  <2>9. QED
    BY <2>2, <2>3, <2>4, <2>5, <2>7, <2>8 DEF HostCallFails
<1>5. QED
  BY <1>2, <1>3, <1>4

\* Every step keeps the types.
LEMMA BridgeTypeStep == TypeOK /\ [Next]_vars => TypeOK'
<1> SUFFICES ASSUME TypeOK, [Next]_vars PROVE TypeOK'
  OBVIOUS
<1>1. CASE UNCHANGED vars
  BY <1>1 DEF vars, virtual, host, TypeOK, VirtualType
<1>2. CASE Tenants
  BY <1>2, TenantsType
<1>3. ASSUME NEW v \in VClusters, Deliver(v) \/ Work(v) \/ Faults(v) \/ Restart(v)
      PROVE  TypeOK'
  BY <1>3, ControllerType, ResolveType, EnsureType, CleanupType DEF Work, Faults
<1>4. QED
  BY <1>1, <1>2, <1>3 DEF Next

\* The type invariant of the bridge: in particular a worker that is not idle
\* holds the key of a binding, and one that writes host objects a binding it
\* has read.
THEOREM BridgeTypeCorrect == Spec => []TypeOK
BY InitType, BridgeTypeStep, PTL DEF Spec

-----------------------------------------------------------------------------
(* The order in which the bridge writes and deletes the two host objects   *)
(* of a grant, as long as no two bindings share their labels or a host     *)
(* name.                                                                   *)

\* Bindings that differ have different labels and different host names.  The
\* code does not ensure it: see the run bridge_two_tenants.
NoCollision ==
    \A b, c \in Bindings :
        /\ ownerLabels(b) = ownerLabels(c) => b = c
        /\ \A s, t \in SCCNames : hostName(b, s) = hostName(c, t) => b = c

\* Nothing of another vCluster reaches a controller's queue or its worker.
KeysOwn ==
    \A v \in VClusters :
        /\ \A obj \in events[v] : obj.vc = v
        /\ \A b \in queue[v] : b.vc = v
        /\ worker[v].pc # "idle" => worker[v].req.vc = v

\* A host object carries the labels of the binding its name was made from.
LabelsMatch ==
    \A b \in Bindings, scc \in SCCNames :
        /\ hostCR[hostName(b, scc)] # None => hostCR[hostName(b, scc)].labels = ownerLabels(b)
        /\ hostCRB[hostName(b, scc)] # None => hostCRB[hostName(b, scc)].labels = ownerLabels(b)

\* What a reconcile has done so far: the role it is about to bind exists, it
\* deletes its own objects only, the host bindings left are among those it is
\* deleting, and none is left when it deletes roles.
InFlight(w) ==
    /\ w.pc = "ensureCRB" => hostCR[hostName(w.req, w.current)] # None
    /\ w.pc \in {"deleteCRB", "deleteCR"} =>
          \A n \in w.doomed : \E scc \in SCCNames : n = hostName(w.req, scc)
    /\ w.pc = "deleteCRB" => labelled(hostCRB, w.req) \subseteq w.doomed
    /\ w.pc = "deleteCR" => labelled(hostCRB, w.req) = {}

WorkersInFlight == \A v \in VClusters : InFlight(worker[v])

IInv == TypeOK /\ KeysOwn /\ LabelsMatch /\ WorkersInFlight /\ NoDanglingBinding

-----------------------------------------------------------------------------
\* A worker's key is its vCluster's, so two workers never share one.
LEMMA KeysDiffer ==
    ASSUME TypeOK, KeysOwn, NEW u \in VClusters, NEW v \in VClusters, u # v,
           worker[u].pc # "idle", worker[v].pc # "idle"
    PROVE  worker[u].req \in Bindings /\ worker[v].req \in Bindings
             /\ worker[u].req # worker[v].req
BY DEF TypeOK, KeysOwn

\* The queues and the workers of a vCluster hold its own keys, whatever step
\* is taken.
LEMMA KeysOwnKept == TypeOK /\ KeysOwn /\ [Next]_vars => KeysOwn'
<1> SUFFICES ASSUME TypeOK, KeysOwn, [Next]_vars PROVE KeysOwn'
  OBVIOUS
<1>0. /\ events \in [VClusters -> SUBSET (Bindings \cup Roles)]
      /\ queue \in [VClusters -> SUBSET Bindings]
      /\ worker \in [VClusters -> Workers]
  BY DEF TypeOK
<1>1. ASSUME NEW v \in VClusters, NEW w, worker' = [worker EXCEPT ![v] = w],
             w.pc # "idle" => w.req.vc = v
      PROVE  \A u \in VClusters : worker'[u].pc # "idle" => worker'[u].req.vc = u
  BY <1>0, <1>1 DEF KeysOwn
<1>2. ASSUME NEW v \in VClusters, NEW objs, Notify(v, objs), \A obj \in objs : obj.vc = v
      PROVE  \A u \in VClusters : \A obj \in events'[u] : obj.vc = u
  BY <1>0, <1>2 DEF Notify, KeysOwn
<1>3. CASE UNCHANGED vars
  BY <1>3 DEF vars, KeysOwn
<1>4. CASE Tenants
  <2>1. UNCHANGED <<queue, worker>>
    BY <1>4 DEF Tenants, DeleteBinding, PutBinding, DeleteRole, PutRole, ChangeRole, EditSCC, Edit
  <2>2. \/ UNCHANGED events
        \/ \E obj \in Bindings \cup Roles : Notify(obj.vc, {obj}) \/ Notify(obj.vc, {})
    BY <1>4 DEF Tenants, DeleteBinding, PutBinding, DeleteRole, PutRole, ChangeRole, EditSCC
  <2>3. \A u \in VClusters : \A obj \in events'[u] : obj.vc = u
    <3>1. ASSUME NEW obj \in Bindings \cup Roles, Notify(obj.vc, {obj}) \/ Notify(obj.vc, {})
          PROVE  \A u \in VClusters : \A o \in events'[u] : o.vc = u
      <4>1. obj.vc \in VClusters
        BY KeysHaveVCluster
      <4>2. CASE Notify(obj.vc, {obj})
        BY <1>2, <4>1, <4>2
      <4>3. CASE Notify(obj.vc, {})
        BY <1>2, <4>1, <4>3
      <4>4. QED
        BY <3>1, <4>2, <4>3
    <3>2. QED
      BY <2>2, <3>1 DEF KeysOwn
  <2>4. QED
    BY <2>1, <2>3 DEF KeysOwn
<1>5. ASSUME NEW v \in VClusters, Deliver(v) \/ Work(v) \/ Faults(v) \/ Restart(v)
      PROVE  KeysOwn'
  <2>1. CASE Deliver(v)
    <3>1. PICK obj \in events[v] :
              /\ events' = [events EXCEPT ![v] = @ \ {obj}]
              /\ queue' = [queue EXCEPT ![v] = @ \cup requests(obj)]
      BY <2>1 DEF Deliver
    <3>2. \A b \in requests(obj) : b.vc = v
      BY <1>0, <3>1, RequestsAreBindings DEF KeysOwn
    <3>3. QED
      BY <1>0, <2>1, <3>1, <3>2 DEF Deliver, KeysOwn
  <2>2. CASE Restart(v)
    BY <1>0, <2>2 DEF Restart, Existing, KeysOwn
  <2>3. CASE Crash(v)
    BY <1>0, <2>3 DEF Crash, KeysOwn, Idle
  <2>4. CASE MappingFails(v) \/ GetBindingFails(v)
    BY <1>0, <2>4 DEF MappingFails, GetBindingFails, KeysOwn
  <2>5. CASE Reconcile(v)
    <3>1. PICK b \in queue[v] :
              /\ queue' = [queue EXCEPT ![v] = @ \ {b}]
              /\ worker' = [worker EXCEPT ![v] =
                    IF bindings[b] = None
                    THEN StartCleanup([Idle EXCEPT !.req = b])
                    ELSE [Idle EXCEPT !.pc = "getRole", !.req = b, !.body = bindings[b]]]
      BY <2>5 DEF Reconcile
    <3>2. b.vc = v
      BY <3>1 DEF KeysOwn
    <3>3. QED
      BY <1>0, <2>5, <3>1, <3>2 DEF Reconcile, UnchangedByWork, StartCleanup, Idle, KeysOwn
  <2>6. CASE ResolveFails(v)
    BY <1>0, <2>6 DEF ResolveFails, VirtualFault, StartCleanup, Idle, KeysOwn
  <2>7. ASSUME NEW w, Step(v, w), worker[v].pc # "idle",
               w.pc # "idle" => w.req = worker[v].req, UnchangedByWork
        PROVE  KeysOwn'
    BY <1>0, <1>1, <2>7 DEF Step, UnchangedByWork, KeysOwn
  <2>8. ASSUME Fail(v), worker[v].pc # "idle", UnchangedByWork
        PROVE  KeysOwn'
    <3>1. worker' = [worker EXCEPT ![v] = Idle]
      BY <2>8 DEF Fail
    <3>2. queue' = [queue EXCEPT ![v] = @ \cup {worker[v].req}] /\ UNCHANGED events
      BY <2>8 DEF Fail, UnchangedByWork
    <3>3. QED
      BY <1>0, <2>8, <3>1, <3>2 DEF KeysOwn, Idle
  <2>9. CASE GetRole(v) \/ ListSCCs(v)
    BY <1>0, <2>7, <2>9 DEF GetRole, ListSCCs, StartCleanup, Idle, Workers
  <2>10. CASE EnsureClusterRole(v) \/ EnsureClusterRoleBinding(v)
    BY <1>0, <2>7, <2>8, <2>10 DEF EnsureClusterRole, EnsureClusterRoleBinding, Idle, Workers
  <2>11. CASE \/ ListHostBindings(v) \/ DeleteHostBinding(v) \/ ListHostRoles(v)
              \/ DeleteHostRole(v) \/ CleanupDone(v)
    BY <1>0, <2>7, <2>8, <2>11 DEF ListHostBindings, DeleteHostBinding, ListHostRoles,
       DeleteHostRole, CleanupDone, Idle, Workers
  <2>12. CASE HostCallFails(v)
    BY <2>8, <2>12 DEF HostCallFails
  <2>13. QED
    BY <1>5, <2>1, <2>2, <2>3, <2>4, <2>5, <2>6, <2>9, <2>10, <2>11, <2>12 DEF Work, Faults
<1>6. QED
  BY <1>3, <1>4, <1>5 DEF Next

-----------------------------------------------------------------------------
\* The objects listed by a binding's labels have names made from it
\* (cleanupHostRBAC's selector, l.336).
LEMMA OwnLabelled ==
    ASSUME NoCollision, LabelsMatch, NEW b \in Bindings,
           NEW n \in labelled(hostCR, b) \cup labelled(hostCRB, b)
    PROVE  \E scc \in SCCNames : n = hostName(b, scc)
<1>1. PICK c \in Bindings, scc \in SCCNames : n = hostName(c, scc)
  BY DEF labelled, HostNames
<1>2. ownerLabels(c) = ownerLabels(b)
  BY <1>1 DEF labelled, LabelsMatch
<1>3. QED
  BY <1>1, <1>2 DEF NoCollision

\* A write to one's own host objects does not disturb another worker.
LEMMA OthersInFlight ==
    ASSUME TypeOK, KeysOwn, NoCollision, WorkersInFlight,
           NEW u \in VClusters, NEW v \in VClusters, u # v, worker'[u] = worker[u],
           worker[v].pc # "idle", NEW scc \in SCCNames,
           \A m \in HostNames \ {hostName(worker[v].req, scc)} :
               hostCR'[m] = hostCR[m] /\ hostCRB'[m] = hostCRB[m],
           LET n == hostName(worker[v].req, scc)
           IN  hostCRB'[n] # None => hostCRB'[n].labels = ownerLabels(worker[v].req)
    PROVE  InFlight(worker[u])'
<1> DEFINE w == worker[u]
           n == hostName(worker[v].req, scc)
<1>1. CASE w.pc = "idle"
  BY <1>1 DEF InFlight
<1>2. CASE w.pc # "idle"
  <2>1. w.req \in Bindings /\ worker[v].req \in Bindings /\ w.req # worker[v].req
    BY <1>2, KeysDiffer
  <2>2. \A t \in SCCNames : hostName(w.req, t) \in HostNames \ {n}
    BY <2>1 DEF NoCollision, HostNames
  <2>3. labelled(hostCRB, w.req)' \subseteq labelled(hostCRB, w.req)
    BY <2>1 DEF labelled, NoCollision
  <2>4. w.pc = "ensureCRB" => w.current \in SCCNames
    BY DEF TypeOK
  <2>5. InFlight(w)
    BY DEF WorkersInFlight
  <2>6. QED
    BY <2>2, <2>3, <2>4, <2>5 DEF InFlight
<1>3. QED
  BY <1>1, <1>2

\* A step that leaves the host alone keeps the order, if the worker it moves
\* is where it should be.
LEMMA QuietStep ==
    ASSUME TypeOK, LabelsMatch, WorkersInFlight, NoDanglingBinding, UNCHANGED host,
           NEW v \in VClusters, NEW w, InFlight(w), worker' = [worker EXCEPT ![v] = w]
    PROVE  LabelsMatch' /\ WorkersInFlight' /\ NoDanglingBinding'
<1>1. LabelsMatch' /\ NoDanglingBinding'
  BY DEF host, LabelsMatch, NoDanglingBinding
<1>2. ASSUME NEW u \in VClusters PROVE InFlight(worker[u])'
  <2>1. worker'[u] = IF u = v THEN w ELSE worker[u]
    BY DEF TypeOK
  <2>2. InFlight(worker'[u])
    BY <2>1 DEF WorkersInFlight
  <2>3. QED
    BY <2>2 DEF InFlight, labelled, host
<1>3. QED
  BY <1>1, <1>2 DEF WorkersInFlight

\* So does one that leaves the worker alone too.
LEMMA StillStep ==
    ASSUME LabelsMatch, WorkersInFlight, NoDanglingBinding, UNCHANGED <<host, worker>>
    PROVE  LabelsMatch' /\ WorkersInFlight' /\ NoDanglingBinding'
BY DEF host, LabelsMatch, NoDanglingBinding, WorkersInFlight, InFlight, labelled

\* The reads of a reconcile, its listings and its end.
LEMMA ReadsKeepOrder ==
    ASSUME IInv, NoCollision, NEW v \in VClusters,
           \/ Reconcile(v) \/ GetRole(v) \/ ListSCCs(v) \/ ResolveFails(v)
           \/ ListHostBindings(v) \/ ListHostRoles(v) \/ CleanupDone(v) \/ HostCallFails(v)
    PROVE  LabelsMatch' /\ WorkersInFlight' /\ NoDanglingBinding'
<1> USE DEF IInv
<1>0. UNCHANGED host
  BY DEF Reconcile, GetRole, ListSCCs, ResolveFails, VirtualFault, ListHostBindings,
     ListHostRoles, CleanupDone, HostCallFails
<1> SUFFICES \E w : InFlight(w) /\ worker' = [worker EXCEPT ![v] = w]
  BY <1>0, QuietStep
<1>1. worker[v] \in Workers /\ (worker[v].pc # "idle" => worker[v].req \in Bindings)
  BY DEF TypeOK
<1>2. InFlight(worker[v])
  BY DEF WorkersInFlight
<1>3. InFlight(Idle) /\ \A w : InFlight(StartCleanup(w))
  BY DEF InFlight, Idle, StartCleanup
<1>4. CASE Reconcile(v)
  BY <1>3, <1>4 DEF Reconcile, InFlight, Idle
<1>5. CASE GetRole(v) \/ ListSCCs(v)
  BY <1>1, <1>3, <1>5 DEF GetRole, ListSCCs, Step, InFlight, Workers
<1>6. CASE ResolveFails(v)
  BY <1>3, <1>6 DEF ResolveFails
<1>7. CASE CleanupDone(v) \/ HostCallFails(v)
  BY <1>3, <1>7 DEF CleanupDone, HostCallFails, Step, Fail
<1>8. CASE ListHostBindings(v)
  BY <1>1, <1>8, OwnLabelled DEF ListHostBindings, Step, InFlight, Workers
<1>9. CASE ListHostRoles(v)
  <2>1. labelled(hostCRB, worker[v].req) = {}
    BY <1>2, <1>9 DEF ListHostRoles, InFlight
  <2>2. QED
    BY <1>1, <1>9, <2>1, OwnLabelled DEF ListHostRoles, Step, InFlight, Workers
<1>10. QED
  BY <1>4, <1>5, <1>6, <1>7, <1>8, <1>9

\* A write or a deletion of host objects keeps the order when the pair it
\* leaves under its one name is in order and the worker is where it should be.
LEMMA WriteKeepsOrder ==
    ASSUME IInv, NoCollision, NEW v \in VClusters, worker[v].pc # "idle",
           NEW scc \in SCCNames, NEW w, worker' = [worker EXCEPT ![v] = w], InFlight(w)',
           \A m \in HostNames \ {hostName(worker[v].req, scc)} :
               hostCR'[m] = hostCR[m] /\ hostCRB'[m] = hostCRB[m],
           LET n == hostName(worker[v].req, scc)
           IN  /\ hostCR'[n] # None => hostCR'[n].labels = ownerLabels(worker[v].req)
               /\ hostCRB'[n] # None => hostCRB'[n].labels = ownerLabels(worker[v].req)
               /\ hostCRB'[n] # None => hostCR'[n] # None
    PROVE  LabelsMatch' /\ WorkersInFlight' /\ NoDanglingBinding'
<1> DEFINE b == worker[v].req
           n == hostName(b, scc)
<1>1. b \in Bindings
  BY DEF IInv, TypeOK
<1>2. \A c \in Bindings, s \in SCCNames : hostName(c, s) \in HostNames
  BY DEF HostNames
<1>3. LabelsMatch'
  <2> SUFFICES ASSUME NEW c \in Bindings, NEW s \in SCCNames
               PROVE  LET m == hostName(c, s)
                      IN  /\ hostCR'[m] # None => hostCR'[m].labels = ownerLabels(c)
                          /\ hostCRB'[m] # None => hostCRB'[m].labels = ownerLabels(c)
    BY DEF LabelsMatch
  <2>1. CASE hostName(c, s) = n
    BY <1>1, <2>1 DEF NoCollision
  <2>2. CASE hostName(c, s) # n
    BY <1>2, <2>2 DEF IInv, LabelsMatch
  <2>3. QED
    BY <2>1, <2>2
<1>4. NoDanglingBinding'
  BY DEF IInv, NoDanglingBinding
<1>5. ASSUME NEW u \in VClusters PROVE InFlight(worker[u])'
  <2>1. CASE u = v
    BY <2>1 DEF IInv, TypeOK, InFlight
  <2>2. CASE u # v
    <3>1. worker'[u] = worker[u]
      BY <2>2 DEF IInv, TypeOK
    <3>2. QED
      BY <2>2, <3>1, OthersInFlight DEF IInv
  <2>3. QED
    BY <2>1, <2>2
<1>6. QED
  BY <1>3, <1>4, <1>5 DEF WorkersInFlight

\* ensureHostRBAC (l.258): the role first, then the binding.
LEMMA EnsureKeepsOrder ==
    ASSUME IInv, NoCollision, NEW v \in VClusters,
           EnsureClusterRole(v) \/ EnsureClusterRoleBinding(v)
    PROVE  LabelsMatch' /\ WorkersInFlight' /\ NoDanglingBinding'
<1>w. PICK w : w = worker[v]
  OBVIOUS
<1>0. /\ w.pc # "idle" /\ w \in Workers /\ w.req \in Bindings
      /\ hostCR \in [HostNames -> [labels : Labels, resourceName : HostCopies] \cup {None}]
      /\ hostCRB \in [HostNames -> [labels : Labels, subjects : HostSubjectSets] \cup {None}]
  BY <1>w DEF IInv, TypeOK, EnsureClusterRole, EnsureClusterRoleBinding
<1>1. InFlight(Idle)'
  BY <1>w DEF InFlight, Idle
<1>2. CASE EnsureClusterRole(v)
  <2>1. PICK scc \in w.grants :
            /\ hostCR' = [hostCR EXCEPT ![hostName(w.req, scc)] = HostRole(w.req, scc)]
            /\ \/ worker' = [worker EXCEPT ![v] = [w EXCEPT !.pc = "ensureCRB", !.current = scc]]
               \/ worker' = [worker EXCEPT ![v] = Idle]
    BY <1>w, <1>2 DEF EnsureClusterRole, Step, Fail
  <2>2. scc \in SCCNames /\ UNCHANGED hostCRB
    BY <1>w, <1>0, <1>2 DEF Workers, EnsureClusterRole
  <2> DEFINE n == hostName(w.req, scc)
             next == [w EXCEPT !.pc = "ensureCRB", !.current = scc]
  <2>3. n \in HostNames /\ HostRole(w.req, scc) # None
    BY <1>w, <1>0, <2>2, NoneAssumption DEF HostNames
  <2>4. hostCR'[n] # None /\ hostCR'[n].labels = ownerLabels(w.req)
    BY <1>w, <1>0, <2>1, <2>3 DEF HostRole
  <2>5. InFlight(next)'
    BY <1>w, <1>0, <2>4 DEF InFlight, Workers
  <2>6. hostCRB'[n] # None => hostCRB'[n].labels = ownerLabels(w.req)
    BY <1>w, <1>0, <2>2 DEF IInv, LabelsMatch
  <2>7. \A m \in HostNames \ {n} : hostCR'[m] = hostCR[m] /\ hostCRB'[m] = hostCRB[m]
    BY <1>w, <1>0, <2>1, <2>2
  <2>8. \E x : worker' = [worker EXCEPT ![v] = x] /\ InFlight(x)'
    BY <1>w, <1>1, <2>1, <2>5
  <2>9. QED
    BY <1>w, <1>0, <2>2, <2>4, <2>6, <2>7, <2>8, WriteKeepsOrder
<1>3. CASE EnsureClusterRoleBinding(v)
  <2> DEFINE n    == hostName(w.req, w.current)
             next == [w EXCEPT !.pc = "ensureCR", !.grants = w.grants \ {w.current},
                               !.current = None]
             made == HostBinding(w.req, translateSubjects(w.req, w.body.subjects))
  <2>1. /\ w.pc = "ensureCRB" /\ UNCHANGED hostCR
        /\ hostCRB' = [hostCRB EXCEPT ![n] = made]
        /\ worker' = [worker EXCEPT ![v] = Idle] \/ worker' = [worker EXCEPT ![v] = next]
    BY <1>w, <1>3 DEF EnsureClusterRoleBinding, Step, Fail
  <2>2. w.current \in SCCNames /\ n \in HostNames
    BY <1>w, <1>0, <2>1 DEF IInv, TypeOK, HostNames
  <2>3. hostCR'[n] # None
    BY <1>w, <2>1 DEF IInv, WorkersInFlight, InFlight
  <2>4. hostCR'[n].labels = ownerLabels(w.req)
    BY <1>w, <1>0, <2>1, <2>2, <2>3 DEF IInv, LabelsMatch
  <2>5. hostCRB'[n].labels = ownerLabels(w.req)
    BY <1>w, <1>0, <2>1, <2>2 DEF HostBinding
  <2>6. InFlight(next)'
    BY <1>w, <1>0 DEF InFlight, Workers
  <2>7. \A m \in HostNames \ {n} : hostCR'[m] = hostCR[m] /\ hostCRB'[m] = hostCRB[m]
    BY <1>w, <1>0, <2>1
  <2>8. \E x : worker' = [worker EXCEPT ![v] = x] /\ InFlight(x)'
    BY <1>w, <1>1, <2>1, <2>6
  <2>9. QED
    BY <1>w, <1>0, <2>2, <2>3, <2>4, <2>5, <2>7, <2>8, WriteKeepsOrder
<1>4. QED
  BY <1>2, <1>3

\* cleanupHostRBAC (l.335): the bindings first, then the roles.
LEMMA DeletionsKeepOrder ==
    ASSUME IInv, NoCollision, NEW v \in VClusters,
           DeleteHostBinding(v) \/ DeleteHostRole(v)
    PROVE  LabelsMatch' /\ WorkersInFlight' /\ NoDanglingBinding'
<1>w. PICK w : w = worker[v]
  OBVIOUS
<1>0. /\ w.pc \in {"deleteCRB", "deleteCR"} /\ w \in Workers /\ w.req \in Bindings
      /\ hostCR \in [HostNames -> [labels : Labels, resourceName : HostCopies] \cup {None}]
      /\ hostCRB \in [HostNames -> [labels : Labels, subjects : HostSubjectSets] \cup {None}]
  BY <1>w DEF IInv, TypeOK, DeleteHostBinding, DeleteHostRole
<1>1. InFlight(w) /\ InFlight(Idle)'
  BY <1>w DEF IInv, WorkersInFlight, InFlight, Idle
<1>2. PICK n \in w.doomed :
          /\ \/ /\ w.pc = "deleteCRB"
                /\ hostCRB' = [hostCRB EXCEPT ![n] = None] /\ UNCHANGED hostCR
             \/ /\ w.pc = "deleteCR"
                /\ hostCR' = [hostCR EXCEPT ![n] = None] /\ UNCHANGED hostCRB
          /\ \/ worker' = [worker EXCEPT ![v] = Idle]
             \/ worker' = [worker EXCEPT ![v] = [w EXCEPT !.doomed = @ \ {n}]]
  BY <1>w DEF DeleteHostBinding, DeleteHostRole, Step, Fail
<1>3. PICK scc \in SCCNames : n = hostName(w.req, scc)
  BY <1>w, <1>0, <1>1 DEF InFlight
<1>4. n \in HostNames
  BY <1>w, <1>0, <1>3 DEF HostNames
<1>5. /\ hostCR'[n] # None => hostCR'[n].labels = ownerLabels(w.req)
      /\ hostCRB'[n] # None => hostCRB'[n].labels = ownerLabels(w.req)
  BY <1>w, <1>0, <1>2, <1>3, <1>4 DEF IInv, LabelsMatch
<1>6. hostCRB'[n] # None => hostCR'[n] # None
  <2>1. CASE w.pc = "deleteCRB"
    BY <1>w, <1>0, <1>2, <1>4, <2>1
  <2>2. CASE w.pc = "deleteCR"
    BY <1>w, <1>0, <1>1, <1>2, <1>4, <1>5, <2>2 DEF InFlight, labelled
  <2>3. QED
    BY <1>w, <1>0, <2>1, <2>2
<1>7. InFlight([w EXCEPT !.doomed = @ \ {n}])'
  <2>1. w.pc = "deleteCRB" => labelled(hostCRB, w.req)' \subseteq w.doomed \ {n}
    BY <1>w, <1>0, <1>1, <1>2, <1>4 DEF InFlight, labelled
  <2>2. w.pc = "deleteCR" => labelled(hostCRB, w.req)' = {}
    BY <1>w, <1>0, <1>1, <1>2 DEF InFlight, labelled
  <2>3. QED
    BY <1>w, <1>0, <1>1, <2>1, <2>2 DEF InFlight, Workers
<1>8. \A m \in HostNames \ {n} : hostCR'[m] = hostCR[m] /\ hostCRB'[m] = hostCRB[m]
  BY <1>w, <1>0, <1>2
<1>9. \E x : worker' = [worker EXCEPT ![v] = x] /\ InFlight(x)'
  BY <1>1, <1>2, <1>7
<1>10. QED
  BY <1>w, <1>0, <1>3, <1>5, <1>6, <1>8, <1>9, WriteKeepsOrder

-----------------------------------------------------------------------------
\* The inductive invariant holds at the start and is kept by every step.
LEMMA OrderInit == Init => IInv
<1> SUFFICES ASSUME Init PROVE IInv
  OBVIOUS
<1>1. TypeOK
  BY InitType
<1>2. KeysOwn
  BY DEF Init, Existing, Idle, KeysOwn
<1>3. LabelsMatch /\ NoDanglingBinding
  BY DEF Init, LabelsMatch, NoDanglingBinding, HostNames
<1>4. WorkersInFlight
  BY DEF Init, WorkersInFlight, InFlight, Idle
<1>5. QED
  BY <1>1, <1>2, <1>3, <1>4 DEF IInv

LEMMA OrderStep == NoCollision /\ IInv /\ [Next]_vars => IInv'
<1> SUFFICES ASSUME NoCollision, IInv, [Next]_vars PROVE IInv'
  OBVIOUS
<1>1. TypeOK'
  BY BridgeTypeStep DEF IInv
<1>2. KeysOwn'
  BY KeysOwnKept DEF IInv
<1>3. LabelsMatch' /\ WorkersInFlight' /\ NoDanglingBinding'
  <2>1. CASE UNCHANGED vars
    BY <2>1, StillStep DEF IInv, vars
  <2>2. CASE Tenants
    BY <2>2, StillStep DEF IInv, Tenants, DeleteBinding, PutBinding, DeleteRole, PutRole,
       ChangeRole, EditSCC, Edit
  <2>3. ASSUME NEW v \in VClusters, Deliver(v) \/ Work(v) \/ Faults(v) \/ Restart(v)
        PROVE  LabelsMatch' /\ WorkersInFlight' /\ NoDanglingBinding'
    <3>1. CASE Deliver(v) \/ Restart(v) \/ MappingFails(v) \/ GetBindingFails(v)
      BY <3>1, StillStep DEF IInv, Deliver, Restart, MappingFails, GetBindingFails,
         VirtualFault
    <3>2. CASE Crash(v)
      <4>1. InFlight(Idle)
        BY DEF InFlight, Idle
      <4>2. QED
        BY <3>2, <4>1, QuietStep DEF IInv, Crash
    <3>3. QED
      BY <2>3, <3>1, <3>2, ReadsKeepOrder, EnsureKeepsOrder, DeletionsKeepOrder
         DEF Work, Faults
  <2>4. QED
    BY <2>1, <2>2, <2>3 DEF Next
<1>4. QED
  BY <1>1, <1>2, <1>3 DEF IInv

\* However many vClusters share the host, whatever call fails and wherever a
\* syncer stops, no host binding ever exists without the role it refers to
\* (ensureHostRBAC, cleanupHostRBAC, sccrbac.go:258-364).
THEOREM BridgeBindsExistingRoles == NoCollision => (Spec => []NoDanglingBinding)
<1> SUFFICES ASSUME NoCollision PROVE Spec => []NoDanglingBinding
  OBVIOUS
<1>1. IInv => NoDanglingBinding
  BY DEF IInv
<1>2. IInv /\ [Next]_vars => IInv'
  BY OrderStep
<1>3. QED
  BY <1>1, <1>2, OrderInit, PTL DEF Spec

-----------------------------------------------------------------------------
\* A worker that writes is somewhere else afterwards.
LEMMA EnsureMoves ==
    ASSUME NEW w \in Workers
    PROVE  /\ w.pc = "ensureCR" =>
                  w # Idle /\ \A scc : w # [w EXCEPT !.pc = "ensureCRB", !.current = scc]
           /\ w.pc = "ensureCRB" =>
                  /\ w # Idle
                  /\ \A left : w # [w EXCEPT !.pc = "ensureCR", !.grants = left, !.current = None]
<1>1. Idle.pc = "idle"
  BY DEF Idle
<1>2. \A scc : [w EXCEPT !.pc = "ensureCRB", !.current = scc].pc = "ensureCRB"
  BY DEF Workers
<1>3. \A left : [w EXCEPT !.pc = "ensureCR", !.grants = left, !.current = None].pc = "ensureCR"
  BY DEF Workers
<1>4. QED
  BY <1>1, <1>2, <1>3

\* A step writes at most one of the two host objects of one name, and that
\* name is made from the key its reconcile works on.
LEMMA OneWrite ==
    ASSUME IInv, NoCollision, [Next]_vars, ~UNCHANGED host
    PROVE  \E v \in VClusters, scc \in SCCNames :
               /\ worker[v].pc # "idle" /\ worker'[v] # worker[v]
               /\ \A m \in HostNames \ {hostName(worker[v].req, scc)} :
                      hostCR'[m] = hostCR[m] /\ hostCRB'[m] = hostCRB[m]
               /\ UNCHANGED hostCR \/ UNCHANGED hostCRB
<1>0. /\ worker \in [VClusters -> Workers]
      /\ \A v \in VClusters : worker[v].pc = "ensureCRB" => worker[v].current \in SCCNames
      /\ hostCR \in [HostNames -> [labels : Labels, resourceName : HostCopies] \cup {None}]
      /\ hostCRB \in [HostNames -> [labels : Labels, subjects : HostSubjectSets] \cup {None}]
  BY DEF IInv, TypeOK
<1>1. ASSUME NEW v \in VClusters, EnsureClusterRole(v)
      PROVE  \E scc \in SCCNames :
                 /\ worker[v].pc # "idle" /\ UNCHANGED hostCRB
                 /\ \A m \in HostNames \ {hostName(worker[v].req, scc)} : hostCR'[m] = hostCR[m]
  BY <1>0, <1>1 DEF EnsureClusterRole, Workers
<1>2. ASSUME NEW v \in VClusters, EnsureClusterRoleBinding(v)
      PROVE  \E scc \in SCCNames :
                 /\ worker[v].pc # "idle" /\ UNCHANGED hostCR
                 /\ \A m \in HostNames \ {hostName(worker[v].req, scc)} : hostCRB'[m] = hostCRB[m]
  BY <1>0, <1>2 DEF EnsureClusterRoleBinding
<1>3. ASSUME NEW v \in VClusters, DeleteHostBinding(v) \/ DeleteHostRole(v)
      PROVE  \E scc \in SCCNames :
                 /\ worker[v].pc # "idle"
                 /\ UNCHANGED hostCR \/ UNCHANGED hostCRB
                 /\ \A m \in HostNames \ {hostName(worker[v].req, scc)} :
                        hostCR'[m] = hostCR[m] /\ hostCRB'[m] = hostCRB[m]
  <2>1. worker[v].pc \in {"deleteCRB", "deleteCR"} /\ InFlight(worker[v])
    BY <1>3 DEF DeleteHostBinding, DeleteHostRole, IInv, WorkersInFlight
  <2>2. PICK n \in worker[v].doomed :
            \/ hostCRB' = [hostCRB EXCEPT ![n] = None] /\ UNCHANGED hostCR
            \/ hostCR' = [hostCR EXCEPT ![n] = None] /\ UNCHANGED hostCRB
    BY <1>3 DEF DeleteHostBinding, DeleteHostRole
  <2>3. PICK scc \in SCCNames : n = hostName(worker[v].req, scc)
    BY <2>1 DEF InFlight
  <2>4. QED
    BY <1>0, <2>1, <2>2, <2>3
<1>4. ASSUME NEW v \in VClusters, Deliver(v) \/ Work(v) \/ Faults(v) \/ Restart(v)
      PROVE  \/ EnsureClusterRole(v) \/ EnsureClusterRoleBinding(v)
             \/ DeleteHostBinding(v) \/ DeleteHostRole(v)
  BY <1>4 DEF Deliver, Restart, Work, Faults, MappingFails, GetBindingFails, VirtualFault,
     Crash, ResolveFails, HostCallFails, Reconcile, GetRole, ListSCCs, ListHostBindings,
     ListHostRoles, CleanupDone
<1>5. ~UNCHANGED vars /\ ~Tenants
  BY DEF vars, Tenants, DeleteBinding, PutBinding, DeleteRole, PutRole, ChangeRole, EditSCC, Edit
<1>6. ASSUME NEW v \in VClusters,
             \/ EnsureClusterRole(v) \/ EnsureClusterRoleBinding(v)
             \/ DeleteHostBinding(v) \/ DeleteHostRole(v)
      PROVE  worker'[v] # worker[v]
  <2> DEFINE w == worker[v]
  <2>1. w \in Workers
    BY <1>0
  <2>2. CASE EnsureClusterRole(v)
    <3>1. /\ w.pc = "ensureCR"
          /\ \/ worker' = [worker EXCEPT ![v] = Idle]
             \/ \E scc \in w.grants :
                    worker' = [worker EXCEPT ![v] = [w EXCEPT !.pc = "ensureCRB", !.current = scc]]
      BY <2>2 DEF EnsureClusterRole, Step, Fail
    <3>2. worker'[v] = Idle \/ \E scc : worker'[v] = [w EXCEPT !.pc = "ensureCRB", !.current = scc]
      BY <1>0, <3>1
    <3>3. QED
      BY <2>1, <3>1, <3>2, EnsureMoves
  <2>3. CASE EnsureClusterRoleBinding(v)
    <3>1. /\ w.pc = "ensureCRB"
          /\ \/ worker' = [worker EXCEPT ![v] = Idle]
             \/ \E left : worker' = [worker EXCEPT ![v] =
                       [w EXCEPT !.pc = "ensureCR", !.grants = left, !.current = None]]
      BY <2>3 DEF EnsureClusterRoleBinding, Step, Fail
    <3>2. \/ worker'[v] = Idle
          \/ \E left : worker'[v] = [w EXCEPT !.pc = "ensureCR", !.grants = left, !.current = None]
      BY <1>0, <3>1
    <3>3. QED
      BY <2>1, <3>1, <3>2, EnsureMoves
  <2>4. CASE DeleteHostBinding(v)
    BY <1>0, <2>1, <2>4 DEF DeleteHostBinding, Step, Fail, Idle, Workers
  <2>5. CASE DeleteHostRole(v)
    BY <1>0, <2>1, <2>5 DEF DeleteHostRole, Step, Fail, Idle, Workers
  <2>6. QED
    BY <1>6, <2>2, <2>3, <2>4, <2>5
<1>7. PICK v \in VClusters : Deliver(v) \/ Work(v) \/ Faults(v) \/ Restart(v)
  BY <1>5 DEF Next
<1>8. QED
  BY <1>1, <1>2, <1>3, <1>4, <1>6, <1>7

\* A reconcile writes and deletes the host objects of its own binding only
\* (cleanupHostRBAC deletes by labels, sccrbac.go:335-364).
THEOREM BridgeTouchesOwn == NoCollision => (Spec => ReconcileTouchesOwn)
<1> SUFFICES ASSUME NoCollision PROVE Spec => ReconcileTouchesOwn
  OBVIOUS
<1> DEFINE Own == \A n \in HostNames :
               <<hostCR[n], hostCRB[n]>>' # <<hostCR[n], hostCRB[n]>> =>
                   \E v \in VClusters : worker[v].pc # "idle"
                       /\ \E scc \in SCCNames : n = hostName(worker[v].req, scc)
<1>1. IInv /\ [Next]_vars => [Own]_vars
  <2> SUFFICES ASSUME IInv, [Next]_vars PROVE Own
    OBVIOUS
  <2>1. CASE UNCHANGED host
    BY <2>1 DEF host
  <2>2. CASE ~UNCHANGED host
    BY <2>2, OneWrite
  <2>3. QED
    BY <2>1, <2>2
<1>2. IInv /\ [Next]_vars => IInv'
  BY OrderStep
<1>3. QED
  BY <1>1, <1>2, OrderInit, PTL DEF Spec, ReconcileTouchesOwn

\* The bridge implements HostGrantPair: every step creates, binds, unbinds or
\* deletes at most one grant's pair, in that order.
THEOREM BridgeImplementsPair == NoCollision => (Spec => PairsFollowTheirLife)
<1> SUFFICES ASSUME NoCollision PROVE Spec => PairsFollowTheirLife
  OBVIOUS
<1> DEFINE stage == [n \in HostNames |->
                        IF hostCR[n] = None
                        THEN IF hostCRB[n] = None THEN "none" ELSE "dangling"
                        ELSE IF hostCRB[n] = None THEN "role" ELSE "bound"]
<1>1. Init => Pair!Init
  BY DEF Init, Pair!Init
<1>2. IInv /\ IInv' /\ [Next]_vars => [Pair!Next]_stage
  <2> SUFFICES ASSUME IInv, IInv', [Next]_vars, stage' # stage PROVE Pair!Next
    OBVIOUS
  <2>1. ~UNCHANGED host
    BY DEF host
  <2>2. PICK v \in VClusters, scc \in SCCNames :
            /\ worker[v].pc # "idle"
            /\ \A m \in HostNames \ {hostName(worker[v].req, scc)} :
                   hostCR'[m] = hostCR[m] /\ hostCRB'[m] = hostCRB[m]
            /\ UNCHANGED hostCR \/ UNCHANGED hostCRB
    BY <2>1, OneWrite
  <2>3. PICK n : n = hostName(worker[v].req, scc)
    OBVIOUS
  <2>4. n \in HostNames
    BY <2>2, <2>3 DEF IInv, TypeOK, HostNames
  <2>5. stage' = [stage EXCEPT ![n] = stage'[n]] /\ stage'[n] # stage[n]
    BY <2>2, <2>3, <2>4
  <2>6. \/ stage[n] = "none" /\ stage'[n] = "role"
        \/ stage[n] = "role" /\ stage'[n] \in {"none", "bound"}
        \/ stage[n] = "bound" /\ stage'[n] = "role"
    BY <2>2, <2>4, <2>5 DEF IInv, NoDanglingBinding
  <2>7. QED
    BY <2>4, <2>5, <2>6 DEF Pair!Next, Pair!WriteRole, Pair!WriteBinding, Pair!DeleteBinding,
       Pair!DeleteRole, Pair!Move
<1>3. IInv /\ [Next]_vars => IInv'
  BY OrderStep
<1>4. QED
  BY <1>1, <1>2, <1>3, OrderInit, PTL DEF Spec, PairsFollowTheirLife, Pair!Spec
=============================================================================
