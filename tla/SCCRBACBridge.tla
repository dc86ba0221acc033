--------------------------- MODULE SCCRBACBridge ---------------------------
(***************************************************************************)
(* The SCC RBAC bridge (plugins/resource-syncer/syncers/sccrbac.go): a     *)
(* controller that runs in each vCluster's syncer pod, watches the virtual *)
(* RBAC objects and writes, on the shared host cluster, a ClusterRole and  *)
(* a ClusterRoleBinding for every pair of a virtual binding and an SCC     *)
(* that the binding grants.                                                *)
(*                                                                         *)
(* The virtual state (bindings, roles, sccs) is the content of the         *)
(* informer caches the controller reads; a tenant's edit is the moment the *)
(* cache takes it and queues the notification.  The work queue is          *)
(* controller-runtime's: a set of keys, one worker, a key that changes     *)
(* while it is worked on is queued again.  Host reads and the write that   *)
(* follows them are one step: a client sees its own writes, and writers of *)
(* other vClusters only interleave between such steps.                     *)
(*                                                                         *)
(* Names being sequences of hyphen-free words, <<"a", "", "b">> is "a--b", *)
(* and two objects get the same host name exactly when the code's Sprintf  *)
(* gives it to them.                                                       *)
(***************************************************************************)
EXTENDS VirtualRBAC

CONSTANTS
    LabelMax,       \* the length safeName cuts keys to (63 characters), in words
    MaxEdits,       \* bound: tenants' edits of bindings and roles
    MaxSCCEdits,    \* bound: tenants' creations and deletions of SCCs
    MaxHostFaults,  \* bound: host API calls that fail
    MaxVirtualFaults, \* bound: virtual API reads that fail
    MaxCrashes      \* bound: restarts of a syncer pod

ASSUME LabelMaxAssumption == LabelMax \in Nat

ASSUME BoundsAssumption ==
    /\ MaxEdits \in Nat
    /\ MaxSCCEdits \in Nat
    /\ MaxHostFaults \in Nat
    /\ MaxVirtualFaults \in Nat
    /\ MaxCrashes \in Nat

-----------------------------------------------------------------------------
(* Names, labels and the translation of one binding.                       *)

\* The name a reconcile works under: a RoleBinding's is "namespace--name".
bindingKey(b) == IF b.kind = ClusterBinding THEN b.name ELSE b.ns \o <<"">> \o b.name

\* A label value holds at most 63 characters.
safeName(key) == IF Len(key) > LabelMax THEN SubSeq(key, 1, LabelMax) ELSE key

ownerLabels(b) == [owner |-> safeName(bindingKey(b)), type |-> b.kind]

\* "vc-<vcluster>-scc-<key>-<scc>": the name of both host objects of a grant.
hostName(b, scc) == <<"vc">> \o b.vc \o <<"scc">> \o safeName(bindingKey(b)) \o scc

\* The name the SCC syncer gives the host copy of a virtual SCC.
hostSCCName(b, scc) == <<"vc">> \o b.vc \o scc

HostNames == {hostName(b, scc) : b \in Bindings, scc \in SCCNames}

\* Mutant of translateSubjects: a subject without a namespace is left out.
translateSubjectsOfNamespaces(b, subjects) ==
    { [vc |-> b.vc, ns |-> s.ns, name |-> s.name] :
        s \in {t \in subjects : t.kind = "ServiceAccount" /\ t.ns # << >>} }

\* Only service accounts whose namespace is known are translated; vCluster's
\* name translator is injective, so a host account is its virtual one with
\* its vCluster.
translateSubjects(b, subjects) ==
    { [vc |-> b.vc, ns |-> IF s.ns = << >> THEN b.ns ELSE s.ns, name |-> s.name] :
        s \in {t \in subjects : t.kind = "ServiceAccount" /\ (t.ns # << >> \/ b.ns # << >>)} }

HostRole(b, scc) == [labels |-> ownerLabels(b), resourceName |-> hostSCCName(b, scc)]
HostBinding(b, subjects) == [labels |-> ownerLabels(b), subjects |-> subjects]

ASSUME NoneAssumption == \A b \in Bindings, scc \in SCCNames : HostRole(b, scc) # None

-----------------------------------------------------------------------------
VARIABLES
    bindings,   \* [Bindings -> None or [roleRef, subjects]], the virtual bindings
    roles,      \* [Roles -> None or a set of rules], the virtual roles
    sccs,       \* [VClusters -> SUBSET SCCNames], the virtual SCCs
    hostCR,     \* [HostNames -> None or HostRole], host ClusterRoles
    hostCRB,    \* [HostNames -> None or HostBinding], host ClusterRoleBindings
    up,         \* [VClusters -> BOOLEAN], the controller runs
    events,     \* notifications the watches have not delivered yet
    queue,      \* the keys in the work queue
    worker,     \* the reconcile in progress
    edits, sccEdits, hostFaults, virtualFaults, crashes   \* used budgets

virtual == <<bindings, roles, sccs>>
host    == <<hostCR, hostCRB>>
budgets == <<edits, sccEdits, hostFaults, virtualFaults, crashes>>
vars    == <<virtual, host, up, events, queue, worker, budgets>>

\* What a reconcile holds: its key, the binding it read, the grants of the
\* role it read, the SCC names still to write, the one being written, and
\* the host objects listed for deletion and not deleted yet.
Idle == [pc |-> "idle", req |-> None, body |-> None, matches |-> {},
         grants |-> {}, current |-> None, doomed |-> {}]

\* Mutant of StartCleanup: the cleanup does not know its key.
CleanupWithoutKey(w) == [Idle EXCEPT !.pc = "listCRB"]

StartCleanup(w) == [Idle EXCEPT !.pc = "listCRB", !.req = w.req]

-----------------------------------------------------------------------------
(* Notifications.                                                          *)

relevant(rules) == rules # None /\ extractSCCRules(rules) # {}

clusterRoleToBindings(r) ==
    {b \in Bindings : /\ b.vc = r.vc
                      /\ b.kind = ClusterBinding
                      /\ bindings[b] # None
                      /\ bindings[b].roleRef = [kind |-> "ClusterRole", name |-> r.name]}

roleToBindings(r) ==
    {b \in Bindings : /\ b.vc = r.vc
                      /\ b.kind = "RoleBinding"
                      /\ b.ns = r.ns
                      /\ bindings[b] # None
                      /\ bindings[b].roleRef = [kind |-> "Role", name |-> r.name]}

\* Mutant of requests: the bindings themselves are not watched.
requestsOfRoles(obj) ==
    CASE obj \in Bindings           -> {}
      [] obj.kind = "ClusterRole"   -> clusterRoleToBindings(obj)
      [] OTHER                      -> roleToBindings(obj)

requests(obj) ==
    CASE obj \in Bindings           -> {obj}
      [] obj.kind = "ClusterRole"   -> clusterRoleToBindings(obj)
      [] OTHER                      -> roleToBindings(obj)

\* A watch notifies only a running controller.
Notify(v, objs) ==
    events' = IF up[v] THEN [events EXCEPT ![v] = @ \cup objs] ELSE events

\* The objects whose initial listing reaches a handler that queues something.
Existing(v) ==
    {b \in Bindings : b.vc = v /\ bindings[b] # None}
        \cup {r \in Roles : r.vc = v /\ relevant(roles[r])}

-----------------------------------------------------------------------------
Init ==
    /\ bindings \in [Bindings -> {None} \cup UNION {Bodies(b) : b \in Bindings}]
    /\ \A b \in Bindings : bindings[b] \in {None} \cup Bodies(b)
    /\ roles \in [Roles -> {None} \cup RuleSets]
    /\ sccs \in [VClusters -> {SCCNames}]
    /\ hostCR = [n \in HostNames |-> None]
    /\ hostCRB = [n \in HostNames |-> None]
    /\ up = [v \in VClusters |-> TRUE]
    /\ events = [v \in VClusters |-> Existing(v)]
    /\ queue = [v \in VClusters |-> {}]
    /\ worker = [v \in VClusters |-> Idle]
    /\ edits = 0 /\ sccEdits = 0 /\ hostFaults = 0 /\ virtualFaults = 0 /\ crashes = 0

-----------------------------------------------------------------------------
(* The tenants.                                                            *)

Edit ==
    /\ edits < MaxEdits
    /\ edits' = edits + 1
    /\ UNCHANGED <<sccs, host, up, queue, worker, sccEdits, hostFaults, virtualFaults, crashes>>

\* A binding's roleRef is immutable.
PutBinding(b, body) ==
    /\ bindings[b] # None => bindings[b].roleRef = body.roleRef
    /\ bindings[b] # body
    /\ bindings' = [bindings EXCEPT ![b] = body]
    /\ Notify(b.vc, {b})
    /\ Edit
    /\ UNCHANGED roles

DeleteBinding(b) ==
    /\ bindings[b] # None
    /\ bindings' = [bindings EXCEPT ![b] = None]
    /\ Notify(b.vc, {b})
    /\ Edit
    /\ UNCHANGED roles

\* Mutant of ChangeRole: the mapping functions see only the new role.
ChangeRoleSeesNewOnly(r, rules) ==
    /\ roles[r] # rules
    /\ roles' = [roles EXCEPT ![r] = rules]
    /\ Notify(r.vc, IF relevant(rules) THEN {r} ELSE {})
    /\ Edit
    /\ UNCHANGED bindings

\* The mapping functions are called with the old and with the new role.
ChangeRole(r, rules) ==
    /\ roles[r] # rules
    /\ roles' = [roles EXCEPT ![r] = rules]
    /\ Notify(r.vc, IF relevant(roles[r]) \/ relevant(rules) THEN {r} ELSE {})
    /\ Edit
    /\ UNCHANGED bindings

PutRole(r, rules) == rules # None /\ ChangeRole(r, rules)

DeleteRole(r) == ChangeRole(r, None)

\* The controller does not watch SCCs.
EditSCC(v, scc) ==
    /\ sccEdits < MaxSCCEdits
    /\ sccEdits' = sccEdits + 1
    /\ sccs' = [sccs EXCEPT ![v] = IF scc \in @ THEN @ \ {scc} ELSE @ \cup {scc}]
    /\ UNCHANGED <<bindings, roles, host, up, events, queue, worker,
                   edits, hostFaults, virtualFaults, crashes>>

-----------------------------------------------------------------------------
(* The watches and the work queue.                                         *)

Deliver(v) ==
    \E obj \in events[v] :
        /\ events' = [events EXCEPT ![v] = @ \ {obj}]
        /\ queue' = [queue EXCEPT ![v] = @ \cup requests(obj)]
        /\ UNCHANGED <<virtual, host, up, worker, budgets>>

VirtualFault ==
    /\ virtualFaults < MaxVirtualFaults
    /\ virtualFaults' = virtualFaults + 1
    /\ UNCHANGED <<virtual, host, up, edits, sccEdits, hostFaults, crashes>>

\* A mapping function that cannot list the bindings queues nothing.
MappingFails(v) ==
    \E r \in events[v] \ Bindings :
        /\ events' = [events EXCEPT ![v] = @ \ {r}]
        /\ VirtualFault
        /\ UNCHANGED <<queue, worker>>

-----------------------------------------------------------------------------
(* One reconcile.  Step(v, w) leaves the worker in w, Fail(v) makes the     *)
(* reconcile return an error, on which its key is queued again.            *)

Step(v, w) ==
    /\ worker' = [worker EXCEPT ![v] = w]
    /\ UNCHANGED <<queue, hostFaults>>

\* Mutant of Fail: the error is logged and dropped.
FailForgets(v) ==
    /\ hostFaults < MaxHostFaults
    /\ hostFaults' = hostFaults + 1
    /\ worker' = [worker EXCEPT ![v] = Idle]
    /\ UNCHANGED queue

Fail(v) ==
    /\ hostFaults < MaxHostFaults
    /\ hostFaults' = hostFaults + 1
    /\ worker' = [worker EXCEPT ![v] = Idle]
    /\ queue' = [queue EXCEPT ![v] = @ \cup {worker[v].req}]

UnchangedByWork == UNCHANGED <<virtual, up, events, edits, sccEdits, virtualFaults, crashes>>

Reconcile(v) ==
    /\ up[v]
    /\ worker[v].pc = "idle"
    /\ \E b \in queue[v] :
        /\ queue' = [queue EXCEPT ![v] = @ \ {b}]
        /\ worker' = [worker EXCEPT ![v] =
              IF bindings[b] = None
              THEN StartCleanup([Idle EXCEPT !.req = b])
              ELSE [Idle EXCEPT !.pc = "getRole", !.req = b, !.body = bindings[b]]]
        /\ UNCHANGED <<host, hostFaults>>
    /\ UnchangedByWork

\* The binding cannot be read: its key is queued again.
GetBindingFails(v) ==
    /\ up[v]
    /\ worker[v].pc = "idle"
    /\ queue[v] # {}
    /\ VirtualFault
    /\ UNCHANGED <<events, queue, worker>>

\* The role is read after the binding; a role that is absent is an error,
\* and on an error, as when it grants no SCC, the reconcile cleans up.
GetRole(v) ==
    LET w       == worker[v]
        r       == roleOf(w.req, w.body.roleRef)
        matches == IF r \in Roles /\ relevant(roles[r]) THEN extractSCCRules(roles[r]) ELSE {}
    IN  /\ w.pc = "getRole"
        /\ Step(v, IF matches = {} THEN StartCleanup(w)
                   ELSE [w EXCEPT !.pc = "listSCCs", !.matches = matches])
        /\ UNCHANGED host
        /\ UnchangedByWork

\* Mutant of ListSCCs: a binding without service accounts is left alone.
ListSCCsKeepsUnboundGrants(v) ==
    LET w        == worker[v]
        names    == resolveSCCMatches(w.matches, sccs[v])
        subjects == translateSubjects(w.req, w.body.subjects)
    IN  /\ w.pc = "listSCCs"
        /\ Step(v, IF names = {} THEN StartCleanup(w)
                   ELSE IF subjects = {} THEN Idle
                   ELSE [w EXCEPT !.pc = "ensureCR", !.matches = {}, !.grants = names])
        /\ UNCHANGED host
        /\ UnchangedByWork

\* The virtual SCCs are listed after the role is read; the subjects are
\* those of the binding as it was read.
ListSCCs(v) ==
    LET w        == worker[v]
        names    == resolveSCCMatches(w.matches, sccs[v])
        subjects == translateSubjects(w.req, w.body.subjects)
    IN  /\ w.pc = "listSCCs"
        /\ Step(v, IF names = {} \/ subjects = {} THEN StartCleanup(w)
                   ELSE [w EXCEPT !.pc = "ensureCR", !.matches = {}, !.grants = names])
        /\ UNCHANGED host
        /\ UnchangedByWork

\* Any error of these two reads is taken for "grants nothing".  The SCCs are
\* read only for a wildcard grant.
ResolveFails(v) ==
    /\ \/ worker[v].pc = "getRole"
       \/ worker[v].pc = "listSCCs" /\ \E m \in worker[v].matches : m.wildcard
    /\ VirtualFault
    /\ worker' = [worker EXCEPT ![v] = StartCleanup(worker[v])]
    /\ UNCHANGED <<events, queue>>

\* Mutant of EnsureClusterRole: an error of the write is ignored.
EnsureClusterRoleIgnoresError(v) ==
    LET w == worker[v] IN
    /\ w.pc = "ensureCR"
    /\ \E scc \in w.grants :
        /\ \/ hostCR' = [hostCR EXCEPT ![hostName(w.req, scc)] = HostRole(w.req, scc)]
           \/ UNCHANGED hostCR
        /\ Step(v, [w EXCEPT !.pc = "ensureCRB", !.current = scc])
    /\ UNCHANGED hostCRB
    /\ UnchangedByWork

\* ensureHostRBAC, for each SCC in the order of a Go map: the ClusterRole,
\* created or brought up to date, then the ClusterRoleBinding.
EnsureClusterRole(v) ==
    LET w == worker[v] IN
    /\ w.pc = "ensureCR"
    /\ \E scc \in w.grants :
        /\ hostCR' = [hostCR EXCEPT ![hostName(w.req, scc)] = HostRole(w.req, scc)]
        /\ \/ Step(v, [w EXCEPT !.pc = "ensureCRB", !.current = scc])
           \/ Fail(v)
    /\ UNCHANGED hostCRB
    /\ UnchangedByWork

\* Mutant of EnsureClusterRoleBinding: a binding that exists is left as it is.
EnsureClusterRoleBindingOnce(v) ==
    LET w    == worker[v]
        n    == hostName(w.req, w.current)
        left == w.grants \ {w.current}
    IN  /\ w.pc = "ensureCRB"
        /\ hostCRB' = [hostCRB EXCEPT ![n] = IF @ # None THEN @ ELSE
                          HostBinding(w.req, translateSubjects(w.req, w.body.subjects))]
        /\ Step(v, IF left = {} THEN Idle
                   ELSE [w EXCEPT !.pc = "ensureCR", !.grants = left, !.current = None])
        /\ UNCHANGED hostCR
        /\ UnchangedByWork

EnsureClusterRoleBinding(v) ==
    LET w    == worker[v]
        left == w.grants \ {w.current}
    IN  /\ w.pc = "ensureCRB"
        /\ hostCRB' = [hostCRB EXCEPT ![hostName(w.req, w.current)] =
                          HostBinding(w.req, translateSubjects(w.req, w.body.subjects))]
        /\ \/ Step(v, IF left = {} THEN Idle
                      ELSE [w EXCEPT !.pc = "ensureCR", !.grants = left, !.current = None])
           \/ Fail(v)
        /\ UNCHANGED hostCR
        /\ UnchangedByWork

\* Mutant of labelled: the selector is left out.
labelledByAnyone(objs, b) == {n \in HostNames : objs[n] # None}

\* cleanupHostRBAC: list the bindings with the owner's labels and delete
\* them one by one, then the roles.
labelled(objs, b) == {n \in HostNames : objs[n] # None /\ objs[n].labels = ownerLabels(b)}

\* Mutant of ListHostBindings: the roles are deleted first.
ListHostRolesFirst(v) ==
    LET w == worker[v] IN
    /\ w.pc = "listCRB"
    /\ Step(v, [w EXCEPT !.pc = "deleteCR", !.doomed = labelled(hostCR, w.req)])
    /\ UNCHANGED host
    /\ UnchangedByWork

ListHostBindings(v) ==
    LET w == worker[v] IN
    /\ w.pc = "listCRB"
    /\ Step(v, [w EXCEPT !.pc = "deleteCRB", !.doomed = labelled(hostCRB, w.req)])
    /\ UNCHANGED host
    /\ UnchangedByWork

DeleteHostBinding(v) ==
    LET w == worker[v] IN
    /\ w.pc = "deleteCRB"
    /\ \E n \in w.doomed :
        /\ hostCRB' = [hostCRB EXCEPT ![n] = None]
        /\ \/ Step(v, [w EXCEPT !.doomed = @ \ {n}])
           \/ Fail(v)
    /\ UNCHANGED hostCR
    /\ UnchangedByWork

ListHostRoles(v) ==
    LET w == worker[v] IN
    /\ w.pc = "deleteCRB"
    /\ w.doomed = {}
    /\ Step(v, [w EXCEPT !.pc = "deleteCR", !.doomed = labelled(hostCR, w.req)])
    /\ UNCHANGED host
    /\ UnchangedByWork

DeleteHostRole(v) ==
    LET w == worker[v] IN
    /\ w.pc = "deleteCR"
    /\ \E n \in w.doomed :
        /\ hostCR' = [hostCR EXCEPT ![n] = None]
        /\ \/ Step(v, [w EXCEPT !.doomed = @ \ {n}])
           \/ Fail(v)
    /\ UNCHANGED hostCRB
    /\ UnchangedByWork

CleanupDone(v) ==
    /\ worker[v].pc = "deleteCR"
    /\ worker[v].doomed = {}
    /\ Step(v, Idle)
    /\ UNCHANGED host
    /\ UnchangedByWork

\* A host call that fails without taking effect.
HostCallFails(v) ==
    /\ \/ worker[v].pc \in {"ensureCR", "ensureCRB", "listCRB", "deleteCRB"}
       \/ worker[v].pc = "deleteCR" /\ worker[v].doomed # {}
    /\ Fail(v)
    /\ UNCHANGED host
    /\ UnchangedByWork

-----------------------------------------------------------------------------
(* The syncer pod stops and starts: the work queue and the undelivered     *)
(* notifications are lost, a start lists what exists then.                 *)

Crash(v) ==
    /\ up[v]
    /\ crashes < MaxCrashes
    /\ crashes' = crashes + 1
    /\ up' = [up EXCEPT ![v] = FALSE]
    /\ events' = [events EXCEPT ![v] = {}]
    /\ queue' = [queue EXCEPT ![v] = {}]
    /\ worker' = [worker EXCEPT ![v] = Idle]
    /\ UNCHANGED <<virtual, host, edits, sccEdits, hostFaults, virtualFaults>>

Restart(v) ==
    /\ ~up[v]
    /\ up' = [up EXCEPT ![v] = TRUE]
    /\ events' = [events EXCEPT ![v] = Existing(v)]
    /\ UNCHANGED <<virtual, host, queue, worker, budgets>>

-----------------------------------------------------------------------------
Tenants ==
    \/ \E b \in Bindings : DeleteBinding(b) \/ \E body \in Bodies(b) : PutBinding(b, body)
    \/ \E r \in Roles : DeleteRole(r) \/ \E rules \in RuleSets : PutRole(r, rules)
    \/ \E v \in VClusters, scc \in SCCNames : EditSCC(v, scc)

\* The steps that take a reconcile on when no call fails.
Work(v) ==
    \/ Reconcile(v) \/ GetRole(v) \/ ListSCCs(v)
    \/ EnsureClusterRole(v) \/ EnsureClusterRoleBinding(v)
    \/ ListHostBindings(v) \/ DeleteHostBinding(v)
    \/ ListHostRoles(v) \/ DeleteHostRole(v) \/ CleanupDone(v)

Faults(v) ==
    \/ MappingFails(v) \/ GetBindingFails(v) \/ ResolveFails(v) \/ HostCallFails(v)
    \/ Crash(v)

Next ==
    \/ Tenants
    \/ \E v \in VClusters : Deliver(v) \/ Work(v) \/ Faults(v) \/ Restart(v)

Spec == Init /\ [][Next]_vars

\* The informers and the worker are goroutines that always run; a stopped
\* pod is started again by its StatefulSet.  Tenants and faults owe nothing.
Fairness ==
    \A v \in VClusters : WF_vars(Deliver(v)) /\ WF_vars(Work(v)) /\ WF_vars(Restart(v))

FairSpec == Spec /\ Fairness

-----------------------------------------------------------------------------
(* Properties.                                                             *)

PCs == {"idle", "getRole", "listSCCs", "ensureCR", "ensureCRB",
        "listCRB", "deleteCRB", "deleteCR"}

Labels == {ownerLabels(b) : b \in Bindings}
HostCopies == {hostSCCName(b, scc) : b \in Bindings, scc \in SCCNames}
HostSubjectSets ==
    UNION {{translateSubjects(b, subjects) : subjects \in SubjectSets[b]} : b \in Bindings}
RuleMatches == UNION {extractSCCRules(rules) : rules \in RuleSets}

Workers == [pc : PCs, req : Bindings \cup {None},
            body : (UNION {Bodies(b) : b \in Bindings}) \cup {None},
            matches : SUBSET RuleMatches, grants : SUBSET SCCNames,
            current : SCCNames \cup {None}, doomed : SUBSET HostNames]

\* Every variable has its type, and a worker that is not idle works on a
\* binding of its own vCluster.
TypeOK ==
    /\ DOMAIN bindings = Bindings
    /\ \A b \in Bindings : bindings[b] \in Bodies(b) \cup {None}
    /\ roles \in [Roles -> RuleSets \cup {None}]
    /\ sccs \in [VClusters -> SUBSET SCCNames]
    /\ hostCR \in [HostNames -> [labels : Labels, resourceName : HostCopies] \cup {None}]
    /\ hostCRB \in [HostNames -> [labels : Labels, subjects : HostSubjectSets] \cup {None}]
    /\ up \in [VClusters -> BOOLEAN]
    /\ events \in [VClusters -> SUBSET (Bindings \cup Roles)]
    /\ queue \in [VClusters -> SUBSET Bindings]
    /\ worker \in [VClusters -> Workers]
    /\ \A v \in VClusters : worker[v].pc # "idle" => worker[v].req \in Bindings
    /\ \A v \in VClusters : worker[v].pc \in {"getRole", "listSCCs", "ensureCR", "ensureCRB"}
                                => worker[v].body \in Bodies(worker[v].req)
    /\ \A v \in VClusters : worker[v].pc = "ensureCRB" => worker[v].current \in SCCNames

\* The SCCs and the host subjects that a binding grants now.
grantedSCCs(b) ==
    LET r == roleOf(b, bindings[b].roleRef)
    IN  IF bindings[b] # None /\ r \in Roles /\ roles[r] # None
        THEN resolveSCCMatches(extractSCCRules(roles[r]), sccs[b.vc])
        ELSE {}
grantedSubjects(b) ==
    IF bindings[b] = None THEN {} ELSE translateSubjects(b, bindings[b].subjects)

Desired(b) == IF grantedSubjects(b) = {} THEN {} ELSE grantedSCCs(b)

\* A vCluster's controller has nothing left to do.
Settled(v) == up[v] /\ worker[v] = Idle /\ queue[v] = {} /\ events[v] = {}

InPlace(b, scc) ==
    /\ hostCR[hostName(b, scc)] = HostRole(b, scc)
    /\ hostCRB[hostName(b, scc)] = HostBinding(b, grantedSubjects(b))

\* A host binding never outlives, nor precedes, the role it refers to: the
\* role is written first (l.280 before l.314) and deleted last (l.345 before
\* l.356), whatever call fails and wherever the syncer stops.
NoDanglingBinding ==
    \A n \in HostNames : hostCRB[n] # None => hostCR[n] # None

\* When a controller has settled, every SCC a virtual binding grants is
\* granted on the host, to exactly the binding's current subjects.
GrantsInPlace ==
    \A b \in Bindings : Settled(b.vc) => \A scc \in Desired(b) : InPlace(b, scc)

OwnsNothing(b) == labelled(hostCR, b) = {} /\ labelled(hostCRB, b) = {}

\* When a controller has settled, a virtual binding that exists and grants
\* nothing has no host object left, and neither has one that is gone, as long
\* as no syncer was stopped: a start lists the bindings that exist, and
\* nothing makes up for a deletion it missed.
RevokedGrantsGone ==
    \A b \in Bindings :
        Settled(b.vc) /\ Desired(b) = {} /\ (bindings[b] # None \/ crashes = 0) => OwnsNothing(b)

\* When a controller has settled, a virtual binding that is gone has no host
\* object left (todo/scc-compatibility-bridge.md:59).
DeletedBindingsCleanedUp ==
    \A b \in Bindings : Settled(b.vc) /\ bindings[b] = None => OwnsNothing(b)

\* When a controller has settled, every host binding it made for a virtual
\* binding corresponds to an SCC that binding grants (main.go:51).
NoStaleGrant ==
    \A b \in Bindings : Settled(b.vc) =>
        \A n \in labelled(hostCRB, b) : \E scc \in Desired(b) : n = hostName(b, scc)

\* A reconcile writes and deletes host objects of its own binding only.
ReconcileTouchesOwn ==
    [][\A n \in HostNames : <<hostCR[n], hostCRB[n]>>' # <<hostCR[n], hostCRB[n]>> =>
          \E v \in VClusters : worker[v].pc # "idle"
              /\ \E scc \in SCCNames : n = hostName(worker[v].req, scc)]_vars

\* Each pair of host objects goes through the life HostGrantPair describes.
Pair == INSTANCE HostGrantPair WITH
    Pairs <- HostNames,
    pair  <- [n \in HostNames |->
                 IF hostCR[n] = None
                 THEN IF hostCRB[n] = None THEN "none" ELSE "dangling"
                 ELSE IF hostCRB[n] = None THEN "role" ELSE "bound"]

\* The bridge implements HostGrantPair: role before binding, binding removed
\* before role, one object at a time.
PairsFollowTheirLife == Pair!Spec

\* A grant that stays desired is in the end in place for good, and one that
\* stays revoked is in the end gone for good.
GrantsConverge ==
    \A b \in Bindings, scc \in SCCNames :
        <>[](scc \in Desired(b)) => <>[]InPlace(b, scc)
RevocationsConverge ==
    \A b \in Bindings : <>[](Desired(b) = {}) => <>[]OwnsNothing(b)
=============================================================================
