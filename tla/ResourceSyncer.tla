--------------------------- MODULE ResourceSyncer ---------------------------
(***************************************************************************)
(* The generic syncer (plugins/resource-syncer/pkg/syncer.go) as three     *)
(* kinds of object use it: Routes (syncers/route.go), OAuthClients         *)
(* (syncers/oauthclient.go) and any other kind of the configuration        *)
(* (pkg/unstructured.go).  Each object of the tenant has a copy on the     *)
(* host; the copied fields flow to the host, the status flows back.        *)
(*                                                                         *)
(* An object is handled by one worker at a time, different objects by      *)
(* different workers.  A handler works on what the controller read (its    *)
(* event) while tenant, host and the other workers go on.  The workers of  *)
(* a process share the service CA, which the first Route that needs it     *)
(* makes one of them read (sync.Once).                                     *)
(*                                                                         *)
(* Labels, annotations and finalizers are left out.  Names are sequences   *)
(* of words.                                                               *)
(***************************************************************************)
EXTENDS Naturals, Sequences

CONSTANTS
    Objects,        \* the objects tenants may create
    Namespace,      \* [Objects -> names]
    vcluster,       \* the vCluster's name
    KindChoices,    \* the functions from Objects to kinds to check
    Contents,       \* [kinds -> the fields tenants may give an object of the kind]
    Statuses,       \* the statuses the host's controllers report
    CAs,            \* the bundles signing-cabundle may hold
    MaxEdits,       \* bound: tenants' edits
    MaxHostEdits,   \* bound: statuses reported and copies deleted on the host
    MaxCallFaults,  \* bound: API calls of the handlers that fail
    MaxCAFaults,    \* bound: reads of signing-cabundle that fail
    Absent          \* the value of a field, a status or an object there is none of

ASSUME SyncerAssumption ==
    /\ \A kind \in KindChoices : DOMAIN kind = Objects
    /\ "" \notin CAs

ASSUME BoundsAssumption ==
    /\ MaxEdits \in Nat /\ MaxHostEdits \in Nat /\ MaxCallFaults \in Nat /\ MaxCAFaults \in Nat

VARIABLES
    kind,       \* [Objects -> kinds]
    virtual,    \* [Objects -> Absent or [fields, status, uid]], the tenant's objects
    host,       \* the same of the copies, uid that of the object it was made for
    remembered, \* [Objects -> BOOLEAN]: the controller's object cache has the copy
    pending,    \* [Objects -> BOOLEAN]: the key is in the work queue
    event,      \* [Objects -> what a handler was called with, Absent between handlers]
    serviceCA,  \* the cached service CA, Absent before the read, "" when it found none
    bundle,     \* the content of the virtual signing-cabundle, Absent without it
    edits, hostEdits, callFaults, caFaults  \* used budgets

objects == <<virtual, host>>
controller == <<remembered, pending, event>>
budgets == <<edits, hostEdits, callFaults, caFaults>>
syncerVars == <<kind, objects, controller, serviceCA, bundle, budgets>>

-----------------------------------------------------------------------------
(* The fields of the copy.                                                 *)

\* translate.Default.HostName.
HostName(name, namespace) == name \o <<"x">> \o namespace \o <<"x">> \o vcluster

\* Mutant of translateBackend: only an explicit kind is translated.
translateExplicitBackend(b, namespace) ==
    IF b.kind = "Service" THEN [b EXCEPT !.name = HostName(@, namespace)] ELSE b

\* spec.to and spec.alternateBackends; an empty kind is a Service.
translateBackend(b, namespace) ==
    IF b.kind \in {"Service", ""} THEN [b EXCEPT !.name = HostName(@, namespace)] ELSE b

translateRouteSpec(fields, namespace) ==
    [fields EXCEPT !.backends = {translateBackend(b, namespace) : b \in @}]

needsServiceCA(fields) == fields.tls = "reencrypt" /\ fields.ca = ""

injectServiceCA(fields, ca) ==
    IF needsServiceCA(fields) THEN [fields EXCEPT !.ca = ca] ELSE fields

oauthClientFields ==
    {"secret", "additionalSecrets", "redirectURIs", "grantMethod", "scopeRestrictions",
     "respondWithChallenges", "accessTokenMaxAgeSeconds", "accessTokenInactivityTimeoutSeconds"}

copied(k) == IF k = "oauthclient" THEN oauthClientFields ELSE {"spec"}

\* A Route's spec is replaced; of the other kinds the fields the virtual
\* object has are copied, and the rest of the copy stays.
syncFields(o, hostFields, virtualFields) ==
    IF kind[o] = "route"
    THEN injectServiceCA(translateRouteSpec(virtualFields, Namespace[o]), serviceCA)
    ELSE [f \in DOMAIN hostFields |->
             IF f \in copied(kind[o]) /\ virtualFields[f] # Absent
             THEN virtualFields[f] ELSE hostFields[f]]

\* Mutant of syncStatus: the status is left alone.
keepStatus(o, hostStatus, virtualStatus) == virtualStatus

\* The status the virtual object gets.
syncStatus(o, hostStatus, virtualStatus) ==
    CASE kind[o] = "route"       -> hostStatus
      [] kind[o] = "oauthclient" -> virtualStatus
      [] OTHER                   -> IF hostStatus # Absent THEN hostStatus ELSE virtualStatus

-----------------------------------------------------------------------------
(* The objects of each kind.                                               *)

FieldNames(k) == UNION {DOMAIN fields : fields \in Contents[k]}

\* Kinds have their fields; a Route's backends are Services.
ASSUME ContentsAssumption ==
    \A choice \in KindChoices, o \in Objects : \A fields \in Contents[choice[o]] :
        /\ fields = [f \in FieldNames(choice[o]) |-> fields[f]]
        /\ choice[o] = "route" =>
              /\ DOMAIN fields = {"backends", "tls", "ca"}
              /\ \A b \in fields.backends : b.kind \in {"Service", ""}

StatusesOf(k) == (IF k = "oauthclient" THEN {} ELSE Statuses) \cup {Absent}

VirtualObject(k) == [fields : Contents[k], status : StatusesOf(k), uid : 1..MaxEdits]

\* What the copy of an object of kind k is to hold; as patches write single
\* fields, it may hold those of several of the object's versions.
Wanted(k, o) ==
    IF k = "route"
    THEN UNION {{injectServiceCA(translateRouteSpec(fields, Namespace[o]), ca) :
                    ca \in CAs \cup {""}} : fields \in Contents[k]}
    ELSE Contents[k]

Copies(k, o) ==
    [fields : {[f \in FieldNames(k) |-> version[f][f]] :
                  version \in [FieldNames(k) -> Wanted(k, o)]},
     status : StatusesOf(k), uid : 1..MaxEdits]

Events(k, o) ==
    [virtual : VirtualObject(k) \cup {Absent}, host : Copies(k, o) \cup {Absent},
     hostOld : BOOLEAN]

ASSUME AbsentAssumption ==
    /\ Absent \notin CAs
    /\ \A choice \in KindChoices, o \in Objects :
           LET k == choice[o] IN
           Absent \notin VirtualObject(k) \cup Copies(k, o) \cup Events(k, o)

-----------------------------------------------------------------------------
SyncerInit ==
    /\ kind \in KindChoices
    /\ virtual = [o \in Objects |-> Absent]
    /\ host = [o \in Objects |-> Absent]
    /\ remembered = [o \in Objects |-> FALSE]
    /\ pending = [o \in Objects |-> FALSE]
    /\ event = [o \in Objects |-> Absent]
    /\ serviceCA = Absent
    /\ bundle = Absent
    /\ edits = 0 /\ hostEdits = 0 /\ callFaults = 0 /\ caFaults = 0

-----------------------------------------------------------------------------
(* The tenant, and the host's controllers and administrator.               *)

Queue(o) == pending' = [pending EXCEPT ![o] = TRUE]

TenantPuts(o, fields) ==
    /\ edits < MaxEdits
    /\ edits' = edits + 1
    /\ virtual' = [virtual EXCEPT ![o] =
          IF @ = Absent THEN [fields |-> fields, status |-> Absent, uid |-> edits + 1]
          ELSE [@ EXCEPT !.fields = fields]]
    /\ virtual' # virtual
    /\ Queue(o)
    /\ UNCHANGED <<kind, host, remembered, event, serviceCA, bundle,
                   hostEdits, callFaults, caFaults>>

TenantDeletes(o) ==
    /\ edits < MaxEdits
    /\ virtual[o] # Absent
    /\ edits' = edits + 1
    /\ virtual' = [virtual EXCEPT ![o] = Absent]
    /\ Queue(o)
    /\ UNCHANGED <<kind, host, remembered, event, serviceCA, bundle,
                   hostEdits, callFaults, caFaults>>

\* Deleted and created again before the controller looks.
TenantReplaces(o, fields) ==
    /\ edits < MaxEdits
    /\ virtual[o] # Absent
    /\ edits' = edits + 1
    /\ virtual' = [virtual EXCEPT ![o] =
                      [fields |-> fields, status |-> Absent, uid |-> edits + 1]]
    /\ Queue(o)
    /\ UNCHANGED <<kind, host, remembered, event, serviceCA, bundle,
                   hostEdits, callFaults, caFaults>>

HostChanges(o) ==
    /\ hostEdits < MaxHostEdits
    /\ hostEdits' = hostEdits + 1
    /\ host[o] # Absent
    /\ Queue(o)
    /\ UNCHANGED <<kind, virtual, remembered, event, serviceCA, bundle,
                   edits, callFaults, caFaults>>

\* As the router does when it admits a Route.
HostReports(o, status) ==
    /\ HostChanges(o)
    /\ kind[o] # "oauthclient"
    /\ host[o].status # status
    /\ host' = [host EXCEPT ![o].status = status]

AdminDeletes(o) ==
    /\ HostChanges(o)
    /\ host' = [host EXCEPT ![o] = Absent]

\* The service CA is copied into the vCluster, or rotated.
Publish(ca) ==
    /\ bundle' = ca
    /\ UNCHANGED <<kind, objects, controller, serviceCA, budgets>>

-----------------------------------------------------------------------------
(* The sync controller.                                                    *)

Read(o) ==
    /\ event[o] = Absent
    /\ pending[o]
    /\ event' = [event EXCEPT ![o] = [virtual |-> virtual[o], host |-> host[o],
                                      hostOld |-> remembered[o]]]
    /\ pending' = [pending EXCEPT ![o] = FALSE]
    /\ UNCHANGED <<kind, objects, remembered, serviceCA, bundle, budgets>>

\* A handler ends; again says whether the key is queued once more.
Return(o, again) ==
    /\ event' = [event EXCEPT ![o] = Absent]
    /\ pending' = [pending EXCEPT ![o] = @ \/ again]
    /\ UNCHANGED <<kind, serviceCA, bundle, edits, hostEdits, caFaults>>

Remember(o, what) == remembered' = [remembered EXCEPT ![o] = what]

\* The handler's call: to SyncToHost, to Sync, or to SyncToVirtual.
Called(o) == event[o] # Absent
CalledToHost(o) == Called(o) /\ event[o].virtual # Absent /\ event[o].host = Absent
CalledToVirtual(o) == Called(o) /\ event[o].virtual = Absent /\ event[o].host # Absent
CalledWithBoth(o) == Called(o) /\ event[o].virtual # Absent /\ event[o].host # Absent
SameObject(o) == event[o].virtual.uid = event[o].host.uid

CopiesFields(o) ==
    \/ CalledToHost(o) /\ ~event[o].hostOld
    \/ CalledWithBoth(o) /\ SameObject(o)

\* Mutant of AwaitsCA: every Route reads the CA anew.
AwaitsCAAgain(o) ==
    /\ CopiesFields(o)
    /\ kind[o] = "route"
    /\ needsServiceCA(event[o].virtual.fields)
    /\ serviceCA \in {Absent} \cup (CAs \ {bundle})

AwaitsCA(o) ==
    /\ CopiesFields(o)
    /\ kind[o] = "route"
    /\ needsServiceCA(event[o].virtual.fields)
    /\ serviceCA = Absent

Cache(ca) ==
    /\ serviceCA' = ca
    /\ UNCHANGED <<kind, objects, controller, bundle, edits, hostEdits, callFaults>>

\* getServiceCA: the first Route that needs the CA reads it for all, and what
\* it found, or that it failed, is kept while the process runs.
ReadServiceCA(o) ==
    /\ AwaitsCA(o)
    /\ Cache(IF bundle = Absent THEN "" ELSE bundle)
    /\ UNCHANGED caFaults

ReadServiceCAFails(o) ==
    /\ AwaitsCA(o)
    /\ Cache("")
    /\ caFaults < MaxCAFaults
    /\ caFaults' = caFaults + 1

DeleteVirtualObject(o) ==
    /\ virtual' = [virtual EXCEPT ![o] = Absent]
    /\ Remember(o, FALSE)
    /\ Return(o, virtual[o] # Absent)
    /\ UNCHANGED <<host, callFaults>>

\* Mutant of DeleteHostObject: the deleted objects stay in the cache.
DeleteHostObjectRemembers(o) ==
    /\ host' = [host EXCEPT ![o] = Absent]
    /\ Return(o, host[o] # Absent)
    /\ UNCHANGED <<virtual, remembered, callFaults>>

DeleteHostObject(o) ==
    /\ host' = [host EXCEPT ![o] = Absent]
    /\ Remember(o, FALSE)
    /\ Return(o, host[o] # Absent)
    /\ UNCHANGED <<virtual, callFaults>>

\* HostMetadata copies the whole object; the host's API server may drop the
\* status of an object that is created.
SyncToHost(o) ==
    /\ CalledToHost(o)
    /\ \/ /\ event[o].hostOld
          /\ DeleteVirtualObject(o)
       \/ /\ ~event[o].hostOld
          /\ ~AwaitsCA(o)
          /\ LET v == event[o].virtual IN
             \E status \in {v.status, Absent} :
                host' = [host EXCEPT ![o] =
                    [fields |-> syncFields(o, v.fields, v.fields), status |-> status,
                     uid |-> v.uid]]
          /\ Remember(o, TRUE)
          /\ Return(o, TRUE)
          /\ UNCHANGED <<virtual, callFaults>>

\* A copy made for an earlier object of this name is deleted before any
\* handler is called.
ReplaceStaleCopy(o) ==
    /\ CalledWithBoth(o)
    /\ ~SameObject(o)
    /\ DeleteHostObject(o)

\* A patch holds what differs from the object as it was read.
patched(fields, wanted, read) ==
    [f \in DOMAIN fields |-> IF wanted[f] # read[f] THEN wanted[f] ELSE fields[f]]

patchHost(o) ==
    LET e == event[o] IN
    IF host[o] = Absent THEN Absent
    ELSE [host[o] EXCEPT !.fields =
             patched(@, syncFields(o, e.host.fields, e.virtual.fields), e.host.fields)]

patchVirtual(o) ==
    LET e == event[o]
        status == syncStatus(o, e.host.status, e.virtual.status)
    IN  IF virtual[o] = Absent \/ status = e.virtual.status THEN virtual[o]
        ELSE [virtual[o] EXCEPT !.status = status]

\* Both objects are patched; an object that is gone makes its patch fail.
Sync(o) ==
    /\ CalledWithBoth(o)
    /\ SameObject(o)
    /\ ~AwaitsCA(o)
    /\ host' = [host EXCEPT ![o] = patchHost(o)]
    /\ virtual' = [virtual EXCEPT ![o] = patchVirtual(o)]
    /\ Remember(o, IF host[o] = Absent \/ virtual[o] = Absent THEN remembered[o] ELSE TRUE)
    /\ Return(o, host' # host \/ virtual' # virtual \/ host[o] = Absent \/ virtual[o] = Absent)
    /\ UNCHANGED callFaults

\* The copy is the plugin's own, so that it is deleted whether or not the
\* controller remembers the virtual object.
SyncToVirtual(o) ==
    /\ CalledToVirtual(o)
    /\ DeleteHostObject(o)

Nothing(o) ==
    /\ Called(o)
    /\ event[o].virtual = Absent /\ event[o].host = Absent
    /\ Return(o, FALSE)
    /\ UNCHANGED <<objects, remembered, callFaults>>

CallFault ==
    /\ callFaults < MaxCallFaults
    /\ callFaults' = callFaults + 1

\* Mutant of CallFails: a failed patch of the copy is logged and dropped.
CallFailsForgets(o) ==
    /\ CallFault
    /\ CalledToHost(o) \/ CalledToVirtual(o) \/ CalledWithBoth(o)
    /\ ~AwaitsCA(o)
    /\ Return(o, FALSE)
    /\ UNCHANGED <<objects, remembered>>

\* A call of the handler fails: neither object, or of two patches the one,
\* is written, and the key is queued again.
CallFails(o) ==
    /\ CallFault
    /\ CalledToHost(o) \/ CalledToVirtual(o) \/ CalledWithBoth(o)
    /\ ~AwaitsCA(o)
    /\ \/ UNCHANGED objects
       \/ /\ CalledWithBoth(o) /\ SameObject(o)
          /\ \/ host' = [host EXCEPT ![o] = patchHost(o)] /\ UNCHANGED virtual
             \/ virtual' = [virtual EXCEPT ![o] = patchVirtual(o)] /\ UNCHANGED host
    /\ Return(o, TRUE)
    /\ UNCHANGED remembered

\* A new process: memory, queue and service CA are lost, every object that
\* exists is an event.
Forget ==
    /\ remembered' = [o \in Objects |-> FALSE]
    /\ pending' = [o \in Objects |-> virtual'[o] # Absent \/ host[o] # Absent]
    /\ event' = [o \in Objects |-> Absent]
    /\ serviceCA' = Absent
    /\ UNCHANGED <<kind, host, bundle, budgets>>

\* The store of the Routes is a sidecar's in the plugin's pod, on an emptyDir: a
\* container started anew finds them, a new pod has none.  The other kinds are
\* custom resources in the vCluster's own store.
NewContainer ==
    /\ UNCHANGED virtual
    /\ Forget

NewPod ==
    /\ virtual' = [o \in Objects |-> IF kind[o] = "route" THEN Absent ELSE virtual[o]]
    /\ Forget

Tenant(o) ==
    \/ TenantDeletes(o)
    \/ \E fields \in Contents[kind[o]] : TenantPuts(o, fields) \/ TenantReplaces(o, fields)

HostSide(o) == AdminDeletes(o) \/ \E status \in Statuses : HostReports(o, status)

Handle(o) ==
    \/ ReadServiceCA(o) \/ SyncToHost(o) \/ ReplaceStaleCopy(o) \/ Sync(o)
    \/ SyncToVirtual(o) \/ Nothing(o)

-----------------------------------------------------------------------------
(* Properties.                                                             *)

\* A copy's fields are the object's, as they are to be copied.
IsCopy(k, o, obj) ==
    /\ obj = [fields |-> obj.fields, status |-> obj.status, uid |-> obj.uid]
    /\ DOMAIN obj.fields = FieldNames(k)
    /\ obj.fields = [f \in FieldNames(k) |-> obj.fields[f]]
    /\ \A f \in FieldNames(k) : \E w \in Wanted(k, o) : obj.fields[f] = w[f]
    /\ obj.status \in StatusesOf(k)
    /\ obj.uid \in 1..MaxEdits

IsEvent(k, o, e) ==
    /\ e = [virtual |-> e.virtual, host |-> e.host, hostOld |-> e.hostOld]
    /\ e.virtual \in VirtualObject(k) \cup {Absent}
    /\ e.host = Absent \/ IsCopy(k, o, e.host)
    /\ e.hostOld \in BOOLEAN

\* The types are those of the constants.
SyncerTypeOK ==
    /\ kind \in KindChoices
    /\ DOMAIN virtual = Objects /\ DOMAIN host = Objects /\ DOMAIN event = Objects
    /\ \A o \in Objects :
          /\ virtual[o] \in VirtualObject(kind[o]) \cup {Absent}
          /\ host[o] = Absent \/ IsCopy(kind[o], o, host[o])
          /\ event[o] = Absent \/ IsEvent(kind[o], o, event[o])
    /\ remembered \in [Objects -> BOOLEAN]
    /\ pending \in [Objects -> BOOLEAN]
    /\ serviceCA \in CAs \cup {"", Absent}
    /\ bundle \in CAs \cup {Absent}
    /\ edits \in 0..MaxEdits /\ hostEdits \in 0..MaxHostEdits
    /\ callFaults \in 0..MaxCallFaults /\ caFaults \in 0..MaxCAFaults

Settled(o) == ~pending[o] /\ event[o] = Absent

IsRoute(o) == kind[o] = "route"

\* What the copied fields of the copy should be, but for an injected CA.
CopiedRight(o) ==
    LET h == host[o].fields
        v == virtual[o].fields
    IN  IF IsRoute(o)
        THEN /\ h.backends = {[b EXCEPT !.name = HostName(@, Namespace[o])] : b \in v.backends}
             /\ h.tls = v.tls
             /\ ~needsServiceCA(v) => h.ca = v.ca
        ELSE \A f \in copied(kind[o]) \cap DOMAIN v : v[f] # Absent => h[f] = v[f]

InPlace(o) ==
    IF virtual[o] = Absent \/ host[o] = Absent THEN virtual[o] = host[o]
    ELSE host[o].uid = virtual[o].uid /\ CopiedRight(o)

\* The virtual status is the host's; only a Route's status is taken away again.
StatusReported(o) ==
    virtual[o] # Absent /\ host[o] # Absent =>
        \/ virtual[o].status = host[o].status
        \/ ~IsRoute(o) /\ host[o].status = Absent

\* A settled object has a copy made for it, with all that is to be copied,
\* translated once, and its copy's status; one that is gone has no copy.
SettledInPlace == \A o \in Objects : Settled(o) => InPlace(o)
SettledStatusReported == \A o \in Objects : Settled(o) => StatusReported(o)

UsesServiceCA(o) ==
    IF IsRoute(o) /\ Settled(o) /\ virtual[o] # Absent /\ host[o] # Absent
    THEN needsServiceCA(virtual[o].fields) ELSE FALSE

\* All Routes that rely on the service CA are given the same one by their
\* copies, whichever worker reads it and whenever it changes.
RoutesShareCA ==
    \A o, p \in Objects : UsesServiceCA(o) /\ UsesServiceCA(p) =>
        host[o].fields.ca = host[p].fields.ca

\* The plugin deletes a tenant's object only when its copy was deleted on the
\* host: not for a copy that the plugin deleted or that a new pod lost the Route
\* of, which the tenant has created again since.
TenantKeepsObject ==
    [][\A o \in Objects :
          virtual[o] # Absent /\ virtual'[o] = Absent /\ (Handle(o) \/ CallFails(o))
              => hostEdits > 0]_syncerVars
=============================================================================
