------------------------ MODULE ResourceSyncer_proofs ------------------------
(***************************************************************************)
(* Theorems about the generic syncer in a deployment, for every number of  *)
(* objects, every content and every bound.                                 *)
(***************************************************************************)
EXTENDS DeployScript_proofs

-----------------------------------------------------------------------------
(* What the handlers write.                                                *)

\* Fields each of which is as some version of the object has it copied.
Mixed(k, o, fields) ==
    /\ fields = [f \in FieldNames(k) |-> fields[f]]
    /\ \A f \in FieldNames(k) : \E w \in Wanted(k, o) : fields[f] = w[f]

LEMMA CopyIsMixed ==
    ASSUME NEW k, NEW o, NEW obj, IsCopy(k, o, obj)
    PROVE  Mixed(k, o, obj.fields)
BY DEF IsCopy, Mixed

LEMMA MixedIsCopy ==
    ASSUME NEW k, NEW o, NEW fields, Mixed(k, o, fields),
           NEW status \in StatusesOf(k), NEW uid \in 1..MaxEdits
    PROVE  IsCopy(k, o, [fields |-> fields, status |-> status, uid |-> uid])
BY DEF IsCopy, Mixed

\* The content of an object has the fields of its kind.
LEMMA ContentsForm ==
    ASSUME NEW choice \in KindChoices, NEW o \in Objects, NEW fields \in Contents[choice[o]]
    PROVE  fields = [f \in FieldNames(choice[o]) |-> fields[f]]
<1>1. \A c \in Contents[choice[o]] :
          /\ c = [f \in FieldNames(choice[o]) |-> c[f]]
          /\ choice[o] = "route" =>
                /\ DOMAIN c = {"backends", "tls", "ca"}
                /\ \A b \in c.backends : b.kind \in {"Service", ""}
  BY ContentsAssumption
<1>2. QED
  BY <1>1

\* A Route's spec, as tenants give it.
RouteSpec(v) ==
    /\ v = [f \in FieldNames("route") |-> v[f]]
    /\ DOMAIN v = {"backends", "tls", "ca"}
    /\ \A b \in v.backends : b.kind \in {"Service", ""}

LEMMA RouteContents ==
    ASSUME NEW choice \in KindChoices, NEW o \in Objects, choice[o] = "route",
           NEW v \in Contents["route"]
    PROVE  RouteSpec(v)
<1>1. \A fields \in Contents[choice[o]] :
          /\ fields = [f \in FieldNames(choice[o]) |-> fields[f]]
          /\ choice[o] = "route" =>
                /\ DOMAIN fields = {"backends", "tls", "ca"}
                /\ \A b \in fields.backends : b.kind \in {"Service", ""}
  BY ContentsAssumption
<1>2. QED
  BY <1>1 DEF RouteSpec

\* The fields a Route's copy is given (translateRouteSpec, route.go:69,
\* injectServiceCA, route.go:44).
routeCopy(v, namespace, ca) == injectServiceCA(translateRouteSpec(v, namespace), ca)

LEMMA RouteFields ==
    ASSUME NEW v, RouteSpec(v), NEW namespace, NEW ca
    PROVE  /\ routeCopy(v, namespace, ca) =
                  [f \in FieldNames("route") |-> routeCopy(v, namespace, ca)[f]]
           /\ routeCopy(v, namespace, ca).backends =
                  {[b EXCEPT !.name = HostName(@, namespace)] : b \in v.backends}
           /\ routeCopy(v, namespace, ca).tls = v.tls
           /\ routeCopy(v, namespace, ca).ca = IF needsServiceCA(v) THEN ca ELSE v.ca
<1> DEFINE t == translateRouteSpec(v, namespace)
           w == injectServiceCA(t, ca)
<1>1. /\ v = [f \in FieldNames("route") |-> v[f]]
      /\ DOMAIN v = {"backends", "tls", "ca"}
      /\ \A b \in v.backends : b.kind \in {"Service", ""}
  BY DEF RouteSpec
<1>2. t = [v EXCEPT !.backends = {translateBackend(b, namespace) : b \in v.backends}]
  BY DEF translateRouteSpec
<1>3. t.backends = {[b EXCEPT !.name = HostName(@, namespace)] : b \in v.backends}
  <2>1. t.backends = {translateBackend(b, namespace) : b \in v.backends}
    BY <1>1, <1>2
  <2>2. \A b \in v.backends :
            translateBackend(b, namespace) = [b EXCEPT !.name = HostName(@, namespace)]
    BY <1>1 DEF translateBackend
  <2>3. QED
    BY <2>1, <2>2
<1>4. t.tls = v.tls /\ t.ca = v.ca /\ DOMAIN t = DOMAIN v
  BY <1>1, <1>2
<1>5. needsServiceCA(t) <=> needsServiceCA(v)
  BY <1>4 DEF needsServiceCA
<1>6. /\ w = IF needsServiceCA(v) THEN [t EXCEPT !.ca = ca] ELSE t
      /\ t = [f \in DOMAIN t |-> t[f]]
  BY <1>2, <1>5 DEF injectServiceCA
<1>7. DOMAIN v = FieldNames("route")
  BY <1>1
<1> HIDE DEF t
<1>8. DOMAIN w = FieldNames("route") /\ w = [f \in DOMAIN w |-> w[f]]
  BY <1>4, <1>6, <1>7
<1>9. w.backends = t.backends /\ w.tls = t.tls
  BY <1>1, <1>4, <1>6
<1>10. w.ca = IF needsServiceCA(v) THEN ca ELSE v.ca
  BY <1>1, <1>4, <1>6
<1>11. w = routeCopy(v, namespace, ca)
  BY DEF routeCopy, w, t
<1> HIDE DEF w
<1>12. QED
  BY <1>3, <1>4, <1>8, <1>9, <1>10, <1>11

\* What a handler wants the copy to hold is made of the object's versions, for
\* a Route with the service CA a process has cached.
LEMMA SyncedFields ==
    ASSUME SyncerTypeOK, NEW o \in Objects, NEW old, Mixed(kind[o], o, old),
           NEW v \in Contents[kind[o]],
           kind[o] = "route" /\ needsServiceCA(v) => serviceCA # Absent
    PROVE  Mixed(kind[o], o, syncFields(o, old, v))
<1> DEFINE k == kind[o]
<1>1. kind \in KindChoices /\ serviceCA \in CAs \cup {"", Absent}
  BY DEF SyncerTypeOK
<1>2. CASE k = "route"
  <2> DEFINE ca == IF needsServiceCA(v) THEN serviceCA ELSE ""
             w == routeCopy(v, Namespace[o], serviceCA)
             u == routeCopy(v, Namespace[o], ca)
  <2>1. syncFields(o, old, v) = w /\ v \in Contents["route"]
    BY <1>2 DEF syncFields, routeCopy
  <2>2. RouteSpec(v)
    BY <1>1, <1>2, <2>1, RouteContents, Zenon
  <2>3. ca \in CAs \cup {""}
    BY <1>1, <1>2
  <2> HIDE DEF ca
  <2>4. w = [f \in FieldNames("route") |-> w[f]] /\ FieldNames("route") = {"backends", "tls", "ca"}
    <3>1. w = [f \in FieldNames("route") |-> w[f]]
      BY <2>2, RouteFields
    <3>2. QED
      BY <2>2, <3>1 DEF RouteSpec
  <2>5. w.backends = u.backends
    <3>1. w.backends = {[b EXCEPT !.name = HostName(@, Namespace[o])] : b \in v.backends}
      BY <2>2, RouteFields
    <3>2. u.backends = {[b EXCEPT !.name = HostName(@, Namespace[o])] : b \in v.backends}
      BY <2>2, RouteFields
    <3>3. QED
      BY <3>1, <3>2
  <2>6. w.tls = u.tls /\ w.ca = u.ca
    <3>1. w.tls = v.tls /\ u.tls = v.tls
      BY <2>2, RouteFields
    <3>2. w.ca = IF needsServiceCA(v) THEN serviceCA ELSE v.ca
      BY <2>2, RouteFields
    <3>3. u.ca = IF needsServiceCA(v) THEN ca ELSE v.ca
      BY <2>2, RouteFields
    <3>4. QED
      BY <3>1, <3>2, <3>3 DEF ca
  <2>7. u = injectServiceCA(translateRouteSpec(v, Namespace[o]), ca)
    BY DEF routeCopy
  <2> HIDE DEF w, u
  <2>8. u \in Wanted("route", o)
    <3>1. u \in {injectServiceCA(translateRouteSpec(v, Namespace[o]), c) : c \in CAs \cup {""}}
      BY <2>3, <2>7
    <3>2. QED
      BY <2>1, <3>1 DEF Wanted
  <2>9. \A f \in FieldNames("route") : w[f] = u[f]
    BY <2>4, <2>5, <2>6
  <2>10. QED
    BY <1>2, <2>1, <2>4, <2>8, <2>9 DEF Mixed
<1>3. CASE k # "route"
  <2>1. DOMAIN old = FieldNames(k) /\ Wanted(k, o) = Contents[k]
    BY <1>3 DEF Mixed, Wanted
  <2>2. syncFields(o, old, v) =
            [f \in FieldNames(k) |-> IF f \in copied(k) /\ v[f] # Absent THEN v[f] ELSE old[f]]
    BY <1>3, <2>1 DEF syncFields
  <2> DEFINE synced == syncFields(o, old, v)
  <2>3. \A f \in FieldNames(k) :
            synced[f] = IF f \in copied(k) /\ v[f] # Absent THEN v[f] ELSE old[f]
    BY <2>2
  <2>4. synced = [f \in FieldNames(k) |-> synced[f]]
    BY <2>2, <2>3
  <2>5. ASSUME NEW f \in FieldNames(k) PROVE \E w \in Wanted(k, o) : synced[f] = w[f]
    <3>1. CASE synced[f] = v[f]
      BY <2>1, <3>1
    <3>2. CASE synced[f] = old[f]
      BY <3>2 DEF Mixed
    <3> HIDE DEF synced
    <3>3. synced[f] = v[f] \/ synced[f] = old[f]
      BY <2>3
    <3>4. QED
      BY <3>1, <3>2, <3>3
  <2> HIDE DEF synced
  <2>6. Mixed(k, o, synced)
    BY <2>4, <2>5 DEF Mixed
  <2>7. QED
    BY <2>6 DEF synced
<1>4. QED
  BY <1>2, <1>3

\* A patch leaves such fields too, whatever the copy has become since it was
\* read.
LEMMA PatchedFields ==
    ASSUME NEW k, NEW o, NEW now, Mixed(k, o, now), NEW wanted, Mixed(k, o, wanted), NEW read
    PROVE  Mixed(k, o, patched(now, wanted, read))
BY DEF Mixed, patched

\* Nothing that exists is Absent.
LEMMA ObjectsExist ==
    ASSUME SyncerTypeOK, NEW o \in Objects
    PROVE  /\ \A obj : IsCopy(kind[o], o, obj) => obj # Absent
           /\ \A obj \in VirtualObject(kind[o]) : obj # Absent
           /\ \A e : IsEvent(kind[o], o, e) => e # Absent
<1> DEFINE k == kind[o]
<1>1. Absent \notin VirtualObject(k) \cup Copies(k, o) \cup Events(k, o)
  BY AbsentAssumption DEF SyncerTypeOK
<1>2. ASSUME NEW obj, IsCopy(k, o, obj)
      PROVE  obj \in Copies(k, o)
  <2> DEFINE version == [f \in FieldNames(k) |-> CHOOSE w \in Wanted(k, o) : obj.fields[f] = w[f]]
  <2>1. version \in [FieldNames(k) -> Wanted(k, o)]
    BY <1>2 DEF IsCopy
  <2>2. \A f \in FieldNames(k) : obj.fields[f] = version[f][f]
    BY <1>2 DEF IsCopy
  <2>3. obj.fields = [f \in FieldNames(k) |-> version[f][f]]
    BY <1>2, <2>2 DEF IsCopy
  <2> HIDE DEF version
  <2>4. obj.fields \in {[f \in FieldNames(k) |-> ver[f][f]] :
                            ver \in [FieldNames(k) -> Wanted(k, o)]}
    BY <2>1, <2>3
  <2>5. QED
    BY <1>2, <2>4 DEF IsCopy, Copies
<1>3. ASSUME NEW e, IsEvent(k, o, e)
      PROVE  e \in Events(k, o)
  BY <1>2, <1>3 DEF IsEvent, Events
<1>4. QED
  BY <1>1, <1>2, <1>3

-----------------------------------------------------------------------------
(* A step of the deployment, for the syncer.                               *)

ObjectStep(o) ==
    \/ Read(o) \/ Handle(o) \/ Tenant(o) \/ HostSide(o) \/ CallFails(o)
    \/ ReadServiceCAFails(o)

SyncerStep ==
    \/ \E o \in Objects : ObjectStep(o)
    \/ \E ca \in CAs : Publish(ca)
    \/ NewContainer \/ NewPod
    \/ UNCHANGED syncerVars

\* What the script publishes is a CA of the host, as a step runs only in a run.
LEMMA Published ==
    ASSUME DoneInv, ScriptSucceeds
    PROVE  HostCA[deploys] \in CAs
<1>1. at # NotRun /\ deploys \in 0..MaxDeploys
  BY DEF ScriptSucceeds, Succeed, Running, NotRun, DoneInv, HostInv, ScriptNumbers
<1>2. deploys # 0
  BY <1>1 DEF DoneInv, FirstRun
<1>3. QED
  BY <1>1, <1>2, DeploymentAssumption, ScriptBoundsAssumption

LEMMA SyncerSteps ==
    ASSUME DoneInv, [Next]_vars
    PROVE  SyncerStep
<1> USE DEF SyncerStep, Untouched
<1>1. CASE ScriptSucceeds
  BY <1>1, Published DEF ScriptSucceeds, RestartPod
<1>2. CASE ScriptGoesOn /\ Untouched
  BY <1>2
<1>3. CASE PluginStep
  BY <1>3 DEF PluginStep
<1>4. CASE \E o \in Objects : Work(o) \/ TenantStep(o)
  BY <1>4 DEF Work, TenantStep, ObjectStep
<1>5. CASE Mishap
  BY <1>5 DEF Mishap, Crash, ObjectStep
<1>6. CASE UNCHANGED vars
  BY <1>6 DEF vars
<1>7. QED
  BY <1>1, <1>2, <1>3, <1>4, <1>5, <1>6 DEF Next

\* A step of one object leaves the others' alone.
Same(p) ==
    /\ virtual'[p] = virtual[p] /\ host'[p] = host[p]
    /\ remembered'[p] = remembered[p] /\ pending'[p] = pending[p]
    /\ event'[p] = event[p]

LEMMA ObjectFrame ==
    ASSUME SyncerTypeOK, NEW o \in Objects, ObjectStep(o)
    PROVE  /\ kind' = kind /\ \A p \in Objects \ {o} : Same(p)
           /\ DOMAIN virtual' = Objects /\ DOMAIN host' = Objects /\ DOMAIN event' = Objects
           /\ DOMAIN remembered' = Objects /\ DOMAIN pending' = Objects
<1> USE DEF Same, objects, controller, budgets, Queue, Return, Remember
<1>1. /\ DOMAIN virtual = Objects /\ DOMAIN host = Objects /\ DOMAIN event = Objects
      /\ DOMAIN remembered = Objects /\ DOMAIN pending = Objects
  BY DEF SyncerTypeOK
<1>2. CASE Read(o)
  BY <1>1, <1>2 DEF Read
<1>3. CASE Tenant(o)
  BY <1>1, <1>3 DEF Tenant, TenantDeletes, TenantPuts, TenantReplaces
<1>4. CASE HostSide(o)
  BY <1>1, <1>4 DEF HostSide, AdminDeletes, HostReports, HostChanges
<1>5. CASE CallFails(o)
  BY <1>1, <1>5 DEF CallFails, CallFault
<1>6. CASE ReadServiceCAFails(o) \/ ReadServiceCA(o)
  BY <1>1, <1>6 DEF ReadServiceCAFails, ReadServiceCA, Cache
<1>7. CASE SyncToHost(o)
  BY <1>1, <1>7 DEF SyncToHost, DeleteVirtualObject
<1>8. CASE ReplaceStaleCopy(o) \/ SyncToVirtual(o)
  BY <1>1, <1>8 DEF ReplaceStaleCopy, SyncToVirtual, DeleteHostObject
<1>9. CASE Sync(o)
  BY <1>1, <1>9 DEF Sync
<1>10. CASE Nothing(o)
  BY <1>1, <1>10 DEF Nothing
<1>11. QED
  BY <1>2, <1>3, <1>4, <1>5, <1>6, <1>7, <1>8, <1>9, <1>10 DEF ObjectStep, Handle

-----------------------------------------------------------------------------
(* Types.                                                                  *)

\* What a handler was called with.
LEMMA EventParts ==
    ASSUME SyncerTypeOK, NEW o \in Objects, Called(o)
    PROVE  /\ event[o].virtual # Absent => event[o].virtual \in VirtualObject(kind[o])
           /\ event[o].host # Absent => IsCopy(kind[o], o, event[o].host)
           /\ event[o].hostOld \in BOOLEAN
<1>1. IsEvent(kind[o], o, event[o])
  BY DEF SyncerTypeOK, Called
<1>2. QED
  BY <1>1 DEF IsEvent

\* The copy that a handler makes, with the fields it makes it with.
LEMMA CreatedCopy ==
    ASSUME SyncerTypeOK, NEW o \in Objects, CalledToHost(o), ~event[o].hostOld, ~AwaitsCA(o),
           NEW status \in {event[o].virtual.status, Absent}
    PROVE  LET v == event[o].virtual IN
           IsCopy(kind[o], o,
                  [fields |-> syncFields(o, v.fields, v.fields), status |-> status, uid |-> v.uid])
<1> DEFINE v == event[o].virtual
           k == kind[o]
<1>1. /\ v \in VirtualObject(k)
      /\ k = "route" /\ needsServiceCA(v.fields) => serviceCA # Absent
  BY EventParts DEF CalledToHost, AwaitsCA, CopiesFields
<1>2. /\ v.fields \in Contents[k] /\ v.status \in StatusesOf(k) /\ v.uid \in 1..MaxEdits
      /\ status \in StatusesOf(k)
  BY <1>1 DEF VirtualObject, StatusesOf
<1> HIDE DEF v
<1>3. Mixed(k, o, syncFields(o, v.fields, v.fields))
  <2>1. CASE k = "route"
    <3> DEFINE fields == v.fields
               old == routeCopy(fields, Namespace[o], "")
    <3>1. RouteSpec(fields)
      BY <1>2, <2>1, RouteContents DEF SyncerTypeOK
    <3>2. old \in {injectServiceCA(translateRouteSpec(v.fields, Namespace[o]), c) :
                      c \in CAs \cup {""}}
      BY DEF routeCopy
    <3>3. old \in Wanted(k, o)
      BY <1>2, <2>1, <3>2 DEF Wanted
    <3>4. old = [f \in FieldNames("route") |-> old[f]]
      <4> HIDE DEF fields
      <4>1. QED
        BY <3>1, RouteFields
    <3> HIDE DEF old
    <3>5. Mixed(k, o, old)
      BY <2>1, <3>3, <3>4 DEF Mixed
    <3>6. Mixed(k, o, syncFields(o, old, v.fields))
      BY <1>1, <1>2, <3>5, SyncedFields
    <3>7. syncFields(o, old, v.fields) = syncFields(o, v.fields, v.fields)
      BY <2>1 DEF syncFields
    <3>8. QED
      BY <3>6, <3>7
  <2>2. CASE k # "route"
    <3>1. kind \in KindChoices /\ Wanted(k, o) = Contents[k]
      BY <2>2 DEF SyncerTypeOK, Wanted
    <3>2. v.fields = [f \in FieldNames(k) |-> v.fields[f]]
      BY <1>2, <3>1, ContentsForm
    <3>3. Mixed(k, o, v.fields)
      BY <1>2, <3>1, <3>2 DEF Mixed
    <3>4. QED
      BY <1>1, <1>2, <3>3, SyncedFields
  <2>3. QED
    BY <2>1, <2>2
<1>4. QED
  BY <1>2, <1>3, MixedIsCopy DEF v

\* The copy that a patch leaves.
LEMMA PatchedCopy ==
    ASSUME SyncerTypeOK, NEW o \in Objects, CalledWithBoth(o), SameObject(o), ~AwaitsCA(o)
    PROVE  /\ patchHost(o) = Absent \/ IsCopy(kind[o], o, patchHost(o))
           /\ host[o] = Absent => patchHost(o) = Absent
           /\ host[o] # Absent => patchHost(o) # Absent
<1> DEFINE e == event[o]
           k == kind[o]
           wanted == syncFields(o, e.host.fields, e.virtual.fields)
<1>1. CASE host[o] = Absent
  BY <1>1 DEF patchHost
<1>2. CASE host[o] # Absent
  <2>1. /\ e.virtual \in VirtualObject(k) /\ IsCopy(k, o, e.host) /\ IsCopy(k, o, host[o])
        /\ k = "route" /\ needsServiceCA(e.virtual.fields) => serviceCA # Absent
    BY <1>2, EventParts DEF CalledWithBoth, AwaitsCA, CopiesFields, SyncerTypeOK
  <2>2. e.virtual.fields \in Contents[k]
    BY <2>1 DEF VirtualObject
  <2>3. Mixed(k, o, wanted)
    BY <2>1, <2>2, CopyIsMixed, SyncedFields
  <2>4. patchHost(o) =
            [host[o] EXCEPT !.fields = patched(host[o].fields, wanted, e.host.fields)]
    BY <1>2 DEF patchHost
  <2> HIDE DEF wanted, e
  <2>5. Mixed(k, o, patched(host[o].fields, wanted, e.host.fields))
    BY <2>1, <2>3, CopyIsMixed, PatchedFields
  <2>6. patchHost(o) = [fields |-> patched(host[o].fields, wanted, e.host.fields),
                        status |-> host[o].status, uid |-> host[o].uid]
    BY <2>1, <2>4 DEF IsCopy
  <2>7. IsCopy(k, o, patchHost(o))
    <3>1. host[o].status \in StatusesOf(k) /\ host[o].uid \in 1..MaxEdits
      BY <2>1 DEF IsCopy
    <3>2. QED
      BY <2>5, <2>6, <3>1, MixedIsCopy
  <2>8. QED
    BY <1>2, <2>7, ObjectsExist
<1>3. QED
  BY <1>1, <1>2

LEMMA PatchedVirtual ==
    ASSUME SyncerTypeOK, NEW o \in Objects, CalledWithBoth(o)
    PROVE  /\ patchVirtual(o) \in VirtualObject(kind[o]) \cup {Absent}
           /\ patchVirtual(o) = Absent <=> virtual[o] = Absent
<1> DEFINE e == event[o]
           k == kind[o]
           status == syncStatus(o, e.host.status, e.virtual.status)
<1>1. e.virtual \in VirtualObject(k) /\ IsCopy(k, o, e.host)
  BY EventParts DEF CalledWithBoth
<1>2. status \in StatusesOf(k)
  BY <1>1 DEF syncStatus, VirtualObject, IsCopy
<1>3. virtual[o] \in VirtualObject(k) \cup {Absent}
  BY DEF SyncerTypeOK
<1>4. CASE virtual[o] = Absent \/ status = e.virtual.status
  BY <1>3, <1>4 DEF patchVirtual
<1>5. CASE ~(virtual[o] = Absent \/ status = e.virtual.status)
  <2>1. patchVirtual(o) = [virtual[o] EXCEPT !.status = status]
    BY <1>5 DEF patchVirtual
  <2> HIDE DEF status
  <2>2. patchVirtual(o) \in VirtualObject(k)
    BY <1>2, <1>3, <1>5, <2>1 DEF VirtualObject
  <2>3. QED
    BY <1>5, <2>2, ObjectsExist
<1>6. QED
  BY <1>4, <1>5

\* The types of one object.
ObjectType(o) ==
    /\ virtual[o] \in VirtualObject(kind[o]) \cup {Absent}
    /\ host[o] = Absent \/ IsCopy(kind[o], o, host[o])
    /\ event[o] = Absent \/ IsEvent(kind[o], o, event[o])

\* What a handler does to its object, to the copy and to what is remembered.
LEMMA HandleEffect ==
    ASSUME SyncerTypeOK, NEW o \in Objects, Handle(o) \/ CallFails(o) \/ ReadServiceCAFails(o)
    PROVE  /\ \/ virtual'[o] \in {virtual[o], Absent}
              \/ CalledWithBoth(o) /\ virtual'[o] = patchVirtual(o)
           /\ host'[o] = host[o] \/ host'[o] = Absent \/ IsCopy(kind[o], o, host'[o])
           /\ event'[o] \in {event[o], Absent}
           /\ edits' = edits /\ hostEdits' = hostEdits /\ bundle' = bundle
<1> USE DEF objects, controller, budgets, Return, Remember
<1>1. DOMAIN virtual = Objects /\ DOMAIN host = Objects /\ DOMAIN event = Objects
  BY DEF SyncerTypeOK
<1>2. CASE CallFails(o)
  <2>1. host'[o] = host[o] \/ (/\ CalledWithBoth(o) /\ SameObject(o) /\ ~AwaitsCA(o)
                              /\ host'[o] = patchHost(o))
    BY <1>1, <1>2 DEF CallFails
  <2>2. host'[o] = host[o] \/ host'[o] = Absent \/ IsCopy(kind[o], o, host'[o])
    BY <2>1, PatchedCopy
  <2>3. QED
    BY <1>1, <1>2, <2>2 DEF CallFails, CallFault
<1>3. CASE ReadServiceCAFails(o) \/ ReadServiceCA(o)
  BY <1>3 DEF ReadServiceCAFails, ReadServiceCA, Cache
<1>4. CASE SyncToHost(o)
  <2>1. host'[o] = host[o] \/ IsCopy(kind[o], o, host'[o])
    <3>1. CASE event[o].hostOld
      BY <1>4, <3>1 DEF SyncToHost, DeleteVirtualObject
    <3>2. CASE ~event[o].hostOld
      <4> DEFINE v == event[o].virtual
      <4>1. PICK status \in {v.status, Absent} :
                host' = [host EXCEPT ![o] =
                    [fields |-> syncFields(o, v.fields, v.fields), status |-> status,
                     uid |-> v.uid]]
        BY <1>4, <3>2 DEF SyncToHost
      <4>2. host'[o] = [fields |-> syncFields(o, v.fields, v.fields), status |-> status,
                        uid |-> v.uid]
        BY <1>1, <4>1
      <4>3. CalledToHost(o) /\ ~AwaitsCA(o)
        BY <1>4, <3>2 DEF SyncToHost
      <4>4. QED
        BY <3>2, <4>2, <4>3, CreatedCopy
    <3>3. QED
      BY <3>1, <3>2
  <2>2. virtual'[o] \in {virtual[o], Absent} /\ event'[o] = Absent
    BY <1>1, <1>4 DEF SyncToHost, DeleteVirtualObject
  <2>3. edits' = edits /\ hostEdits' = hostEdits /\ bundle' = bundle /\ CalledToHost(o)
    BY <1>4 DEF SyncToHost, DeleteVirtualObject
  <2>4. QED
    BY <2>1, <2>2, <2>3
<1>5. CASE ReplaceStaleCopy(o) \/ SyncToVirtual(o)
  BY <1>1, <1>5 DEF ReplaceStaleCopy, SyncToVirtual, DeleteHostObject
<1>6. CASE Sync(o)
  <2>1. CalledWithBoth(o) /\ SameObject(o) /\ ~AwaitsCA(o) /\ host'[o] = patchHost(o)
    BY <1>1, <1>6 DEF Sync
  <2>2. host'[o] = Absent \/ IsCopy(kind[o], o, host'[o])
    BY <2>1, PatchedCopy
  <2>3. QED
    BY <1>1, <1>6, <2>1, <2>2 DEF Sync
<1>7. CASE Nothing(o)
  BY <1>1, <1>7 DEF Nothing
<1>8. QED
  BY <1>2, <1>3, <1>4, <1>5, <1>6, <1>7 DEF Handle

LEMMA TenantType ==
    ASSUME SyncerTypeOK, NEW o \in Objects, Tenant(o)
    PROVE  /\ virtual'[o] \in VirtualObject(kind[o]) \cup {Absent}
           /\ edits' = edits + 1 /\ edits' \in 0..MaxEdits
           /\ UNCHANGED <<kind, host, remembered, event, serviceCA, bundle,
                          hostEdits, callFaults, caFaults>>
           /\ pending' = [pending EXCEPT ![o] = TRUE]
<1> DEFINE k == kind[o]
<1>1. /\ DOMAIN virtual = Objects /\ virtual[o] \in VirtualObject(k) \cup {Absent}
      /\ edits \in 0..MaxEdits /\ Absent \in StatusesOf(k)
  BY DEF SyncerTypeOK, StatusesOf
<1> USE <1>1, BoundsAssumption DEF Queue
<1>2. CASE TenantDeletes(o)
  BY <1>2 DEF TenantDeletes
<1>3. ASSUME NEW fields \in Contents[k], TenantPuts(o, fields)
      PROVE  /\ virtual'[o] \in VirtualObject(k)
             /\ edits' = edits + 1 /\ edits' \in 0..MaxEdits
  <2>1. edits' = edits + 1 /\ edits + 1 \in 1..MaxEdits
    BY <1>3 DEF TenantPuts
  <2>2. virtual'[o] = IF virtual[o] = Absent
                      THEN [fields |-> fields, status |-> Absent, uid |-> edits + 1]
                      ELSE [virtual[o] EXCEPT !.fields = fields]
    BY <1>3 DEF TenantPuts
  <2>3. QED
    BY <2>1, <2>2 DEF VirtualObject
<1>4. ASSUME NEW fields \in Contents[k], TenantReplaces(o, fields)
      PROVE  /\ virtual'[o] \in VirtualObject(k)
             /\ edits' = edits + 1 /\ edits' \in 0..MaxEdits
  <2>1. edits' = edits + 1 /\ edits + 1 \in 1..MaxEdits
    BY <1>4 DEF TenantReplaces
  <2>2. virtual'[o] = [fields |-> fields, status |-> Absent, uid |-> edits + 1]
    BY <1>4 DEF TenantReplaces
  <2>3. QED
    BY <2>1, <2>2 DEF VirtualObject
<1>5. QED
  BY <1>2, <1>3, <1>4 DEF Tenant, TenantPuts, TenantReplaces, TenantDeletes

LEMMA HostSideType ==
    ASSUME SyncerTypeOK, NEW o \in Objects, HostSide(o)
    PROVE  /\ host'[o] = Absent \/ IsCopy(kind[o], o, host'[o])
           /\ hostEdits' = hostEdits + 1 /\ hostEdits' \in 0..MaxHostEdits
           /\ UNCHANGED <<kind, virtual, remembered, event, serviceCA, bundle,
                          edits, callFaults, caFaults>>
           /\ pending' = [pending EXCEPT ![o] = TRUE]
<1> DEFINE k == kind[o]
<1>1. /\ HostChanges(o)
      /\ \/ host' = [host EXCEPT ![o] = Absent]
         \/ \E status \in Statuses : k # "oauthclient" /\ host' = [host EXCEPT ![o].status = status]
  BY DEF HostSide, AdminDeletes, HostReports
<1>2. DOMAIN host = Objects /\ hostEdits \in 0..MaxHostEdits
  BY DEF SyncerTypeOK
<1>3. /\ hostEdits' = hostEdits + 1 /\ hostEdits' \in 0..MaxHostEdits
  BY <1>1, <1>2, BoundsAssumption DEF HostChanges
<1>4. host'[o] = Absent \/ IsCopy(k, o, host'[o])
  <2>1. CASE host' = [host EXCEPT ![o] = Absent]
    BY <1>2, <2>1
  <2>2. ASSUME NEW status \in Statuses, k # "oauthclient",
               host' = [host EXCEPT ![o].status = status]
        PROVE  IsCopy(k, o, host'[o])
    <3>1. host'[o] = [host[o] EXCEPT !.status = status]
      BY <1>2, <2>2
    <3>2. IsCopy(k, o, host[o])
      BY <1>1 DEF HostChanges, SyncerTypeOK
    <3>3. status \in StatusesOf(k)
      BY <2>2 DEF StatusesOf
    <3>4. host'[o] = [fields |-> host[o].fields, status |-> status, uid |-> host[o].uid]
      BY <3>1, <3>2 DEF IsCopy
    <3>5. host[o].uid \in 1..MaxEdits
      BY <3>2 DEF IsCopy
    <3>6. QED
      BY <3>2, <3>3, <3>4, <3>5, CopyIsMixed, MixedIsCopy
  <2>3. QED
    BY <1>1, <2>1, <2>2
<1>5. QED
  BY <1>1, <1>3, <1>4 DEF HostChanges, Queue

LEMMA ObjectStepType ==
    ASSUME SyncerTypeOK, NEW o \in Objects, ObjectStep(o)
    PROVE  ObjectType(o)'
<1>1. ObjectType(o) /\ kind' = kind
  BY ObjectFrame DEF SyncerTypeOK, ObjectType
<1>2. CASE Read(o)
  <2>1. event'[o] = [virtual |-> virtual[o], host |-> host[o], hostOld |-> remembered[o]]
    BY <1>2 DEF Read, SyncerTypeOK
  <2>2. remembered[o] \in BOOLEAN
    BY DEF SyncerTypeOK
  <2>3. IsEvent(kind[o], o, event'[o])
    BY <1>1, <2>1, <2>2 DEF IsEvent, ObjectType
  <2>4. QED
    BY <1>1, <1>2, <2>3 DEF Read, objects, ObjectType
<1>3. CASE Tenant(o)
  BY <1>1, <1>3, TenantType DEF ObjectType
<1>4. CASE HostSide(o)
  BY <1>1, <1>4, HostSideType DEF ObjectType
<1>5. CASE Handle(o) \/ CallFails(o) \/ ReadServiceCAFails(o)
  BY <1>1, <1>5, HandleEffect, PatchedVirtual DEF ObjectType
<1>6. QED
  BY <1>2, <1>3, <1>4, <1>5 DEF ObjectStep

\* What is remembered and queued.
LEMMA ObjectStepFlags ==
    ASSUME SyncerTypeOK, NEW o \in Objects, ObjectStep(o)
    PROVE  remembered' \in [Objects -> BOOLEAN] /\ pending' \in [Objects -> BOOLEAN]
<1> USE DEF objects, controller, budgets, Queue, Return, Remember
<1>1. remembered \in [Objects -> BOOLEAN] /\ pending \in [Objects -> BOOLEAN]
  BY DEF SyncerTypeOK
<1>2. CASE Read(o)
  BY <1>1, <1>2 DEF Read
<1>3. CASE Tenant(o)
  BY <1>1, <1>3, TenantType
<1>4. CASE HostSide(o)
  BY <1>1, <1>4, HostSideType
<1>5. CASE CallFails(o)
  BY <1>1, <1>5 DEF CallFails
<1>6. CASE ReadServiceCAFails(o) \/ ReadServiceCA(o)
  BY <1>1, <1>6 DEF ReadServiceCAFails, ReadServiceCA, Cache
<1>7. CASE SyncToHost(o)
  BY <1>1, <1>7 DEF SyncToHost, DeleteVirtualObject
<1>8. CASE ReplaceStaleCopy(o) \/ SyncToVirtual(o)
  BY <1>1, <1>8 DEF ReplaceStaleCopy, SyncToVirtual, DeleteHostObject
<1>9. CASE Sync(o)
  BY <1>1, <1>9 DEF Sync
<1>10. CASE Nothing(o)
  BY <1>1, <1>10 DEF Nothing
<1>11. QED
  BY <1>2, <1>3, <1>4, <1>5, <1>6, <1>7, <1>8, <1>9, <1>10 DEF ObjectStep, Handle

\* The service CA and the budgets of the calls.
LEMMA ObjectStepBudgets ==
    ASSUME SyncerTypeOK, NEW o \in Objects, ObjectStep(o)
    PROVE  /\ serviceCA' \in CAs \cup {"", Absent} /\ bundle' = bundle
           /\ callFaults' \in 0..MaxCallFaults /\ caFaults' \in 0..MaxCAFaults
           /\ edits' \in 0..MaxEdits /\ hostEdits' \in 0..MaxHostEdits
<1> USE DEF budgets, Return
<1>1. /\ edits \in 0..MaxEdits /\ hostEdits \in 0..MaxHostEdits
      /\ callFaults \in 0..MaxCallFaults /\ caFaults \in 0..MaxCAFaults
  BY DEF SyncerTypeOK
<1>2. serviceCA \in CAs \cup {"", Absent} /\ bundle \in CAs \cup {Absent}
  BY DEF SyncerTypeOK
<1>3. CASE Read(o)
  BY <1>1, <1>2, <1>3 DEF Read
<1>4. CASE Tenant(o)
  BY <1>1, <1>2, <1>4, TenantType
<1>5. CASE HostSide(o)
  BY <1>1, <1>2, <1>5, HostSideType
<1>6. CASE CallFails(o)
  <2>1. callFaults < MaxCallFaults /\ callFaults' = callFaults + 1
    BY <1>6 DEF CallFails, CallFault
  <2>2. callFaults' \in 0..MaxCallFaults
    BY <1>1, <2>1, BoundsAssumption
  <2>3. UNCHANGED <<serviceCA, bundle, edits, hostEdits, caFaults>>
    BY <1>6 DEF CallFails
  <2>4. QED
    BY <1>1, <1>2, <2>2, <2>3
<1>7. CASE ReadServiceCAFails(o) \/ ReadServiceCA(o)
  <2>1. UNCHANGED <<bundle, edits, hostEdits, callFaults>> /\ serviceCA' \in CAs \cup {"", Absent}
    BY <1>1, <1>2, <1>7 DEF ReadServiceCAFails, ReadServiceCA, Cache
  <2>2. caFaults' = caFaults \/ (caFaults < MaxCAFaults /\ caFaults' = caFaults + 1)
    BY <1>7 DEF ReadServiceCAFails, ReadServiceCA
  <2>3. caFaults' \in 0..MaxCAFaults
    BY <1>1, <2>2, BoundsAssumption
  <2>4. QED
    BY <1>1, <2>1, <2>3
<1>8. CASE SyncToHost(o) \/ ReplaceStaleCopy(o) \/ SyncToVirtual(o) \/ Sync(o) \/ Nothing(o)
  BY <1>1, <1>2, <1>8 DEF SyncToHost, DeleteVirtualObject, ReplaceStaleCopy, SyncToVirtual,
     DeleteHostObject, Sync, Nothing
<1>9. QED
  BY <1>3, <1>4, <1>5, <1>6, <1>7, <1>8 DEF ObjectStep, Handle

LEMMA SyncerStepType == SyncerTypeOK /\ SyncerStep => SyncerTypeOK'
<1> SUFFICES ASSUME SyncerTypeOK, SyncerStep PROVE SyncerTypeOK'
  OBVIOUS
<1>1. ASSUME NEW o \in Objects, ObjectStep(o)
      PROVE  SyncerTypeOK'
  <2>1. \A p \in Objects : ObjectType(p)'
    <3>1. ASSUME NEW p \in Objects \ {o}
          PROVE  ObjectType(p)'
      BY <1>1, ObjectFrame DEF SyncerTypeOK, ObjectType, Same
    <3>2. QED
      BY <1>1, <3>1, ObjectStepType
  <2>2. kind' \in KindChoices /\ bundle' \in CAs \cup {Absent}
    BY <1>1, ObjectFrame, ObjectStepBudgets DEF SyncerTypeOK
  <2>3. QED
    BY <1>1, <2>1, <2>2, ObjectFrame, ObjectStepFlags, ObjectStepBudgets
       DEF SyncerTypeOK, ObjectType
<1>2. ASSUME NEW ca \in CAs, Publish(ca)
      PROVE  SyncerTypeOK'
  BY <1>2 DEF Publish, SyncerTypeOK, objects, controller, budgets
<1>3. CASE NewContainer \/ NewPod
  <2>1. /\ DOMAIN virtual' = Objects
        /\ \A o \in Objects : virtual'[o] \in {virtual[o], Absent}
    BY <1>3 DEF NewContainer, NewPod, SyncerTypeOK
  <2>2. QED
    BY <1>3, <2>1 DEF NewContainer, NewPod, Forget, SyncerTypeOK, budgets
<1>4. CASE UNCHANGED syncerVars
  BY <1>4 DEF syncerVars, SyncerTypeOK, objects, controller, budgets
<1>5. QED
  BY <1>1, <1>2, <1>3, <1>4 DEF SyncerStep

-----------------------------------------------------------------------------
(* What a settled object has on the host.                                  *)

\* As long as the key is not queued, a handler works on what there is: every
\* change since the read has queued it (Options, syncer.go:78).
FreshAt(o) ==
    event[o] # Absent /\ ~pending[o] => event[o].virtual = virtual[o] /\ event[o].host = host[o]

\* The CA in the copies is the one the process has cached.
CachedCA(o) == UsesServiceCA(o) => host[o].fields.ca = serviceCA /\ serviceCA # Absent

SettledAt(o) ==
    /\ FreshAt(o)
    /\ Settled(o) => InPlace(o) /\ StatusReported(o)
    /\ CachedCA(o)

SettledInv == DoneInv /\ SyncerTypeOK /\ \A o \in Objects : SettledAt(o)

\* A copy that needs no patch of its fields is in place.
LEMMA UnpatchedInPlace ==
    ASSUME SyncerTypeOK, NEW o \in Objects, virtual[o] # Absent, host[o] # Absent,
           host[o].uid = virtual[o].uid,
           \A f \in FieldNames(kind[o]) :
               host[o].fields[f] = syncFields(o, host[o].fields, virtual[o].fields)[f]
    PROVE  /\ InPlace(o)
           /\ IsRoute(o) /\ needsServiceCA(virtual[o].fields) => host[o].fields.ca = serviceCA
<1> DEFINE k == kind[o]
           v == virtual[o].fields
           h == host[o].fields
<1>1. /\ kind \in KindChoices /\ v \in Contents[k] /\ IsCopy(k, o, host[o])
  BY DEF SyncerTypeOK, VirtualObject
<1>2. \A f \in FieldNames(k) : h[f] = syncFields(o, h, v)[f]
  OBVIOUS
<1>3. CASE k = "route"
  <2>1. RouteSpec(v) /\ syncFields(o, h, v) = routeCopy(v, Namespace[o], serviceCA)
    BY <1>1, <1>3, RouteContents DEF syncFields, routeCopy
  <2>2. {"backends", "tls", "ca"} = FieldNames("route")
    BY <2>1 DEF RouteSpec
  <2>3. /\ h.backends = routeCopy(v, Namespace[o], serviceCA).backends
        /\ h.tls = routeCopy(v, Namespace[o], serviceCA).tls
        /\ h.ca = routeCopy(v, Namespace[o], serviceCA).ca
    BY <1>2, <1>3, <2>1, <2>2
  <2> HIDE DEF h, v
  <2>4. h.backends = {[b EXCEPT !.name = HostName(@, Namespace[o])] : b \in v.backends}
    BY <2>1, <2>3, RouteFields
  <2>5. h.tls = v.tls
    BY <2>1, <2>3, RouteFields
  <2>6. h.ca = IF needsServiceCA(v) THEN serviceCA ELSE v.ca
    BY <2>1, <2>3, RouteFields
  <2>7. CopiedRight(o)
    BY <1>3, <2>4, <2>5, <2>6 DEF CopiedRight, IsRoute, h, v
  <2>8. QED
    BY <2>6, <2>7 DEF InPlace, h, v
<1>4. CASE k # "route"
  <2>1. DOMAIN h = FieldNames(k)
    BY <1>1 DEF IsCopy
  <2>2. DOMAIN v = FieldNames(k)
    <3>1. v = [f \in FieldNames(k) |-> v[f]]
      BY <1>1, ContentsAssumption
    <3>2. QED
      BY <3>1
  <2>3. syncFields(o, h, v) =
            [f \in FieldNames(k) |-> IF f \in copied(k) /\ v[f] # Absent THEN v[f] ELSE h[f]]
    BY <1>4, <2>1 DEF syncFields
  <2> HIDE DEF h, v
  <2>4. \A f \in copied(k) \cap DOMAIN v : v[f] # Absent => h[f] = v[f]
    BY <1>2, <2>2, <2>3
  <2>5. CopiedRight(o)
    BY <1>4, <2>4 DEF CopiedRight, IsRoute, h, v
  <2>6. QED
    BY <1>4, <2>5 DEF InPlace, IsRoute
<1>5. QED
  BY <1>3, <1>4

\* A patch that changes nothing.
LEMMA SyncInPlace ==
    ASSUME SyncerTypeOK, NEW o \in Objects, FreshAt(o), Sync(o), Settled(o)'
    PROVE  /\ virtual'[o] = virtual[o] /\ host'[o] = host[o]
           /\ InPlace(o) /\ StatusReported(o)
           /\ IsRoute(o) /\ needsServiceCA(virtual[o].fields) =>
                  host[o].fields.ca = serviceCA /\ serviceCA # Absent
<1> DEFINE k == kind[o]
<1>1. /\ CalledWithBoth(o) /\ SameObject(o) /\ ~AwaitsCA(o)
      /\ host' = [host EXCEPT ![o] = patchHost(o)]
      /\ virtual' = [virtual EXCEPT ![o] = patchVirtual(o)]
      /\ pending' = [pending EXCEPT ![o] = @ \/ (host' # host \/ virtual' # virtual
                                                 \/ host[o] = Absent \/ virtual[o] = Absent)]
  BY DEF Sync, Return
<1>2. /\ DOMAIN virtual = Objects /\ DOMAIN host = Objects /\ pending \in [Objects -> BOOLEAN]
      /\ ~pending'[o]
  BY DEF SyncerTypeOK, Settled
<1>3. ~pending[o] /\ host' = host /\ virtual' = virtual /\ host[o] # Absent /\ virtual[o] # Absent
  BY <1>1, <1>2
<1>4. patchHost(o) = host[o] /\ patchVirtual(o) = virtual[o]
  BY <1>1, <1>2, <1>3
<1>5. event[o].virtual = virtual[o] /\ event[o].host = host[o]
  BY <1>1, <1>3 DEF FreshAt, CalledWithBoth, Called
<1>6. IsCopy(k, o, host[o]) /\ virtual[o] \in VirtualObject(k)
  BY <1>3 DEF SyncerTypeOK
<1>7. \A f \in FieldNames(k) :
          host[o].fields[f] = syncFields(o, host[o].fields, virtual[o].fields)[f]
  <2> DEFINE wanted == syncFields(o, host[o].fields, virtual[o].fields)
  <2>1. host[o] = [host[o] EXCEPT !.fields = patched(host[o].fields, wanted, host[o].fields)]
    BY <1>3, <1>4, <1>5 DEF patchHost
  <2> HIDE DEF wanted
  <2>2. host[o].fields = patched(host[o].fields, wanted, host[o].fields)
    BY <1>6, <2>1 DEF IsCopy
  <2>3. DOMAIN host[o].fields = FieldNames(k)
    BY <1>6 DEF IsCopy
  <2>4. \A f \in FieldNames(k) : host[o].fields[f] = wanted[f]
    BY <2>2, <2>3 DEF patched
  <2>5. QED
    BY <2>4 DEF wanted
<1>8. host[o].uid = virtual[o].uid
  BY <1>1, <1>5 DEF SameObject
<1>9. StatusReported(o)
  <2> DEFINE status == syncStatus(o, host[o].status, virtual[o].status)
  <2>1. virtual[o].status = status
    <3>1. CASE status = virtual[o].status
      BY <3>1
    <3>2. CASE status # virtual[o].status
      <4>1. virtual[o] = [virtual[o] EXCEPT !.status = status]
        BY <1>3, <1>4, <1>5, <3>2 DEF patchVirtual
      <4> HIDE DEF status
      <4>2. QED
        BY <1>6, <4>1 DEF VirtualObject
    <3>3. QED
      BY <3>1, <3>2
  <2>2. k = "oauthclient" => host[o].status = Absent
    BY <1>6 DEF IsCopy, StatusesOf
  <2>3. QED
    BY <2>1, <2>2 DEF StatusReported, syncStatus, IsRoute
<1>10. IsRoute(o) /\ needsServiceCA(virtual[o].fields) => serviceCA # Absent
  BY <1>1, <1>5 DEF AwaitsCA, CopiesFields, IsRoute
<1>11. QED
  BY <1>3, <1>7, <1>8, <1>9, <1>10, UnpatchedInPlace

\* Where nothing of an object changes, what is settled stays so.
LEMMA SettledStays ==
    ASSUME NEW o \in Objects, SettledAt(o), Same(o), kind' = kind,
           serviceCA' = serviceCA \/ serviceCA = Absent
    PROVE  SettledAt(o)'
BY DEF Same, SettledAt, FreshAt, Settled, InPlace, StatusReported, CachedCA, UsesServiceCA,
   CopiedRight, IsRoute

\* What is queued, or is being handled as it is, is not settled.
LEMMA UnsettledIsSettledAt ==
    ASSUME NEW o \in Objects, pending'[o] \/ (event'[o] # Absent /\ FreshAt(o)')
    PROVE  SettledAt(o)'
BY DEF SettledAt, FreshAt, Settled, CachedCA, UsesServiceCA

\* Each handler settles its object, or leaves it queued.
LEMMA HandleSettles ==
    ASSUME SyncerTypeOK, NEW o \in Objects, SettledAt(o), Handle(o), ~ReadServiceCA(o)
    PROVE  SettledAt(o)'
<1> SUFFICES ASSUME ~pending'[o] PROVE SettledAt(o)'
  BY UnsettledIsSettledAt
<1>1. /\ DOMAIN virtual = Objects /\ DOMAIN host = Objects /\ DOMAIN event = Objects
      /\ pending \in [Objects -> BOOLEAN]
  BY DEF SyncerTypeOK
<1>2. /\ Called(o) /\ event'[o] = Absent /\ ~pending[o] /\ kind' = kind
      /\ serviceCA' = serviceCA
  BY <1>1 DEF Handle, SyncToHost, ReplaceStaleCopy, Sync, SyncToVirtual, Nothing,
     DeleteHostObject, DeleteVirtualObject, Return, CalledToHost, CalledToVirtual, CalledWithBoth
<1>3. event[o].virtual = virtual[o] /\ event[o].host = host[o]
  BY <1>2 DEF SettledAt, FreshAt, Called
<1>4. CASE Sync(o)
  <2>1. Settled(o)' /\ FreshAt(o)
    BY <1>2 DEF Settled, SettledAt
  <2>2. /\ virtual'[o] = virtual[o] /\ host'[o] = host[o]
        /\ InPlace(o) /\ StatusReported(o)
        /\ IsRoute(o) /\ needsServiceCA(virtual[o].fields) =>
               host[o].fields.ca = serviceCA /\ serviceCA # Absent
    BY <1>4, <2>1, SyncInPlace
  <2>3. InPlace(o)' /\ StatusReported(o)'
    BY <1>2, <2>2 DEF InPlace, CopiedRight, StatusReported, IsRoute
  <2>4. CachedCA(o)'
    BY <1>2, <2>2 DEF CachedCA, UsesServiceCA, IsRoute
  <2>5. QED
    BY <1>2, <2>3, <2>4 DEF SettledAt, FreshAt
<1>5. CASE SyncToHost(o)
  BY <1>1, <1>3, <1>5 DEF SyncToHost, DeleteVirtualObject, Return, CalledToHost
<1>6. CASE ReplaceStaleCopy(o) \/ SyncToVirtual(o)
  BY <1>1, <1>3, <1>6 DEF ReplaceStaleCopy, SyncToVirtual, DeleteHostObject, Return,
     CalledToVirtual, CalledWithBoth
<1>7. CASE Nothing(o)
  <2>1. virtual'[o] = Absent /\ host'[o] = Absent
    BY <1>3, <1>7 DEF Nothing, objects
  <2>2. QED
    BY <1>2, <2>1 DEF SettledAt, FreshAt, InPlace, StatusReported, CachedCA, UsesServiceCA
<1>8. QED
  BY <1>4, <1>5, <1>6, <1>7 DEF Handle

LEMMA ObjectSettles ==
    ASSUME SyncerTypeOK, NEW o \in Objects, SettledAt(o), ObjectStep(o)
    PROVE  SettledAt(o)'
<1>1. /\ DOMAIN virtual = Objects /\ DOMAIN host = Objects /\ DOMAIN event = Objects
      /\ pending \in [Objects -> BOOLEAN]
  BY DEF SyncerTypeOK
<1>2. CASE Read(o)
  <2>1. IsEvent(kind[o], o, event'[o]) \/ event'[o] = Absent
    BY <1>2, ObjectStepType, ObjectFrame DEF ObjectStep, ObjectType
  <2>2. event'[o] = [virtual |-> virtual[o], host |-> host[o], hostOld |-> remembered[o]]
    BY <1>1, <1>2 DEF Read
  <2>3. event'[o] # Absent
    <3>1. virtual[o] \in VirtualObject(kind[o]) \cup {Absent} /\ remembered[o] \in BOOLEAN
      BY DEF SyncerTypeOK
    <3>2. host[o] = Absent \/ IsCopy(kind[o], o, host[o])
      BY DEF SyncerTypeOK
    <3>3. IsEvent(kind[o], o, event'[o])
      BY <2>2, <3>1, <3>2 DEF IsEvent
    <3>4. QED
      BY <3>3, ObjectsExist
  <2>4. FreshAt(o)'
    BY <1>2, <2>2 DEF Read, FreshAt, objects
  <2>5. QED
    BY <2>3, <2>4, UnsettledIsSettledAt
<1>3. CASE Tenant(o) \/ HostSide(o)
  BY <1>1, <1>3, TenantType, HostSideType, UnsettledIsSettledAt
<1>4. CASE CallFails(o)
  BY <1>1, <1>4, UnsettledIsSettledAt DEF CallFails, Return
<1>5. CASE ReadServiceCAFails(o) \/ ReadServiceCA(o)
  <2>1. Same(o) /\ kind' = kind /\ serviceCA = Absent
    BY <1>5 DEF ReadServiceCAFails, ReadServiceCA, Cache, AwaitsCA, Same, objects, controller
  <2>2. QED
    BY <2>1, SettledStays
<1>6. CASE Handle(o) /\ ~ReadServiceCA(o)
  BY <1>6, HandleSettles
<1>7. QED
  BY <1>2, <1>3, <1>4, <1>5, <1>6 DEF ObjectStep

LEMMA SettledStep == SettledInv /\ [Next]_vars => SettledInv'
<1> SUFFICES ASSUME SettledInv, [Next]_vars PROVE SettledInv'
  OBVIOUS
<1>1. DoneInv' /\ SyncerStep
  BY DoneStep, ScriptSteps, SyncerSteps DEF SettledInv
<1>2. SyncerTypeOK'
  BY <1>1, SyncerStepType DEF SettledInv
<1>3. ASSUME NEW o \in Objects, ObjectStep(o), NEW p \in Objects
      PROVE  SettledAt(p)'
  <2>1. CASE p = o
    BY <1>3, <2>1, ObjectSettles DEF SettledInv
  <2>2. CASE p # o
    <3>1. Same(p) /\ kind' = kind
      BY <1>3, <2>2, ObjectFrame DEF SettledInv
    <3>2. serviceCA' = serviceCA \/ serviceCA = Absent
      <4>1. CASE ReadServiceCA(o) \/ ReadServiceCAFails(o)
        BY <4>1 DEF ReadServiceCA, ReadServiceCAFails, AwaitsCA
      <4>2. CASE Tenant(o) \/ HostSide(o)
        BY <1>3, <4>2, TenantType, HostSideType DEF SettledInv
      <4>3. CASE Read(o) \/ CallFails(o) \/ (Handle(o) /\ ~ReadServiceCA(o))
        BY <4>3 DEF Read, CallFails, Handle, SyncToHost, ReplaceStaleCopy, Sync, SyncToVirtual,
           Nothing, DeleteHostObject, DeleteVirtualObject, Return
      <4>4. QED
        BY <1>3, <4>1, <4>2, <4>3 DEF ObjectStep
    <3>3. QED
      BY <3>1, <3>2, SettledStays DEF SettledInv
  <2>3. QED
    BY <2>1, <2>2
<1>4. ASSUME NEW ca \in CAs, Publish(ca), NEW p \in Objects
      PROVE  SettledAt(p)'
  BY <1>4, SettledStays DEF Publish, Same, objects, controller, SettledInv
<1>5. CASE NewContainer \/ NewPod
  <2>1. ASSUME NEW p \in Objects
        PROVE  SettledAt(p)'
    <3>1. /\ event'[p] = Absent
          /\ pending'[p] = (virtual'[p] # Absent \/ host'[p] # Absent)
      BY <1>5 DEF NewContainer, NewPod, Forget
    <3>2. QED
      BY <3>1 DEF SettledAt, FreshAt, Settled, InPlace, StatusReported, CachedCA, UsesServiceCA
  <2>2. QED
    BY <1>1, <1>2, <2>1 DEF SettledInv
<1>6. ASSUME UNCHANGED syncerVars, NEW p \in Objects
      PROVE  SettledAt(p)'
  BY <1>6, SettledStays DEF syncerVars, Same, objects, controller, SettledInv
<1>7. QED
  BY <1>1, <1>2, <1>3, <1>4, <1>5, <1>6 DEF SettledInv, SyncerStep

LEMMA SyncerInitType == SyncerInit => SyncerTypeOK
<1> SUFFICES ASSUME SyncerInit PROVE SyncerTypeOK
  OBVIOUS
<1>1. /\ edits \in 0..MaxEdits /\ hostEdits \in 0..MaxHostEdits
      /\ callFaults \in 0..MaxCallFaults /\ caFaults \in 0..MaxCAFaults
  BY BoundsAssumption DEF SyncerInit
<1>2. QED
  BY <1>1 DEF SyncerInit, SyncerTypeOK

LEMMA DoneInitially == Init => DoneInv
BY StepsLength, ScriptInitType, ScriptTypes
   DEF Init, ScriptInit, DoneInv, FirstRun, HostInv, PastGuard, NothingInClusterOnHost,
       NotRun, GuardStep

LEMMA SettledInitially == Init => SettledInv
<1> SUFFICES ASSUME Init PROVE SettledInv
  OBVIOUS
<1>1. SyncerInit /\ DoneInv /\ SyncerTypeOK
  BY DoneInitially, SyncerInitType DEF Init
<1>2. ASSUME NEW o \in Objects
      PROVE  SettledAt(o)
  BY <1>1 DEF SyncerInit, SettledAt, FreshAt, InPlace, StatusReported, CachedCA, UsesServiceCA
<1>3. QED
  BY <1>1, <1>2 DEF SettledInv

\* An object of any kind has, once it is settled, its own copy with its fields,
\* translated once, and one that is gone has none: no event is lost between a
\* read and a write, no failed call is forgotten, no patch applied to what is
\* patched already (syncer.go:86-125, route.go:69).
THEOREM ObjectsSettleInPlace == Spec => []SettledInPlace
<1>1. SettledInv => SettledInPlace
  BY DEF SettledInv, SettledAt, SettledInPlace
<1>2. QED
  BY <1>1, SettledInitially, SettledStep, PTL DEF Spec

\* A settled object's status is the one its copy reports (route.go:64,
\* unstructured.go:24).
THEOREM StatusesSettle == Spec => []SettledStatusReported
<1>1. SettledInv => SettledStatusReported
  BY DEF SettledInv, SettledAt, SettledStatusReported
<1>2. QED
  BY <1>1, SettledInitially, SettledStep, PTL DEF Spec

\* All settled Routes that rely on the service CA have the same one on the
\* host, the one the process has cached (getServiceCA, route.go:27), for any
\* number of Routes, rotations and restarts.
THEOREM RoutesAgree == Spec => []RoutesShareCA
<1>1. SettledInv => RoutesShareCA
  BY DEF SettledInv, SettledAt, CachedCA, RoutesShareCA
<1>2. QED
  BY <1>1, SettledInitially, SettledStep, PTL DEF Spec

-----------------------------------------------------------------------------
(* What the controller remembers.                                          *)

\* While nothing was changed on the host, a copy that is remembered is there,
\* and was when the handler's event was read: the plugin forgets a copy in the
\* step in which it deletes it.
RememberedAt(o) ==
    /\ remembered[o] => host[o] # Absent
    /\ event[o] # Absent /\ event[o].hostOld => event[o].host # Absent

RememberedCopyExists == hostEdits = 0 => \A o \in Objects : RememberedAt(o)

MemoryInv == DoneInv /\ SyncerTypeOK /\ RememberedCopyExists

LEMMA HandleRemembers ==
    ASSUME SyncerTypeOK, NEW o \in Objects, RememberedAt(o), Handle(o), remembered'[o]
    PROVE  host'[o] # Absent
<1>1. /\ DOMAIN virtual = Objects /\ DOMAIN host = Objects
      /\ remembered \in [Objects -> BOOLEAN]
  BY DEF SyncerTypeOK
<1>2. CASE ReadServiceCA(o) \/ Nothing(o)
  BY <1>2 DEF ReadServiceCA, Cache, Nothing, objects, controller, RememberedAt
<1>3. CASE ReplaceStaleCopy(o) \/ SyncToVirtual(o)
  BY <1>1, <1>3 DEF ReplaceStaleCopy, SyncToVirtual, DeleteHostObject, Remember
<1>4. CASE SyncToHost(o)
  <2>1. ~event[o].hostOld
    BY <1>1, <1>4 DEF SyncToHost, DeleteVirtualObject, Remember
  <2> DEFINE v == event[o].virtual
  <2>2. PICK status \in {v.status, Absent} :
            host' = [host EXCEPT ![o] =
                [fields |-> syncFields(o, v.fields, v.fields), status |-> status, uid |-> v.uid]]
    BY <1>4, <2>1 DEF SyncToHost
  <2>3. host'[o] = [fields |-> syncFields(o, v.fields, v.fields), status |-> status,
                    uid |-> v.uid]
    BY <1>1, <2>2
  <2>4. CalledToHost(o) /\ ~AwaitsCA(o)
    BY <1>4, <2>1 DEF SyncToHost
  <2>5. IsCopy(kind[o], o, host'[o])
    BY <2>1, <2>3, <2>4, CreatedCopy
  <2>6. QED
    BY <2>5, ObjectsExist
<1>5. CASE Sync(o)
  <2>1. host'[o] = patchHost(o)
    BY <1>1, <1>5 DEF Sync
  <2>2. host[o] # Absent
    BY <1>1, <1>5 DEF Sync, Remember, RememberedAt
  <2>3. QED
    BY <1>5, <2>1, <2>2, PatchedCopy DEF Sync
<1>6. QED
  BY <1>2, <1>3, <1>4, <1>5 DEF Handle

LEMMA ObjectRemembers ==
    ASSUME SyncerTypeOK, NEW o \in Objects, RememberedAt(o), ObjectStep(o), hostEdits' = 0
    PROVE  RememberedAt(o)'
<1>1. /\ DOMAIN virtual = Objects /\ DOMAIN host = Objects /\ DOMAIN event = Objects
      /\ remembered \in [Objects -> BOOLEAN]
  BY DEF SyncerTypeOK
<1>2. CASE Read(o)
  <2>1. event'[o] = [virtual |-> virtual[o], host |-> host[o], hostOld |-> remembered[o]]
    BY <1>1, <1>2 DEF Read
  <2>2. QED
    BY <1>2, <2>1 DEF Read, objects, RememberedAt
<1>3. CASE Tenant(o)
  BY <1>3, TenantType DEF RememberedAt
<1>4. ~HostSide(o)
  <2>1. hostEdits \in 0..MaxHostEdits
    BY DEF SyncerTypeOK
  <2>2. QED
    BY <2>1, HostSideType
<1>5. CASE CallFails(o)
  <2>1. event'[o] = Absent /\ remembered' = remembered
    BY <1>1, <1>5 DEF CallFails, Return
  <2>2. host'[o] = Absent => host[o] = Absent
    <3>1. host'[o] = host[o] \/ (/\ CalledWithBoth(o) /\ SameObject(o) /\ ~AwaitsCA(o)
                                /\ host'[o] = patchHost(o))
      BY <1>1, <1>5 DEF CallFails, objects
    <3>2. QED
      BY <3>1, PatchedCopy
  <2>3. QED
    BY <2>1, <2>2 DEF RememberedAt
<1>6. CASE ReadServiceCAFails(o)
  BY <1>6 DEF ReadServiceCAFails, Cache, objects, controller, RememberedAt
<1>7. CASE Handle(o)
  <2>1. event'[o] = Absent \/ event'[o] = event[o]
    BY <1>7, HandleEffect
  <2>2. QED
    BY <1>7, <2>1, HandleRemembers DEF RememberedAt
<1>8. QED
  BY <1>2, <1>3, <1>4, <1>5, <1>6, <1>7 DEF ObjectStep

LEMMA HostEditsGrow ==
    ASSUME SyncerTypeOK, SyncerStep, hostEdits' = 0
    PROVE  hostEdits = 0
<1>1. hostEdits \in 0..MaxHostEdits
  BY DEF SyncerTypeOK
<1>2. ASSUME NEW o \in Objects, ObjectStep(o)
      PROVE  hostEdits' = hostEdits \/ hostEdits' = hostEdits + 1
  <2>1. CASE Read(o)
    BY <2>1 DEF Read, budgets
  <2>2. QED
    BY <1>2, <2>1, TenantType, HostSideType, HandleEffect DEF ObjectStep
<1>3. hostEdits' = hostEdits \/ hostEdits' = hostEdits + 1
  BY <1>2 DEF SyncerStep, Publish, NewContainer, NewPod, Forget, syncerVars, budgets
<1>4. QED
  BY <1>1, <1>3

LEMMA MemoryStep == MemoryInv /\ [Next]_vars => MemoryInv'
<1> SUFFICES ASSUME MemoryInv, [Next]_vars PROVE MemoryInv'
  OBVIOUS
<1>1. DoneInv' /\ SyncerStep
  BY DoneStep, ScriptSteps, SyncerSteps DEF MemoryInv
<1>2. SyncerTypeOK'
  BY <1>1, SyncerStepType DEF MemoryInv
<1>3. ASSUME hostEdits' = 0, NEW p \in Objects
      PROVE  RememberedAt(p)'
  <2>1. RememberedAt(p)
    BY <1>1, <1>3, HostEditsGrow DEF MemoryInv, RememberedCopyExists
  <2>2. ASSUME NEW o \in Objects, ObjectStep(o)
        PROVE  RememberedAt(p)'
    <3>1. CASE p = o
      BY <1>3, <2>1, <2>2, <3>1, ObjectRemembers DEF MemoryInv
    <3>2. CASE p # o
      BY <2>1, <2>2, <3>2, ObjectFrame DEF MemoryInv, Same, RememberedAt
    <3>3. QED
      BY <3>1, <3>2
  <2>3. CASE NewContainer \/ NewPod
    <3>1. event'[p] = Absent /\ remembered'[p] = FALSE
      BY <2>3 DEF NewContainer, NewPod, Forget
    <3>2. QED
      BY <3>1 DEF RememberedAt
  <2>4. CASE (\E ca \in CAs : Publish(ca)) \/ UNCHANGED syncerVars
    BY <2>1, <2>4 DEF Publish, syncerVars, objects, controller, RememberedAt
  <2>5. QED
    BY <1>1, <2>2, <2>3, <2>4 DEF SyncerStep
<1>4. QED
  BY <1>1, <1>2, <1>3 DEF MemoryInv, RememberedCopyExists

\* The plugin deletes a tenant's object only when its copy was deleted on the
\* host (SyncToHost with HostOld, syncer.go:87), never because it deleted the
\* copy itself, lost a patch, was started anew or lost the Routes with its pod.
THEOREM SyncerKeepsObjects == Spec => TenantKeepsObject
<1>1. Init => MemoryInv
  <2> SUFFICES ASSUME Init PROVE MemoryInv
    OBVIOUS
  <2>1. SyncerInit /\ DoneInv /\ SyncerTypeOK
    BY DoneInitially, SyncerInitType DEF Init
  <2>2. QED
    BY <2>1 DEF SyncerInit, MemoryInv, RememberedCopyExists, RememberedAt
<1>2. MemoryInv
      => [\A o \in Objects :
             virtual[o] # Absent /\ virtual'[o] = Absent /\ (Handle(o) \/ CallFails(o))
                 => hostEdits > 0]_syncerVars
  <2> SUFFICES ASSUME MemoryInv, NEW o \in Objects,
                      virtual[o] # Absent, virtual'[o] = Absent, Handle(o) \/ CallFails(o)
               PROVE  hostEdits > 0
    OBVIOUS
  <2>1. SyncerTypeOK /\ hostEdits \in 0..MaxHostEdits
    BY DEF MemoryInv, SyncerTypeOK
  <2>2. SyncToHost(o) /\ event[o].hostOld
    <3>1. DOMAIN virtual = Objects
      BY <2>1 DEF SyncerTypeOK
    <3>2. CalledWithBoth(o) => patchVirtual(o) # Absent
      BY <2>1, PatchedVirtual
    <3>3. ~ReadServiceCA(o) /\ ~Nothing(o) /\ ~ReplaceStaleCopy(o) /\ ~SyncToVirtual(o)
      BY DEF ReadServiceCA, Nothing, ReplaceStaleCopy, SyncToVirtual, DeleteHostObject, Cache,
         objects
    <3>4. ~Sync(o) /\ ~CallFails(o)
      BY <3>1, <3>2 DEF Sync, CallFails, objects
    <3>5. QED
      BY <3>3, <3>4 DEF Handle, SyncToHost
  <2>3. event[o] # Absent /\ event[o].host = Absent
    BY <2>2 DEF SyncToHost, CalledToHost, Called
  <2>4. hostEdits # 0
    BY <2>2, <2>3 DEF MemoryInv, RememberedCopyExists, RememberedAt
  <2>5. QED
    BY <2>1, <2>4
<1>3. QED
  BY <1>1, <1>2, MemoryStep, PTL DEF Spec, TenantKeepsObject
=============================================================================
