-------------------------- MODULE SCCSyncer_proofs --------------------------
(***************************************************************************)
(* Theorems about the SCC syncer, for every set of fields, SCCs and        *)
(* ceilings and every bound.                                               *)
(***************************************************************************)
EXTENDS SCCSyncer, TLAPS

\* A copy of a tenant's SCC on top of an earlier copy, field by field: the
\* fields are the tenant's (syncFields, scc.go:61).
Mixed(scc) ==
    /\ scc = [field \in Fields |-> scc[field]]
    /\ \A field \in Fields : \E s \in SCCs : scc[field] = s[field]

LEMMA SyncedFields ==
    ASSUME NEW old, Mixed(old), NEW new \in SCCs
    PROVE  Mixed(syncFields(old, new))
BY DEF Mixed, syncFields

\* Within is a condition on each field: nothing a copy takes from SCCs within
\* the ceiling makes it exceed it (ValidateSCCAgainstCeiling, scc_ceiling.go:15).
LEMMA WithinByField ==
    ASSUME NEW scc, NEW c
    PROVE  Within(scc, c) <=> \A field \in Fields : ~exceeds(field, scc[field], c[field])
BY DEF Within, ValidateSCCAgainstCeiling

LEMMA SyncedWithin ==
    ASSUME NEW old, NEW new, NEW c, Within(old, c), Within(new, c)
    PROVE  Within(syncFields(old, new), c)
BY WithinByField DEF syncFields

-----------------------------------------------------------------------------
\* The event of a handler, typed.
EventType ==
    event # None =>
        /\ event.virtual \in VirtualObject \cup {None}
        /\ event.host = None \/ IsCopy(event.host)
        /\ event.virtualOld \in BOOLEAN /\ event.hostOld \in BOOLEAN

LEMMA SyncerInitType == Init => TypeOK
BY ObjectsAssumption, BoundsAssumption
   DEF Init, TypeOK, VirtualObject, Forgotten

\* The copy that Sync's patch leaves is typed.
LEMMA PatchedCopy ==
    ASSUME TypeOK, event # None, event.virtual # None, event.host # None, host # None,
           host' = [host EXCEPT !.scc = [field \in Fields |->
                       IF syncFields(event.host.scc, event.virtual.scc)[field]
                              # event.host.scc[field]
                       THEN syncFields(event.host.scc, event.virtual.scc)[field]
                       ELSE host.scc[field]]]
    PROVE  IsCopy(host')
<1>1. IsCopy(host) /\ IsCopy(event.host) /\ event.virtual.scc \in SCCs
  BY DEF TypeOK, VirtualObject
<1>2. Mixed(syncFields(event.host.scc, event.virtual.scc))
  <2>1. Mixed(event.host.scc)
    BY <1>1 DEF IsCopy, Mixed
  <2>2. QED
    BY <1>1, <2>1, SyncedFields
<1>3. host' = [scc |-> host'.scc, uid |-> host'.uid] /\ host'.uid = host.uid
  BY <1>1 DEF IsCopy
<1>4. Mixed(host'.scc)
  BY <1>1, <1>2 DEF IsCopy, Mixed
<1>5. QED
  BY <1>1, <1>3, <1>4 DEF IsCopy, Mixed

LEMMA SyncerStepType == TypeOK /\ [Next]_vars => TypeOK'
<1> SUFFICES ASSUME TypeOK, [Next]_vars PROVE TypeOK'
  OBVIOUS
<1> USE ObjectsAssumption, BoundsAssumption
<1>1. CASE UNCHANGED vars
  BY <1>1 DEF vars, budgets, TypeOK, IsCopy
<1>2. CASE Tenant
  <2>1. CASE TenantDeletes
    BY <2>1 DEF TenantDeletes, TypeOK, IsCopy
  <2>2. ASSUME NEW scc \in SCCs, TenantPuts(scc)
        PROVE  TypeOK'
    <3>1. edits + 1 \in 0..MaxEdits
      BY <2>2 DEF TenantPuts, TypeOK
    <3>2. virtual' \in VirtualObject
      BY <2>2, <3>1 DEF TenantPuts, TypeOK, VirtualObject
    <3>3. QED
      BY <2>2, <3>1, <3>2 DEF TenantPuts, TypeOK, IsCopy
  <2>3. QED
    BY <1>2, <2>1, <2>2 DEF Tenant
<1>3. CASE AdminDeletes
  BY <1>3 DEF AdminDeletes, TypeOK, IsCopy
<1>4. CASE Read
  BY <1>4 DEF Read, TypeOK, IsCopy, budgets
<1>5. CASE CallFails
  BY <1>5 DEF CallFails, TypeOK, IsCopy
<1>6. CASE Restart
  BY <1>6 DEF Restart, TypeOK, IsCopy, Forgotten
<1>7. CASE Handle
  <2>1. event' = None /\ pending' \in BOOLEAN /\ UNCHANGED <<ceiling, budgets>>
    BY <1>7 DEF Handle, SyncToHost, ReplaceStaleCopy, Sync, SyncToVirtual, Nothing,
       DeleteHostObject, DeleteVirtualObject, Return, TypeOK
  <2>2. remembered' \in [virtual : BOOLEAN, host : BOOLEAN]
    <3>1. remembered' \in {remembered, Remembered, Forgotten}
      BY <1>7 DEF Handle, SyncToHost, ReplaceStaleCopy, Sync, SyncToVirtual, Nothing,
         DeleteHostObject, DeleteVirtualObject
    <3>2. {Remembered, Forgotten} \subseteq [virtual : BOOLEAN, host : BOOLEAN]
      BY DEF Remembered, Forgotten
    <3>3. remembered \in [virtual : BOOLEAN, host : BOOLEAN]
      BY DEF TypeOK
    <3>4. QED
      BY <3>1, <3>2, <3>3
  <2>3. virtual' = virtual \/ virtual' = None
    BY <1>7 DEF Handle, SyncToHost, ReplaceStaleCopy, Sync, SyncToVirtual, Nothing,
       DeleteHostObject, DeleteVirtualObject
  <2>4. host' = None \/ IsCopy(host')
    <3>1. CASE host' = host \/ host' = None
      BY <3>1 DEF TypeOK
    <3>2. CASE SyncToHost /\ host' = [scc |-> syncFields(event.virtual.scc, event.virtual.scc),
                                      uid |-> event.virtual.uid]
      <4>1. event.virtual \in VirtualObject
        BY <3>2 DEF SyncToHost, TypeOK
      <4>2. Mixed(event.virtual.scc)
        BY <4>1 DEF VirtualObject, Mixed
      <4>3. Mixed(syncFields(event.virtual.scc, event.virtual.scc))
        BY <4>1, <4>2, SyncedFields DEF VirtualObject
      <4>4. QED
        BY <3>2, <4>1, <4>3 DEF IsCopy, Mixed, VirtualObject
    <3>3. CASE Sync /\ host' # host /\ host' # None
      BY <3>3, PatchedCopy DEF Sync, DeleteHostObject
    <3>4. QED
      BY <1>7, <3>1, <3>2, <3>3 DEF Handle, SyncToHost, ReplaceStaleCopy, SyncToVirtual, Nothing,
         DeleteHostObject, DeleteVirtualObject
  <2>5. QED
    BY <2>1, <2>2, <2>3, <2>4 DEF TypeOK, budgets
<1>8. QED
  BY <1>1, <1>2, <1>3, <1>4, <1>5, <1>6, <1>7 DEF Next

\* The type invariant of the syncer: in particular a host copy is made of
\* fields of the tenant's SCCs only.
THEOREM SyncerTypeCorrect == Spec => []TypeOK
BY SyncerInitType, SyncerStepType, PTL DEF Spec

-----------------------------------------------------------------------------
\* The copy a handler was called with was within the ceiling too, however
\* long ago it was read.
ReadWithinCeiling ==
    restarts = 0 /\ event # None =>
        (event.host # None => Within(event.host.scc, ceiling))

CeilingInv == TypeOK /\ HostWithinCeiling /\ ReadWithinCeiling

\* A patch writes fields that pass, over fields that passed.
LEMMA PatchedWithin ==
    ASSUME NEW old, NEW read, NEW new, NEW c, Within(old, c), Within(read, c), Within(new, c)
    PROVE  Within([field \in Fields |->
                     IF syncFields(read, new)[field] # read[field]
                     THEN syncFields(read, new)[field] ELSE old[field]], c)
BY WithinByField, SyncedWithin

\* Each handler leaves the copy within the ceiling.
LEMMA HandleWithinCeiling ==
    ASSUME CeilingInv, Handle, restarts = 0, host' # None
    PROVE  Within(host'.scc, ceiling)
<1>1. CASE host' = host
  BY <1>1 DEF CeilingInv, HostWithinCeiling
<1>2. CASE SyncToHost /\ host' # host
  <2>1. ~Exceeding /\ host'.scc = syncFields(event.virtual.scc, event.virtual.scc)
    <3>1. ~Exceeding
      BY <1>2 DEF SyncToHost
    <3>2. host' = [scc |-> syncFields(event.virtual.scc, event.virtual.scc),
                   uid |-> event.virtual.uid]
      BY <1>2 DEF SyncToHost, DeleteVirtualObject
    <3>3. QED
      BY <3>1, <3>2
  <2>2. Within(event.virtual.scc, ceiling)
    BY <2>1 DEF Exceeding
  <2>3. Within(syncFields(event.virtual.scc, event.virtual.scc), ceiling)
    BY <2>2, SyncedWithin
  <2>4. QED
    BY <2>1, <2>3
<1>3. CASE Sync /\ host' # host
  <2>1. /\ ~Exceeding /\ event.host # None /\ host # None /\ event # None
        /\ host' = [host EXCEPT !.scc = [field \in Fields |->
                       IF syncFields(event.host.scc, event.virtual.scc)[field]
                              # event.host.scc[field]
                       THEN syncFields(event.host.scc, event.virtual.scc)[field]
                       ELSE host.scc[field]]]
    BY <1>3 DEF Sync, DeleteHostObject
  <2>2. "scc" \in DOMAIN host
    BY <2>1 DEF CeilingInv, TypeOK, IsCopy
  <2>3. Within(host.scc, ceiling) /\ Within(event.host.scc, ceiling)
    BY <2>1 DEF CeilingInv, HostWithinCeiling, ReadWithinCeiling
  <2>4. QED
    BY <2>1, <2>2, <2>3, PatchedWithin DEF Exceeding
<1>4. QED
  BY <1>1, <1>2, <1>3 DEF Handle, ReplaceStaleCopy, SyncToVirtual, Nothing, DeleteHostObject

\* No interleaving of the tenant's writes with the handlers' reads and writes
\* gives a host copy that exceeds the ceiling (ceilingSyncInterceptor,
\* scc.go:98-128), although Sync mixes fields of several versions.
THEOREM SyncerCeilingHolds == Spec => []HostWithinCeiling
<1>1. Init => CeilingInv
  BY SyncerInitType DEF Init, CeilingInv, HostWithinCeiling, ReadWithinCeiling
<1>2. CeilingInv /\ [Next]_vars => CeilingInv'
  <2> SUFFICES ASSUME CeilingInv, [Next]_vars PROVE HostWithinCeiling' /\ ReadWithinCeiling'
    BY SyncerStepType DEF CeilingInv
  <2>1. CASE UNCHANGED vars
    BY <2>1 DEF vars, budgets, CeilingInv, HostWithinCeiling, ReadWithinCeiling
  <2>2. CASE Tenant
    BY <2>2 DEF Tenant, TenantPuts, TenantDeletes, CeilingInv, HostWithinCeiling,
       ReadWithinCeiling
  <2>3. CASE AdminDeletes
    BY <2>3 DEF AdminDeletes, CeilingInv, HostWithinCeiling, ReadWithinCeiling
  <2>4. CASE Read
    BY <2>4 DEF Read, budgets, CeilingInv, HostWithinCeiling, ReadWithinCeiling
  <2>5. CASE CallFails
    BY <2>5 DEF CallFails, CeilingInv, HostWithinCeiling, ReadWithinCeiling
  <2>6. CASE Restart
    <3>1. restarts' # 0
      BY <2>6, BoundsAssumption DEF Restart, CeilingInv, TypeOK
    <3>2. QED
      BY <3>1 DEF HostWithinCeiling, ReadWithinCeiling
  <2>7. CASE Handle
    <3>1. event' = None /\ UNCHANGED <<ceiling, restarts>>
      BY <2>7 DEF Handle, SyncToHost, ReplaceStaleCopy, Sync, SyncToVirtual, Nothing,
         DeleteHostObject, DeleteVirtualObject, Return, budgets
    <3>2. QED
      BY <2>7, <3>1, HandleWithinCeiling DEF HostWithinCeiling, ReadWithinCeiling
  <2>8. QED
    BY <2>1, <2>2, <2>3, <2>4, <2>5, <2>6, <2>7 DEF Next
<1>3. CeilingInv => HostWithinCeiling
  BY DEF CeilingInv
<1>4. QED
  BY <1>1, <1>2, <1>3, PTL DEF Spec

-----------------------------------------------------------------------------
(* What a settled SCC has on the host.                                     *)

\* A copy is not None, nor is what a handler is called with.
LEMMA CopyIsAnObject ==
    ASSUME NEW obj, IsCopy(obj)
    PROVE  obj \in Copies /\ obj # None
<1>1. obj.scc \in {[field \in Fields |-> version[field][field]] : version \in [Fields -> SCCs]}
  <2> DEFINE version == [field \in Fields |-> CHOOSE scc \in SCCs : obj.scc[field] = scc[field]]
  <2>1. version \in [Fields -> SCCs]
    BY DEF IsCopy
  <2>2. \A field \in Fields : obj.scc[field] = version[field][field]
    BY DEF IsCopy
  <2>3. obj.scc = [field \in Fields |-> version[field][field]]
    BY <2>2 DEF IsCopy
  <2>4. QED
    BY <2>1, <2>3
<1>2. obj \in Copies
  BY <1>1 DEF Copies, IsCopy
<1>3. QED
  BY <1>2, NoneAssumption

\* As long as nothing is queued, a handler works on what there is: every
\* change since the read has queued the key (Options, syncer.go:78).
Fresh ==
    event # None /\ ~pending => event.virtual = virtual /\ event.host = host

SettledInv == TypeOK /\ Fresh /\ NoCopyWithoutLicence /\ CopyOfWhatIsAllowed

LEMMA ReadIsFresh ==
    ASSUME TypeOK, Read
    PROVE  event' # None /\ Fresh'
<1>1. event' \in Events
  <2>1. host = None \/ host \in Copies
    BY CopyIsAnObject DEF TypeOK
  <2>2. QED
    BY <2>1 DEF Read, TypeOK, Events
<1>2. event' # None
  BY <1>1, NoneAssumption
<1>3. QED
  BY <1>2 DEF Read, Fresh

\* A handler that leaves nothing queued leaves what its SCC is allowed.
LEMMA HandleSettles ==
    ASSUME SettledInv, Handle
    PROVE  event' = None /\ NoCopyWithoutLicence' /\ CopyOfWhatIsAllowed'
<1>1. event' = None /\ ceiling' = ceiling /\ (pending => pending') /\ event # None
  BY DEF Handle, SyncToHost, ReplaceStaleCopy, Sync, SyncToVirtual, Nothing,
     DeleteHostObject, DeleteVirtualObject, Return, SettledInv, TypeOK
<1> SUFFICES ASSUME ~pending'
             PROVE  NoCopyWithoutLicence' /\ CopyOfWhatIsAllowed'
  BY <1>1 DEF NoCopyWithoutLicence, CopyOfWhatIsAllowed, Settled
<1>2. event.virtual = virtual /\ event.host = host
  BY <1>1 DEF SettledInv, Fresh
<1>3. CASE SyncToHost
  <2>1. Exceeding /\ host = None /\ UNCHANGED <<virtual, host>>
    BY <1>2, <1>3 DEF SyncToHost, DeleteVirtualObject, Return
  <2>2. QED
    BY <1>1, <1>2, <2>1 DEF Exceeding, NoCopyWithoutLicence, CopyOfWhatIsAllowed
<1>4. CASE ReplaceStaleCopy
  BY <1>4 DEF ReplaceStaleCopy, DeleteHostObject, Return
<1>5. CASE Sync
  <2>1. CASE Exceeding /\ DeleteHostObject(FALSE)
    BY <1>1, <1>2, <2>1 DEF DeleteHostObject, Return, Exceeding, NoCopyWithoutLicence,
       CopyOfWhatIsAllowed
  <2>2. CASE ~Exceeding /\ host # None
    <3> DEFINE wanted == syncFields(host.scc, virtual.scc)
    <3>1. /\ host' = host /\ virtual' = virtual
          /\ virtual # None /\ virtual.uid = host.uid /\ Within(virtual.scc, ceiling)
      BY <1>2, <1>5, <2>2 DEF Sync, DeleteHostObject, Return, Exceeding
    <3>2. host' = [host EXCEPT !.scc = [field \in Fields |->
                      IF wanted[field] # host.scc[field] THEN wanted[field] ELSE host.scc[field]]]
      BY <1>2, <1>5, <2>2 DEF Sync
    <3>3. \A field \in Fields : host.scc[field] = wanted[field]
      <4>1. "scc" \in DOMAIN host
        BY <2>2 DEF SettledInv, TypeOK, IsCopy
      <4>2. host.scc = [field \in Fields |->
                      IF wanted[field] # host.scc[field] THEN wanted[field] ELSE host.scc[field]]
        BY <3>1, <3>2, <4>1
      <4>3. QED
        BY <4>2
    <3>4. \A field \in Fields \cap sccSpecFields :
              virtual.scc[field] # Absent => host.scc[field] = virtual.scc[field]
      BY <3>3 DEF syncFields
    <3>5. QED
      BY <1>1, <3>1, <3>4, <2>2 DEF NoCopyWithoutLicence, CopyOfWhatIsAllowed
  <2>3. QED
    BY <1>5, <2>1, <2>2 DEF Sync, Return
<1>6. CASE SyncToVirtual
  BY <1>2, <1>6 DEF SyncToVirtual, DeleteHostObject, NoCopyWithoutLicence, CopyOfWhatIsAllowed
<1>7. CASE Nothing
  BY <1>2, <1>7 DEF Nothing, NoCopyWithoutLicence, CopyOfWhatIsAllowed
<1>8. QED
  BY <1>3, <1>4, <1>5, <1>6, <1>7 DEF Handle

LEMMA SettledStep == SettledInv /\ [Next]_vars => SettledInv'
<1> SUFFICES ASSUME SettledInv, [Next]_vars
             PROVE  Fresh' /\ NoCopyWithoutLicence' /\ CopyOfWhatIsAllowed'
  BY SyncerStepType DEF SettledInv
<1> USE DEF SettledInv, Fresh, NoCopyWithoutLicence, CopyOfWhatIsAllowed, Settled
<1>1. CASE UNCHANGED vars
  BY <1>1 DEF vars
<1>2. CASE Tenant
  BY <1>2 DEF Tenant, TenantPuts, TenantDeletes
<1>3. CASE AdminDeletes
  BY <1>3 DEF AdminDeletes
<1>4. CASE Read
  BY <1>4, ReadIsFresh
<1>5. CASE CallFails
  BY <1>5 DEF CallFails
<1>6. CASE Restart
  BY <1>6 DEF Restart
<1>7. CASE Handle
  BY <1>7, HandleSettles
<1>8. QED
  BY <1>1, <1>2, <1>3, <1>4, <1>5, <1>6, <1>7 DEF Next

LEMMA SettledInitially == Init => SettledInv
BY SyncerInitType DEF Init, SettledInv, Fresh, NoCopyWithoutLicence, CopyOfWhatIsAllowed, Settled

\* An SCC that exceeds the ceiling, or that is gone, keeps no copy once the
\* queue is empty, whatever restarts with whatever ceilings, failures and edits
\* came before (ceilingSyncInterceptor, scc.go:98-124, SyncToVirtual,
\* syncer.go:119).
THEOREM SyncerRevokesCopies == Spec => []NoCopyWithoutLicence
<1>1. SettledInv => NoCopyWithoutLicence
  BY DEF SettledInv
<1>2. QED
  BY <1>1, SettledInitially, SettledStep, PTL DEF Spec

\* An SCC within the ceiling has its own copy, with its own fields, once the
\* queue is empty: no event is lost between a read and a write, and no failed
\* call is forgotten (syncer.go:86-117).
THEOREM SyncerMakesCopies == Spec => []CopyOfWhatIsAllowed
<1>1. SettledInv => CopyOfWhatIsAllowed
  BY DEF SettledInv
<1>2. QED
  BY <1>1, SettledInitially, SettledStep, PTL DEF Spec

-----------------------------------------------------------------------------
(* What the controller remembers.                                          *)

\* Unless the administrator deleted a copy, a copy that is remembered is
\* there, and so it was when the handler's event was read: the plugin forgets a
\* copy in the step in which it deletes it (DeleteHostObject, scc.go:121).
RememberedCopyExists ==
    adminDeletes = 0 =>
        /\ remembered.host => host # None
        /\ event # None /\ event.hostOld => event.host # None

MemoryInv == TypeOK /\ RememberedCopyExists

LEMMA HandleRemembers ==
    ASSUME MemoryInv, Handle, adminDeletes = 0
    PROVE  remembered'.host => host' # None
<1> SUFFICES ASSUME remembered'.host PROVE host' # None
  OBVIOUS
<1>1. remembered' # Forgotten
  BY DEF Forgotten
<1>3. CASE UNCHANGED <<host, remembered>>
  BY <1>3 DEF MemoryInv, RememberedCopyExists
<1>4. CASE SyncToHost /\ ~UNCHANGED <<host, remembered>>
  <2>1. host' = [scc |-> syncFields(event.virtual.scc, event.virtual.scc),
                 uid |-> event.virtual.uid]
    BY <1>1, <1>4 DEF SyncToHost, DeleteVirtualObject
  <2>2. event.virtual \in VirtualObject
    BY <1>4 DEF SyncToHost, MemoryInv, TypeOK
  <2>3. Mixed(event.virtual.scc)
    BY <2>2, ObjectsAssumption DEF VirtualObject, Mixed
  <2>4. Mixed(syncFields(event.virtual.scc, event.virtual.scc))
    BY <2>2, <2>3, SyncedFields DEF VirtualObject
  <2>5. IsCopy(host')
    BY <2>1, <2>2, <2>4 DEF IsCopy, Mixed, VirtualObject
  <2>6. QED
    BY <2>5, CopyIsAnObject
<1>5. CASE Sync /\ ~UNCHANGED <<host, remembered>>
  <2>1. IsCopy(host')
    BY <1>1, <1>5, PatchedCopy DEF Sync, DeleteHostObject, MemoryInv
  <2>2. QED
    BY <2>1, CopyIsAnObject
<1>6. QED
  BY <1>1, <1>3, <1>4, <1>5
     DEF Handle, ReplaceStaleCopy, SyncToVirtual, Nothing, DeleteHostObject

LEMMA MemoryStep == MemoryInv /\ [Next]_vars => MemoryInv'
<1> SUFFICES ASSUME MemoryInv, [Next]_vars PROVE RememberedCopyExists'
  BY SyncerStepType DEF MemoryInv
<1> USE DEF MemoryInv, RememberedCopyExists
<1>1. CASE UNCHANGED vars
  BY <1>1 DEF vars, budgets
<1>2. CASE Tenant
  BY <1>2 DEF Tenant, TenantPuts, TenantDeletes
<1>3. CASE AdminDeletes
  <2>1. adminDeletes' # 0
    BY <1>3, BoundsAssumption DEF AdminDeletes, TypeOK
  <2>2. QED
    BY <2>1
<1>4. CASE Read
  BY <1>4 DEF Read, budgets
<1>5. CASE CallFails
  BY <1>5 DEF CallFails
<1>6. CASE Restart
  BY <1>6 DEF Restart, Forgotten
<1>7. CASE Handle
  <2>1. event' = None /\ adminDeletes' = adminDeletes
    BY <1>7 DEF Handle, SyncToHost, ReplaceStaleCopy, Sync, SyncToVirtual, Nothing,
       DeleteHostObject, DeleteVirtualObject, Return, budgets
  <2>2. QED
    BY <1>7, <2>1, HandleRemembers
<1>8. QED
  BY <1>1, <1>2, <1>3, <1>4, <1>5, <1>6, <1>7 DEF Next

\* The plugin never deletes a tenant's SCC unless the host's administrator
\* deleted its copy: that a copy was taken away for the ceiling, or replaced, is
\* never mistaken for it (SyncToHost with HostOld, syncer.go:87).
THEOREM SyncerKeepsSCC == Spec => TenantKeepsSCC
<1>1. Init => MemoryInv
  BY SyncerInitType DEF Init, MemoryInv, RememberedCopyExists, Forgotten
<1>2. MemoryInv /\ [Next]_vars
      => [virtual # None /\ virtual' = None /\ edits' = edits => adminDeletes > 0]_vars
  <2> SUFFICES ASSUME MemoryInv, Next, virtual # None, virtual' = None, edits' = edits
               PROVE  adminDeletes > 0
    BY DEF vars
  <2>1. SyncToHost /\ event.hostOld
    <3>1. ~Tenant
      BY BoundsAssumption DEF Tenant, TenantPuts, TenantDeletes, MemoryInv, TypeOK
    <3>2. QED
      BY <3>1 DEF Next, AdminDeletes, Read, CallFails, Restart, Handle, SyncToHost,
         ReplaceStaleCopy, Sync, SyncToVirtual, Nothing, DeleteHostObject
  <2>2. adminDeletes # 0
    BY <2>1 DEF SyncToHost, MemoryInv, RememberedCopyExists
  <2>3. QED
    BY <2>2, BoundsAssumption DEF MemoryInv, TypeOK
<1>3. QED
  BY <1>1, <1>2, MemoryStep, PTL DEF Spec, TenantKeepsSCC
=============================================================================
