----------------------------- MODULE SCCSyncer -----------------------------
(***************************************************************************)
(* The SCC syncer (syncers/scc.go over pkg/syncer.go): it keeps on the     *)
(* host a copy, named vc-<vcluster>-<name>, of a tenant's SCC, as long as  *)
(* the SCC is within the ceiling of the plugin's configuration.  SCCs of   *)
(* different names share nothing, so the module follows one.               *)
(*                                                                         *)
(* vCluster's sync controller reads both objects, calls the handler that   *)
(* fits (SyncToHost, Sync, SyncToVirtual) with what it read and with       *)
(* whether it remembers an earlier host or virtual object (HostOld,        *)
(* VirtualOld); tenant and host administrator may act between the read and *)
(* the handler's write.                                                    *)
(***************************************************************************)
EXTENDS SCCCeiling

CONSTANTS
    SCCs,           \* the contents a tenant may give the SCC
    Ceilings,       \* the ceilings the plugin may be configured with
    MaxEdits,       \* bound: tenants' edits
    MaxAdminDeletes,\* bound: deletions of the host copy by the host's administrator
    MaxFaults,      \* bound: API calls that fail
    MaxRestarts,    \* bound: restarts of the plugin, with another ceiling or not
    None            \* absent

ASSUME ObjectsAssumption ==
    /\ \A scc \in SCCs : scc = [field \in Fields |-> scc[field]]
    /\ \A c \in Ceilings : DOMAIN c = Fields

ASSUME BoundsAssumption ==
    /\ MaxEdits \in Nat
    /\ MaxAdminDeletes \in Nat
    /\ MaxFaults \in Nat
    /\ MaxRestarts \in Nat

\* The tenant's SCC, its copies, which may mix the fields of several of the
\* tenant's versions, and what a handler may be called with; None is none of them.
VirtualObject == [scc : SCCs, uid : 0..MaxEdits]
Copies == [scc : {[field \in Fields |-> version[field][field]] : version \in [Fields -> SCCs]},
           uid : 0..MaxEdits]
Events == [virtual : VirtualObject \cup {None}, host : Copies \cup {None},
           virtualOld : BOOLEAN, hostOld : BOOLEAN]

ASSUME NoneAssumption == None \notin VirtualObject \cup Copies \cup Events

\* The fields that syncFields copies.
sccSpecFields ==
    {"allowPrivilegedContainer", "allowedCapabilities", "defaultAddCapabilities",
     "requiredDropCapabilities", "volumes", "allowHostNetwork", "allowHostPorts",
     "allowHostPID", "allowHostIPC", "runAsUser", "seLinuxContext", "fsGroup",
     "supplementalGroups", "priority", "readOnlyRootFilesystem", "users", "groups",
     "seccompProfiles", "allowedUnsafeSysctls", "forbiddenSysctls",
     "defaultAllowPrivilegeEscalation", "allowPrivilegeEscalation", "allowedFlexVolumes"}

VARIABLES
    virtual,    \* the tenant's SCC: None or [scc, uid]
    host,       \* its host copy: None or [scc, uid], uid the virtual SCC's it was made for
    remembered, \* [virtual, host]: the controller's object cache has such an object
    pending,    \* the SCC's key is in the work queue
    event,      \* what a handler was called with, None between handlers
    ceiling,    \* the configured ceiling
    edits, adminDeletes, faults, restarts   \* used budgets

budgets == <<edits, adminDeletes, faults, restarts>>
vars == <<virtual, host, remembered, pending, event, ceiling, budgets>>

Forgotten  == [virtual |-> FALSE, host |-> FALSE]
Remembered == [virtual |-> TRUE, host |-> TRUE]

Init ==
    /\ virtual \in {None} \cup [scc : SCCs, uid : {0}]
    /\ host = None
    /\ remembered = Forgotten
    /\ pending = (virtual # None)
    /\ event = None
    /\ ceiling \in Ceilings
    /\ edits = 0 /\ adminDeletes = 0 /\ faults = 0 /\ restarts = 0

-----------------------------------------------------------------------------
(* The tenant and the host's administrator.  Every change is an event.      *)

\* A new object has a new uid, an update keeps it.
TenantPuts(scc) ==
    /\ edits < MaxEdits
    /\ edits' = edits + 1
    /\ virtual' = [scc |-> scc, uid |-> IF virtual = None THEN edits + 1 ELSE virtual.uid]
    /\ virtual' # virtual
    /\ pending' = TRUE
    /\ UNCHANGED <<host, remembered, event, ceiling, adminDeletes, faults, restarts>>

TenantDeletes ==
    /\ edits < MaxEdits
    /\ virtual # None
    /\ edits' = edits + 1
    /\ virtual' = None
    /\ pending' = TRUE
    /\ UNCHANGED <<host, remembered, event, ceiling, adminDeletes, faults, restarts>>

AdminDeletes ==
    /\ adminDeletes < MaxAdminDeletes
    /\ host # None
    /\ adminDeletes' = adminDeletes + 1
    /\ host' = None
    /\ pending' = TRUE
    /\ UNCHANGED <<virtual, remembered, event, ceiling, edits, faults, restarts>>

-----------------------------------------------------------------------------
(* The sync controller.                                                    *)

Read ==
    /\ event = None
    /\ pending
    /\ event' = [virtual |-> virtual, host |-> host,
                 virtualOld |-> remembered.virtual, hostOld |-> remembered.host]
    /\ pending' = FALSE
    /\ UNCHANGED <<virtual, host, remembered, ceiling, budgets>>

\* A handler ends; again says whether the key is queued once more.
Return(again) ==
    /\ event' = None
    /\ pending' = (pending \/ again)
    /\ UNCHANGED <<ceiling, budgets>>

\* Mutant of DeleteHostObject: the deleted objects stay in the cache.
DeleteHostObjectRemembers(again) ==
    /\ host' = None
    /\ Return(again \/ host # None)
    /\ UNCHANGED <<virtual, remembered>>

\* Deletes what has the object's name now, and forgets both objects.
DeleteHostObject(again) ==
    /\ host' = None
    /\ remembered' = Forgotten
    /\ Return(again \/ host # None)
    /\ UNCHANGED virtual

DeleteVirtualObject ==
    /\ virtual' = None
    /\ remembered' = Forgotten
    /\ Return(virtual # None)
    /\ UNCHANGED host

Exceeding == ~Within(event.virtual.scc, ceiling)

\* Mutant of syncFields: the copy is built from the copied fields alone.
syncFieldsAlone(hostSCC, virtualSCC) ==
    [field \in Fields \cap sccSpecFields |->
        IF virtualSCC[field] # Absent THEN virtualSCC[field] ELSE hostSCC[field]]

\* The host copy after the fields of sccSpecFields that the virtual SCC has
\* are copied: a field it does not have stays.
syncFields(hostSCC, virtualSCC) ==
    [field \in Fields |->
        IF field \in sccSpecFields /\ virtualSCC[field] # Absent
        THEN virtualSCC[field] ELSE hostSCC[field]]

\* The ceiling's interceptor, then the generic syncer: HostMetadata copies
\* the whole object, so that syncFields changes nothing more.
SyncToHost ==
    /\ event # None
    /\ event.virtual # None
    /\ event.host = None
    /\ \/ /\ Exceeding
          /\ Return(FALSE)
          /\ UNCHANGED <<virtual, host, remembered>>
       \/ /\ ~Exceeding
          /\ event.hostOld
          /\ DeleteVirtualObject
       \/ /\ ~Exceeding
          /\ ~event.hostOld
          /\ host' = [scc |-> syncFields(event.virtual.scc, event.virtual.scc),
                      uid |-> event.virtual.uid]
          /\ remembered' = Remembered
          /\ Return(TRUE)
          /\ UNCHANGED virtual

\* A copy made for an earlier virtual SCC of this name is deleted before any
\* handler is called.
ReplaceStaleCopy ==
    /\ event # None
    /\ event.virtual # None
    /\ event.host # None
    /\ event.virtual.uid # event.host.uid
    /\ DeleteHostObject(TRUE)

\* Mutant of Sync: only the creation of a copy is held to the ceiling.
SyncUnchecked ==
    /\ event # None
    /\ event.virtual # None
    /\ event.host # None
    /\ event.virtual.uid = event.host.uid
    /\ host # None
    /\ host' = [host EXCEPT !.scc = syncFields(host.scc, event.virtual.scc)]
    /\ remembered' = Remembered
    /\ Return(host' # host)
    /\ UNCHANGED virtual

\* The patch holds the fields that differ from the copy as it was read; it
\* fails when the copy is gone by then.
Sync ==
    /\ event # None
    /\ event.virtual # None
    /\ event.host # None
    /\ event.virtual.uid = event.host.uid
    /\ \/ /\ Exceeding
          /\ DeleteHostObject(FALSE)
       \/ /\ ~Exceeding
          /\ host # None
          /\ LET wanted == syncFields(event.host.scc, event.virtual.scc) IN
             host' = [host EXCEPT !.scc = [field \in Fields |->
                         IF wanted[field] # event.host.scc[field]
                         THEN wanted[field] ELSE host.scc[field]]]
          /\ remembered' = Remembered
          /\ Return(host' # host)
          /\ UNCHANGED virtual
       \/ /\ ~Exceeding
          /\ host = None
          /\ Return(TRUE)
          /\ UNCHANGED <<virtual, host, remembered>>

\* Mutant of SyncToVirtual: only the copy of a remembered SCC is deleted.
SyncToVirtualOfRemembered ==
    /\ event # None
    /\ event.virtual = None
    /\ event.host # None
    /\ IF event.virtualOld THEN DeleteHostObject(FALSE)
       ELSE Return(FALSE) /\ UNCHANGED <<virtual, host, remembered>>

\* The copy is the plugin's own, so that it is deleted whether or not the
\* controller remembers the virtual SCC.
SyncToVirtual ==
    /\ event # None
    /\ event.virtual = None
    /\ event.host # None
    /\ DeleteHostObject(FALSE)

Nothing ==
    /\ event # None
    /\ event.virtual = None
    /\ event.host = None
    /\ Return(FALSE)
    /\ UNCHANGED <<virtual, host, remembered>>

\* Mutant of CallFails: the key is not queued again.
CallFailsForgets ==
    /\ event # None
    /\ ~(event.virtual = None /\ event.host = None)
    /\ event.host = None => ~Exceeding
    /\ faults < MaxFaults
    /\ faults' = faults + 1
    /\ event' = None
    /\ UNCHANGED <<virtual, host, remembered, pending, ceiling, edits, adminDeletes, restarts>>

\* The API call of the handler fails; its key is queued again.
CallFails ==
    /\ event # None
    /\ ~(event.virtual = None /\ event.host = None)
    /\ event.host = None => ~Exceeding      \* a blocked SyncToHost makes no call
    /\ faults < MaxFaults
    /\ faults' = faults + 1
    /\ event' = None
    /\ pending' = TRUE
    /\ UNCHANGED <<virtual, host, remembered, ceiling, edits, adminDeletes, restarts>>

\* Mutant of Restart: what exists is not listed.
RestartUnlisted ==
    /\ restarts < MaxRestarts
    /\ restarts' = restarts + 1
    /\ ceiling' \in Ceilings
    /\ event' = None
    /\ remembered' = Forgotten
    /\ pending' = FALSE
    /\ UNCHANGED <<virtual, host, edits, adminDeletes, faults>>

\* The plugin starts again, with the configured ceiling: its memory and its
\* queue are lost, every object that exists is an event.
Restart ==
    /\ restarts < MaxRestarts
    /\ restarts' = restarts + 1
    /\ ceiling' \in Ceilings
    /\ event' = None
    /\ remembered' = Forgotten
    /\ pending' = (virtual # None \/ host # None)
    /\ UNCHANGED <<virtual, host, edits, adminDeletes, faults>>

Tenant == TenantDeletes \/ \E scc \in SCCs : TenantPuts(scc)

Handle == SyncToHost \/ ReplaceStaleCopy \/ Sync \/ SyncToVirtual \/ Nothing

Next == Tenant \/ AdminDeletes \/ Read \/ Handle \/ CallFails \/ Restart

Spec == Init /\ [][Next]_vars

\* The controller's goroutine always runs.
FairSpec == Spec /\ WF_vars(Read) /\ WF_vars(Handle)

-----------------------------------------------------------------------------
(* Properties.                                                             *)

\* obj is one of Copies.
IsCopy(obj) ==
    /\ obj = [scc |-> obj.scc, uid |-> obj.uid]
    /\ DOMAIN obj.scc = Fields
    /\ obj.scc = [field \in Fields |-> obj.scc[field]]
    /\ \A field \in Fields : \E scc \in SCCs : obj.scc[field] = scc[field]
    /\ obj.uid \in 0..MaxEdits

\* Every variable has its type.
TypeOK ==
    /\ virtual \in VirtualObject \cup {None}
    /\ host = None \/ IsCopy(host)
    /\ remembered \in [virtual : BOOLEAN, host : BOOLEAN]
    /\ pending \in BOOLEAN
    /\ event # None =>
        /\ event.virtual \in VirtualObject \cup {None}
        /\ event.host = None \/ IsCopy(event.host)
        /\ event.virtualOld \in BOOLEAN /\ event.hostOld \in BOOLEAN
    /\ ceiling \in Ceilings
    /\ edits \in 0..MaxEdits /\ adminDeletes \in 0..MaxAdminDeletes
    /\ faults \in 0..MaxFaults /\ restarts \in 0..MaxRestarts

Settled == ~pending /\ event = None

\* Whatever the tenant writes while a handler runs, and although a copy may
\* hold fields of several of the tenant's versions, no copy exceeds the
\* ceiling the plugin was started with.
HostWithinCeiling ==
    restarts = 0 /\ host # None => Within(host.scc, ceiling)

\* A settled SCC that exceeds the ceiling, be it a new ceiling, has no copy;
\* nor has one that is gone, be it gone while the plugin was down.
NoCopyWithoutLicence ==
    Settled /\ host # None => virtual # None /\ Within(virtual.scc, ceiling)

\* A settled SCC within the ceiling has a copy, made for it and not for an
\* earlier SCC of its name, with every field that syncFields copies.
CopyOfWhatIsAllowed ==
    Settled /\ virtual # None /\ Within(virtual.scc, ceiling) =>
        /\ host # None
        /\ host.uid = virtual.uid
        /\ \A field \in Fields \cap sccSpecFields :
               virtual.scc[field] # Absent => host.scc[field] = virtual.scc[field]

\* The plugin deletes a tenant's SCC only when the host's administrator
\* deleted its copy: that the ceiling took the copy away never counts.
TenantKeepsSCC ==
    [][virtual # None /\ virtual' = None /\ edits' = edits => adminDeletes > 0]_vars

\* An SCC that stays within the ceiling has, in the end, its copy for good.
Allowed == IF virtual = None THEN FALSE ELSE Within(virtual.scc, ceiling)
Copied  == IF virtual = None \/ host = None THEN FALSE ELSE Settled /\ host.uid = virtual.uid
CopyConverges == <>[]Allowed => <>[]Copied

\* A settled copy has the fields of the SCC and no others
\* (plugins/resource-syncer/README.md:22).
CopyIsFaithful ==
    Settled /\ virtual # None /\ host # None => host.scc = virtual.scc
=============================================================================
