----------------------------- MODULE Deployment -----------------------------
(***************************************************************************)
(* A deployment of the vCluster with its plugin: the deployment script     *)
(* (DeployScript) creates and restarts the vCluster's pod and makes its    *)
(* APIs served one after the other; the plugin's process in that pod       *)
(* (PluginStart) starts its syncers as the APIs appear, and the syncers    *)
(* (ResourceSyncer) handle the tenants' objects.  Routes read the service  *)
(* CA once, and it is the order of the script's commands that decides      *)
(* whether it is there by then.                                            *)
(***************************************************************************)
EXTENDS DeployScript, PluginStart, ResourceSyncer

CONSTANTS
    Scenarios,      \* the pairs of objects' kinds and configured kinds to check
    HostCA,         \* the host's service CA at each run of the script
    MaxCrashes,     \* bound: restarts of the container or pod besides the script's
    MaxMishaps      \* bound: runs of the script, failures, crashes and changes made
                    \* on the host, all together

ASSUME DeploymentAssumption ==
    /\ HostCA \in [1..MaxDeploys -> CAs]
    /\ MaxCrashes \in Nat /\ MaxMishaps \in Nat

VARIABLE crashes

vars == <<scriptVars, startVars, syncerVars, crashes>>

-----------------------------------------------------------------------------
\* Mutant of served: the APIServices are applied with the other manifests.
servedWithManifests ==
    (IF "vcluster" \in done THEN Kinds \ {"route"} ELSE {}) \cup
    (IF {"sidecars", "service", "manifests"} \subseteq done THEN Kinds \cap {"route"} ELSE {})

\* The custom resources come with the vCluster's values (l.192); Routes are
\* served by the sidecar, through an in-cluster Service and its APIService.
served ==
    (IF "vcluster" \in done THEN Kinds \ {"route"} ELSE {}) \cup
    (IF {"sidecars", "service", "manifests", "apiServices"} \subseteq done
     THEN Kinds \cap {"route"} ELSE {})

Handled(o) == kind[o] \in runningControllers(served)

Init ==
    /\ ScriptInit /\ StartInit /\ SyncerInit
    /\ crashes = 0
    /\ <<kind, resources>> \in Scenarios

RestartPod == Launch /\ NewPod /\ UNCHANGED crashes

Untouched == UNCHANGED <<startVars, syncerVars, crashes>>

\* Creating or upgrading the vCluster and patching its workload start its pod
\* anew, but for an upgrade or a patch that changes nothing; the copied ConfigMap
\* is what the host has now.
ScriptSucceeds ==
    /\ Succeed
    /\ IF Target # Step.cluster THEN Untouched
       ELSE CASE Step.name \in {"vcluster", "sidecars"} ->
                    RestartPod \/ (Step.name \in done /\ Untouched)
              [] Step.name = "caBundle" -> /\ Publish(HostCA[deploys])
                                           /\ UNCHANGED <<startVars, crashes>>
              [] OTHER                  -> Untouched

\* The plugin's container stops, or its whole pod.
Crash ==
    /\ crashes < MaxCrashes
    /\ process # "down"
    /\ crashes' = crashes + 1
    /\ Launch
    /\ NewContainer \/ NewPod
    /\ UNCHANGED scriptVars

PluginStep ==
    /\ \/ StartAgain \/ StartSucceeds
       \/ \E k \in Kinds : MigrateSucceeds(k, served) \/ MigrateFails(k) \/ MigrateTimesOut(k)
    /\ UNCHANGED <<scriptVars, syncerVars, crashes>>

Work(o) ==
    /\ Handled(o)
    /\ Read(o) \/ Handle(o)
    /\ UNCHANGED <<scriptVars, startVars, crashes>>

TenantStep(o) ==
    /\ kind[o] \in served
    /\ Tenant(o)
    /\ UNCHANGED <<scriptVars, startVars, crashes>>

\* What happens outside the plugin's code, or fails in it.
Mishap ==
    \/ ScriptMishap /\ Untouched
    \/ StartFails /\ UNCHANGED <<scriptVars, syncerVars, crashes>>
    \/ Crash
    \/ /\ \E o \in Objects :
             \/ HostSide(o)
             \/ Handled(o) /\ (CallFails(o) \/ ReadServiceCAFails(o))
       /\ UNCHANGED <<scriptVars, startVars, crashes>>

mishaps ==
    deploys + faults + startFailures + hostEdits + callFaults + caFaults + crashes

Next ==
    \/ ScriptSucceeds
    \/ ScriptGoesOn /\ Untouched
    \/ PluginStep
    \/ \E o \in Objects : Work(o) \/ TenantStep(o)
    \/ mishaps < MaxMishaps /\ Mishap

Spec == Init /\ [][Next]_vars

\* The plugin's process and the controllers' workers always run.  Nothing is
\* owed by the script, which may be left standing, nor by tenants and faults.
FairSpec == Spec /\ WF_vars(PluginStep) /\ \A o \in Objects : WF_vars(Work(o))

-----------------------------------------------------------------------------
(* Properties.                                                             *)

TypeOK == ScriptTypeOK /\ StartTypeOK /\ SyncerTypeOK /\ crashes \in 0..MaxCrashes

\* Unless reading it failed, the service CA is in every settled copy of a
\* Route that relies on it: however often the script is run, ends early or is
\* run again, and whenever the pod restarts, no Route is handled before the
\* script has copied the CA (deploy.sh:434 before l.603), so that the one
\* reading of a process finds it.
ServiceCAInPlace ==
    caFaults = 0 => \A o \in Objects : UsesServiceCA(o) => host[o].fields.ca \in CAs

\* The plugin always comes to handle all its kinds whose APIs are served,
\* although another's may never be.
PluginComesUp ==
    <>[](process \in {"down", "failed"} \/ (process = "started" /\ migrated = resources))

\* An object of a configured kind, once its API is served, has in the end its
\* copy and its status for good.
Lasting(o) == virtual[o] # Absent /\ kind[o] \in resources
ObjectsConverge ==
    \A o \in Objects :
        <>[]Lasting(o) => <>[](virtual[o] # Absent => Settled(o) /\ host[o] # Absent /\ InPlace(o) /\ StatusReported(o))
=============================================================================
