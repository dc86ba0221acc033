-------------------------- MODULE Deployment_proofs --------------------------
(***************************************************************************)
(* Theorems about a deployment as a whole: what the order of the script's  *)
(* commands gives the plugin that they start.                              *)
(***************************************************************************)
EXTENDS ResourceSyncer_proofs

-----------------------------------------------------------------------------
(* Types.                                                                  *)

\* The plugin's start, numbers apart.
StartKinds ==
    /\ process \in {"down", "starting", "retrying", "started", "failed"}
    /\ resources \in Configurations
    /\ migrated \subseteq resources

StartNumbers ==
    /\ attempts \in [Kinds -> 0..MaxAttempts]
    /\ startFailures \in 0..MaxStartFailures

StartStep ==
    \/ Launch \/ StartFails \/ StartAgain \/ StartSucceeds
    \/ \E k \in Kinds : MigrateSucceeds(k, served) \/ MigrateFails(k) \/ MigrateTimesOut(k)
    \/ UNCHANGED startVars

LEMMA StartSteps ==
    ASSUME [Next]_vars
    PROVE  StartStep
<1> USE DEF StartStep, Untouched
<1>1. CASE ScriptSucceeds
  BY <1>1 DEF ScriptSucceeds, RestartPod
<1>2. CASE PluginStep
  BY <1>2 DEF PluginStep
<1>3. CASE Mishap
  BY <1>3 DEF Mishap, Crash
<1>4. CASE UNCHANGED vars
  BY <1>4 DEF vars
<1>5. QED
  BY <1>1, <1>2, <1>3, <1>4 DEF Next, Work, TenantStep

LEMMA StartStepKinds == StartKinds /\ StartStep => StartKinds'
BY DEF StartKinds, StartStep, Launch, StartFails, StartAgain, StartSucceeds, MigrateSucceeds,
   MigrateFails, MigrateTimesOut, Migrating, startVars

LEMMA StartStepNumbers == StartNumbers /\ StartStep => StartNumbers'
<1> SUFFICES ASSUME StartNumbers, StartStep PROVE StartNumbers'
  OBVIOUS
<1>1. MaxAttempts \in Nat /\ MaxStartFailures \in Nat
  BY StartAssumption
<1>2. CASE Launch
  BY <1>1, <1>2 DEF Launch, StartNumbers
<1>3. CASE StartFails
  BY <1>1, <1>3 DEF StartFails, StartNumbers
<1>4. ASSUME NEW k \in Kinds, MigrateFails(k)
      PROVE  StartNumbers'
  <2>1. /\ attempts[k] < MaxAttempts /\ attempts' = [attempts EXCEPT ![k] = attempts[k] + 1]
        /\ startFailures' = startFailures
    BY <1>4 DEF MigrateFails
  <2>2. attempts[k] + 1 \in 0..MaxAttempts
    BY <1>1, <2>1 DEF StartNumbers
  <2>3. QED
    BY <2>1, <2>2 DEF StartNumbers
<1>5. CASE UNCHANGED <<attempts, startFailures>>
  BY <1>5 DEF StartNumbers
<1>6. QED
  BY <1>2, <1>3, <1>4, <1>5
     DEF StartStep, StartAgain, StartSucceeds, MigrateSucceeds, MigrateTimesOut, startVars

LEMMA CrashesStep == crashes \in 0..MaxCrashes /\ [Next]_vars => crashes' \in 0..MaxCrashes
<1> SUFFICES ASSUME crashes \in 0..MaxCrashes, [Next]_vars PROVE crashes' \in 0..MaxCrashes
  OBVIOUS
<1>1. CASE Crash
  <2>1. crashes < MaxCrashes /\ crashes' = crashes + 1 /\ MaxCrashes \in Nat
    BY <1>1, DeploymentAssumption DEF Crash
  <2>2. QED
    BY <2>1
<1>2. CASE ~Crash
  BY <1>2 DEF Next, vars, ScriptSucceeds, RestartPod, Untouched, PluginStep, Work, TenantStep,
     Mishap
<1>3. QED
  BY <1>1, <1>2

DeploymentType ==
    ScriptFlags /\ StartKinds /\ StartNumbers /\ SettledInv /\ crashes \in 0..MaxCrashes

LEMMA StartTypes == StartTypeOK <=> StartKinds /\ StartNumbers
BY DEF StartTypeOK, StartKinds, StartNumbers

\* The type invariant of a deployment: in particular a Route's copy is made of
\* translated versions of the Route and of CAs that were published.
THEOREM DeploymentTypeCorrect == Spec => []TypeOK
<1>1. Init => DeploymentType
  <2> SUFFICES ASSUME Init PROVE DeploymentType
    OBVIOUS
  <2>1. ScriptFlags /\ SettledInv
    BY ScriptInitType, ScriptTypes, SettledInitially DEF Init
  <2>2. StartKinds
    BY DEF Init, StartInit, StartKinds
  <2>3. StartNumbers
    BY StartAssumption DEF Init, StartInit, StartNumbers
  <2>4. crashes \in 0..MaxCrashes
    BY DeploymentAssumption DEF Init
  <2>5. QED
    BY <2>1, <2>2, <2>3, <2>4 DEF DeploymentType
<1>2. DeploymentType /\ [Next]_vars => DeploymentType'
  BY ScriptSteps, ScriptStepFlags, StartSteps, StartStepKinds, StartStepNumbers, SettledStep,
     CrashesStep DEF DeploymentType, SettledInv, DoneInv, HostInv
<1>3. DeploymentType => TypeOK
  BY ScriptTypes, StartTypes DEF DeploymentType, SettledInv, DoneInv, HostInv, TypeOK
<1>4. QED
  BY <1>1, <1>2, <1>3, PTL DEF Spec

-----------------------------------------------------------------------------
(* The service CA is there before a Route is handled.                      *)

CopyCAStep == 35
LastStep == 42

LEMMA NamedSteps ==
    ASSUME NEW i \in 1..42
    PROVE  /\ Steps[i].name = "apiServices" => i = LastStep
           /\ i = CopyCAStep => /\ Steps[i].name = "caBundle" /\ Steps[i].how = "plain"
                                /\ Steps[i].cluster = "vcluster" /\ Steps[i].context = "current"
BY DEF Steps, Command, OnHost, Current, InCluster, CopyCAStep, LastStep

\* Past the copying of the CA, and once Routes are served, the vCluster has it.
BundleInPlace ==
    at \in CopyCAStep + 1 .. LastStep \/ "apiServices" \in done => bundle \in CAs

\* Unless a read failed, what the process has cached is a CA.
CachedFromBundle == caFaults = 0 => serviceCA \in CAs \cup {Absent}

CAInv == SettledInv /\ BundleInPlace /\ CachedFromBundle

LEMMA BundleKept ==
    ASSUME SettledInv, [Next]_vars
    PROVE  bundle' = bundle \/ bundle' \in CAs
<1>1. SyncerStep /\ SyncerTypeOK
  BY SyncerSteps DEF SettledInv
<1>2. QED
  BY <1>1, ObjectStepBudgets DEF SyncerStep, Publish, NewContainer, NewPod, Forget, syncerVars

LEMMA CopyPublishes ==
    ASSUME SettledInv, ScriptSucceeds, at = CopyCAStep
    PROVE  bundle' \in CAs
<1>1. /\ Step.name = "caBundle" /\ Step.cluster = "vcluster" /\ Step.context = "current"
  BY NamedSteps DEF Step, CopyCAStep
<1>2. context = "vcluster"
  BY StepsLength DEF SettledInv, DoneInv, HostInv, PastGuard, GuardStep, CopyCAStep
<1>3. Publish(HostCA[deploys])
  BY <1>1, <1>2 DEF ScriptSucceeds, Target
<1>4. QED
  BY <1>3, Published DEF SettledInv, Publish

LEMMA BundleStep ==
    ASSUME SettledInv, BundleInPlace, [Next]_vars
    PROVE  BundleInPlace'
<1>1. CASE ScriptSucceeds
  <2>1. /\ at \in 1..42 /\ at' = at + 1
        /\ done' = done \/ done' = done \cup ({Step.name} \cap ReliedOn)
    BY <1>1, StepsLength DEF ScriptSucceeds, Succeed, Running, GoOn
  <2>2. CASE at = CopyCAStep
    BY <1>1, <2>2, CopyPublishes DEF BundleInPlace
  <2>3. CASE at # CopyCAStep
    <3>1. at' \in CopyCAStep + 1 .. LastStep => at \in CopyCAStep + 1 .. LastStep
      BY <2>1, <2>3 DEF CopyCAStep, LastStep
    <3>2. "apiServices" \in done' => "apiServices" \in done \/ at = LastStep
      BY <2>1, NamedSteps DEF Step
    <3>3. at = LastStep => at \in CopyCAStep + 1 .. LastStep
      BY DEF CopyCAStep, LastStep
    <3>4. QED
      BY <3>1, <3>2, <3>3, BundleKept DEF BundleInPlace
  <2>4. QED
    BY <2>2, <2>3
<1>2. CASE ~ScriptSucceeds
  <2>1. ScriptGoesOn \/ ScriptMishap \/ UNCHANGED scriptVars
    BY <1>2 DEF Next, vars, PluginStep, Work, TenantStep, Mishap, Crash
  <2>2. done' = done
    BY <2>1 DEF ScriptGoesOn, ScriptMishap, SpentAttemptFails, Connect, ContextSwitches,
       WaitForContext, Guard, Deploy, AttemptFails, StaysDown, GoOnWithout, scriptVars
  <2>3. at' \in CopyCAStep + 1 .. LastStep => at \in CopyCAStep + 1 .. LastStep
    <3>1. at \in 0..44
      BY DEF SettledInv, DoneInv, HostInv, ScriptNumbers
    <3>2. Running => at \in 1..42 /\ Step = Steps[at]
      BY StepsLength DEF Running, Step
    <3>3. Aborted = 44
      BY StepsLength DEF Aborted
    <3> USE <3>1, <3>2, <3>3 DEF CopyCAStep, LastStep
    <3>4. CASE SpentAttemptFails \/ AttemptFails
      <4>1. TryAgain
        BY <3>4 DEF SpentAttemptFails, AttemptFails
      <4>2. QED
        BY <4>1 DEF TryAgain
    <3>5. CASE Connect \/ WaitForContext \/ Guard
      <4>1. at \in 1..42 /\ Steps[at].how \in {"connect", "wait", "guard"}
        BY <3>5 DEF Connect, WaitForContext, Guard
      <4>2. at < 22
        BY <4>1, SpecialSteps DEF GuardStep, ConnectStep
      <4>3. at' \in {at + 1, 44}
        BY <3>5 DEF Connect, WaitForContext, Guard, GoOn, Abort
      <4>4. QED
        BY <4>1, <4>2, <4>3
    <3>6. CASE GoOnWithout
      <4>1. at \in 1..42 /\ Steps[at].how # "plain" /\ at' = at + 1
        BY <3>6 DEF GoOnWithout, GoOn
      <4>2. at # CopyCAStep
        BY <4>1, NamedSteps
      <4>3. QED
        BY <4>1, <4>2
    <3>7. CASE Deploy \/ StaysDown
      BY <3>7 DEF Deploy, StaysDown, Abort
    <3>8. CASE ContextSwitches \/ UNCHANGED scriptVars
      BY <3>8 DEF ContextSwitches, scriptVars
    <3>9. QED
      BY <2>1, <3>4, <3>5, <3>6, <3>7, <3>8 DEF ScriptGoesOn, ScriptMishap
  <2>4. QED
    BY <2>2, <2>3, BundleKept DEF BundleInPlace
<1>3. QED
  BY <1>1, <1>2

\* A Route is handled only where its API is served.
LEMMA HandledRoute ==
    ASSUME BundleInPlace, NEW o \in Objects, Handled(o), kind[o] = "route"
    PROVE  bundle \in CAs
<1>1. "route" \in served
  BY DEF Handled, runningControllers
<1>2. "apiServices" \in done
  BY <1>1 DEF served
<1>3. QED
  BY <1>2 DEF BundleInPlace

LEMMA CAFaultsGrow ==
    ASSUME SettledInv, [Next]_vars, caFaults' = 0
    PROVE  caFaults = 0
<1>1. caFaults \in 0..MaxCAFaults /\ SyncerTypeOK /\ SyncerStep
  BY SyncerSteps DEF SettledInv, SyncerTypeOK
<1>2. ASSUME NEW o \in Objects, ObjectStep(o)
      PROVE  caFaults' = caFaults \/ caFaults' = caFaults + 1
  <2>1. CASE Tenant(o) \/ HostSide(o)
    BY <1>1, <2>1, TenantType, HostSideType
  <2>2. CASE ReadServiceCAFails(o) \/ ReadServiceCA(o)
    BY <2>2 DEF ReadServiceCAFails, ReadServiceCA
  <2>3. CASE Read(o) \/ CallFails(o) \/ (Handle(o) /\ ~ReadServiceCA(o))
    BY <2>3 DEF Read, CallFails, Handle, SyncToHost, ReplaceStaleCopy, Sync, SyncToVirtual,
       Nothing, DeleteHostObject, DeleteVirtualObject, Return, budgets
  <2>4. QED
    BY <1>2, <2>1, <2>2, <2>3 DEF ObjectStep
<1>3. caFaults' = caFaults \/ caFaults' = caFaults + 1
  BY <1>1, <1>2 DEF SyncerStep, Publish, NewContainer, NewPod, Forget, syncerVars, budgets
<1>4. QED
  BY <1>1, <1>3

LEMMA CachedStep ==
    ASSUME CAInv, [Next]_vars
    PROVE  CachedFromBundle'
<1> SUFFICES ASSUME caFaults' = 0 PROVE serviceCA' \in CAs \cup {Absent}
  BY DEF CachedFromBundle
<1>1. serviceCA \in CAs \cup {Absent}
  BY CAFaultsGrow DEF CAInv, CachedFromBundle
<1>2. caFaults \in 0..MaxCAFaults /\ SyncerTypeOK
  BY DEF CAInv, SettledInv, SyncerTypeOK
<1>3. ASSUME NEW o \in Objects, ReadServiceCA(o), Work(o)
      PROVE  serviceCA' \in CAs
  <2>1. bundle \in CAs
    BY <1>3, HandledRoute DEF Work, ReadServiceCA, AwaitsCA, CAInv
  <2>2. QED
    BY <1>3, <2>1, AbsentAssumption DEF ReadServiceCA, Cache
<1>4. ASSUME NEW o \in Objects, Work(o), ~ReadServiceCA(o)
      PROVE  serviceCA' = serviceCA
  BY <1>4 DEF Work, Read, Handle, SyncToHost, ReplaceStaleCopy, Sync, SyncToVirtual,
     Nothing, DeleteHostObject, DeleteVirtualObject, Return
<1>5. ASSUME NEW o \in Objects, TenantStep(o)
      PROVE  serviceCA' = serviceCA
  BY <1>2, <1>5, TenantType DEF TenantStep
<1>6. ASSUME NEW o \in Objects, HostSide(o) \/ CallFails(o)
      PROVE  serviceCA' = serviceCA
  BY <1>2, <1>6, HostSideType DEF CallFails, Return
<1>7. ASSUME NEW o \in Objects, ReadServiceCAFails(o)
      PROVE  FALSE
  <2>1. caFaults' = caFaults + 1
    BY <1>7 DEF ReadServiceCAFails
  <2>2. QED
    BY <1>2, <2>1
<1>8. CASE Mishap
  <2>1. serviceCA' = serviceCA \/ serviceCA' = Absent
    BY <1>6, <1>7, <1>8 DEF Mishap, Crash, NewContainer, NewPod, Forget, Untouched, syncerVars
  <2>2. QED
    BY <1>1, <2>1
<1>9. CASE ScriptSucceeds \/ (ScriptGoesOn /\ Untouched) \/ PluginStep \/ UNCHANGED vars
  <2>1. serviceCA' = serviceCA \/ serviceCA' = Absent
    BY <1>9 DEF ScriptSucceeds, RestartPod, NewPod, Forget, Publish, Untouched, PluginStep,
       vars, syncerVars
  <2>2. QED
    BY <1>1, <2>1
<1>10. QED
  BY <1>1, <1>3, <1>4, <1>5, <1>8, <1>9 DEF Next

\* Unless reading it failed, every settled copy of a Route that relies on the
\* service CA has one: whatever is run again, ends early or restarts, no Route
\* is handled before the script has copied the CA (deploy.sh:434, l.603).
THEOREM ServiceCAIsThere == Spec => []ServiceCAInPlace
<1>1. Init => CAInv
  <2> SUFFICES ASSUME Init PROVE CAInv
    OBVIOUS
  <2>1. at = 0 /\ done = {} /\ serviceCA = Absent
    BY DEF Init, ScriptInit, SyncerInit, NotRun
  <2>2. QED
    BY <2>1, SettledInitially DEF CAInv, BundleInPlace, CachedFromBundle, CopyCAStep, LastStep
<1>2. CAInv /\ [Next]_vars => CAInv'
  BY SettledStep, BundleStep, CachedStep DEF CAInv
<1>3. CAInv => ServiceCAInPlace
  BY DEF CAInv, CachedFromBundle, SettledInv, SettledAt, CachedCA, ServiceCAInPlace
<1>4. QED
  BY <1>1, <1>2, <1>3, PTL DEF Spec
=============================================================================
