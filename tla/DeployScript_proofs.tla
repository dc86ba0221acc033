------------------------- MODULE DeployScript_proofs -------------------------
(***************************************************************************)
(* Theorems about the deployment script, for every number of runs of it    *)
(* and of failing commands, whatever state the pod and its plugin are in.  *)
(***************************************************************************)
EXTENDS Deployment, TLAPS

\* The step that starts the connect (l.317) and the one that compares the
\* context (l.331).
ConnectStep == 19
GuardStep == 21

-----------------------------------------------------------------------------
(* What the table of the script's steps says of each of them.              *)

LEMMA StepsLength == Len(Steps) = 42
BY DEF Steps, Command, OnHost, Current, InCluster

LEMMA StepTypes ==
    ASSUME NEW i \in 1..42
    PROVE  /\ Steps[i].cluster \in {"host", "vcluster"}
           /\ Steps[i].context \in {"host", "current"}
           /\ Steps[i].how \in CommandHows \cup {"connect", "wait", "guard"}
BY DEF Steps, Command, OnHost, Current, InCluster, CommandHows, Mandatory

\* Commands meant for the vCluster come after the comparison, those for the
\* host that name no context before the connect.
LEMMA CommandPlaces ==
    ASSUME NEW i \in 1..42, Steps[i].how \in CommandHows
    PROVE  /\ Steps[i].cluster = "vcluster" => i > GuardStep /\ Steps[i].context = "current"
           /\ Steps[i].cluster = "host" => Steps[i].context = "host" \/ i < ConnectStep
BY DEF Steps, Command, OnHost, Current, InCluster, CommandHows, Mandatory, GuardStep, ConnectStep

LEMMA SpecialSteps ==
    ASSUME NEW i \in 1..42
    PROVE  /\ Steps[i].how = "connect" <=> i = ConnectStep
           /\ Steps[i].how = "guard" <=> i = GuardStep
           /\ Steps[i].how = "wait" => i > ConnectStep /\ i < GuardStep
BY DEF Steps, Command, OnHost, Current, InCluster, GuardStep, ConnectStep

-----------------------------------------------------------------------------
\* Of a deployment's step, the script's part.
ScriptStep == Succeed \/ ScriptGoesOn \/ ScriptMishap \/ UNCHANGED scriptVars

LEMMA ScriptSteps ==
    ASSUME [Next]_vars
    PROVE  ScriptStep
BY DEF Next, vars, ScriptSucceeds, PluginStep, Work, TenantStep, Mishap, Crash, ScriptStep

\* The types, numbers and flags apart.
ScriptNumbers ==
    /\ at \in 0..44
    /\ attempt \in 1..3
    /\ spent => at \in 1..42 /\ Steps[at].how = "piped"
    /\ context \in {"host", "vcluster"}
    /\ done \subseteq ReliedOn
    /\ deploys \in 0..MaxDeploys /\ faults \in 0..MaxFaults

ScriptFlags ==
    /\ spent \in BOOLEAN /\ connecting \in BOOLEAN
    /\ missed \in BOOLEAN /\ overwrote \in BOOLEAN

LEMMA ScriptTypes == ScriptTypeOK <=> ScriptNumbers /\ ScriptFlags
<1>1. Running <=> at \in 1..42
  BY StepsLength DEF Running
<1>2. NotRun..Aborted = 0..44
  BY StepsLength DEF NotRun, Aborted
<1>3. QED
  BY <1>1, <1>2, Zenon DEF ScriptTypeOK, ScriptNumbers, ScriptFlags

LEMMA ScriptInitType == ScriptInit => ScriptTypeOK
<1>1. ScriptInit => ScriptNumbers
  BY ScriptBoundsAssumption DEF ScriptInit, ScriptNumbers, NotRun
<1>2. ScriptInit => ScriptFlags
  BY Zenon DEF ScriptInit, ScriptFlags
<1>3. QED
  BY <1>1, <1>2, ScriptTypes

LEMMA ScriptStepNumbers ==
    ASSUME ScriptNumbers, ScriptStep
    PROVE  ScriptNumbers'
<1> USE StepsLength, ScriptBoundsAssumption DEF ScriptNumbers, Running, Aborted
<1>1. CASE Succeed
  BY <1>1 DEF Succeed, GoOn
<1>2. CASE SpentAttemptFails
  <2>1. spent' => attempt < 3
    BY <1>2, Zenon DEF SpentAttemptFails
  <2>2. spent /\ TryAgain /\ UNCHANGED <<context, done, deploys, faults>>
    BY <1>2 DEF SpentAttemptFails
  <2>3. QED
    BY <2>1, <2>2 DEF TryAgain
<1>3. CASE Connect \/ WaitForContext
  BY <1>3 DEF Connect, WaitForContext, GoOn
<1>4. CASE ContextSwitches
  BY <1>4 DEF ContextSwitches
<1>5. CASE Guard
  BY <1>5 DEF Guard, GoOn, Abort
<1>6. CASE Deploy
  BY <1>6 DEF Deploy
<1>7. CASE AttemptFails
  <2>1. spent' => Step.how = "piped" /\ attempt < 3
    BY <1>7, Zenon DEF AttemptFails
  <2>2. Running /\ TryAgain /\ Fault /\ UNCHANGED <<context, done, deploys>>
    BY <1>7 DEF AttemptFails
  <2>3. QED
    BY <2>1, <2>2 DEF TryAgain, Fault, Step
<1>8. CASE StaysDown
  BY <1>8 DEF StaysDown, Abort, Fault
<1>9. CASE GoOnWithout
  BY <1>9 DEF GoOnWithout, GoOn, Fault
<1>10. CASE UNCHANGED scriptVars
  BY <1>10 DEF scriptVars
<1>11. QED
  BY <1>1, <1>2, <1>3, <1>4, <1>5, <1>6, <1>7, <1>8, <1>9, <1>10
     DEF ScriptStep, ScriptGoesOn, ScriptMishap

LEMMA ScriptStepFlags ==
    ASSUME ScriptNumbers, ScriptFlags, ScriptStep
    PROVE  ScriptFlags'
<1> USE DEF ScriptFlags, GoOn, Abort
<1>1. CASE Succeed
  BY <1>1, Zenon DEF Succeed
<1>2. CASE SpentAttemptFails \/ AttemptFails
  <2>1. UNCHANGED <<connecting, missed, overwrote>>
    BY <1>2 DEF SpentAttemptFails, AttemptFails
  <2>2. spent' \in BOOLEAN
    <3>1. CASE SpentAttemptFails
      <4>1. (attempt < 3) \in BOOLEAN
        BY DEF ScriptNumbers
      <4>2. QED
        BY <3>1, <4>1, Zenon DEF SpentAttemptFails
    <3>2. CASE AttemptFails
      <4>1. (Step.how = "piped" /\ attempt < 3) \in BOOLEAN
        BY Zenon
      <4>2. QED
        BY <3>2, <4>1, Zenon DEF AttemptFails
    <3>3. QED
      BY <1>2, <3>1, <3>2
  <2>3. QED
    BY <2>1, <2>2, Zenon
<1>3. CASE Connect \/ WaitForContext
  BY <1>3, Zenon DEF Connect, WaitForContext
<1>4. CASE ContextSwitches
  BY <1>4, Zenon DEF ContextSwitches
<1>5. CASE Guard
  BY <1>5, Zenon DEF Guard
<1>6. CASE Deploy
  BY <1>6, Zenon DEF Deploy
<1>7. CASE StaysDown \/ GoOnWithout
  BY <1>7, Zenon DEF StaysDown, GoOnWithout
<1>8. CASE UNCHANGED scriptVars
  BY <1>8, Zenon DEF scriptVars
<1>9. QED
  BY <1>1, <1>2, <1>3, <1>4, <1>5, <1>6, <1>7, <1>8
     DEF ScriptStep, ScriptGoesOn, ScriptMishap

LEMMA ScriptStepType == ScriptTypeOK /\ ScriptStep => ScriptTypeOK'
<1>1. ScriptTypeOK' <=> ScriptNumbers' /\ ScriptFlags'
  BY ScriptTypes, PTL
<1>2. QED
  BY <1>1, ScriptTypes, ScriptStepNumbers, ScriptStepFlags

-----------------------------------------------------------------------------
\* Past the comparison the current context is the vCluster's, and no connect,
\* of this run or of an earlier one, moves it elsewhere.
PastGuard == at \in GuardStep + 1 .. Len(Steps) => context = "vcluster"

HostInv == ScriptNumbers /\ PastGuard /\ NothingInClusterOnHost

LEMMA HostStep == HostInv /\ ScriptStep => HostInv'
<1> SUFFICES ASSUME HostInv, ScriptStep PROVE PastGuard' /\ NothingInClusterOnHost'
  BY ScriptStepNumbers DEF HostInv
<1> USE StepsLength
    DEF HostInv, ScriptNumbers, PastGuard, NothingInClusterOnHost, Running, NotRun, Aborted,
        Complete
<1>1. CASE Succeed
  <2>1. Step.how \in CommandHows /\ at \in 1..42 /\ at' = at + 1
    BY <1>1 DEF Succeed, GoOn
  <2>2. at # GuardStep
    BY <2>1, SpecialSteps DEF CommandHows, Mandatory, Step
  <2>3. ~overwrote'
    <3>1. CASE Target = Step.cluster
      BY <1>1, <3>1 DEF Succeed
    <3>2. CASE Target # Step.cluster /\ Step.cluster = "host"
      BY <1>1, <2>1, <3>2, StepTypes DEF Succeed, Target, Step
    <3>3. CASE Target # Step.cluster /\ Step.cluster = "vcluster"
      BY <2>1, <3>3, CommandPlaces DEF Target, Step, GuardStep
    <3>4. QED
      BY <2>1, <3>1, <3>2, <3>3, StepTypes DEF Step
  <2>4. QED
    BY <1>1, <2>1, <2>2, <2>3 DEF Succeed, GuardStep
<1>2. CASE SpentAttemptFails
  BY <1>2 DEF SpentAttemptFails, TryAgain, GuardStep
<1>3. CASE Connect \/ WaitForContext
  BY <1>3, SpecialSteps DEF Connect, WaitForContext, GoOn, GuardStep, ConnectStep, Step
<1>4. CASE ContextSwitches
  BY <1>4 DEF ContextSwitches
<1>5. CASE Guard
  BY <1>5 DEF Guard, GoOn, Abort, GuardStep
<1>6. CASE Deploy
  BY <1>6 DEF Deploy, GuardStep
<1>7. CASE AttemptFails
  BY <1>7 DEF AttemptFails, TryAgain, GuardStep
<1>8. CASE StaysDown
  BY <1>8 DEF StaysDown, Abort, GuardStep
<1>9. CASE GoOnWithout
  BY <1>9, SpecialSteps DEF GoOnWithout, GoOn, GuardStep, Step
<1>10. CASE UNCHANGED scriptVars
  BY <1>10 DEF scriptVars
<1>11. QED
  BY <1>1, <1>2, <1>3, <1>4, <1>5, <1>6, <1>7, <1>8, <1>9, <1>10
     DEF ScriptStep, ScriptGoesOn, ScriptMishap

\* No command meant for the vCluster takes effect on the host (deploy.sh:331),
\* for any number of runs, failures and connects left behind.
THEOREM ScriptSparesHost == Spec => []NothingInClusterOnHost
<1>1. Init => HostInv
  BY StepsLength, ScriptInitType, ScriptTypes
     DEF Init, ScriptInit, HostInv, PastGuard, NothingInClusterOnHost, NotRun, GuardStep
<1>2. HostInv /\ [Next]_vars => HostInv'
  BY ScriptSteps, HostStep
<1>3. HostInv => NothingInClusterOnHost
  BY DEF HostInv
<1>4. QED
  BY <1>1, <1>2, <1>3, PTL DEF Spec

-----------------------------------------------------------------------------
\* In the first run nothing moves the context before the connect is started,
\* and every mandatory command so far reached its cluster.
FirstRun ==
    /\ deploys = 0 => at = NotRun
    /\ deploys = 0 \/ (deploys = 1 /\ at \in 1..ConnectStep) => context = "host" /\ ~connecting
    /\ deploys = 1 /\ at \in 1..Complete => ~missed

DoneInv == HostInv /\ FirstRun

LEMMA DoneStep == DoneInv /\ ScriptStep => DoneInv'
<1> SUFFICES ASSUME DoneInv, ScriptStep PROVE FirstRun'
  BY HostStep DEF DoneInv
<1> USE StepsLength
    DEF DoneInv, FirstRun, HostInv, ScriptNumbers, PastGuard, Running, NotRun, Aborted, Complete
<1>1. CASE Succeed
  <2>1. /\ Step.how \in CommandHows /\ at \in 1..42 /\ at' = at + 1
        /\ UNCHANGED <<context, connecting, deploys>>
    BY <1>1 DEF Succeed, GoOn
  <2>2. at # ConnectStep /\ at # GuardStep
    BY <2>1, SpecialSteps DEF CommandHows, Mandatory, Step
  <2>3. CASE deploys = 1
    <3>1. Target = Step.cluster
      <4>1. CASE Step.cluster = "host"
        <5>1. Step.context = "host" \/ at < ConnectStep
          BY <2>1, <4>1, CommandPlaces DEF Step
        <5>2. at < ConnectStep => at \in 1..ConnectStep
          BY <2>1 DEF ConnectStep
        <5>3. at < ConnectStep => context = "host"
          BY <2>3, <5>2, Zenon
        <5>4. QED
          BY <2>1, <4>1, <5>1, <5>3, StepTypes DEF Target, Step
      <4>2. CASE Step.cluster = "vcluster"
        BY <2>1, <2>3, <4>2, CommandPlaces DEF Target, Step, GuardStep
      <4>3. QED
        BY <2>1, <4>1, <4>2, StepTypes DEF Step
    <3>2. missed' = missed
      BY <1>1, <3>1 DEF Succeed
    <3>3. QED
      BY <2>1, <2>2, <2>3, <3>2 DEF ConnectStep
  <2>4. QED
    BY <2>1, <2>3
<1>2. CASE SpentAttemptFails
  BY <1>2 DEF SpentAttemptFails, TryAgain, ConnectStep
<1>3. CASE Connect \/ WaitForContext
  BY <1>3, SpecialSteps DEF Connect, WaitForContext, GoOn, GuardStep, ConnectStep, Step
<1>4. CASE ContextSwitches
  BY <1>4 DEF ContextSwitches
<1>5. CASE Guard
  BY <1>5, SpecialSteps DEF Guard, GoOn, Abort, GuardStep, ConnectStep, Step
<1>6. CASE Deploy
  BY <1>6 DEF Deploy
<1>7. CASE AttemptFails
  BY <1>7 DEF AttemptFails, TryAgain, ConnectStep
<1>8. CASE StaysDown
  BY <1>8 DEF StaysDown, Abort, ConnectStep
<1>9. CASE GoOnWithout
  BY <1>9, SpecialSteps DEF GoOnWithout, GoOn, ConnectStep, Step
<1>10. CASE UNCHANGED scriptVars
  BY <1>10 DEF scriptVars
<1>11. QED
  BY <1>1, <1>2, <1>3, <1>4, <1>5, <1>6, <1>7, <1>8, <1>9, <1>10
     DEF ScriptStep, ScriptGoesOn, ScriptMishap

\* The first run that says "Deploy complete" has had every mandatory command
\* take effect in its cluster: no failure passes for success (deploy.sh:7),
\* and none lands in the other cluster.
THEOREM FirstCompletionIsDone == Spec => []CompleteMeansDone
<1>1. Init => DoneInv
  BY StepsLength, ScriptInitType, ScriptTypes
     DEF Init, ScriptInit, DoneInv, FirstRun, HostInv, PastGuard, NothingInClusterOnHost,
         NotRun, GuardStep
<1>2. DoneInv /\ [Next]_vars => DoneInv'
  BY ScriptSteps, DoneStep
<1>3. DoneInv => CompleteMeansDone
  BY StepsLength DEF DoneInv, FirstRun, CompleteMeansDone, Complete
<1>4. QED
  BY <1>1, <1>2, <1>3, PTL DEF Spec
=============================================================================
