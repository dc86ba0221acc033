---------------------------- MODULE DeployScript ----------------------------
(***************************************************************************)
(* The deployment script (hack/deploy.sh): a fixed sequence of commands    *)
(* against two clusters, under "set -euo pipefail".  A command names the   *)
(* host's context or runs in the kubeconfig's current one, which a         *)
(* background "vcluster connect" moves to the vCluster at some instant     *)
(* after l.317.  What the commands write is left out but for the cluster   *)
(* it lands in.                                                            *)
(*                                                                         *)
(* The script may be run again after it ended; a connect that an earlier   *)
(* run left behind is still there then.                                    *)
(***************************************************************************)
EXTENDS Naturals, Sequences

CONSTANTS
    MaxDeploys,     \* bound: runs of the script
    MaxFaults       \* bound: commands that fail, find nothing or are skipped

ASSUME ScriptBoundsAssumption == MaxDeploys \in Nat /\ MaxFaults \in Nat

VARIABLES
    at,         \* the script's step, NotRun, Complete or Aborted
    attempt,    \* the attempt of a retried step
    spent,      \* the retried step's standard input has been read
    context,    \* the kubeconfig's current context, "host" or "vcluster"
    connecting, \* a vcluster connect is under way
    done,       \* the relied-on steps that took effect in their cluster
    missed,     \* a mandatory step of this run went by without effect in its cluster
    overwrote,  \* a step meant for the vCluster took effect on the host
    deploys,    \* the runs begun
    faults      \* the budget used

scriptVars == <<at, attempt, spent, context, connecting, done, missed, overwrote, deploys, faults>>

-----------------------------------------------------------------------------
(* The steps, those for each of the host's resources (l.378) once.         *)
(* cluster is the one the step is meant for, context the one it names      *)
(* ("current": it names none), how what a failure does:                    *)
(*   plain      the script ends; so it does when the output of a retried   *)
(*              command is read, since retry prints its own messages there *)
(*              and the reader rejects them (l.118, l.392, l.404)          *)
(*   retried    two more attempts, then the script ends                    *)
(*   piped      the same, all three attempts reading one standard input    *)
(*   polled     attempts of a loop that gives up and goes on               *)
(*   optional   the script goes on: the error is ignored                   *)
(*   guarded    the script ends, but the step is passed over when a read   *)
(*              found nothing, or nothing is to do                         *)

Command(name, cluster, ctx, how) ==
    [name |-> name, cluster |-> cluster, context |-> ctx, how |-> how]
OnHost(name, how) == Command(name, "host", "host", how)
Current(name, how) == Command(name, "host", "current", how)
InCluster(name, how) == Command(name, "vcluster", "current", how)

Steps == <<
    Current("namespace", "piped"),
    OnHost("privilegedSCC", "retried"),
    OnHost("routeHostRole", "piped"),
    OnHost("routeHostBinding", "retried"),
    OnHost("impersonationRole", "piped"),
    OnHost("impersonationBinding", "retried"),
    Current("uidRange", "guarded"),
    OnHost("listCRDs", "optional"),
    OnHost("fetchCRDs", "plain"),
    Current("vcluster", "plain"),
    OnHost("routingSubdomain", "guarded"),
    Current("configMaps", "retried"),
    Current("servingCert", "piped"),
    OnHost("authDelegator", "retried"),
    Current("sidecars", "retried"),
    Current("rollout", "retried"),
    OnHost("service", "piped"),
    Current("health", "polled"),
    Current("connect", "connect"),
    Current("waitForContext", "wait"),
    Current("guard", "guard"),
    OnHost("clusterIP", "plain"),
    InCluster("manifests", "polled"),
    InCluster("verifyCRDs", "polled"),
    InCluster("hostResourceCRD", "polled"),
    InCluster("hostResource", "retried"),
    OnHost("readStatus", "plain"),
    InCluster("hostResourceStatus", "optional"),
    InCluster("managedNamespace", "plain"),
    OnHost("readIngressCA", "plain"),
    InCluster("ingressCA", "guarded"),
    InCluster("oauthServingCert", "guarded"),
    InCluster("serviceCANamespace", "plain"),
    InCluster("signingKey", "plain"),
    InCluster("caBundle", "plain"),
    InCluster("serviceCAOperator", "guarded"),
    InCluster("olm", "guarded"),
    InCluster("catalog", "polled"),
    InCluster("nonrootSCC", "plain"),
    InCluster("pullSecret", "guarded"),
    InCluster("prerequisites", "plain"),
    InCluster("apiServices", "retried") >>

Mandatory   == {"plain", "retried", "piped"}
\* The steps that the vCluster's APIs and the plugin rest on.
ReliedOn == {"vcluster", "sidecars", "service", "manifests", "caBundle", "apiServices"}
CommandHows == Mandatory \cup {"polled", "optional", "guarded"}
NotRun   == 0
Complete == Len(Steps) + 1
Aborted  == Len(Steps) + 2
Running  == at \in 1..Len(Steps)
Step == Steps[at]

\* Where the current command lands.
Target == IF Step.context = "current" THEN context ELSE Step.context

-----------------------------------------------------------------------------
ScriptInit ==
    /\ at = NotRun
    /\ attempt = 1
    /\ spent = FALSE
    /\ context = "host"
    /\ connecting = FALSE
    /\ done = {}
    /\ missed = FALSE /\ overwrote = FALSE
    /\ deploys = 0 /\ faults = 0

\* "make deploy", with the kubeconfig on the host or as the last run left it.
Deploy ==
    /\ ~Running
    /\ deploys < MaxDeploys
    /\ deploys' = deploys + 1
    /\ at' = 1
    /\ attempt' = 1
    /\ spent' = FALSE
    /\ context' \in {"host", context}
    /\ missed' = FALSE
    /\ UNCHANGED <<connecting, done, overwrote, faults>>

\* The next step; after the last one the script is complete.
GoOn ==
    /\ at' = at + 1
    /\ attempt' = 1
    /\ spent' = FALSE

Abort ==
    /\ at' = Aborted
    /\ attempt' = 1
    /\ spent' = FALSE

Fault ==
    /\ faults < MaxFaults
    /\ faults' = faults + 1

\* The command succeeds, in the cluster it reaches.
Succeed ==
    /\ Running
    /\ Step.how \in CommandHows
    /\ ~spent
    /\ IF Target = Step.cluster
       THEN /\ done' = done \cup ({Step.name} \cap ReliedOn)
            /\ UNCHANGED <<missed, overwrote>>
       ELSE /\ overwrote' = (overwrote \/ Target = "host")
            /\ missed' = (missed \/ Step.how \in Mandatory)
            /\ UNCHANGED done
    /\ GoOn
    /\ UNCHANGED <<context, connecting, deploys, faults>>

\* Mutant of TryAgain: one attempt too many.
TryOnceMore == IF attempt <= 3 THEN attempt' = attempt + 1 /\ UNCHANGED at
               ELSE at' = Aborted /\ attempt' = 1

\* retry: up to three attempts.
TryAgain == IF attempt < 3 THEN attempt' = attempt + 1 /\ UNCHANGED at
            ELSE at' = Aborted /\ attempt' = 1

\* One attempt fails, before or after it has read what is piped to it.
AttemptFails ==
    /\ Running
    /\ Step.how \in {"retried", "piped"}
    /\ ~spent
    /\ TryAgain
    /\ spent' \in {FALSE, Step.how = "piped" /\ attempt < 3}
    /\ Fault
    /\ UNCHANGED <<context, connecting, done, missed, overwrote, deploys>>

\* An attempt that finds its standard input read finds no object to apply.
SpentAttemptFails ==
    /\ Running
    /\ spent
    /\ TryAgain
    /\ spent' = (attempt < 3)
    /\ UNCHANGED <<context, connecting, done, missed, overwrote, deploys, faults>>

\* Mutant of StaysDown: retry returns the status of its last echo.
StaysDownUnnoticed ==
    /\ Running
    /\ Step.how \in Mandatory \cup {"guarded"}
    /\ IF Step.how \in {"plain", "guarded"} THEN Abort /\ UNCHANGED missed
       ELSE GoOn /\ missed' = TRUE
    /\ Fault
    /\ UNCHANGED <<context, connecting, done, overwrote, deploys>>

\* The command fails, in all its attempts: "set -e" ends the script.
StaysDown ==
    /\ Running
    /\ Step.how \in Mandatory \cup {"guarded"}
    /\ Abort
    /\ Fault
    /\ UNCHANGED <<context, connecting, done, missed, overwrote, deploys>>

\* A loop gives up, an error is ignored, a step is skipped.
GoOnWithout ==
    /\ Running
    /\ Step.how \in {"polled", "optional", "guarded"}
    /\ GoOn
    /\ Fault
    /\ UNCHANGED <<context, connecting, done, missed, overwrote, deploys>>

\* vcluster connect is started and not waited for, nor ended with the script.
Connect ==
    /\ Running
    /\ Step.how = "connect"
    /\ connecting' = TRUE
    /\ GoOn
    /\ UNCHANGED <<context, done, missed, overwrote, deploys, faults>>

ContextSwitches ==
    /\ connecting
    /\ connecting' = FALSE
    /\ context' = "vcluster"
    /\ UNCHANGED <<at, attempt, spent, done, missed, overwrote, deploys, faults>>

\* The loop sees the context switched, or gives up after 30 attempts.
WaitForContext ==
    /\ Running
    /\ Step.how = "wait"
    /\ GoOn
    /\ UNCHANGED <<context, connecting, done, missed, overwrote, deploys, faults>>

\* Mutant of Guard: the wait is trusted.
GuardTrusts ==
    /\ Running
    /\ Step.how = "guard"
    /\ GoOn
    /\ UNCHANGED <<context, connecting, done, missed, overwrote, deploys, faults>>

\* "Refusing to apply in-cluster manifests to the host".
Guard ==
    /\ Running
    /\ Step.how = "guard"
    /\ IF context = "host" THEN Abort ELSE GoOn
    /\ UNCHANGED <<context, connecting, done, missed, overwrote, deploys, faults>>

\* What the script does of itself besides a command that succeeds.
ScriptGoesOn == SpentAttemptFails \/ Connect \/ ContextSwitches \/ WaitForContext \/ Guard

ScriptMishap == Deploy \/ AttemptFails \/ StaysDown \/ GoOnWithout

-----------------------------------------------------------------------------
(* Properties.                                                             *)

ScriptTypeOK ==
    /\ at \in NotRun..Aborted
    /\ attempt \in 1..3
    /\ spent \in BOOLEAN
    /\ spent => Running /\ Steps[at].how = "piped"
    /\ context \in {"host", "vcluster"}
    /\ connecting \in BOOLEAN
    /\ done \subseteq ReliedOn
    /\ missed \in BOOLEAN /\ overwrote \in BOOLEAN
    /\ deploys \in 0..MaxDeploys /\ faults \in 0..MaxFaults

\* No step meant for the vCluster ever takes effect on the host, whenever
\* vcluster connect switches the context and whatever an earlier run of the
\* script left behind (l.331).
NothingInClusterOnHost == ~overwrote

\* The first run of the script says "Deploy complete" only when every command
\* that is not polled for, optional or guarded by a read took effect, in the
\* cluster it is meant for.
CompleteMeansDone == at = Complete /\ deploys = 1 => ~missed
=============================================================================
