---------------------------- MODULE PluginStart ----------------------------
(***************************************************************************)
(* The start of the plugin's process (plugins/resource-syncer/main.go) and *)
(* the migration that precedes each syncer (Migrate in pkg/syncer.go).     *)
(* The process registers a syncer for each configured kind, besides the    *)
(* SCC RBAC bridge and the pod hook, and calls plugin.Start until it       *)
(* succeeds; a syncer then waits for its kind's API, for five minutes at   *)
(* most, before its controller may start.                                  *)
(***************************************************************************)
EXTENDS Naturals

CONSTANTS
    Kinds,          \* the kinds there are
    Configurations, \* the sets of kinds the plugin may be configured with
    MaxAttempts,    \* attempts of Migrate in its five minutes
    MaxStartFailures \* bound: calls of plugin.Start that fail

ASSUME StartAssumption ==
    /\ Configurations \subseteq SUBSET Kinds
    /\ MaxAttempts \in Nat \ {0}
    /\ MaxStartFailures \in Nat

VARIABLES
    process,        \* "down", "starting", "retrying", "started", or "failed"
    resources,      \* the configured kinds
    attempts,       \* [Kinds -> Nat]: the attempts of Migrate that failed
    migrated,       \* the kinds whose Migrate has returned
    startFailures   \* the budget used

startVars == <<process, resources, attempts, migrated, startFailures>>

StartInit ==
    /\ process = "down"
    /\ resources \in Configurations
    /\ attempts = [k \in Kinds |-> 0]
    /\ migrated = {}
    /\ startFailures = 0

\* A new process: a configuration without resources ends it for good.
Launch ==
    /\ process' = IF resources = {} THEN "failed" ELSE "starting"
    /\ attempts' = [k \in Kinds |-> 0]
    /\ migrated' = {}
    /\ UNCHANGED <<resources, startFailures>>

StartFails ==
    /\ process = "starting"
    /\ startFailures < MaxStartFailures
    /\ startFailures' = startFailures + 1
    /\ process' = "retrying"
    /\ UNCHANGED <<resources, attempts, migrated>>

\* After ten seconds.
StartAgain ==
    /\ process = "retrying"
    /\ process' = "starting"
    /\ UNCHANGED <<resources, attempts, migrated, startFailures>>

StartSucceeds ==
    /\ process = "starting"
    /\ process' = "started"
    /\ UNCHANGED <<resources, attempts, migrated, startFailures>>

Migrating(k) == process = "started" /\ k \in resources \ migrated

MigrateSucceeds(k, served) ==
    /\ Migrating(k)
    /\ k \in served
    /\ attempts[k] < MaxAttempts
    /\ migrated' = migrated \cup {k}
    /\ UNCHANGED <<process, resources, attempts, startFailures>>

\* Mutant of MigrateFails: the attempts have no deadline.
MigrateFailsForever(k) ==
    /\ Migrating(k)
    /\ attempts[k] < MaxAttempts
    /\ UNCHANGED startVars

\* An error or a panic of the migration, as when the API is not served.
MigrateFails(k) ==
    /\ Migrating(k)
    /\ attempts[k] < MaxAttempts
    /\ attempts' = [attempts EXCEPT ![k] = @ + 1]
    /\ UNCHANGED <<process, resources, migrated, startFailures>>

\* The deadline has passed: the syncer starts without its migration.
MigrateTimesOut(k) ==
    /\ Migrating(k)
    /\ attempts[k] = MaxAttempts
    /\ migrated' = migrated \cup {k}
    /\ UNCHANGED <<process, resources, attempts, startFailures>>

\* The controllers that run: that of a kind waits for its API.
runningControllers(served) == IF process = "started" THEN migrated \cap served ELSE {}

StartTypeOK ==
    /\ process \in {"down", "starting", "retrying", "started", "failed"}
    /\ resources \in Configurations
    /\ attempts \in [Kinds -> 0..MaxAttempts]
    /\ migrated \subseteq resources
    /\ startFailures \in 0..MaxStartFailures
=============================================================================
