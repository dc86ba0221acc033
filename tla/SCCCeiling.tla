----------------------------- MODULE SCCCeiling -----------------------------
(***************************************************************************)
(* The ceiling on tenants' SCCs (syncers/scc_ceiling.go): which fields of  *)
(* a virtual SCC exceed the SCC-like object the plugin's configuration     *)
(* gives.  An SCC is a function from its fields to their values, Absent    *)
(* for a field it does not have; a list is the set of its strings, a       *)
(* strategy the string in its "type", the only part of it the check reads. *)
(* Values have the type the API server gives their field.                  *)
(***************************************************************************)
EXTENDS Integers

CONSTANTS Fields,   \* the fields SCCs have, a set of strings
          Absent    \* the value of a field that an SCC does not have

ASSUME FieldsAssumption == Fields \subseteq STRING

boolFields == {"allowPrivilegedContainer", "allowHostNetwork", "allowHostPorts",
               "allowHostPID", "allowHostIPC", "allowHostDirVolumePlugin",
               "allowPrivilegeEscalation", "defaultAllowPrivilegeEscalation",
               "readOnlyRootFilesystem"}
listFields == {"volumes", "allowedCapabilities", "defaultAddCapabilities",
               "allowedUnsafeSysctls"}
strategyFields == {"runAsUser", "seLinuxContext", "fsGroup", "supplementalGroups"}

strategyOrder == [MustRunAs |-> 0, MustRunAsRange |-> 1, MustRunAsNonRoot |-> 2, RunAsAny |-> 3]

\* True exceeds a ceiling of false.
checkBool(v, c) == v /\ ~c

\* Each requested string must be allowed, itself or through "*"; "*" only
\* through "*".
checkList(v, c) == "*" \notin c /\ \E r \in v : r \notin c

\* A strategy of a lower rank is stricter; one without a rank is not judged.
checkStrategy(v, c) ==
    /\ {v, c} \subseteq DOMAIN strategyOrder
    /\ strategyOrder[v] > strategyOrder[c]

\* A field is judged only when both the ceiling and the SCC have it.
exceeds(field, v, c) ==
    /\ v # Absent
    /\ c # Absent
    /\ \/ field \in boolFields /\ checkBool(v, c)
       \/ field \in listFields /\ checkList(v, c)
       \/ field \in strategyFields /\ checkStrategy(v, c)

\* The fields of the SCC that exceed the ceiling.  An empty ceiling has no
\* field, and nothing exceeds it.
ValidateSCCAgainstCeiling(virtual, ceiling) ==
    {field \in Fields : exceeds(field, virtual[field], ceiling[field])}

Within(scc, ceiling) == ValidateSCCAgainstCeiling(scc, ceiling) = {}
=============================================================================
