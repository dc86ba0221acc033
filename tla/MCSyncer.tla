----------------------------- MODULE MCSyncer -----------------------------
(* A small instance of the SCC syncer: one field of each kind the ceiling   *)
(* judges, the field that is judged but not copied again, and one that is   *)
(* copied but not judged.                                                   *)
EXTENDS SCCSyncer

AllFields == {"allowPrivilegeEscalation", "volumes", "runAsUser",
              "allowHostDirVolumePlugin", "priority"}
ap == "allowPrivilegeEscalation"
vo == "volumes"
ru == "runAsUser"
hd == "allowHostDirVolumePlugin"
pr == "priority"

obj(pe, vols, user, dir, prio) ==
    [f \in AllFields |-> CASE f = ap -> pe [] f = vo -> vols [] f = ru -> user
                           [] f = hd -> dir [] f = pr -> prio]

TenantSCCs ==
    { obj(TRUE, {"secret"}, "RunAsAny", Absent, 10),
      obj(FALSE, {"*"}, "MustRunAs", Absent, Absent),
      obj(Absent, {"secret"}, "MustRunAsRange", FALSE, 10),
      obj(Absent, Absent, "MustRunAsNonRoot", TRUE, Absent) }

LowCeiling  == obj(FALSE, {"secret"}, "MustRunAsNonRoot", FALSE, Absent)
HighCeiling == obj(TRUE, {"secret", "*"}, Absent, Absent, Absent)
TwoCeilings == {LowCeiling, HighCeiling}
OneCeiling == {HighCeiling}
=============================================================================
