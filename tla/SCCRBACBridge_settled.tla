------------------------ MODULE SCCRBACBridge_settled ------------------------
(***************************************************************************)
(* What a settled bridge has done: the host objects of every binding are   *)
(* right, or something under way (a notification, a queued key, or what    *)
(* is left of a reconcile) will make them right.  For every set of         *)
(* vClusters, bindings, roles and SCCs.  And for which names of these two  *)
(* bindings never meet in one host object.                                 *)
(***************************************************************************)
EXTENDS SCCRBACBridge_proofs, SequenceTheorems

\* The reconcile under way is b's.
WorksOn(b) == worker[b.vc].pc # "idle" /\ worker[b.vc].req = b

ToReconcile(b) ==
    b \in queue[b.vc] \/ \E obj \in events[b.vc] : b \in requests(obj)

\* What GetRole finds for b.
roleMatches(b) ==
    LET r == roleOf(b, bindings[b].roleRef)
    IN  IF bindings[b] # None /\ r \in Roles /\ relevant(roles[r])
        THEN extractSCCRules(roles[r]) ELSE {}

\* The SCCs of a wildcard grant never change: they are not watched.
WildcardsStay ==
    \A rules \in RuleSets : \A m \in extractSCCRules(rules) : m.wildcard => MaxSCCEdits = 0

\* What b grants, and that it grants nothing, whatever SCCs come and go: unless
\* wildcard grants stay, the SCCs granted by name.
Lasting(b) ==
    IF grantedSubjects(b) = {} THEN {}
    ELSE IF WildcardsStay THEN grantedSCCs(b) ELSE UNION {m.names : m \in roleMatches(b)}
Revoked(b) ==
    \/ grantedSubjects(b) = {}
    \/ roleMatches(b) = {}
    \/ WildcardsStay /\ grantedSCCs(b) = {}

\* The host objects of b are what its grants ask for.
Right(b) ==
    /\ \A scc \in Lasting(b) : InPlace(b, scc)
    /\ Revoked(b) /\ (bindings[b] # None \/ crashes = 0) => OwnsNothing(b)

\* What b's reconcile has read is current, what it has written is in place,
\* and what it has still to do makes the host objects right.
OnTrack(b) ==
    LET w == worker[b.vc] IN
    /\ w.pc \in {"getRole", "listSCCs", "ensureCR", "ensureCRB"} =>
           bindings[b] # None /\ w.body = bindings[b]
    /\ w.pc = "listSCCs" => w.matches = roleMatches(b)
    /\ w.pc \in {"ensureCR", "ensureCRB"} =>
           /\ ~Revoked(b)
           /\ \A scc \in Lasting(b) \ w.grants : InPlace(b, scc)
    /\ w.pc = "ensureCRB" => hostCR[hostName(b, w.current)] = HostRole(b, w.current)
    /\ w.pc \in {"listCRB", "deleteCRB", "deleteCR"} => Lasting(b) = {}
    /\ w.pc = "deleteCR" => labelled(hostCR, b) \subseteq w.doomed

Reconciled(b) ==
    \/ ~up[b.vc]
    \/ ToReconcile(b)
    \/ WorksOn(b) /\ OnTrack(b)
    \/ ~WorksOn(b) /\ Right(b)

\* A stopped controller does nothing, and has been stopped.
Stopped ==
    /\ sccEdits \in Nat /\ crashes \in Nat
    /\ \A v \in VClusters : ~up[v] => worker[v].pc = "idle" /\ crashes # 0

ConvergenceInv == IInv /\ Stopped /\ \A b \in Bindings : Reconciled(b)

\* What the theorems suppose besides NoCollision, as the code keeps neither
\* promise otherwise: a RoleBinding refers to a Role (a ClusterRole wakes no
\* RoleBinding), and the calls whose errors a reconcile takes for an answer
\* succeed.
RolesWake ==
    \A b \in Bindings : \A ref \in RoleRefs[b] : b.kind = "RoleBinding" => ref.kind = "Role"
Watched == NoCollision /\ RolesWake
ReadsSucceed == \A v \in VClusters : ~MappingFails(v) /\ ~ResolveFails(v)

-----------------------------------------------------------------------------
\* Names and the words of them that the code adds.
AllWords == Seq(STRING \cup {"", "vc", "scc"})

\* Names with the added words stay such names, whatever is put together.
LEMMA WordsConcat == \A s, t \in AllWords : s \o t \in AllWords
BY ConcatProperties DEF AllWords

LEMMA SeqGrows == \A S, T : S \subseteq T => Seq(S) \subseteq Seq(T)
BY SeqDef

LEMMA WordsAreWords == Words \subseteq AllWords
BY SeqGrows DEF Words, AllWords

LEMMA SeqOfOne == ASSUME NEW S, NEW x \in S PROVE <<x>> \in Seq(S)
OBVIOUS

LEMMA Literals == <<"">> \in AllWords /\ <<"vc">> \in AllWords /\ <<"scc">> \in AllWords
BY SeqOfOne DEF AllWords

\* A key is a name, cut or not.
LEMMA SafeNames == \A b \in Bindings : safeName(bindingKey(b)) \in AllWords
<1> SUFFICES ASSUME NEW b \in Bindings PROVE safeName(bindingKey(b)) \in AllWords
  OBVIOUS
<1>1. b.name \in AllWords /\ b.ns \in AllWords
  BY ConstantsAssumption, WordsAreWords DEF Binding
<1>2. PICK key \in AllWords : key = bindingKey(b)
  BY <1>1, WordsConcat, Literals DEF bindingKey
<1>3. CASE Len(key) > LabelMax
  <2> DEFINE C == STRING \cup {"", "vc", "scc"}
  <2>1. key \in Seq(C) /\ LabelMax \in Nat
    BY LabelMaxAssumption DEF AllWords
  <2>2. SubSeq(key, 1, LabelMax) \in AllWords
    <3> HIDE DEF C
    <3>1. \A i \in 1..LabelMax : key[i] \in C
      BY <1>3, <2>1
    <3>2. SubSeq(key, 1, LabelMax) \in Seq(C)
      BY <2>1, <3>1, SubSeqProperties
    <3>3. QED
      BY <3>2 DEF AllWords, C
  <2>3. QED
    BY <1>2, <1>3, <2>2 DEF safeName
<1>4. QED
  BY <1>2, <1>3 DEF safeName

\* The host objects of one binding for different SCCs have different names.
LEMMA NamesOfOne ==
    ASSUME NEW b \in Bindings, NEW s \in SCCNames, NEW t \in SCCNames,
           hostName(b, s) = hostName(b, t)
    PROVE  s = t
<1>1. b.vc \in AllWords /\ s \in AllWords /\ t \in AllWords
  BY ConstantsAssumption, NamesAssumption, WordsAreWords DEF Binding
<1>2. PICK key \in AllWords : key = safeName(bindingKey(b))
  BY SafeNames
<1>3. PICK vc \in AllWords : vc = <<"vc">> \o b.vc
  BY <1>1, Literals, WordsConcat
<1>4. PICK scc \in AllWords : scc = vc \o <<"scc">>
  BY Literals, WordsConcat
<1>5. PICK prefix \in AllWords : prefix = scc \o key
  BY WordsConcat
<1>6. prefix \o s = prefix \o t
  BY <1>2, <1>3, <1>4, <1>5 DEF hostName
<1>7. QED
  BY <1>1, <1>6, ConcatSimplifications DEF AllWords

\* Whether an object wakes a binding depends on the object and the binding.
LEMMA Waking ==
    ASSUME NEW b \in Bindings, bindings'[b] = bindings[b], NEW obj \in Bindings \cup Roles,
           b \in requests(obj)
    PROVE  b \in requests(obj)'
BY DEF requests, clusterRoleToBindings, roleToBindings

\* A binding to reconcile stays one while it and what waits for it are kept.
LEMMA StillToReconcile ==
    ASSUME QueueType, NEW b \in Bindings, bindings'[b] = bindings[b], ToReconcile(b),
           queue[b.vc] \subseteq queue'[b.vc], events[b.vc] \subseteq events'[b.vc]
    PROVE  ToReconcile(b)'
<1>1. b.vc \in VClusters
  BY ConstantsAssumption DEF Binding
<1>2. events[b.vc] \subseteq Bindings \cup Roles
  BY <1>1 DEF QueueType
<1>3. QED
  BY <1>2, Waking DEF ToReconcile

\* A role's event wakes the bindings that refer to the role.
LEMMA RoleWakes ==
    ASSUME RolesWake, TypeOK, NEW b \in Bindings, bindings[b] # None,
           roleOf(b, bindings[b].roleRef) \in Roles
    PROVE  b \in requests(roleOf(b, bindings[b].roleRef))
<1> DEFINE ref == bindings[b].roleRef
           r == roleOf(b, ref)
<1>1. ref \in RoleRefs[b] /\ RoleRefs[b] \subseteq [kind : {"ClusterRole", "Role"}, name : Words]
  BY ConstantsAssumption DEF TypeOK, Bodies
<1>2. ref = [kind |-> ref.kind, name |-> ref.name] /\ ref.kind \in {"ClusterRole", "Role"}
  BY <1>1
<1>3. /\ b.kind \in {ClusterBinding, "RoleBinding"}
      /\ b.kind = ClusterBinding => ref.kind = "ClusterRole"
      /\ b.kind = "RoleBinding" => ref.kind = "Role"
  BY <1>1, ConstantsAssumption DEF Binding, RolesWake
<1>4. r \notin Bindings /\ r.kind = ref.kind /\ r.vc = b.vc /\ r.name = ref.name
      /\ (ref.kind = "Role" => r.ns = b.ns)
  BY <1>2, ConstantsAssumption DEF roleOf, Binding, ClusterBinding
<1>5. QED
  BY <1>2, <1>3, <1>4 DEF requests, clusterRoleToBindings, roleToBindings, ClusterBinding

-----------------------------------------------------------------------------
(* What a step leaves alone.                                               *)

SameHost(b) ==
    \A scc \in SCCNames : /\ hostCR'[hostName(b, scc)] = hostCR[hostName(b, scc)]
                          /\ hostCRB'[hostName(b, scc)] = hostCRB[hostName(b, scc)]

SameGrants(b) ==
    /\ bindings'[b] = bindings[b] /\ roleMatches(b)' = roleMatches(b)
    /\ Lasting(b)' = Lasting(b) /\ (Revoked(b)' <=> Revoked(b))

\* A binding's host names are among HostNames.
LEMMA BindingTypes ==
    ASSUME NEW b \in Bindings
    PROVE  b.vc \in VClusters /\ \A scc \in SCCNames : hostName(b, scc) \in HostNames
BY ConstantsAssumption DEF Binding, HostNames

\* The objects with a binding's labels are those with its names.
LEMMA LabelledNames ==
    ASSUME NoCollision, LabelsMatch, NEW b \in Bindings
    PROVE  /\ labelled(hostCR, b) = {n \in HostNames : hostCR[n] # None
                                       /\ \E scc \in SCCNames : n = hostName(b, scc)}
           /\ labelled(hostCRB, b) = {n \in HostNames : hostCRB[n] # None
                                       /\ \E scc \in SCCNames : n = hostName(b, scc)}
<1>1. \A n \in labelled(hostCR, b) \cup labelled(hostCRB, b) :
          \E scc \in SCCNames : n = hostName(b, scc)
  BY OwnLabelled
<1>2. QED
  BY <1>1 DEF labelled, LabelsMatch

\* A host object is written by the reconcile of its own binding alone.
LEMMA OthersHost ==
    ASSUME IInv, NoCollision, [Next]_vars, NEW b \in Bindings,
           worker'[b.vc] = worker[b.vc] \/ ~WorksOn(b)
    PROVE  SameHost(b)
<1> SUFFICES ASSUME NEW scc \in SCCNames,
                    \/ hostCR'[hostName(b, scc)] # hostCR[hostName(b, scc)]
                    \/ hostCRB'[hostName(b, scc)] # hostCRB[hostName(b, scc)]
             PROVE  FALSE
  BY DEF SameHost
<1>1. ~UNCHANGED host
  BY DEF host
<1>2. PICK v \in VClusters, t \in SCCNames :
          /\ worker[v].pc # "idle" /\ worker'[v] # worker[v]
          /\ \A m \in HostNames \ {hostName(worker[v].req, t)} :
                 hostCR'[m] = hostCR[m] /\ hostCRB'[m] = hostCRB[m]
  BY <1>1, OneWrite
<1>3. hostName(b, scc) = hostName(worker[v].req, t)
  BY <1>2, BindingTypes
<1>4. worker[v].req = b
  BY <1>2, <1>3 DEF NoCollision, IInv, TypeOK
<1>5. v = b.vc
  BY <1>2, <1>4 DEF IInv, KeysOwn
<1>6. QED
  BY <1>2, <1>4, <1>5 DEF WorksOn

\* The labelled objects of a binding are the same if its host objects are.
LEMMA LabelledKept ==
    ASSUME NoCollision, IInv, IInv', NEW b \in Bindings, SameHost(b)
    PROVE  /\ labelled(hostCR, b)' = labelled(hostCR, b)
           /\ labelled(hostCRB, b)' = labelled(hostCRB, b)
<1> DEFINE Own(objs) == {n \in HostNames : objs[n] # None
                                       /\ \E scc \in SCCNames : n = hostName(b, scc)}
<1>1. labelled(hostCR, b) = Own(hostCR) /\ labelled(hostCRB, b) = Own(hostCRB)
  BY LabelledNames DEF IInv
<1>2. labelled(hostCR, b)' = Own(hostCR') /\ labelled(hostCRB, b)' = Own(hostCRB')
  <2>1. LabelsMatch'
    BY DEF IInv
  <2>2. NoCollision /\ LabelsMatch => /\ labelled(hostCR, b) = Own(hostCR)
                                      /\ labelled(hostCRB, b) = Own(hostCRB)
    BY LabelledNames
  <2>3. (NoCollision /\ LabelsMatch => /\ labelled(hostCR, b) = Own(hostCR)
                                      /\ labelled(hostCRB, b) = Own(hostCRB))'
    BY LabelledNames, PTL
  <2>4. QED
    BY <2>1, <2>3
<1>3. QED
  BY <1>1, <1>2 DEF SameHost

\* A binding grants SCCs of the system.
LEMMA DesiredNames ==
    ASSUME TypeOK, NEW b \in Bindings
    PROVE  Desired(b) \subseteq SCCNames
<1> DEFINE r == roleOf(b, bindings[b].roleRef)
<1>1. CASE bindings[b] # None /\ r \in Roles /\ roles[r] # None
  <2>1. extractSCCRules(roles[r]) \subseteq RuleMatches /\ sccs[b.vc] \subseteq SCCNames
    BY <1>1, BindingTypes DEF TypeOK, RuleMatches
  <2>2. grantedSCCs(b) \subseteq SCCNames
    BY <1>1, <2>1, ResolvedNames DEF grantedSCCs
  <2>3. QED
    BY <2>2 DEF Desired
<1>2. CASE ~(bindings[b] # None /\ r \in Roles /\ roles[r] # None)
  BY <1>2 DEF Desired, grantedSCCs
<1>3. QED
  BY <1>1, <1>2

\* What a binding grants is what the matches of its role resolve to.
LEMMA GrantsOfMatches ==
    ASSUME NEW b \in Bindings
    PROVE  grantedSCCs(b) = resolveSCCMatches(roleMatches(b), sccs[b.vc])
<1>1. resolveSCCMatches({}, sccs[b.vc]) = {}
  BY DEF resolveSCCMatches
<1>2. QED
  BY <1>1 DEF grantedSCCs, roleMatches, relevant

\* What lasts is part of what is granted, and all of it when wildcards stay.
LEMMA LastingGrants ==
    ASSUME NEW b \in Bindings
    PROVE  /\ Lasting(b) \subseteq Desired(b)
           /\ WildcardsStay => Lasting(b) = Desired(b) /\ (Revoked(b) <=> Desired(b) = {})
           /\ Revoked(b) => Lasting(b) = {}
<1>1. grantedSCCs(b) = UNION {IF m.wildcard THEN sccs[b.vc] ELSE m.names : m \in roleMatches(b)}
  BY GrantsOfMatches DEF resolveSCCMatches
<1>2. ASSUME NEW m \in roleMatches(b), m.wildcard PROVE m.names = {}
  <2>1. PICK rules : m \in extractSCCRules(rules)
    BY DEF roleMatches
  <2>2. PICK rule \in rules :
            m = [names |-> rule.resourceNames, wildcard |-> rule.resourceNames = {}]
    BY <2>1 DEF extractSCCRules
  <2>3. m.wildcard <=> rule.resourceNames = {}
    BY <2>2, Zenon
  <2>4. QED
    BY <1>2, <2>2, <2>3
<1>3. UNION {m.names : m \in roleMatches(b)} \subseteq grantedSCCs(b)
  BY <1>1, <1>2
<1>4. roleMatches(b) = {} => grantedSCCs(b) = {} /\ UNION {m.names : m \in roleMatches(b)} = {}
  BY <1>1
<1>5. QED
  BY <1>3, <1>4 DEF Lasting, Revoked, Desired

LEMMA LastingNames ==
    ASSUME TypeOK, NEW b \in Bindings
    PROVE  Lasting(b) \subseteq SCCNames
BY DesiredNames, LastingGrants

\* What is right stays right when neither the grants nor the host change.
LEMMA RightKept ==
    ASSUME NoCollision, IInv, IInv', NEW b \in Bindings, SameHost(b), SameGrants(b),
           crashes' = 0 => crashes = 0, Right(b)
    PROVE  Right(b)'
<1>1. OwnsNothing(b) => OwnsNothing(b)'
  BY LabelledKept DEF OwnsNothing
<1>2. \A scc \in Lasting(b) : scc \in SCCNames /\ InPlace(b, scc)' = InPlace(b, scc)
  <2>1. Lasting(b) \subseteq SCCNames
    BY LastingNames DEF IInv
  <2>2. grantedSubjects(b)' = grantedSubjects(b)
    BY DEF grantedSubjects, SameGrants
  <2>3. QED
    BY <2>1, <2>2 DEF InPlace, SameHost
<1>3. QED
  BY <1>1, <1>2 DEF Right, SameGrants

\* A reconcile that does not move stays on its track, likewise.
LEMMA OnTrackKept ==
    ASSUME NoCollision, IInv, IInv', NEW b \in Bindings, SameHost(b), SameGrants(b),
           worker'[b.vc] = worker[b.vc], OnTrack(b)
    PROVE  OnTrack(b)'
<1> DEFINE w == worker[b.vc]
<1>1. \A scc \in Lasting(b) : scc \in SCCNames /\ InPlace(b, scc)' = InPlace(b, scc)
  <2>1. Lasting(b) \subseteq SCCNames
    BY LastingNames DEF IInv
  <2>2. grantedSubjects(b)' = grantedSubjects(b)
    BY DEF grantedSubjects, SameGrants
  <2>3. QED
    BY <2>1, <2>2 DEF InPlace, SameHost
<1>2. labelled(hostCR, b)' = labelled(hostCR, b)
  BY LabelledKept
<1>3. w.pc = "ensureCRB" => hostCR'[hostName(b, w.current)] = hostCR[hostName(b, w.current)]
  BY BindingTypes DEF IInv, TypeOK, SameHost
<1>4. QED
  BY <1>1, <1>2, <1>3 DEF OnTrack, SameGrants

\* A step that does not concern a binding leaves it as it was.
LEMMA Undisturbed ==
    ASSUME NoCollision, IInv, IInv', NEW b \in Bindings, SameHost(b), SameGrants(b),
           crashes' = 0 => crashes = 0, up'[b.vc] = up[b.vc],
           ToReconcile(b) => ToReconcile(b)',
           worker'[b.vc] = worker[b.vc] \/ (~WorksOn(b) /\ ~WorksOn(b)'),
           Reconciled(b)
    PROVE  Reconciled(b)'
<1>1. CASE ~up[b.vc] \/ ToReconcile(b)
  BY <1>1 DEF Reconciled
<1>2. CASE WorksOn(b) /\ OnTrack(b)
  <2>1. worker'[b.vc] = worker[b.vc]
    BY <1>2
  <2>2. WorksOn(b)' /\ OnTrack(b)'
    BY <1>2, <2>1, OnTrackKept DEF WorksOn
  <2>3. QED
    BY <2>2 DEF Reconciled
<1>3. CASE ~WorksOn(b) /\ Right(b)
  <2>1. ~WorksOn(b)'
    BY <1>3 DEF WorksOn
  <2>2. QED
    BY <1>3, <2>1, RightKept DEF Reconciled
<1>4. QED
  BY <1>1, <1>2, <1>3 DEF Reconciled

\* The grants of a binding depend on the tenants' objects alone.
LEMMA GrantsKept ==
    ASSUME NEW b \in Bindings, bindings'[b] = bindings[b], UNCHANGED <<roles, sccs>>
    PROVE  SameGrants(b)
BY DEF SameGrants, Lasting, Revoked, grantedSubjects, grantedSCCs, roleMatches

-----------------------------------------------------------------------------
(* The tenants' edits.                                                     *)

\* What lasts does not depend on the SCCs there are, when these may change.
LEMMA SCCsKeepGrants ==
    ASSUME IInv, MaxSCCEdits # 0, UNCHANGED <<bindings, roles>>, NEW b \in Bindings
    PROVE  SameGrants(b)
<1>1. roleMatches(b)' = roleMatches(b) /\ grantedSubjects(b)' = grantedSubjects(b)
  BY DEF roleMatches, grantedSubjects
<1>2. CASE ~WildcardsStay
  BY <1>1, <1>2 DEF SameGrants, Lasting, Revoked
<1>3. CASE WildcardsStay
  <2> DEFINE r == roleOf(b, bindings[b].roleRef)
  <2>1. CASE bindings[b] # None /\ r \in Roles /\ roles[r] # None
    <3>1. roles[r] \in RuleSets
      BY <2>1 DEF IInv, TypeOK
    <3>2. \A m \in extractSCCRules(roles[r]) : ~m.wildcard
      BY <1>3, <3>1 DEF WildcardsStay
    <3>3. \A all : resolveSCCMatches(extractSCCRules(roles[r]), all)
                     = UNION {m.names : m \in extractSCCRules(roles[r])}
      BY <3>2 DEF resolveSCCMatches
    <3>4. grantedSCCs(b)' = grantedSCCs(b)
      BY <2>1, <3>3 DEF grantedSCCs
    <3>5. QED
      BY <1>1, <3>4 DEF SameGrants, Lasting, Revoked
  <2>2. CASE ~(bindings[b] # None /\ r \in Roles /\ roles[r] # None)
    <3>1. grantedSCCs(b)' = grantedSCCs(b)
      BY <2>2 DEF grantedSCCs
    <3>2. QED
      BY <1>1, <3>1 DEF SameGrants, Lasting, Revoked
  <2>3. QED
    BY <2>1, <2>2
<1>4. QED
  BY <1>2, <1>3

\* An edit of a role changes nothing for a binding, or it wakes the binding.
LEMMA RoleEditWakes ==
    ASSUME RolesWake, IInv, NEW r \in Roles, NEW rules, ChangeRole(r, rules),
           NEW b \in Bindings, up[b.vc]
    PROVE  SameGrants(b) \/ ToReconcile(b)'
<1> DEFINE own == roleOf(b, bindings[b].roleRef)
<1>0. /\ roles' = [roles EXCEPT ![r] = rules] /\ DOMAIN roles = Roles
      /\ UNCHANGED <<bindings, sccs>>
      /\ Notify(r.vc, IF relevant(roles[r]) \/ relevant(rules) THEN {r} ELSE {})
  BY DEF ChangeRole, Edit, IInv, TypeOK
<1>1. CASE bindings[b] = None \/ own \notin Roles \/ own # r
  <2>1. bindings[b] # None /\ own \in Roles => roles'[own] = roles[own]
    BY <1>0, <1>1
  <2>2. QED
    BY <1>0, <2>1 DEF SameGrants, Lasting, Revoked, grantedSubjects, grantedSCCs, roleMatches
<1>2. CASE bindings[b] # None /\ own = r
  <2>1. CASE relevant(roles[r]) \/ relevant(rules)
    <3>1. r.vc = b.vc
      BY <1>2 DEF roleOf
    <3>2. b \in requests(r)
      BY <1>2, RoleWakes DEF IInv
    <3>3. r \in events'[b.vc]
      BY <1>0, <2>1, <3>1, BindingTypes DEF Notify, IInv, TypeOK
    <3>4. b \in requests(r)'
      BY <1>0, <3>2, Waking
    <3>5. QED
      BY <3>3, <3>4 DEF ToReconcile
  <2>2. CASE ~relevant(roles[r]) /\ ~relevant(rules)
    <3>1. roles[r] = None \/ extractSCCRules(roles[r]) = {}
      BY <2>2 DEF relevant
    <3>2. roles'[r] = None \/ extractSCCRules(roles'[r]) = {}
      BY <1>0, <2>2 DEF relevant
    <3>3. \A all : resolveSCCMatches({}, all) = {}
      BY DEF resolveSCCMatches
    <3>4. grantedSCCs(b) = {}
      BY <1>2, <3>1, <3>3 DEF grantedSCCs
    <3>5. grantedSCCs(b)' = {}
      BY <1>0, <1>2, <3>2, <3>3 DEF grantedSCCs
    <3>6. roleMatches(b) = {} /\ roleMatches(b)' = {}
      BY <1>0, <1>2, <2>2 DEF roleMatches
    <3>7. Lasting(b) = {} /\ Lasting(b)' = {} /\ Revoked(b) /\ Revoked(b)'
      BY <3>4, <3>5, <3>6 DEF Lasting, Revoked
    <3>8. QED
      BY <1>0, <3>6, <3>7 DEF SameGrants
  <2>3. QED
    BY <2>1, <2>2
<1>3. QED
  BY <1>1, <1>2

\* No edit leaves a binding's host objects wrong with nothing to mend them.
LEMMA TenantsReconciled ==
    ASSUME Watched, ConvergenceInv, IInv', [Next]_vars, Tenants, NEW b \in Bindings
    PROVE  Reconciled(b)'
<1>0. /\ IInv /\ NoCollision /\ QueueType /\ Reconciled(b) /\ b.vc \in VClusters
      /\ UNCHANGED <<worker, queue, up, crashes>>
  <2>1. UNCHANGED <<worker, queue, up, crashes>>
    BY DEF Tenants, DeleteBinding, PutBinding, DeleteRole, PutRole, ChangeRole, EditSCC, Edit
  <2>2. QED
    BY <2>1, TypeParts, BindingTypes DEF Watched, ConvergenceInv, IInv
<1>1. CASE ~up[b.vc]
  BY <1>0, <1>1 DEF Reconciled
<1>2. ASSUME SameGrants(b), events[b.vc] \subseteq events'[b.vc]
      PROVE  Reconciled(b)'
  <2>1. SameHost(b)
    BY <1>0, OthersHost
  <2>2. ToReconcile(b) => ToReconcile(b)'
    BY <1>0, <1>2, StillToReconcile DEF SameGrants
  <2>3. QED
    BY <1>0, <1>2, <2>1, <2>2, Undisturbed
<1>3. ASSUME up[b.vc], ToReconcile(b)' PROVE Reconciled(b)'
  BY <1>3 DEF Reconciled
<1>4. ASSUME NEW v \in VClusters, NEW objs, Notify(v, objs)
      PROVE  events[b.vc] \subseteq events'[b.vc]
  BY <1>0, <1>4 DEF Notify, QueueType
<1>5. ASSUME NEW c \in Bindings,
             \/ DeleteBinding(c)
             \/ \E body \in Bodies(c) : PutBinding(c, body)
      PROVE  Reconciled(b)'
  <2>1. Notify(c.vc, {c}) /\ c.vc \in VClusters
    BY <1>5, BindingTypes DEF DeleteBinding, PutBinding
  <2>2. CASE c = b /\ up[b.vc]
    <3>1. b \in events'[b.vc]
      BY <1>0, <2>1, <2>2 DEF Notify, QueueType
    <3>2. b \in requests(b)'
      BY ConstantsAssumption DEF requests, Binding, ClusterBinding
    <3>3. QED
      BY <1>3, <2>2, <3>1, <3>2 DEF ToReconcile
  <2>3. CASE c # b
    <3>1. bindings'[b] = bindings[b] /\ UNCHANGED <<roles, sccs>>
      BY <1>0, <1>5, <2>3 DEF DeleteBinding, PutBinding, Edit, IInv, TypeOK
    <3>2. QED
      BY <1>2, <1>4, <2>1, <3>1, GrantsKept
  <2>4. QED
    BY <1>1, <2>2, <2>3
<1>6. ASSUME NEW r \in Roles, NEW rules, ChangeRole(r, rules)
      PROVE  Reconciled(b)'
  <2>1. r.vc \in VClusters
    BY ConstantsAssumption DEF Role
  <2>2. events[b.vc] \subseteq events'[b.vc]
    BY <1>4, <1>6, <2>1 DEF ChangeRole
  <2>3. QED
    BY <1>0, <1>1, <1>2, <1>3, <1>6, <2>2, RoleEditWakes DEF Watched
<1>7. ASSUME NEW v \in VClusters, NEW scc \in SCCNames, EditSCC(v, scc)
      PROVE  Reconciled(b)'
  <2>1. MaxSCCEdits # 0 /\ UNCHANGED <<bindings, roles>>
    BY <1>7, BoundsAssumption DEF EditSCC, ConvergenceInv, Stopped
  <2>2. SameGrants(b)
    BY <1>0, <2>1, SCCsKeepGrants
  <2>3. QED
    BY <1>2, <1>7, <2>2 DEF EditSCC
<1>8. QED
  BY <1>5, <1>6, <1>7 DEF Tenants, DeleteRole, PutRole

-----------------------------------------------------------------------------
(* The controllers' steps.                                                 *)

\* A step of one vCluster's controller leaves the tenants' objects and the
\* other controllers alone.
LEMMA OthersKept ==
    ASSUME IInv, NEW v \in VClusters, Deliver(v) \/ Work(v) \/ Faults(v) \/ Restart(v)
    PROVE  /\ UNCHANGED virtual
           /\ Crash(v) \/ UNCHANGED crashes
           /\ \A u \in VClusters \ {v} :
                 /\ up'[u] = up[u] /\ events'[u] = events[u]
                 /\ queue'[u] = queue[u] /\ worker'[u] = worker[u]
<1>0. QueueType /\ WorkerType
  BY TypeParts DEF IInv
<1> DEFINE Kept == /\ UNCHANGED <<virtual, crashes>>
                   /\ \A u \in VClusters \ {v} :
                         /\ up'[u] = up[u] /\ events'[u] = events[u]
                         /\ queue'[u] = queue[u] /\ worker'[u] = worker[u]
<1>1. CASE Deliver(v) \/ Restart(v) \/ MappingFails(v) \/ GetBindingFails(v) \/ ResolveFails(v)
  BY <1>0, <1>1 DEF Deliver, Restart, MappingFails, GetBindingFails, ResolveFails, VirtualFault,
     budgets, QueueType, WorkerType
<1>2. CASE Crash(v)
  BY <1>0, <1>2 DEF Crash, QueueType, WorkerType
<1>3. ASSUME UnchangedByWork, NEW w, Step(v, w) \/ Fail(v)
      PROVE  Kept
  BY <1>0, <1>3 DEF UnchangedByWork, Step, Fail, QueueType, WorkerType
<1>4. CASE Reconcile(v)
  BY <1>0, <1>4 DEF Reconcile, UnchangedByWork, QueueType, WorkerType
<1>5. CASE \/ GetRole(v) \/ ListSCCs(v) \/ EnsureClusterRole(v) \/ EnsureClusterRoleBinding(v)
           \/ ListHostBindings(v) \/ DeleteHostBinding(v) \/ ListHostRoles(v)
           \/ DeleteHostRole(v) \/ CleanupDone(v) \/ HostCallFails(v)
  <2>1. UnchangedByWork /\ \E w : Step(v, w) \/ Fail(v)
    BY <1>5 DEF GetRole, ListSCCs, EnsureClusterRole, EnsureClusterRoleBinding, ListHostBindings,
       DeleteHostBinding, ListHostRoles, DeleteHostRole, CleanupDone, HostCallFails
  <2>2. QED
    BY <1>3, <2>1
<1>6. QED
  BY <1>1, <1>2, <1>4, <1>5 DEF Work, Faults

\* Nor does any step of another vCluster's controller.
LEMMA OthersReconciled ==
    ASSUME Watched, ConvergenceInv, IInv', [Next]_vars, NEW b \in Bindings,
           NEW v \in VClusters, v # b.vc, Deliver(v) \/ Work(v) \/ Faults(v) \/ Restart(v)
    PROVE  Reconciled(b)'
<1>0. /\ IInv /\ NoCollision /\ QueueType /\ Reconciled(b) /\ b.vc \in VClusters /\ crashes \in Nat
  BY TypeParts, BindingTypes DEF Watched, ConvergenceInv, IInv, Stopped
<1>1. /\ UNCHANGED virtual
      /\ up'[b.vc] = up[b.vc] /\ events'[b.vc] = events[b.vc]
      /\ queue'[b.vc] = queue[b.vc] /\ worker'[b.vc] = worker[b.vc]
  BY <1>0, OthersKept
<1>2. crashes' = 0 => crashes = 0
  BY <1>0, OthersKept DEF Crash
<1>3. SameGrants(b) /\ SameHost(b)
  BY <1>0, <1>1, GrantsKept, OthersHost DEF virtual
<1>4. ToReconcile(b) => ToReconcile(b)'
  BY <1>0, <1>1, StillToReconcile DEF virtual
<1>5. QED
  BY <1>0, <1>1, <1>2, <1>3, <1>4, Undisturbed

\* The watches, and the pod's stops and starts.
LEMMA QueueReconciled ==
    ASSUME Watched, ConvergenceInv, IInv', [Next]_vars, NEW b \in Bindings,
           Deliver(b.vc) \/ GetBindingFails(b.vc) \/ Crash(b.vc) \/ Restart(b.vc)
    PROVE  Reconciled(b)'
<1> DEFINE v == b.vc
<1>0. /\ IInv /\ NoCollision /\ QueueType /\ Reconciled(b) /\ v \in VClusters
      /\ WorkerType
  BY TypeParts, BindingTypes DEF Watched, ConvergenceInv, IInv
<1>1. CASE Crash(v)
  BY <1>0, <1>1 DEF Crash, QueueType, Reconciled
<1>2. CASE Restart(v)
  <2>1. /\ worker[v].pc = "idle" /\ crashes # 0
        /\ UNCHANGED <<bindings, worker, crashes>> /\ events'[v] = Existing(v)
    BY <1>0, <1>2 DEF Restart, ConvergenceInv, Stopped, virtual, budgets, QueueType
  <2>2. CASE bindings[b] # None
    <3>1. b \in events'[v] /\ b \in requests(b)'
      BY <2>1, <2>2, ConstantsAssumption DEF Existing, requests, Binding, ClusterBinding
    <3>2. QED
      BY <3>1 DEF Reconciled, ToReconcile
  <2>3. CASE bindings[b] = None
    <3>1. Lasting(b)' = {} /\ ~WorksOn(b)'
      BY <2>1, <2>3 DEF Lasting, grantedSubjects, WorksOn
    <3>2. Right(b)'
      BY <2>1, <2>3, <3>1 DEF Right
    <3>3. QED
      BY <3>1, <3>2 DEF Reconciled
  <2>4. QED
    BY <2>2, <2>3
<1>3. CASE Deliver(v) \/ GetBindingFails(v)
  <2>1. UNCHANGED <<virtual, host, up, worker, crashes>>
    BY <1>3 DEF Deliver, GetBindingFails, VirtualFault, budgets
  <2>2. SameGrants(b) /\ SameHost(b)
    BY <1>0, <2>1, GrantsKept, OthersHost DEF virtual
  <2>3. ToReconcile(b) => ToReconcile(b)'
    <3>1. CASE GetBindingFails(v)
      BY <1>0, <2>1, <3>1, StillToReconcile DEF GetBindingFails, virtual
    <3>2. CASE Deliver(v)
      <4>1. PICK obj \in events[v] :
                /\ events' = [events EXCEPT ![v] = @ \ {obj}]
                /\ queue' = [queue EXCEPT ![v] = @ \cup requests(obj)]
        BY <3>2 DEF Deliver
      <4>2. /\ events'[v] = events[v] \ {obj} /\ queue'[v] = queue[v] \cup requests(obj)
            /\ events[v] \subseteq Bindings \cup Roles
        BY <1>0, <4>1 DEF QueueType
      <4>3. \A x \in events[v] : b \in requests(x) => b \in requests(x)'
        BY <2>1, <4>2, Waking DEF virtual
      <4>4. QED
        BY <4>2, <4>3 DEF ToReconcile
    <3>3. QED
      BY <1>3, <3>1, <3>2
  <2>4. QED
    BY <1>0, <2>1, <2>2, <2>3, Undisturbed
<1>4. QED
  BY <1>1, <1>2, <1>3

\* A reconcile that starts works on its binding or leaves it as it was.
LEMMA ReconcileReconciled ==
    ASSUME Watched, ConvergenceInv, IInv', [Next]_vars, NEW b \in Bindings, Reconcile(b.vc)
    PROVE  Reconciled(b)'
<1> DEFINE v == b.vc
<1>0. /\ IInv /\ NoCollision /\ QueueType /\ Reconciled(b) /\ v \in VClusters /\ WorkerType
      /\ UNCHANGED <<virtual, host, up, events, crashes>> /\ worker[v].pc = "idle"
  BY TypeParts, BindingTypes DEF Watched, ConvergenceInv, IInv, Reconcile, UnchangedByWork
<1>1. PICK c \in queue[v] :
          /\ queue' = [queue EXCEPT ![v] = @ \ {c}]
          /\ worker' = [worker EXCEPT ![v] =
                IF bindings[c] = None
                THEN StartCleanup([Idle EXCEPT !.req = c])
                ELSE [Idle EXCEPT !.pc = "getRole", !.req = c, !.body = bindings[c]]]
  BY DEF Reconcile
<1>2. queue'[v] = queue[v] \ {c}
  BY <1>0, <1>1 DEF QueueType
<1>3. worker'[v] = IF bindings[c] = None
                   THEN StartCleanup([Idle EXCEPT !.req = c])
                   ELSE [Idle EXCEPT !.pc = "getRole", !.req = c, !.body = bindings[c]]
  BY <1>0, <1>1 DEF WorkerType
<1>4. CASE c = b
  <2>1. CASE bindings[b] = None
    <3>1. worker'[v].pc = "listCRB" /\ worker'[v].req = b
      BY <1>3, <1>4, <2>1 DEF StartCleanup, Idle
    <3>2. Lasting(b)' = {}
      BY <1>0, <2>1 DEF Lasting, grantedSubjects, virtual
    <3>3. QED
      BY <3>1, <3>2 DEF Reconciled, WorksOn, OnTrack
  <2>2. CASE bindings[b] # None
    <3>1. worker'[v].pc = "getRole" /\ worker'[v].req = b /\ worker'[v].body = bindings[b]
      BY <1>3, <1>4, <2>2 DEF Idle
    <3>2. QED
      BY <1>0, <2>2, <3>1 DEF Reconciled, WorksOn, OnTrack, virtual
  <2>3. QED
    BY <2>1, <2>2
<1>5. CASE c # b
  <2>1. ~WorksOn(b) /\ ~WorksOn(b)'
    BY <1>0, <1>3, <1>5 DEF WorksOn, StartCleanup, Idle
  <2>2. ToReconcile(b) => ToReconcile(b)'
    <3>1. CASE b \in queue[v]
      BY <1>2, <1>5, <3>1 DEF ToReconcile
    <3>2. ASSUME NEW obj \in events[v], b \in requests(obj) PROVE ToReconcile(b)'
      <4>1. obj \in Bindings \cup Roles
        BY <1>0 DEF QueueType
      <4>2. b \in requests(obj)'
        BY <1>0, <3>2, <4>1, Waking DEF virtual
      <4>3. QED
        BY <1>0, <4>2 DEF ToReconcile
    <3>3. QED
      BY <3>1, <3>2 DEF ToReconcile
  <2>3. SameGrants(b) /\ SameHost(b)
    BY <1>0, <2>1, GrantsKept, OthersHost DEF virtual
  <2>4. QED
    BY <1>0, <2>1, <2>2, <2>3, Undisturbed
<1>6. QED
  BY <1>4, <1>5

\* The actions of a worker that is not idle.
Going(v) ==
    \/ GetRole(v) \/ ListSCCs(v) \/ EnsureClusterRole(v) \/ EnsureClusterRoleBinding(v)
    \/ ListHostBindings(v) \/ DeleteHostBinding(v) \/ ListHostRoles(v)
    \/ DeleteHostRole(v) \/ CleanupDone(v) \/ HostCallFails(v)

\* A reconcile under way keeps its key, ends, or fails and queues it again.
LEMMA GoingKeeps ==
    ASSUME IInv, NEW v \in VClusters, Going(v)
    PROVE  /\ UnchangedByWork /\ worker[v].pc # "idle"
           /\ \/ Fail(v)
              \/ /\ UNCHANGED queue
                 /\ worker'[v].pc = "idle" \/ worker'[v].req = worker[v].req
<1>0. worker \in [VClusters -> Workers]
  BY DEF IInv, TypeOK
<1>1. ASSUME NEW w, Step(v, w), w.pc = "idle" \/ w.req = worker[v].req
      PROVE  UNCHANGED queue /\ (worker'[v].pc = "idle" \/ worker'[v].req = worker[v].req)
  BY <1>0, <1>1 DEF Step
<1>2. UnchangedByWork /\ worker[v].pc # "idle"
  BY DEF Going, GetRole, ListSCCs, EnsureClusterRole, EnsureClusterRoleBinding, ListHostBindings,
     DeleteHostBinding, ListHostRoles, DeleteHostRole, CleanupDone, HostCallFails
<1>3. Fail(v) \/ \E w : Step(v, w) /\ (w.pc = "idle" \/ w.req = worker[v].req)
  <2>1. worker[v] \in Workers
    BY <1>0
  <2> DEFINE w == worker[v]
             Ends(x) == x.pc = "idle" \/ x.req = w.req
  <2>2. CASE GetRole(v)
    <3>1. \A m : Ends(StartCleanup(w)) /\ Ends([w EXCEPT !.pc = "listSCCs", !.matches = m])
      BY <2>1 DEF StartCleanup, Idle, Workers
    <3>2. QED
      BY <2>2, <3>1 DEF GetRole
  <2>3. CASE ListSCCs(v)
    <3>1. \A g : /\ Ends(StartCleanup(w))
                 /\ Ends([w EXCEPT !.pc = "ensureCR", !.matches = {}, !.grants = g])
      BY <2>1 DEF StartCleanup, Idle, Workers
    <3>2. QED
      BY <2>3, <3>1 DEF ListSCCs
  <2>4. CASE EnsureClusterRole(v)
    <3>1. \A scc : Ends([w EXCEPT !.pc = "ensureCRB", !.current = scc])
      BY <2>1 DEF Workers
    <3>2. QED
      BY <2>4, <3>1 DEF EnsureClusterRole
  <2>5. CASE EnsureClusterRoleBinding(v)
    <3>1. \A g : Ends(Idle) /\ Ends([w EXCEPT !.pc = "ensureCR", !.grants = g, !.current = None])
      BY <2>1 DEF Idle, Workers
    <3>2. QED
      BY <2>5, <3>1 DEF EnsureClusterRoleBinding
  <2>6. CASE \/ ListHostBindings(v) \/ DeleteHostBinding(v) \/ ListHostRoles(v)
             \/ DeleteHostRole(v) \/ CleanupDone(v) \/ HostCallFails(v)
    <3>1. \A d : /\ Ends(Idle) /\ Ends([w EXCEPT !.doomed = d])
                 /\ Ends([w EXCEPT !.pc = "deleteCRB", !.doomed = d])
                 /\ Ends([w EXCEPT !.pc = "deleteCR", !.doomed = d])
      BY <2>1 DEF Idle, Workers
    <3>2. QED
      BY <2>6, <3>1 DEF ListHostBindings, DeleteHostBinding, ListHostRoles,
         DeleteHostRole, CleanupDone, HostCallFails
  <2>7. QED
    BY <2>2, <2>3, <2>4, <2>5, <2>6 DEF Going
<1>4. QED
  BY <1>1, <1>2, <1>3

\* A reconcile of another binding does not concern b.
LEMMA GoingOthers ==
    ASSUME Watched, ConvergenceInv, IInv', [Next]_vars, NEW b \in Bindings, Going(b.vc),
           ~WorksOn(b)
    PROVE  Reconciled(b)'
<1> DEFINE v == b.vc
<1>0. /\ IInv /\ NoCollision /\ QueueType /\ Reconciled(b) /\ v \in VClusters /\ WorkerType
  BY TypeParts, BindingTypes DEF Watched, ConvergenceInv, IInv
<1>1. /\ UnchangedByWork /\ worker[v].pc # "idle"
      /\ \/ Fail(v)
         \/ /\ UNCHANGED queue
            /\ worker'[v].pc = "idle" \/ worker'[v].req = worker[v].req
  BY <1>0, GoingKeeps
<1>2. ~WorksOn(b)'
  <2>1. Fail(v) => worker'[v].pc = "idle"
    BY <1>0 DEF Fail, WorkerType, Idle
  <2>2. QED
    BY <1>1, <2>1 DEF WorksOn
<1>3. queue[v] \subseteq queue'[v]
  BY <1>0, <1>1 DEF Fail, QueueType
<1>4. SameGrants(b) /\ SameHost(b)
  BY <1>0, <1>1, GrantsKept, OthersHost DEF UnchangedByWork, virtual
<1>5. ToReconcile(b) => ToReconcile(b)'
  BY <1>0, <1>1, <1>3, StillToReconcile DEF UnchangedByWork, virtual
<1>6. QED
  BY <1>0, <1>1, <1>2, <1>4, <1>5, Undisturbed DEF UnchangedByWork

\* A reconcile that fails, or whose key is queued, is not the last one.
LEMMA GoingAgain ==
    ASSUME Watched, ConvergenceInv, IInv', NEW b \in Bindings, Going(b.vc),
           WorksOn(b), Fail(b.vc) \/ ToReconcile(b)
    PROVE  Reconciled(b)'
<1> DEFINE v == b.vc
<1>0. /\ IInv /\ QueueType /\ v \in VClusters
  BY TypeParts, BindingTypes DEF ConvergenceInv, IInv
<1>1. UnchangedByWork /\ (Fail(v) \/ UNCHANGED queue)
  BY <1>0, GoingKeeps
<1>2. CASE Fail(v)
  <2>1. b \in queue'[v]
    BY <1>0, <1>2 DEF Fail, QueueType, WorksOn
  <2>2. QED
    BY <2>1 DEF Reconciled, ToReconcile
<1>3. CASE ToReconcile(b)
  <2>1. queue[v] \subseteq queue'[v]
    BY <1>0, <1>1 DEF Fail, QueueType
  <2>2. ToReconcile(b)'
    BY <1>0, <1>1, <1>3, <2>1, StillToReconcile DEF UnchangedByWork, virtual
  <2>3. QED
    BY <2>2 DEF Reconciled
<1>4. QED
  BY <1>2, <1>3

\* The reads of a reconcile find what its binding grants (reconcileBinding,
\* l.91-116).
LEMMA ReadsOnTrack ==
    ASSUME IInv, NEW b \in Bindings, WorksOn(b), OnTrack(b), GetRole(b.vc) \/ ListSCCs(b.vc)
    PROVE  WorksOn(b)' /\ OnTrack(b)'
<1> DEFINE v == b.vc
           w == worker[v]
<1>0. /\ v \in VClusters /\ WorkerType /\ w \in Workers /\ w.req = b
      /\ bindings[b] # None /\ w.body = bindings[b] /\ UnchangedByWork
  BY TypeParts, BindingTypes DEF IInv, WorkerType, WorksOn, OnTrack, GetRole, ListSCCs
<1>1. SameGrants(b)
  BY <1>0, GrantsKept DEF UnchangedByWork, virtual
<1>2. ASSUME worker'[v] = StartCleanup(w), Lasting(b) = {}
      PROVE  WorksOn(b)' /\ OnTrack(b)'
  <2>1. worker'[v].pc = "listCRB" /\ worker'[v].req = b
    BY <1>0, <1>2 DEF StartCleanup, Idle
  <2>2. QED
    BY <1>1, <1>2, <2>1 DEF WorksOn, OnTrack, SameGrants
<1>3. CASE GetRole(v)
  <2>1. worker'[v] = IF roleMatches(b) = {} THEN StartCleanup(w)
                     ELSE [w EXCEPT !.pc = "listSCCs", !.matches = roleMatches(b)]
    BY <1>0, <1>3 DEF GetRole, Step, roleMatches, WorkerType
  <2>2. CASE roleMatches(b) = {}
    <3>1. Lasting(b) = {}
      BY <2>2, LastingGrants DEF Revoked
    <3>2. QED
      BY <1>2, <2>1, <2>2, <3>1
  <2>3. CASE roleMatches(b) # {}
    <3>1. /\ worker'[v].pc = "listSCCs" /\ worker'[v].req = b
          /\ worker'[v].body = bindings[b] /\ worker'[v].matches = roleMatches(b)
      BY <1>0, <2>1, <2>3 DEF Workers
    <3>2. QED
      BY <1>0, <1>1, <3>1 DEF WorksOn, OnTrack, SameGrants
  <2>4. QED
    BY <2>2, <2>3
<1>4. CASE ListSCCs(v)
  <2>1. w.matches = roleMatches(b)
    BY <1>4 DEF ListSCCs, OnTrack
  <2>2. /\ resolveSCCMatches(w.matches, sccs[v]) = grantedSCCs(b)
        /\ translateSubjects(w.req, w.body.subjects) = grantedSubjects(b)
    BY <1>0, <2>1, GrantsOfMatches DEF grantedSubjects
  <2>3. worker'[v] = IF grantedSCCs(b) = {} \/ grantedSubjects(b) = {} THEN StartCleanup(w)
                     ELSE [w EXCEPT !.pc = "ensureCR", !.matches = {}, !.grants = grantedSCCs(b)]
    BY <1>0, <1>4, <2>2 DEF ListSCCs, Step, WorkerType
  <2>4. CASE grantedSCCs(b) = {} \/ grantedSubjects(b) = {}
    BY <1>2, <2>3, <2>4, LastingGrants DEF Desired
  <2>5. CASE grantedSCCs(b) # {} /\ grantedSubjects(b) # {}
    <3>1. /\ worker'[v].pc = "ensureCR" /\ worker'[v].req = b
          /\ worker'[v].body = bindings[b] /\ worker'[v].grants = grantedSCCs(b)
      BY <1>0, <2>3, <2>5 DEF Workers
    <3>2. Lasting(b) \subseteq grantedSCCs(b) /\ ~Revoked(b)
      BY <2>2, <2>5, GrantsOfMatches, LastingGrants DEF Desired, Revoked, resolveSCCMatches
    <3>3. QED
      BY <1>0, <1>1, <2>5, <3>1, <3>2 DEF WorksOn, OnTrack, SameGrants
  <2>6. QED
    BY <2>4, <2>5
<1>5. QED
  BY <1>3, <1>4

\* The writes of a reconcile put one grant after the other in place
\* (ensureHostRBAC, l.258-333).
LEMMA EnsureOnTrack ==
    ASSUME IInv, NEW b \in Bindings, WorksOn(b), OnTrack(b), NEW s \in SCCNames,
           NEW w, worker'[b.vc] = w,
           UnchangedByWork,
           \/ /\ worker[b.vc].pc = "ensureCR" /\ s \in worker[b.vc].grants
              /\ hostCR' = [hostCR EXCEPT ![hostName(b, s)] = HostRole(b, s)]
              /\ UNCHANGED hostCRB
              /\ w = [worker[b.vc] EXCEPT !.pc = "ensureCRB", !.current = s]
           \/ /\ worker[b.vc].pc = "ensureCRB" /\ s = worker[b.vc].current
              /\ hostCRB' = [hostCRB EXCEPT ![hostName(b, s)] = HostBinding(b, grantedSubjects(b))]
              /\ UNCHANGED hostCR
              /\ LET left == worker[b.vc].grants \ {s}
                 IN  w = IF left = {} THEN Idle
                         ELSE [worker[b.vc] EXCEPT !.pc = "ensureCR", !.grants = left,
                                                   !.current = None]
    PROVE  (WorksOn(b)' /\ OnTrack(b)') \/ (~WorksOn(b)' /\ Right(b)')
<1> DEFINE v == b.vc
           before == worker[v]
<1>0. /\ before \in Workers /\ before.req = b /\ hostName(b, s) \in HostNames
      /\ DOMAIN hostCR = HostNames /\ DOMAIN hostCRB = HostNames
      /\ bindings[b] # None /\ before.body = bindings[b]
      /\ ~Revoked(b) /\ Lasting(b) \subseteq SCCNames
      /\ \A scc \in Lasting(b) \ before.grants : InPlace(b, scc)
  <2>1. /\ before \in Workers /\ before.req = b /\ hostName(b, s) \in HostNames
        /\ DOMAIN hostCR = HostNames /\ DOMAIN hostCRB = HostNames
    BY BindingTypes DEF IInv, TypeOK, WorksOn
  <2>2. Lasting(b) \subseteq SCCNames
    BY LastingNames DEF IInv
  <2>3. QED
    BY <2>1, <2>2 DEF OnTrack
<1>1. SameGrants(b) /\ grantedSubjects(b)' = grantedSubjects(b)
  BY GrantsKept DEF UnchangedByWork, virtual, grantedSubjects
<1>2. \A t \in SCCNames \ {s} : hostName(b, t) # hostName(b, s)
  BY NamesOfOne
<1>3. \A t \in SCCNames \ {s} : InPlace(b, t) => InPlace(b, t)'
  BY <1>0, <1>1, <1>2, BindingTypes DEF InPlace
<1>4. CASE before.pc = "ensureCR"
  <2>1. /\ worker'[v].pc = "ensureCRB" /\ worker'[v].req = b /\ worker'[v].current = s
        /\ worker'[v].body = bindings[b] /\ worker'[v].grants = before.grants
        /\ s \in before.grants /\ hostCR'[hostName(b, s)] = HostRole(b, s)
    BY <1>0, <1>4 DEF Workers
  <2>2. \A t \in Lasting(b) \ before.grants : InPlace(b, t)'
    BY <1>0, <1>3, <2>1
  <2>3. WorksOn(b)'
    BY <2>1 DEF WorksOn
  <2>4. OnTrack(b)'
    BY <1>0, <1>1, <2>1, <2>2 DEF OnTrack, SameGrants
  <2>5. QED
    BY <2>3, <2>4
<1>5. CASE before.pc = "ensureCRB"
  <2> DEFINE left == before.grants \ {s}
  <2>1. InPlace(b, s)'
    <3>1. hostCR[hostName(b, s)] = HostRole(b, s)
      BY <1>5 DEF OnTrack
    <3>2. /\ UNCHANGED hostCR
          /\ hostCRB' = [hostCRB EXCEPT ![hostName(b, s)] = HostBinding(b, grantedSubjects(b))]
      BY <1>5
    <3>3. QED
      BY <1>0, <1>1, <3>1, <3>2 DEF InPlace
  <2>2. \A t \in Lasting(b) \ left : InPlace(b, t)'
    BY <1>0, <1>3, <2>1
  <2>3. CASE left = {}
    <3>1. worker'[v].pc = "idle"
      BY <1>5, <2>3 DEF Idle
    <3>2. Right(b)'
      BY <1>0, <1>1, <2>2, <2>3 DEF Right, SameGrants
    <3>3. QED
      BY <3>1, <3>2 DEF WorksOn
  <2>4. CASE left # {}
    <3>1. /\ worker'[v].pc = "ensureCR" /\ worker'[v].req = b
          /\ worker'[v].body = bindings[b] /\ worker'[v].grants = left
      BY <1>0, <1>5, <2>4 DEF Workers
    <3>2. WorksOn(b)'
      BY <3>1 DEF WorksOn
    <3>3. OnTrack(b)'
      BY <1>0, <1>1, <2>2, <3>1 DEF OnTrack, SameGrants
    <3>4. QED
      BY <3>2, <3>3
  <2>5. QED
    BY <2>3, <2>4
<1>6. QED
  BY <1>4, <1>5

\* A cleanup leaves nothing with the binding's labels (cleanupHostRBAC,
\* l.335-364).
LEMMA CleanupOnTrack ==
    ASSUME IInv, IInv', NEW b \in Bindings, WorksOn(b), OnTrack(b), ~Fail(b.vc),
           \/ ListHostBindings(b.vc) \/ DeleteHostBinding(b.vc) \/ ListHostRoles(b.vc)
           \/ DeleteHostRole(b.vc) \/ CleanupDone(b.vc)
    PROVE  (WorksOn(b)' /\ OnTrack(b)') \/ (~WorksOn(b)' /\ Right(b)')
<1> DEFINE v == b.vc
           w == worker[v]
<1>0. /\ WorkerType /\ v \in VClusters /\ w \in Workers /\ w.req = b
      /\ w.pc \in {"listCRB", "deleteCRB", "deleteCR"} /\ Lasting(b) = {} /\ UnchangedByWork
  <2>1. w.pc \in {"listCRB", "deleteCRB", "deleteCR"} /\ UnchangedByWork
    BY DEF ListHostBindings, DeleteHostBinding, ListHostRoles, DeleteHostRole, CleanupDone
  <2>2. WorkerType /\ v \in VClusters /\ w \in Workers
    BY TypeParts, BindingTypes DEF IInv, WorkerType
  <2>3. QED
    BY <2>1, <2>2 DEF WorksOn, OnTrack
<1>1. SameGrants(b)
  BY <1>0, GrantsKept DEF UnchangedByWork, virtual
<1>2. CASE ListHostBindings(v) \/ DeleteHostBinding(v)
  <2>1. \E d : \/ worker'[v] = [w EXCEPT !.pc = "deleteCRB", !.doomed = d]
               \/ worker'[v] = [w EXCEPT !.doomed = d]
    BY <1>0, <1>2 DEF ListHostBindings, DeleteHostBinding, Step, WorkerType
  <2>2. \/ worker'[v].pc = "deleteCRB"
        \/ worker'[v].pc = w.pc /\ w.pc # "deleteCR"
    BY <1>0, <1>2, <2>1 DEF ListHostBindings, DeleteHostBinding, Workers
  <2>3. worker'[v].req = b
    BY <1>0, <2>1 DEF Workers
  <2>4. QED
    BY <1>0, <1>1, <2>2, <2>3 DEF WorksOn, OnTrack, SameGrants
<1>3. CASE ListHostRoles(v)
  <2>1. /\ worker'[v] = [w EXCEPT !.pc = "deleteCR", !.doomed = labelled(hostCR, b)]
        /\ UNCHANGED hostCR
    BY <1>0, <1>3 DEF ListHostRoles, Step, WorkerType, host
  <2>2. /\ worker'[v].pc = "deleteCR" /\ worker'[v].req = b
        /\ worker'[v].doomed = labelled(hostCR, b) /\ labelled(hostCR, b)' = labelled(hostCR, b)
    BY <1>0, <2>1 DEF Workers, labelled
  <2>3. QED
    BY <1>0, <1>1, <2>2 DEF WorksOn, OnTrack, SameGrants
<1>4. CASE DeleteHostRole(v)
  <2>1. PICK n \in w.doomed :
            /\ hostCR' = [hostCR EXCEPT ![n] = None]
            /\ worker'[v] = [w EXCEPT !.doomed = @ \ {n}]
    BY <1>0, <1>4 DEF DeleteHostRole, Step, WorkerType
  <2>2. /\ worker'[v].pc = "deleteCR" /\ worker'[v].req = b
        /\ worker'[v].doomed = w.doomed \ {n}
    BY <1>0, <1>4, <2>1 DEF Workers, DeleteHostRole
  <2>3. labelled(hostCR, b) \subseteq w.doomed /\ DOMAIN hostCR = HostNames
    BY <1>4 DEF DeleteHostRole, OnTrack, IInv, TypeOK
  <2>4. labelled(hostCR, b)' \subseteq w.doomed \ {n}
    BY <2>1, <2>3 DEF labelled
  <2>5. QED
    BY <1>0, <1>1, <2>2, <2>4 DEF WorksOn, OnTrack, SameGrants
<1>5. CASE CleanupDone(v)
  <2>1. worker'[v].pc = "idle" /\ UNCHANGED host
    BY <1>0, <1>5 DEF CleanupDone, Step, WorkerType, Idle
  <2>2. OwnsNothing(b)
    <3>1. labelled(hostCR, b) = {}
      BY <1>5 DEF CleanupDone, OnTrack
    <3>2. labelled(hostCRB, b) = {}
      BY <1>0, <1>5 DEF CleanupDone, IInv, WorkersInFlight, InFlight
    <3>3. QED
      BY <3>1, <3>2 DEF OwnsNothing
  <2>3. OwnsNothing(b)'
    BY <2>1, <2>2 DEF OwnsNothing, labelled, host
  <2>4. Right(b)'
    BY <1>0, <1>1, <2>3 DEF Right, SameGrants
  <2>5. QED
    BY <2>1, <2>4 DEF WorksOn
<1>6. QED
  BY <1>2, <1>3, <1>4, <1>5

\* A reconcile's own steps bring its binding's host objects nearer to right.
LEMMA GoingOwn ==
    ASSUME Watched, ConvergenceInv, IInv', NEW b \in Bindings, Going(b.vc), WorksOn(b)
    PROVE  Reconciled(b)'
<1> DEFINE v == b.vc
           w == worker[v]
<1>0. IInv /\ v \in VClusters /\ WorkerType /\ w \in Workers /\ w.req = b /\ w.pc # "idle"
  BY TypeParts, BindingTypes DEF ConvergenceInv, IInv, WorkerType, WorksOn
<1>1. CASE Fail(v) \/ ToReconcile(b)
  BY <1>1, GoingAgain
<1>2. CASE ~Fail(v) /\ ~ToReconcile(b)
  <2>1. OnTrack(b)
    BY <1>0, <1>2 DEF ConvergenceInv, Reconciled, Stopped
  <2> SUFFICES (WorksOn(b)' /\ OnTrack(b)') \/ (~WorksOn(b)' /\ Right(b)')
    BY DEF Reconciled
  <2>2. CASE GetRole(v) \/ ListSCCs(v)
    BY <1>0, <2>1, <2>2, ReadsOnTrack
  <2>3. CASE EnsureClusterRole(v)
    <3>1. PICK s \in w.grants :
              /\ hostCR' = [hostCR EXCEPT ![hostName(b, s)] = HostRole(b, s)]
              /\ worker'[v] = [w EXCEPT !.pc = "ensureCRB", !.current = s]
      BY <1>0, <1>2, <2>3 DEF EnsureClusterRole, Step, WorkerType
    <3>2. s \in SCCNames
      BY <1>0 DEF Workers
    <3>3. w.pc = "ensureCR" /\ UNCHANGED hostCRB /\ UnchangedByWork
      BY <2>3 DEF EnsureClusterRole
    <3>4. QED
      BY <1>0, <2>1, <3>1, <3>2, <3>3, EnsureOnTrack
  <2>4. CASE EnsureClusterRoleBinding(v)
    <3> DEFINE left == w.grants \ {w.current}
    <3>1. w.pc = "ensureCRB" /\ UNCHANGED hostCR /\ UnchangedByWork /\ w.current \in SCCNames
      BY <1>0, <2>4 DEF EnsureClusterRoleBinding, IInv, TypeOK
    <3>2. translateSubjects(w.req, w.body.subjects) = grantedSubjects(b)
      BY <1>0, <2>1, <3>1 DEF OnTrack, grantedSubjects
    <3>3. /\ hostCRB' = [hostCRB EXCEPT ![hostName(b, w.current)] =
                            HostBinding(b, grantedSubjects(b))]
          /\ worker'[v] = IF left = {} THEN Idle
                          ELSE [w EXCEPT !.pc = "ensureCR", !.grants = left, !.current = None]
      BY <1>0, <1>2, <2>4, <3>2 DEF EnsureClusterRoleBinding, Step, WorkerType
    <3>4. QED
      BY <1>0, <2>1, <3>1, <3>3, EnsureOnTrack
  <2>5. CASE \/ ListHostBindings(v) \/ DeleteHostBinding(v) \/ ListHostRoles(v)
             \/ DeleteHostRole(v) \/ CleanupDone(v)
    BY <1>0, <1>2, <2>1, <2>5, CleanupOnTrack
  <2>6. CASE HostCallFails(v)
    BY <1>2, <2>6 DEF HostCallFails
  <2>7. QED
    BY <2>2, <2>3, <2>4, <2>5, <2>6 DEF Going
<1>3. QED
  BY <1>1, <1>2

-----------------------------------------------------------------------------
\* A controller that has stopped does nothing, whatever step is taken.
LEMMA StoppedKept ==
    ASSUME IInv, Stopped, [Next]_vars
    PROVE  Stopped'
<1>0. WorkerType /\ up \in [VClusters -> BOOLEAN] /\ crashes \in Nat /\ sccEdits \in Nat
  BY TypeParts DEF IInv, TypeOK, Stopped
<1>1. CASE UNCHANGED vars
  BY <1>1 DEF vars, budgets, Stopped
<1>2. CASE Tenants
  <2>1. UNCHANGED <<worker, up, crashes>> /\ sccEdits' \in {sccEdits, sccEdits + 1}
    BY <1>2 DEF Tenants, DeleteBinding, PutBinding, DeleteRole, PutRole, ChangeRole, EditSCC, Edit
  <2>2. QED
    BY <1>0, <2>1 DEF Stopped
<1>3. ASSUME NEW v \in VClusters, Deliver(v) \/ Work(v) \/ Faults(v) \/ Restart(v)
      PROVE  Stopped'
  <2>1. UNCHANGED sccEdits
    BY <1>3 DEF Deliver, Work, Faults, Restart, budgets, Reconcile, GetRole, ListSCCs,
       EnsureClusterRole, EnsureClusterRoleBinding, ListHostBindings, DeleteHostBinding,
       ListHostRoles, DeleteHostRole, CleanupDone, UnchangedByWork, MappingFails,
       GetBindingFails, ResolveFails, VirtualFault, HostCallFails, Crash
  <2>2. CASE Crash(v)
    BY <1>0, <2>1, <2>2 DEF Crash, Stopped, WorkerType, Idle
  <2>3. CASE ~Crash(v)
    <3>1. UNCHANGED crashes
      BY <1>3, <2>3, OthersKept
    <3>2. \A u \in VClusters \ {v} : up'[u] = up[u] /\ worker'[u] = worker[u]
      BY <1>3, OthersKept
    <3>3. up'[v] \/ (up'[v] = up[v] /\ (worker'[v] = worker[v] \/ worker[v].pc # "idle" \/ up[v]))
      <4>1. CASE Restart(v)
        BY <1>0, <4>1 DEF Restart
      <4>2. CASE \/ Deliver(v) \/ MappingFails(v) \/ GetBindingFails(v)
                 \/ ResolveFails(v) \/ Reconcile(v)
        BY <4>2 DEF Deliver, MappingFails, GetBindingFails, ResolveFails, VirtualFault,
           Reconcile, UnchangedByWork
      <4>3. CASE Going(v)
        <5>1. UnchangedByWork /\ worker[v].pc # "idle"
          BY <4>3, GoingKeeps
        <5>2. QED
          BY <5>1 DEF UnchangedByWork
      <4>4. QED
        BY <1>3, <2>3, <4>1, <4>2, <4>3 DEF Work, Faults, Going
    <3>4. QED
      BY <1>0, <2>1, <3>1, <3>2, <3>3 DEF Stopped
  <2>4. QED
    BY <2>2, <2>3
<1>4. QED
  BY <1>1, <1>2, <1>3 DEF Next

\* The inductive invariant holds at the start.
LEMMA ConvergenceInit == Init => ConvergenceInv
<1> SUFFICES ASSUME Init PROVE ConvergenceInv
  OBVIOUS
<1>1. IInv
  BY OrderInit
<1>2. Stopped
  BY DEF Init, Stopped
<1>3. ASSUME NEW b \in Bindings PROVE Reconciled(b)
  <2>1. b.vc \in VClusters
    BY BindingTypes
  <2>2. CASE bindings[b] # None
    <3>1. b \in events[b.vc] /\ b \in requests(b)
      BY <2>1, <2>2, ConstantsAssumption DEF Init, Existing, requests, Binding, ClusterBinding
    <3>2. QED
      BY <3>1 DEF Reconciled, ToReconcile
  <2>3. CASE bindings[b] = None
    <3>1. Lasting(b) = {} /\ ~WorksOn(b)
      BY <2>1, <2>3 DEF Init, Idle, Lasting, grantedSubjects, WorksOn
    <3>2. OwnsNothing(b)
      BY DEF Init, OwnsNothing, labelled
    <3>3. QED
      BY <3>1, <3>2 DEF Reconciled, Right
  <2>4. QED
    BY <2>2, <2>3
<1>4. QED
  BY <1>1, <1>2, <1>3 DEF ConvergenceInv

\* The reads that the code takes for an answer having succeeded, every step
\* keeps the inductive invariant.
LEMMA ConvergenceStep ==
    Watched /\ ConvergenceInv /\ [Next]_vars /\ [ReadsSucceed]_vars => ConvergenceInv'
<1> SUFFICES ASSUME Watched, ConvergenceInv, [Next]_vars, [ReadsSucceed]_vars
             PROVE  ConvergenceInv'
  OBVIOUS
<1>1. IInv'
  BY OrderStep DEF Watched, ConvergenceInv
<1>2. Stopped'
  BY StoppedKept DEF ConvergenceInv
<1>3. ASSUME NEW b \in Bindings PROVE Reconciled(b)'
  <2>1. CASE UNCHANGED vars
    <3>1. SameHost(b) /\ SameGrants(b)
      BY <2>1, GrantsKept DEF vars, host, virtual, SameHost
    <3>2. ToReconcile(b) => ToReconcile(b)'
      BY <2>1, StillToReconcile, TypeParts DEF vars, virtual, ConvergenceInv, IInv
    <3>3. QED
      BY <1>1, <2>1, <3>1, <3>2, Undisturbed DEF vars, budgets, Watched, ConvergenceInv
  <2>2. CASE Tenants
    BY <1>1, <2>2, TenantsReconciled
  <2>3. ASSUME NEW v \in VClusters, Deliver(v) \/ Work(v) \/ Faults(v) \/ Restart(v),
               ~UNCHANGED vars
        PROVE  Reconciled(b)'
    <3>1. CASE v # b.vc
      BY <1>1, <2>3, <3>1, OthersReconciled
    <3>2. CASE v = b.vc
      <4>1. ~MappingFails(v) /\ ~ResolveFails(v)
        BY <2>3 DEF ReadsSucceed
      <4>2. CASE Deliver(v) \/ GetBindingFails(v) \/ Crash(v) \/ Restart(v)
        BY <1>1, <3>2, <4>2, QueueReconciled
      <4>3. CASE Reconcile(v)
        BY <1>1, <3>2, <4>3, ReconcileReconciled
      <4>4. CASE Going(v)
        BY <1>1, <3>2, <4>4, GoingOwn, GoingOthers
      <4>5. QED
        BY <2>3, <4>1, <4>2, <4>3, <4>4 DEF Work, Faults, Going
    <3>3. QED
      BY <3>1, <3>2
  <2>4. QED
    BY <2>1, <2>2, <2>3 DEF Next
<1>4. QED
  BY <1>1, <1>2, <1>3 DEF ConvergenceInv

\* SCCs that come and go, by whatever hand, keep the inductive invariant.
LEMMA SCCsKeepConvergence ==
    ASSUME Watched, ConvergenceInv, MaxSCCEdits # 0,
           UNCHANGED <<bindings, roles, hostCR, hostCRB, up, events, queue, worker, crashes>>,
           sccs' \in [VClusters -> SUBSET SCCNames], sccEdits' \in Nat
    PROVE  ConvergenceInv'
<1>1. IInv'
  <2>1. TypeOK'
    BY DEF ConvergenceInv, IInv, TypeOK
  <2>2. KeysOwn'
    BY DEF ConvergenceInv, IInv, KeysOwn
  <2>3. LabelsMatch' /\ WorkersInFlight' /\ NoDanglingBinding'
    BY StillStep DEF ConvergenceInv, IInv, host
  <2>4. QED
    BY <2>1, <2>2, <2>3 DEF IInv
<1>2. Stopped'
  BY DEF ConvergenceInv, Stopped
<1>3. ASSUME NEW b \in Bindings PROVE Reconciled(b)'
  <2>1. SameGrants(b) /\ SameHost(b)
    BY SCCsKeepGrants DEF ConvergenceInv, SameHost
  <2>2. ToReconcile(b) => ToReconcile(b)'
    BY StillToReconcile, TypeParts DEF ConvergenceInv, IInv
  <2>3. QED
    BY <1>1, <2>1, <2>2, Undisturbed DEF Watched, ConvergenceInv
<1>4. QED
  BY <1>1, <1>2, <1>3 DEF ConvergenceInv

\* What a settled controller leaves on the host is right.
LEMMA SettledRight == ConvergenceInv => \A b \in Bindings : Settled(b.vc) => Right(b)
<1> SUFFICES ASSUME ConvergenceInv, NEW b \in Bindings, Settled(b.vc) PROVE Right(b)
  OBVIOUS
<1>1. up[b.vc] /\ ~WorksOn(b) /\ ~ToReconcile(b)
  BY DEF Settled, Idle, WorksOn, ToReconcile
<1>2. QED
  BY <1>1 DEF ConvergenceInv, Reconciled

\* What a settled controller leaves on the host for grants by name is right
\* even while SCCs come and go.
GrantsByNameInPlace ==
    \A b \in Bindings : Settled(b.vc) => \A scc \in Lasting(b) : InPlace(b, scc)

\* When a controller has nothing left to do, what every virtual binding
\* grants by name is granted on the host to exactly its subjects
\* (reconcileBinding, sccrbac.go:75-127), whatever host calls failed, however
\* often the syncer stopped and whatever SCCs came and went, as long as what it
\* reads of bindings and roles is watched and read.
THEOREM BridgeGrantsByName ==
    Watched => (Spec /\ [][ReadsSucceed]_vars => []GrantsByNameInPlace)
<1> SUFFICES ASSUME Watched PROVE Spec /\ [][ReadsSucceed]_vars => []GrantsByNameInPlace
  OBVIOUS
<1>1. ConvergenceInv => GrantsByNameInPlace
  BY SettledRight DEF GrantsByNameInPlace, Right
<1>2. ConvergenceInv /\ [Next]_vars /\ [ReadsSucceed]_vars => ConvergenceInv'
  BY ConvergenceStep
<1>3. QED
  BY <1>1, <1>2, ConvergenceInit, PTL DEF Spec

\* When the SCCs of wildcard grants stay, everything granted is in place.
THEOREM BridgeGrantsInPlace ==
    Watched /\ WildcardsStay => (Spec /\ [][ReadsSucceed]_vars => []GrantsInPlace)
<1> SUFFICES ASSUME Watched, WildcardsStay
             PROVE  Spec /\ [][ReadsSucceed]_vars => []GrantsInPlace
  OBVIOUS
<1>1. ConvergenceInv => GrantsInPlace
  BY SettledRight, LastingGrants DEF GrantsInPlace, Right
<1>2. ConvergenceInv /\ [Next]_vars /\ [ReadsSucceed]_vars => ConvergenceInv'
  BY ConvergenceStep
<1>3. QED
  BY <1>1, <1>2, ConvergenceInit, PTL DEF Spec

\* And a binding that grants nothing any more has no host object left
\* (cleanupHostRBAC, sccrbac.go:335-364), unless it is gone and a stop of a
\* syncer may have hidden its deletion.
THEOREM BridgeRevokes ==
    Watched /\ WildcardsStay => (Spec /\ [][ReadsSucceed]_vars => []RevokedGrantsGone)
<1> SUFFICES ASSUME Watched, WildcardsStay
             PROVE  Spec /\ [][ReadsSucceed]_vars => []RevokedGrantsGone
  OBVIOUS
<1>1. ConvergenceInv => RevokedGrantsGone
  BY SettledRight, LastingGrants DEF RevokedGrantsGone, Right
<1>2. ConvergenceInv /\ [Next]_vars /\ [ReadsSucceed]_vars => ConvergenceInv'
  BY ConvergenceStep
<1>3. QED
  BY <1>1, <1>2, ConvergenceInit, PTL DEF Spec

-----------------------------------------------------------------------------
(* Where names cannot collide.                                             *)

\* A name without two hyphens in a row.
Plain(name) == \A i \in 1..Len(name) : name[i] # ""

\* One vCluster, keys that are not cut, two hyphens in a row neither in a
\* namespace nor in the name of a ClusterRoleBinding, and no SCC name that ends in
\* another: two of them differ in a word, counted from their ends.
PlainNames ==
    /\ \A u, v \in VClusters : u = v
    /\ \A b \in Bindings :
           Len(bindingKey(b)) <= LabelMax /\ Plain(b.ns) /\ (b.kind = ClusterBinding => Plain(b.name))
    /\ \A s, t \in SCCNames : s # t =>
           \E i \in 1..Len(s), j \in 1..Len(t) : Len(s) - i = Len(t) - j /\ s[i] # t[j]

\* Names put together, and what tells two names apart.
LEMMA WordsJoined ==
    ASSUME NEW s \in AllWords, NEW t \in AllWords
    PROVE  /\ s \o t \in AllWords
           /\ Len(s) \in Nat /\ Len(t) \in Nat /\ Len(s \o t) = Len(s) + Len(t)
           /\ \A i \in 1..Len(s) : (s \o t)[i] = s[i]
           /\ \A i \in 1..Len(t) : (s \o t)[Len(s) + i] = t[i]
<1> DEFINE C == STRING \cup {"", "vc", "scc"}
<1>1. s \in Seq(C) /\ t \in Seq(C)
  BY DEF AllWords
<1> HIDE DEF C
<1>2. Len(s) \in Nat /\ Len(t) \in Nat
  BY <1>1
<1>3. /\ s \o t \in Seq(C) /\ Len(s \o t) = Len(s) + Len(t)
      /\ \A i \in 1 .. Len(s) + Len(t) : (s \o t)[i] =
                     IF i <= Len(s) THEN s[i] ELSE t[i - Len(s)]
  BY <1>1, ConcatProperties
<1>4. ASSUME NEW i \in 1..Len(t) PROVE (s \o t)[Len(s) + i] = t[i]
  <2>1. Len(s) + i \in 1 .. Len(s) + Len(t) /\ ~(Len(s) + i <= Len(s)) /\ (Len(s) + i) - Len(s) = i
    BY <1>2
  <2>2. QED
    BY <1>3, <2>1
<1>5. s \o t \in AllWords
  BY <1>3 DEF AllWords, C
<1>6. \A i \in 1..Len(s) : (s \o t)[i] = s[i]
  BY <1>2, <1>3
<1>7. QED
  BY <1>2, <1>3, <1>4, <1>5, <1>6

\* The same with operators in the place of those on sequences, which the prover
\* takes for arithmetic.
size(s) == Len(s)
word(s, i) == s[i]
join(s, t) == s \o t

LEMMA Joins ==
    \A s, t \in AllWords :
        /\ join(s, t) \in AllWords
        /\ size(s) \in Nat /\ size(join(s, t)) = size(s) + size(t)
        /\ \A i \in 1..size(s) : word(join(s, t), i) = word(s, i)
        /\ \A i \in 1..size(t) : word(join(s, t), size(s) + i) = word(t, i)
BY WordsJoined DEF size, word, join

LEMMA SameWords ==
    \A s, t \in AllWords :
        size(s) = size(t) /\ (\A i \in 1..size(s) : word(s, i) = word(t, i)) => s = t
BY SeqEqual DEF AllWords, size, word

LEMMA Numbers ==
    /\ \A a, b \in Nat : ~(a < b) /\ ~(b < a) => a = b
    /\ \A a, b, c, d \in Nat : a + b = c + d /\ a = c => b = d
    /\ \A a, b \in Nat : a < b => a + 1 \in 1..b
    /\ \A a \in Nat : \A i \in 1..a : i \in 1..a + 1
    /\ \A a \in Nat : a + 1 \in 1..a + 1
    /\ 1 \in 1..1
OBVIOUS

\* A join of names of equal length is one of equal names.
LEMMA JoinCut ==
    \A x, y, u, v \in AllWords :
        size(x) = size(u) /\ join(x, y) = join(u, v) => x = u /\ y = v
<1> SUFFICES ASSUME NEW x \in AllWords, NEW y \in AllWords, NEW u \in AllWords, NEW v \in AllWords,
                    size(x) = size(u), join(x, y) = join(u, v)
             PROVE  x = u /\ y = v
  OBVIOUS
<1>1. size(y) = size(v)
  <2>1. size(x) \in Nat /\ size(y) \in Nat /\ size(u) \in Nat /\ size(v) \in Nat
    BY Joins
  <2>2. size(join(x, y)) = size(x) + size(y) /\ size(join(u, v)) = size(u) + size(v)
    BY Joins, Zenon
  <2>3. QED
    BY <2>1, <2>2, Numbers, Zenon
<1>2. \A i \in 1..size(x) : word(x, i) = word(u, i)
  BY Joins
<1>3. \A i \in 1..size(y) : word(y, i) = word(v, i)
  BY <1>1, Joins
<1>4. QED
  BY <1>1, <1>2, <1>3, SameWords

\* Two hyphens join a namespace to a name: the first word of this kind in the
\* join of plain names is where they were joined.
Hyphens == <<"">>

LEMMA OneHyphens == Hyphens \in AllWords /\ size(Hyphens) = 1 /\ word(Hyphens, 1) = ""
BY Literals DEF Hyphens, size, word

LEMMA JoinMark ==
    \A x, y \in AllWords :
        /\ join(x, Hyphens) \in AllWords /\ size(join(x, Hyphens)) = size(x) + 1
        /\ size(x) \in Nat
        /\ word(join(join(x, Hyphens), y), size(x) + 1) = ""
        /\ \A i \in 1..size(x) : word(join(join(x, Hyphens), y), i) = word(x, i)
<1> SUFFICES ASSUME NEW x \in AllWords, NEW y \in AllWords
             PROVE  /\ join(x, Hyphens) \in AllWords /\ size(join(x, Hyphens)) = size(x) + 1
                    /\ size(x) \in Nat
                    /\ word(join(join(x, Hyphens), y), size(x) + 1) = ""
                    /\ \A i \in 1..size(x) : word(join(join(x, Hyphens), y), i) = word(x, i)
  OBVIOUS
<1>1. PICK m \in AllWords : m = join(x, Hyphens)
  BY Joins, OneHyphens
<1>2. size(m) = size(x) + 1 /\ size(x) \in Nat
  <2>1. size(join(x, Hyphens)) = size(x) + size(Hyphens) /\ size(x) \in Nat
    BY Joins, OneHyphens, Zenon
  <2>2. QED
    BY <1>1, <2>1, OneHyphens, Zenon
<1>3. \A i \in 1..size(x) : word(m, i) = word(x, i)
  <2>1. \A i \in 1..size(x) : word(join(x, Hyphens), i) = word(x, i)
    BY Joins, OneHyphens, Zenon
  <2>2. QED
    BY <1>1, <2>1, Zenon
<1>4. word(m, size(x) + 1) = ""
  <2>1. 1 \in 1..size(Hyphens)
    BY OneHyphens, Numbers, Zenon
  <2>2. QED
    BY <1>1, <2>1, Joins, OneHyphens, Zenon
<1>5. \A i \in 1..size(x) + 1 : word(join(m, y), i) = word(m, i)
  BY <1>2, Joins
<1>6. size(x) + 1 \in 1..size(x) + 1 /\ \A i \in 1..size(x) : i \in 1..size(x) + 1
  BY <1>2, Numbers, Zenon
<1>7. QED
  BY <1>1, <1>2, <1>3, <1>4, <1>5, <1>6, Zenon

LEMMA JoinSplits ==
    \A x, y, u, v \in AllWords :
        Plain(x) /\ Plain(u) /\ join(join(x, Hyphens), y) = join(join(u, Hyphens), v)
            => x = u /\ y = v
<1> SUFFICES ASSUME NEW x \in AllWords, NEW y \in AllWords, NEW u \in AllWords, NEW v \in AllWords,
                    Plain(x), Plain(u), join(join(x, Hyphens), y) = join(join(u, Hyphens), v)
             PROVE  x = u /\ y = v
  OBVIOUS
<1> DEFINE whole == join(join(x, Hyphens), y)
<1>1. /\ size(x) \in Nat /\ word(whole, size(x) + 1) = ""
      /\ \A i \in 1..size(x) : word(whole, i) = word(x, i)
  BY JoinMark
<1>2. /\ size(u) \in Nat /\ word(whole, size(u) + 1) = ""
      /\ \A i \in 1..size(u) : word(whole, i) = word(u, i)
  <2>1. /\ size(u) \in Nat /\ word(join(join(u, Hyphens), v), size(u) + 1) = ""
        /\ \A i \in 1..size(u) : word(join(join(u, Hyphens), v), i) = word(u, i)
    BY JoinMark, Zenon
  <2>2. QED
    BY <2>1, Zenon
<1>3. /\ \A i \in 1..size(x) : word(x, i) # ""
      /\ \A i \in 1..size(u) : word(u, i) # ""
  BY DEF Plain, size, word
<1> HIDE DEF whole
<1>4. ~(size(x) < size(u)) /\ ~(size(u) < size(x))
  BY <1>1, <1>2, <1>3, Numbers, Zenon
<1>5. size(x) = size(u)
  BY <1>1, <1>2, <1>4, Numbers, Zenon
<1>6. /\ join(x, Hyphens) \in AllWords /\ join(u, Hyphens) \in AllWords
      /\ size(join(x, Hyphens)) = size(join(u, Hyphens))
  BY <1>5, JoinMark
<1>7. join(x, Hyphens) = join(u, Hyphens) /\ y = v
  BY <1>6, JoinCut
<1>8. QED
  BY <1>5, <1>7, JoinCut, OneHyphens

\* Names that end differently are told apart whatever comes before them.
LEMMA EndsTellNames ==
    ASSUME PlainNames, NEW s \in SCCNames, NEW t \in SCCNames,
           NEW x \in AllWords, NEW y \in AllWords, join(x, s) = join(y, t)
    PROVE  s = t
<1>1. s \in AllWords /\ t \in AllWords
  BY NamesAssumption, WordsAreWords
<1>2. /\ size(x) \in Nat /\ size(y) \in Nat /\ size(s) \in Nat /\ size(t) \in Nat
      /\ size(join(x, s)) = size(x) + size(s) /\ size(join(y, t)) = size(y) + size(t)
  BY <1>1, Joins, Zenon
<1>3. SUFFICES ASSUME NEW i \in 1..size(s), NEW j \in 1..size(t),
                      size(s) - i = size(t) - j, word(s, i) # word(t, j)
               PROVE  FALSE
  BY DEF PlainNames, size, word
<1>4. size(x) + i = size(y) + j
  <2>1. PICK a \in Nat, b \in Nat, c \in Nat, d \in Nat :
            a = size(x) /\ b = size(y) /\ c = size(s) /\ d = size(t)
    BY <1>2
  <2>2. i \in 1..c /\ j \in 1..d /\ c - i = d - j
    BY <1>3, <2>1, Zenon
  <2>3. a + c = b + d
    BY <1>2, <2>1, Zenon
  <2>4. a + i = b + j
    BY <2>2, <2>3
  <2>5. QED
    BY <2>1, <2>4, Zenon
<1>5. word(join(x, s), size(x) + i) = word(s, i) /\ word(join(y, t), size(y) + j) = word(t, j)
  BY <1>1, Joins, Zenon
<1>6. QED
  BY <1>3, <1>4, <1>5, Zenon

\* Plain keys are those of one binding.
LEMMA KeysTellBindings ==
    ASSUME PlainNames, NEW b \in Bindings, NEW c \in Bindings, bindingKey(b) = bindingKey(c)
    PROVE  b = c
<1>1. /\ b \in Binding /\ c \in Binding
      /\ b.ns \in AllWords /\ b.name \in AllWords /\ c.ns \in AllWords /\ c.name \in AllWords
      /\ b.kind = ClusterBinding <=> b.ns = <<>>
      /\ c.kind = ClusterBinding <=> c.ns = <<>>
  BY ConstantsAssumption, WordsAreWords DEF Binding
<1>2. ASSUME NEW d \in Bindings, d.kind # ClusterBinding, d.name \in AllWords, d.ns \in AllWords
      PROVE  bindingKey(d) = join(join(d.ns, Hyphens), d.name)
  BY <1>2 DEF bindingKey, join, Hyphens
<1>3. ASSUME NEW d \in Bindings, NEW e \in Bindings, bindingKey(d) = bindingKey(e),
             d.kind = ClusterBinding, e.kind # ClusterBinding,
             d.name \in AllWords, e.ns \in AllWords, e.name \in AllWords
      PROVE  FALSE
  <2>1. bindingKey(d) = d.name /\ bindingKey(e) = join(join(e.ns, Hyphens), e.name)
    BY <1>2, <1>3 DEF bindingKey
  <2>2. PICK whole \in AllWords : whole = bindingKey(d)
    BY <1>3, <2>1
  <2>3. PICK front \in AllWords : front = join(e.ns, Hyphens)
    BY <1>3, OneHyphens, Joins, Zenon
  <2> DEFINE ns == e.ns
             name == e.name
  <2>4. ns \in AllWords /\ name \in AllWords /\ whole = join(front, name) /\ front = join(ns, Hyphens)
    BY <1>3, <2>1, <2>2, <2>3
  <2> HIDE DEF ns, name
  <2>5. size(ns) \in Nat /\ size(front) = size(ns) + 1 /\ word(whole, size(ns) + 1) = ""
    <3>1. whole = join(join(ns, Hyphens), name)
      BY <2>4
    <3>2. /\ word(join(join(ns, Hyphens), name), size(ns) + 1) = ""
          /\ size(ns) \in Nat /\ size(join(ns, Hyphens)) = size(ns) + 1
      BY <2>4, JoinMark
    <3>3. QED
      BY <2>4, <3>1, <3>2, Zenon
  <2>6. size(front) \in Nat /\ size(name) \in Nat /\ size(whole) = size(front) + size(name)
    <3>1. size(join(front, name)) = size(front) + size(name) /\ size(front) \in Nat /\ size(name) \in Nat
      BY <2>4, Joins, Zenon
    <3>2. QED
      BY <2>4, <3>1, Zenon
  <2>7. size(ns) + 1 \in 1..size(whole)
    <3>1. \A k, m, n, l \in Nat : m = k + 1 /\ l = m + n => k + 1 \in 1..l
      OBVIOUS
    <3>2. size(whole) \in Nat
      BY Joins, Zenon
    <3>3. QED
      BY <2>5, <2>6, <3>1, <3>2, Zenon
  <2>8. \A i \in 1..size(whole) : word(whole, i) # ""
    BY <1>3, <2>1, <2>2 DEF PlainNames, Plain, size, word
  <2>9. QED
    BY <2>5, <2>7, <2>8, Zenon
<1>4. b.kind = ClusterBinding <=> c.kind = ClusterBinding
  BY <1>1, <1>3
<1>5. b.ns = c.ns /\ b.name = c.name
  <2>1. CASE b.kind = ClusterBinding
    BY <1>1, <1>4, <2>1 DEF bindingKey
  <2>2. CASE b.kind # ClusterBinding
    <3>1. join(join(b.ns, Hyphens), b.name) = join(join(c.ns, Hyphens), c.name)
      BY <1>1, <1>2, <1>4, <2>2
    <3>2. Plain(b.ns) /\ Plain(c.ns)
      BY DEF PlainNames
    <3>3. QED
      BY <1>1, <3>1, <3>2, JoinSplits, Zenon
  <2>3. QED
    BY <2>1, <2>2
<1>6. b.vc = c.vc /\ b.kind = c.kind
  BY <1>1, <1>4 DEF PlainNames, Binding
<1>7. QED
  BY <1>1, <1>5, <1>6 DEF Binding

\* In one vCluster with plain names no two bindings share labels or a host name
\* (sccrbac.go:261, 415): what the theorems about the bridge suppose holds of
\* every such set of names.
THEOREM PlainNamesDoNotCollide == PlainNames => NoCollision
<1> SUFFICES ASSUME PlainNames, NEW b \in Bindings, NEW c \in Bindings
             PROVE  /\ ownerLabels(b) = ownerLabels(c) => b = c
                    /\ \A s, t \in SCCNames : hostName(b, s) = hostName(c, t) => b = c
  BY DEF NoCollision
<1>1. safeName(bindingKey(b)) = bindingKey(b) /\ safeName(bindingKey(c)) = bindingKey(c)
  <2>1. ASSUME NEW d \in Bindings PROVE ~(Len(bindingKey(d)) > LabelMax)
    <3>1. Len(bindingKey(d)) <= LabelMax
      BY DEF PlainNames
    <3>2. \A m, n \in Int : m <= n => ~(m > n)
      OBVIOUS
    <3>3. d.name \in AllWords /\ d.ns \in AllWords
      BY ConstantsAssumption, WordsAreWords DEF Binding
    <3>4. PICK key \in AllWords : key = bindingKey(d)
      BY <3>3, WordsConcat, Literals DEF bindingKey
    <3>5. Len(key) \in Int /\ LabelMax \in Int
      BY WordsJoined, LabelMaxAssumption
    <3>6. QED
      BY <3>1, <3>2, <3>4, <3>5, Zenon
  <2>2. QED
    BY <2>1 DEF safeName
<1>2. ownerLabels(b) = ownerLabels(c) => b = c
  BY <1>1, KeysTellBindings DEF ownerLabels
<1>3. ASSUME NEW s \in SCCNames, NEW t \in SCCNames, hostName(b, s) = hostName(c, t)
      PROVE  b = c
  <2>1. /\ b.vc \in AllWords /\ b.vc = c.vc /\ s \in AllWords /\ t \in AllWords
    BY ConstantsAssumption, NamesAssumption, WordsAreWords DEF Binding, PlainNames
  <2>2. PICK k \in AllWords : k = bindingKey(b)
    BY <1>1, SafeNames
  <2>3. PICK l \in AllWords : l = bindingKey(c)
    BY <1>1, SafeNames
  <2>4. PICK vc \in AllWords : vc = <<"vc">> \o b.vc
    BY <2>1, Literals, WordsConcat
  <2>5. PICK front \in AllWords : front = vc \o <<"scc">>
    BY Literals, WordsConcat
  <2>6. PICK kb \in AllWords : kb = join(front, k)
    BY WordsConcat DEF join
  <2>7. PICK kc \in AllWords : kc = join(front, l)
    BY WordsConcat DEF join
  <2>8. join(kb, s) = join(kc, t)
    BY <1>1, <1>3, <2>1, <2>2, <2>3, <2>4, <2>5, <2>6, <2>7 DEF hostName, join
  <2>9. s = t
    BY <2>8, EndsTellNames
  <2>10. kb = kc
    BY <2>1, <2>8, <2>9, ConcatSimplifications DEF AllWords, join
  <2>11. k = l
    BY <2>6, <2>7, <2>10, ConcatSimplifications DEF AllWords, join
  <2>12. QED
    BY <2>2, <2>3, <2>11, KeysTellBindings
<1>4. QED
  BY <1>2, <1>3

\* So in such a vCluster a reconcile touches only its own host objects, no host
\* binding is without its role, and every pair follows its life.
COROLLARY PlainTenantKeepsPromises ==
    PlainNames => (Spec => []NoDanglingBinding /\ ReconcileTouchesOwn /\ PairsFollowTheirLife)
<1>1. PlainNames => NoCollision
  BY PlainNamesDoNotCollide
<1>2. QED
  BY <1>1, BridgeBindsExistingRoles, BridgeTouchesOwn, BridgeImplementsPair

=============================================================================
