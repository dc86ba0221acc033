------------------------ MODULE SCCAdmission_proofs ------------------------
(***************************************************************************)
(* Theorems about the plugin's admission of a pod: what hook and bridge    *)
(* make of the virtual RBAC, for every set of bindings, roles and rules,   *)
(* and what the host's admission rests on, for every interleaving.         *)
(***************************************************************************)
EXTENDS SCCAdmission, TLAPS

\* The parts share the operators of VirtualRBAC and SCCRules.
LEMMA SharedOperators ==
    /\ \A b : Bridge!Bodies(b) = Bodies(b)
    /\ \A b, ref : Hook!roleOf(b, ref) = roleOf(b, ref) /\ Bridge!roleOf(b, ref) = roleOf(b, ref)
    /\ \A rules : /\ Hook!extractSCCRules(rules) = extractSCCRules(rules)
                  /\ Bridge!extractSCCRules(rules) = extractSCCRules(rules)
    /\ \A matches, all :
           /\ Hook!resolveSCCMatches(matches, all) = resolveSCCMatches(matches, all)
           /\ Bridge!resolveSCCMatches(matches, all) = resolveSCCMatches(matches, all)
<1>1. \A b : Bridge!Bodies(b) = Bodies(b)
  BY DEF Bridge!Bodies, Bodies
<1>2. \A b, ref : Hook!roleOf(b, ref) = roleOf(b, ref) /\ Bridge!roleOf(b, ref) = roleOf(b, ref)
  BY DEF Hook!roleOf, Bridge!roleOf, roleOf
<1>3. \A rule : /\ Hook!IsSCCRule(rule) <=> IsSCCRule(rule)
                /\ Bridge!IsSCCRule(rule) <=> IsSCCRule(rule)
  BY DEF Hook!IsSCCRule, Bridge!IsSCCRule, IsSCCRule, Hook!Covers, Bridge!Covers, Covers,
         Hook!sccAPIGroup, Bridge!sccAPIGroup, sccAPIGroup, Hook!sccResource,
         Bridge!sccResource, sccResource, Hook!sccUseVerb, Bridge!sccUseVerb, sccUseVerb
<1>4. \A rules : Hook!extractSCCRules(rules) = extractSCCRules(rules)
  BY <1>3 DEF Hook!extractSCCRules, extractSCCRules
<1>5. \A rules : Bridge!extractSCCRules(rules) = extractSCCRules(rules)
  BY <1>3 DEF Bridge!extractSCCRules, extractSCCRules
<1>6. \A matches, all :
          /\ Hook!resolveSCCMatches(matches, all) = resolveSCCMatches(matches, all)
          /\ Bridge!resolveSCCMatches(matches, all) = resolveSCCMatches(matches, all)
  BY DEF Hook!resolveSCCMatches, Bridge!resolveSCCMatches, resolveSCCMatches
<1>7. QED
  BY <1>1, <1>2, <1>4, <1>5, <1>6

\* The virtual RBAC objects, typed.
RBACType ==
    /\ DOMAIN bindings = Bindings
    /\ \A b \in Bindings : bindings[b] \in Bodies(b) \cup {None}
    /\ roles \in [Roles -> RuleSets \cup {None}]

\* Only the tenants change them.
LEMMA RBACUnchanged == RBACType /\ UNCHANGED rbacVars => RBACType'
BY DEF RBACType, rbacVars

LEMMA RBACInitially == Init => RBACType
<1>1. Init => Bridge!Init
  BY DEF Init
<1>2. Bridge!Init => /\ DOMAIN bindings = Bindings
                     /\ \A b \in Bindings : bindings[b] \in {None} \cup Bodies(b)
                     /\ roles \in [Roles -> {None} \cup RuleSets]
  BY SharedOperators DEF Bridge!Init
<1>3. {None} \cup RuleSets = RuleSets \cup {None}
  OBVIOUS
<1>4. QED
  BY <1>1, <1>2, <1>3 DEF RBACType

LEMMA EditsKeepRBAC == RBACType /\ EditsRBAC => RBACType'
<1> SUFFICES ASSUME RBACType, EditsRBAC PROVE RBACType'
  OBVIOUS
<1>1. ASSUME NEW b \in Bindings,
             Bridge!DeleteBinding(b) \/ \E body \in Bodies(b) : Bridge!PutBinding(b, body)
      PROVE  RBACType'
  BY <1>1 DEF RBACType, Bridge!DeleteBinding, Bridge!PutBinding
<1>2. ASSUME NEW r \in Roles,
             Bridge!DeleteRole(r) \/ \E rules \in RuleSets : Bridge!PutRole(r, rules)
      PROVE  RBACType'
  BY <1>2 DEF RBACType, Bridge!DeleteRole, Bridge!PutRole, Bridge!ChangeRole
<1>3. QED
  BY <1>1, <1>2 DEF EditsRBAC

-----------------------------------------------------------------------------
(* Two evaluations of one policy.                                          *)

\* A binding's reference and the key of its role tell the same.
LEMMA RoleKeys ==
    ASSUME RBACType, NEW b \in Bindings, bindings[b] # None, NEW r \in Roles
    PROVE  r = roleOf(b, bindings[b].roleRef) <=>
               /\ bindings[b].roleRef = [kind |-> r.kind, name |-> r.name]
               /\ r.kind = "Role" => r.ns = b.ns
<1>1. b.vc = vcluster /\ r.vc = vcluster
  BY ConstantsAssumption, AdmissionAssumption DEF Binding, Role
<1>2. /\ r = [vc |-> r.vc, kind |-> r.kind, ns |-> r.ns, name |-> r.name]
      /\ r.kind \in {"ClusterRole", "Role"} /\ (r.kind = "ClusterRole" <=> r.ns = << >>)
  BY ConstantsAssumption DEF Role
<1>3. bindings[b].roleRef \in [kind : {"ClusterRole", "Role"}, name : Words]
  BY ConstantsAssumption DEF RBACType, Bodies
<1>4. QED
  BY <1>1, <1>2, <1>3 DEF roleOf

\* A subject without a namespace is one of the binding's own.
LEMMA SubjectsOfBinding ==
    ASSUME RBACType, NEW b \in Bindings, bindings[b] # None,
           NEW s \in bindings[b].subjects, s.kind = "ServiceAccount"
    PROVE  s.ns # << >> \/ b.ns # << >>
BY ConstantsAssumption DEF RBACType, Bodies, Binding

\* The bindings the hook takes for the account's are those that bind it
\* (subjectMatches, scc.go:295).
LEMMA HookFindsBindings ==
    ASSUME RBACType, NEW b \in Bindings
    PROVE  Hook!applies(b, account) <=>
               /\ bindings[b] # None
               /\ b.kind = "RoleBinding" => b.ns = account.ns
               /\ \E s \in bindings[b].subjects :
                     /\ s.kind = "ServiceAccount" /\ s.name = account.name
                     /\ (IF s.ns = << >> THEN b.ns ELSE s.ns) = account.ns
<1>1. b.kind = "RoleBinding" \/ b.ns = << >>
  BY ConstantsAssumption DEF Binding, ClusterBinding
<1>2. QED
  BY <1>1, SubjectsOfBinding DEF Hook!applies, Hook!subjectMatches

LEMMA HookFindsRoles ==
    ASSUME RBACType
    PROVE  Hook!boundRoles(account) = BoundNow
<1>1. ASSUME NEW r \in Roles
      PROVE  r \in Hook!boundRoles(account) <=> BoundTo(r)
  <2>1. r \in Hook!boundRoles(account) <=>
            \E b \in Bindings : Hook!applies(b, account) /\ r = roleOf(b, bindings[b].roleRef)
    BY SharedOperators DEF Hook!boundRoles
  <2>2. ASSUME NEW b \in Bindings
        PROVE  Hook!applies(b, account) /\ r = roleOf(b, bindings[b].roleRef) <=>
               IF bindings[b] = None THEN FALSE
               ELSE /\ b.kind = "RoleBinding" => b.ns = account.ns
                    /\ bindings[b].roleRef = [kind |-> r.kind, name |-> r.name]
                    /\ r.kind = "Role" => r.ns = b.ns
                    /\ \E s \in bindings[b].subjects :
                          /\ s.kind = "ServiceAccount" /\ s.name = account.name
                          /\ (IF s.ns = << >> THEN b.ns ELSE s.ns) = account.ns
    BY HookFindsBindings, RoleKeys
  <2>3. QED
    BY <2>1, <2>2 DEF BoundTo
<1>2. QED
  BY <1>1 DEF BoundNow, Hook!boundRoles

\* A rule allows the SCC when it grants it by name or with all others
\* (IsSCCRule, extractSCCRules, sccrbac.go:142).
LEMMA RulesAllow ==
    ASSUME NEW rules \in RuleSets
    PROVE  /\ \A m \in extractSCCRules(rules) : m.wildcard \/ m.names = {sccName}
           /\ extractSCCRules(rules) # {} <=> \E rule \in rules : Allows(rule)
<1>1. \A rule \in rules : rule.resourceNames = {} \/ rule.resourceNames = {sccName}
  BY ConstantsAssumption, AdmissionAssumption
<1>2. ASSUME NEW rule \in rules PROVE IsSCCRule(rule) <=> Allows(rule)
  BY <1>1 DEF IsSCCRule, Covers, Allows, sccAPIGroup, sccResource, sccUseVerb
<1>3. \A m \in extractSCCRules(rules) : \E rule \in rules :
          Allows(rule) /\ m = [names |-> rule.resourceNames, wildcard |-> rule.resourceNames = {}]
  BY <1>2 DEF extractSCCRules
<1>4. \A rule \in rules : Allows(rule) =>
          [names |-> rule.resourceNames, wildcard |-> rule.resourceNames = {}]
              \in extractSCCRules(rules)
  BY <1>2 DEF extractSCCRules
<1>5. ASSUME NEW m \in extractSCCRules(rules)
      PROVE  m.wildcard \/ m.names = {sccName}
  <2>1. PICK rule \in rules :
            m = [names |-> rule.resourceNames, wildcard |-> rule.resourceNames = {}]
    BY <1>3
  <2>2. CASE rule.resourceNames = {}
    BY <2>1, <2>2
  <2>3. CASE rule.resourceNames = {sccName}
    BY <2>1, <2>3
  <2>4. QED
    BY <1>1, <2>2, <2>3
<1>6. QED
  BY <1>3, <1>4, <1>5

LEMMA HookReadsGrants ==
    ASSUME RBACType, NEW r \in Roles
    PROVE  /\ Hook!roleGrants(r) # {} <=> Granting(r)
           /\ \A m \in Hook!roleGrants(r) : m.wildcard \/ m.names = {sccName}
<1>1. CASE roles[r] = None
  BY <1>1 DEF Hook!roleGrants, Granting
<1>2. CASE roles[r] # None
  BY <1>2, RulesAllow, SharedOperators DEF RBACType, Hook!roleGrants, Granting
<1>3. QED
  BY <1>1, <1>2

\* The three parts see the same SCCs.
LEMMA SameSCCs == Hook!existing = Existing
BY AdmissionAssumption DEF Hook!existing, Existing

LEMMA RBACStep == RBACType /\ [Next]_vars => RBACType'
BY RBACUnchanged, EditsKeepRBAC
   DEF Next, Mishap, BridgeWorks, SyncerWorks, HookWorks, Admission, Restart, EditsSCC,
       BridgeFails, SyncerFails, HookFails, Crash, vars

\* What a role contributes to the hook's selection.
LEMMA HookContribution ==
    ASSUME RBACType, NEW r \in Roles
    PROVE  Hook!resolveSCCMatches(Hook!roleGrants(r), Hook!existing) \cap Existing
               = IF Granting(r) THEN Existing ELSE {}
<1>1. Existing = {} \/ Existing = {sccName}
  BY AdmissionAssumption DEF Existing
<1>2. \A n : n \in resolveSCCMatches(Hook!roleGrants(r), Existing) <=>
          \E m \in Hook!roleGrants(r) : n \in IF m.wildcard THEN Existing ELSE m.names
  BY DEF resolveSCCMatches
<1>3. CASE Granting(r) /\ Existing # {}
  <2>1. PICK m \in Hook!roleGrants(r) : m.wildcard \/ m.names = {sccName}
    BY <1>3, HookReadsGrants
  <2>2. sccName \in resolveSCCMatches(Hook!roleGrants(r), Existing)
    BY <1>1, <1>2, <1>3, <2>1
  <2>3. QED
    BY <1>1, <1>3, <2>2, SharedOperators, SameSCCs
<1>4. CASE ~Granting(r)
  BY <1>2, <1>4, HookReadsGrants, SharedOperators, SameSCCs
<1>5. QED
  BY <1>3, <1>4

\* Of the bindings the hook follows, the bridge binds the pod's host account.
LEMMA BridgeBindsAccount ==
    ASSUME RBACType, NEW b \in Bindings, Hook!applies(b, account)
    PROVE  hostAccount \in Bridge!grantedSubjects(b)
<1>1. PICK s \in bindings[b].subjects :
          /\ s.kind = "ServiceAccount" /\ s.name = account.name
          /\ (IF s.ns = << >> THEN b.ns ELSE s.ns) = account.ns
  BY HookFindsBindings
<1>2. bindings[b] # None /\ b.vc = vcluster
  BY HookFindsBindings, ConstantsAssumption, AdmissionAssumption DEF Binding
<1>3. s.ns # << >> \/ b.ns # << >>
  BY <1>1, <1>2, SubjectsOfBinding
<1>4. hostAccount \in Bridge!translateSubjects(b, bindings[b].subjects)
  BY <1>1, <1>2, <1>3 DEF hostAccount, Bridge!translateSubjects
<1>5. QED
  BY <1>2, <1>4 DEF Bridge!grantedSubjects

LEMMA AgreementOfTypes == RBACType => HookAndBridgeAgree
<1> SUFFICES ASSUME RBACType PROVE HookAndBridgeAgree
  OBVIOUS
<1>1. \A n : n \in Hook!grantedTo(account) <=>
          \E r \in BoundNow : n \in Hook!resolveSCCMatches(Hook!roleGrants(r), Hook!existing)
  BY HookFindsRoles DEF Hook!grantedTo
<1>2. Hook!grantedTo(account) \cap Existing = IF Allowed THEN Existing ELSE {}
  <2>1. \A n : n \in Hook!grantedTo(account) \cap Existing <=>
            n \in Existing /\ \E r \in BoundNow : Granting(r)
    BY <1>1, HookContribution DEF BoundNow
  <2>2. Allowed <=> \E r \in BoundNow : Granting(r)
    BY DEF Allowed, BoundNow, GrantingNow
  <2>3. QED
    BY <2>1, <2>2
<1>3. ASSUME NEW n \in Hook!grantedTo(account)
      PROVE  n \in bridgedTo
  <2>1. PICK r \in BoundNow : n \in Hook!resolveSCCMatches(Hook!roleGrants(r), Hook!existing)
    BY <1>1
  <2>2. r \in Hook!boundRoles(account)
    BY HookFindsRoles
  <2>3. PICK b \in Bindings : Hook!applies(b, account) /\ r = Hook!roleOf(b, bindings[b].roleRef)
    BY <2>2 DEF Hook!boundRoles
  <2>4. r \in Roles /\ roles[r] # None /\ n \in resolveSCCMatches(extractSCCRules(roles[r]), Existing)
    <3>1. r \in Roles
      BY DEF BoundNow
    <3>2. n \in resolveSCCMatches(Hook!roleGrants(r), Existing)
      BY <2>1, SharedOperators, SameSCCs
    <3>3. roles[r] # None
      BY <3>2 DEF Hook!roleGrants, resolveSCCMatches
    <3>4. Hook!roleGrants(r) = extractSCCRules(roles[r])
      BY <3>1, <3>3, SharedOperators DEF Hook!roleGrants
    <3>5. QED
      BY <3>1, <3>2, <3>3, <3>4
  <2>5. bindings[b] # None /\ b.vc \in VClusters /\ r = roleOf(b, bindings[b].roleRef)
    BY <2>3, HookFindsBindings, SharedOperators, ConstantsAssumption DEF Binding
  <2>6. Bridge!grantedSCCs(b) = resolveSCCMatches(extractSCCRules(roles[r]), Existing)
    BY <2>4, <2>5, SharedOperators DEF Bridge!grantedSCCs, Existing
  <2>7. hostAccount \in Bridge!grantedSubjects(b)
    BY <2>3, BridgeBindsAccount
  <2>8. n \in Bridge!Desired(b)
    BY <2>4, <2>6, <2>7 DEF Bridge!Desired
  <2>9. QED
    BY <2>7, <2>8 DEF bridgedTo
<1>4. QED
  BY <1>2, <1>3 DEF HookAndBridgeAgree

\* Whatever the bindings and roles, the hook's evaluation of the virtual RBAC
\* (scc.go:170) is Kubernetes', and the bridge's (sccrbac.go:94) gives the pod's
\* host account every SCC the hook may select for it.
THEOREM HookAgreesWithBridge == Spec => []HookAndBridgeAgree
<1>1. QED
  BY RBACInitially, RBACStep, AgreementOfTypes, PTL DEF Spec

-----------------------------------------------------------------------------
(* AdmittedHadAGrant.                                                      *)

\* The account was bound to a role, and that role granted the SCC.
Granted == bound \cap granting # {}

\* Everything the call has found rests on a grant that the history knows.
CallHasGrant ==
    /\ DOMAIN call = DOMAIN Hook!Start
    /\ \A t \in call.todo : roleOf(t.key, t.ref) \in Roles => roleOf(t.key, t.ref) \in bound
    /\ call.matches # {} \/ call.granted # {} \/ call.unread # {} => Granted
    /\ DOMAIN call.candidates # {} => Granted

AdmittedInv ==
    /\ RBACType
    /\ BoundNow \subseteq bound /\ GrantingNow \subseteq granting
    /\ CallHasGrant
    /\ required \notin {None, defaultSCC} => Granted
    /\ AdmittedHadAGrant

LEMMA StartFields ==
    DOMAIN Hook!Start = {"pc", "todo", "matches", "granted", "unread", "candidates"}
BY DEF Hook!Start

LEMMA StartHasGrant == call = Hook!Start => CallHasGrant
BY DEF Hook!Start, CallHasGrant

LEMMA AdmittedInitially == Init => AdmittedInv
BY RBACInitially, StartHasGrant DEF Init, AdmittedInv, AdmittedHadAGrant

\* The history only grows, and what it made true stays.
LEMMA HistoryGrows ==
    ASSUME AdmittedInv, [Next]_vars
    PROVE  /\ RBACType' /\ bound \subseteq bound' /\ granting \subseteq granting'
           /\ BoundNow' \subseteq bound' /\ GrantingNow' \subseteq granting'
           /\ Granted => Granted'
<1>1. RBACType'
  BY RBACStep DEF AdmittedInv
<1>2. CASE UNCHANGED <<rbacVars, history>>
  <2>1. BoundNow' = BoundNow /\ GrantingNow' = GrantingNow
    BY <1>2 DEF rbacVars, BoundNow, GrantingNow, BoundTo, Granting
  <2>2. QED
    BY <1>1, <1>2, <2>1 DEF AdmittedInv, history, Granted
<1>3. CASE EditsRBAC
  BY <1>1, <1>3 DEF EditsRBAC, Recorded, Granted
<1>4. QED
  BY <1>2, <1>3
     DEF Next, Mishap, BridgeWorks, SyncerWorks, HookWorks, Admission, Restart, EditsSCC,
         BridgeFails, SyncerFails, HookFails, Crash, vars, budgets, fixed, podVars

\* A role that the hook finds bound and granting is known to the history.
LEMMA FoundIsKnown ==
    ASSUME AdmittedInv, NEW r, r \in Roles => r \in bound, Hook!roleGrants(r) # {}
    PROVE  Granted
<1>1. r \in Roles
  BY DEF Hook!roleGrants
<1>2. Granting(r)
  BY <1>1, HookReadsGrants DEF AdmittedInv
<1>3. QED
  BY <1>1, <1>2 DEF AdmittedInv, GrantingNow, Granted

\* Each step of the call keeps to grants that the history knows.
LEMMA HookStepHasGrant ==
    ASSUME AdmittedInv, HookWorks \/ HookFails
    PROVE  CallHasGrant' /\ (required' \notin {None, defaultSCC} => Granted)
<1>0. bound' = bound /\ granting' = granting /\ (Granted' <=> Granted)
      /\ DOMAIN call = {"pc", "todo", "matches", "granted", "unread", "candidates"}
  BY StartFields DEF HookWorks, HookFails, history, Granted, AdmittedInv, CallHasGrant
<1>1. ASSUME NEW kind, NEW pc,
             call' = [call EXCEPT !.pc = pc, !.todo = Hook!todoOf(kind)], required' = required
      PROVE  CallHasGrant' /\ (required' \notin {None, defaultSCC} => Granted)
  <2>1. ASSUME NEW t \in Hook!todoOf(kind), roleOf(t.key, t.ref) \in Roles
        PROVE  roleOf(t.key, t.ref) \in bound
    <3>1. PICK b \in Bindings : Hook!applies(b, account) /\ t.key = b /\ t.ref = bindings[b].roleRef
      BY DEF Hook!todoOf, Hook!matching, Hook!sa, account
    <3>2. roleOf(t.key, t.ref) \in Hook!boundRoles(account)
      BY <2>1, <3>1, SharedOperators DEF Hook!boundRoles
    <3>3. QED
      BY <3>2, HookFindsRoles DEF AdmittedInv
  <2>2. QED
    BY <1>0, <1>1, <2>1 DEF AdmittedInv, CallHasGrant
<1>2. CASE Hook!ListClusterRoleBindings \/ Hook!ListRoleBindings
  BY <1>1, <1>2 DEF Hook!ListClusterRoleBindings, Hook!ListRoleBindings, Hook!Continue
<1>3. CASE Hook!ResolveRoleRef
  <2>1. PICK t \in call.todo :
            LET matches == Hook!roleGrants(Hook!roleOf(t.key, t.ref)) IN
            Hook!Continue(IF Hook!Wild(matches)
                     THEN [call EXCEPT !.todo = @ \ {t}, !.matches = matches]
                     ELSE [call EXCEPT !.todo = @ \ {t},
                                       !.granted = @ \cup Hook!resolveSCCMatches(matches, {})])
    BY <1>3 DEF Hook!ResolveRoleRef
  <2> DEFINE matches == Hook!roleGrants(Hook!roleOf(t.key, t.ref))
  <2>2. matches # {} => Granted
    BY FoundIsKnown, SharedOperators DEF AdmittedInv, CallHasGrant
  <2>3. Hook!resolveSCCMatches(matches, {}) # {} => matches # {}
    BY DEF Hook!resolveSCCMatches
  <2>4. Hook!Continue(IF Hook!Wild(matches)
                      THEN [call EXCEPT !.todo = @ \ {t}, !.matches = matches]
                      ELSE [call EXCEPT !.todo = @ \ {t},
                                        !.granted = @ \cup Hook!resolveSCCMatches(matches, {})])
    BY <2>1
  <2> HIDE DEF matches
  <2>5. /\ required' = required /\ DOMAIN call' = DOMAIN call
        /\ call'.todo \subseteq call.todo /\ call'.unread = call.unread
        /\ call'.candidates = call.candidates
        /\ call'.matches # {} => call.matches # {} \/ matches # {}
        /\ call'.granted # {} => call.granted # {} \/ matches # {}
    BY <1>0, <2>3, <2>4 DEF Hook!Continue
  <2>6. QED
    BY <1>0, <2>2, <2>5 DEF AdmittedInv, CallHasGrant
<1>4. CASE Hook!ListAllVirtualSCCs
  BY <1>0, <1>4 DEF Hook!ListAllVirtualSCCs, Hook!Continue, AdmittedInv, CallHasGrant
<1>5. CASE Hook!ResolveFails \/ Hook!RBACRead \/ Hook!GetPriorityFails
  BY <1>0, <1>5
     DEF Hook!ResolveFails, Hook!RBACRead, Hook!GetPriorityFails, Hook!Continue, AdmittedInv,
         CallHasGrant
<1>6. CASE Hook!GetPriority
  <2>1. call.unread # {} /\ required' = required /\ DOMAIN call' = DOMAIN call
        /\ call'.todo = call.todo
    BY <1>0, <1>6 DEF Hook!GetPriority, Hook!Continue
  <2>2. QED
    BY <1>0, <2>1 DEF AdmittedInv, CallHasGrant
<1>7. ASSUME NEW s, Hook!Select(s), s = defaultSCC \/ Granted
      PROVE  CallHasGrant' /\ (required' \notin {None, defaultSCC} => Granted)
  <2>1. call' = [Hook!Start EXCEPT !.pc = "done"] /\ required' = Hook!hostSCCName(s)
    BY <1>7 DEF Hook!Select
  <2>2. CallHasGrant'
    BY <2>1 DEF CallHasGrant, Hook!Start
  <2>3. QED
    BY <1>7, <2>1, <2>2 DEF Hook!hostSCCName
<1>8. CASE Hook!ListFails
  BY <1>7, <1>8 DEF Hook!ListFails
<1>9. CASE Hook!SelectBest
  <2>1. PICK s : Hook!Select(s) /\ (DOMAIN call.candidates = {} => s = defaultSCC)
    BY <1>9 DEF Hook!SelectBest
  <2>2. QED
    BY <1>7, <2>1 DEF AdmittedInv, CallHasGrant
<1>10. QED
  BY <1>2, <1>3, <1>4, <1>5, <1>6, <1>8, <1>9 DEF HookWorks, HookFails

LEMMA AdmittedStep == AdmittedInv /\ [Next]_vars => AdmittedInv'
<1> SUFFICES ASSUME AdmittedInv, [Next]_vars PROVE AdmittedInv'
  OBVIOUS
<1>0. /\ RBACType' /\ bound \subseteq bound' /\ granting \subseteq granting'
      /\ BoundNow' \subseteq bound' /\ GrantingNow' \subseteq granting'
      /\ Granted => Granted'
  BY HistoryGrows
<1>1. call' = call => CallHasGrant'
  BY <1>0 DEF AdmittedInv, CallHasGrant
<1>2. admitted' = admitted => AdmittedHadAGrant'
  BY <1>0 DEF AdmittedInv, AdmittedHadAGrant, Granted
<1>3. CASE UNCHANGED <<call, required, admitted>>
  BY <1>0, <1>1, <1>2, <1>3 DEF AdmittedInv
<1>4. CASE HookWorks \/ HookFails
  <2>1. admitted' = admitted
    BY <1>4 DEF HookWorks, HookFails, podVars
  <2>2. QED
    BY <1>0, <1>2, <1>4, <2>1, HookStepHasGrant DEF AdmittedInv
<1>5. ASSUME call' = Hook!Start, required' = None
      PROVE  CallHasGrant' /\ (required' \notin {None, defaultSCC} => Granted')
  <2>1. CallHasGrant'
    BY <1>5 DEF Hook!Start, CallHasGrant
  <2>2. QED
    BY <1>5, <2>1
<1>6. CASE Admission
  <2>1. AdmittedHadAGrant'
    BY <1>0, <1>6 DEF Admission, AdmittedInv, AdmittedHadAGrant, Granted
  <2>2. QED
    BY <1>0, <1>5, <1>6, <2>1 DEF Admission, AdmittedInv
<1>7. CASE Crash
  BY <1>0, <1>2, <1>5, <1>7 DEF Crash, podVars, AdmittedInv
<1>8. QED
  BY <1>3, <1>4, <1>6, <1>7
     DEF Next, Mishap, BridgeWorks, SyncerWorks, Restart, EditsRBAC, EditsSCC, BridgeFails,
         SyncerFails, vars, hookVars, podVars

\* Whatever fails, stops or is edited in between, a pod is admitted under a
\* copied SCC only when its account was bound, in its own namespace, to a role
\* that granted the SCC, maybe at different instants (MutateCreatePhysical,
\* scc.go:31, resolveRoleRef, :240).
THEOREM AdmissionsHaveAGrant == Spec => []AdmittedHadAGrant
<1>1. AdmittedInv => AdmittedHadAGrant
  BY DEF AdmittedInv
<1>2. QED
  BY <1>1, AdmittedInitially, AdmittedStep, PTL DEF Spec

-----------------------------------------------------------------------------
(* The theorems of the parts, for the parts as they are here.              *)

\* The bridge, for which the SCC that comes and goes is an edit of the SCCs it
\* does not watch: what it proves must not suppose that there is none.
BP == INSTANCE SCCRBACBridge_settled WITH
    sccs <- [v \in VClusters |-> IF scc = None THEN {} ELSE SCCNames],
    hostFaults <- faults, MaxHostFaults <- MaxFaults,
    sccEdits <- 0, MaxSCCEdits <- 1, virtualFaults <- 0, MaxVirtualFaults <- 0

\* The syncer.
SP == INSTANCE SCCSyncer_proofs WITH
    virtual <- scc, host <- copy,
    adminDeletes <- 0, MaxAdminDeletes <- 0, MaxRestarts <- MaxCrashes

\* What the parts assume of their constants holds.
LEMMA BridgeAssumptions ==
    /\ BP!LabelMaxAssumption /\ BP!BoundsAssumption /\ BP!NoneAssumption
    /\ BP!ConstantsAssumption /\ BP!NamesAssumption
<1>1. BP!LabelMaxAssumption /\ BP!BoundsAssumption
  BY PartsAssumption DEF BP!LabelMaxAssumption, BP!BoundsAssumption
<1>2. BP!ConstantsAssumption /\ BP!NamesAssumption
  BY ConstantsAssumption, NamesAssumption
     DEF BP!ConstantsAssumption, BP!NamesAssumption, BP!Binding, BP!Role, BP!ClusterBinding,
         BP!Words, Binding, Role, ClusterBinding, Words
<1>3. BP!NoneAssumption
  BY PartsAssumption, AdmissionAssumption
     DEF BP!NoneAssumption, BP!HostRole, BP!ownerLabels, BP!hostSCCName, BP!safeName,
         BP!bindingKey, BP!ClusterBinding, Bridge!HostRole, Bridge!ownerLabels,
         Bridge!hostSCCName, Bridge!safeName, Bridge!bindingKey, Bridge!ClusterBinding
<1>4. QED
  BY <1>1, <1>2, <1>3

LEMMA SyncerAssumptions ==
    SP!ObjectsAssumption /\ SP!BoundsAssumption /\ SP!NoneAssumption /\ SP!FieldsAssumption
BY PartsAssumption
   DEF SP!ObjectsAssumption, SP!BoundsAssumption, SP!NoneAssumption, SP!FieldsAssumption,
       SP!VirtualObject, SP!Copies, SP!Events, Syncer!VirtualObject, Syncer!Copies, Syncer!Events

\* The rules and roles the bridge reads are those of VirtualRBAC.
LEMMA BridgeRules ==
    /\ \A b : BP!Bodies(b) = Bodies(b)
    /\ \A b, ref : BP!roleOf(b, ref) = roleOf(b, ref)
    /\ \A rules : BP!extractSCCRules(rules) = extractSCCRules(rules)
    /\ \A matches, all : BP!resolveSCCMatches(matches, all) = resolveSCCMatches(matches, all)
    /\ \A rules : BP!relevant(rules) <=> Bridge!relevant(rules)
<1>1. \A b : BP!Bodies(b) = Bodies(b)
  BY DEF BP!Bodies, Bodies
<1>2. \A b, ref : BP!roleOf(b, ref) = roleOf(b, ref)
  BY DEF BP!roleOf, roleOf
<1>3. \A rules : BP!extractSCCRules(rules) = extractSCCRules(rules)
  BY DEF BP!extractSCCRules, extractSCCRules, BP!IsSCCRule, IsSCCRule, BP!Covers, Covers,
         BP!sccAPIGroup, sccAPIGroup, BP!sccResource, sccResource, BP!sccUseVerb, sccUseVerb
<1>4. \A matches, all : BP!resolveSCCMatches(matches, all) = resolveSCCMatches(matches, all)
  BY DEF BP!resolveSCCMatches, resolveSCCMatches
<1>5. \A rules : BP!relevant(rules) <=> Bridge!relevant(rules)
  BY <1>3, SharedOperators DEF BP!relevant, Bridge!relevant
<1>6. QED
  BY <1>1, <1>2, <1>3, <1>4, <1>5

\* So are the names and contents of host objects.
LEMMA BridgeNames ==
    /\ \A b, s : Bridge!hostName(b, s) = BP!hostName(b, s)
    /\ \A b, s : Bridge!HostRole(b, s) = BP!HostRole(b, s)
    /\ \A b, subjects : Bridge!HostBinding(b, subjects) = BP!HostBinding(b, subjects)
    /\ \A b, subjects : Bridge!translateSubjects(b, subjects) = BP!translateSubjects(b, subjects)
    /\ Bridge!HostNames = BP!HostNames
    /\ \A objs, b : Bridge!labelled(objs, b) = BP!labelled(objs, b)
BY DEF Bridge!hostName, BP!hostName, Bridge!HostRole, BP!HostRole, Bridge!HostBinding,
       BP!HostBinding, Bridge!translateSubjects, BP!translateSubjects, Bridge!HostNames,
       BP!HostNames, Bridge!labelled, BP!labelled, Bridge!ownerLabels, BP!ownerLabels,
       Bridge!hostSCCName, BP!hostSCCName, Bridge!safeName, BP!safeName, Bridge!bindingKey,
       BP!bindingKey, Bridge!ClusterBinding, BP!ClusterBinding

\* The tenants' edits are edits of the bridge's specification.
LEMMA BridgeEdits == EditsRBAC => BP!Tenants
<1>1. ASSUME NEW b \in Bindings PROVE Bridge!DeleteBinding(b) => BP!DeleteBinding(b)
  BY DEF BP!DeleteBinding, Bridge!DeleteBinding, BP!Notify, Bridge!Notify, BP!Edit, Bridge!Edit,
         BP!host, Bridge!host
<1>2. ASSUME NEW b \in Bindings, NEW body \in Bodies(b), Bridge!PutBinding(b, body)
      PROVE  body \in BP!Bodies(b) /\ BP!PutBinding(b, body)
  BY <1>2 DEF BP!PutBinding, Bridge!PutBinding, BP!Notify, Bridge!Notify, BP!Edit, Bridge!Edit,
         BP!host, Bridge!host, BP!Bodies, Bodies
<1>3. ASSUME NEW r \in Roles, NEW rules, Bridge!ChangeRole(r, rules)
      PROVE  BP!ChangeRole(r, rules)
  BY <1>3, BridgeRules
     DEF BP!ChangeRole, Bridge!ChangeRole, BP!Notify, Bridge!Notify, BP!Edit, Bridge!Edit,
         BP!host, Bridge!host
<1>4. QED
  BY <1>1, <1>2, <1>3
     DEF EditsRBAC, BP!Tenants, Bridge!PutRole, BP!PutRole, Bridge!DeleteRole, BP!DeleteRole

\* So are the bridge's own steps, the failures, stops and starts.
LEMMA BridgeDeliver == Bridge!Deliver(vcluster) => BP!Deliver(vcluster)
BY DEF Bridge!Deliver, BP!Deliver, Bridge!requests, BP!requests, Bridge!clusterRoleToBindings,
       BP!clusterRoleToBindings, Bridge!roleToBindings, BP!roleToBindings,
       Bridge!ClusterBinding, BP!ClusterBinding, Bridge!virtual, BP!virtual, Bridge!host, BP!host,
       Bridge!budgets, BP!budgets

LEMMA BridgeFailures == Bridge!HostCallFails(vcluster) => BP!HostCallFails(vcluster)
BY DEF Bridge!HostCallFails, BP!HostCallFails, Bridge!Fail, BP!Fail, Bridge!Idle, BP!Idle,
       Bridge!UnchangedByWork, BP!UnchangedByWork, Bridge!virtual, BP!virtual, Bridge!host, BP!host

LEMMA BridgeCrash == Bridge!Crash(vcluster) => BP!Crash(vcluster)
BY DEF Bridge!Crash, BP!Crash, Bridge!Idle, BP!Idle, Bridge!virtual, BP!virtual, Bridge!host,
       BP!host

LEMMA BridgeRestart == Bridge!Restart(vcluster) => BP!Restart(vcluster)
BY BridgeRules
   DEF Bridge!Restart, BP!Restart, Bridge!Existing, BP!Existing, Bridge!virtual, BP!virtual,
       Bridge!host, BP!host, Bridge!budgets, BP!budgets

LEMMA BridgeWork == Bridge!Work(vcluster) => BP!Work(vcluster)
<1> USE DEF Bridge!Step, BP!Step, Bridge!Fail, BP!Fail, Bridge!Idle, BP!Idle,
        Bridge!StartCleanup, BP!StartCleanup, Bridge!UnchangedByWork, BP!UnchangedByWork,
        Bridge!virtual, BP!virtual, Bridge!host, BP!host
<1>1. Bridge!Reconcile(vcluster) => BP!Reconcile(vcluster)
  BY DEF Bridge!Reconcile, BP!Reconcile
<1>2. Bridge!GetRole(vcluster) => BP!GetRole(vcluster)
  BY BridgeRules, SharedOperators DEF Bridge!GetRole, BP!GetRole
<1>3. Bridge!ListSCCs(vcluster) => BP!ListSCCs(vcluster)
  BY BridgeNames, BridgeRules, SharedOperators DEF Bridge!ListSCCs, BP!ListSCCs
<1>4. Bridge!EnsureClusterRole(vcluster) => BP!EnsureClusterRole(vcluster)
  BY BridgeNames DEF Bridge!EnsureClusterRole, BP!EnsureClusterRole
<1>5. Bridge!EnsureClusterRoleBinding(vcluster) => BP!EnsureClusterRoleBinding(vcluster)
  BY BridgeNames DEF Bridge!EnsureClusterRoleBinding, BP!EnsureClusterRoleBinding
<1>6. /\ Bridge!ListHostBindings(vcluster) => BP!ListHostBindings(vcluster)
      /\ Bridge!ListHostRoles(vcluster) => BP!ListHostRoles(vcluster)
  BY BridgeNames
     DEF Bridge!ListHostBindings, BP!ListHostBindings, Bridge!ListHostRoles, BP!ListHostRoles
<1>7. /\ Bridge!DeleteHostBinding(vcluster) => BP!DeleteHostBinding(vcluster)
      /\ Bridge!DeleteHostRole(vcluster) => BP!DeleteHostRole(vcluster)
      /\ Bridge!CleanupDone(vcluster) => BP!CleanupDone(vcluster)
  BY DEF Bridge!DeleteHostBinding, BP!DeleteHostBinding, Bridge!DeleteHostRole,
         BP!DeleteHostRole, Bridge!CleanupDone, BP!CleanupDone
<1> HIDE DEF Bridge!Step, BP!Step, Bridge!Fail, BP!Fail, Bridge!Idle, BP!Idle,
        Bridge!StartCleanup, BP!StartCleanup, Bridge!UnchangedByWork, BP!UnchangedByWork,
        Bridge!virtual, BP!virtual, Bridge!host, BP!host
<1>8. QED
  BY <1>1, <1>2, <1>3, <1>4, <1>5, <1>6, <1>7 DEF Bridge!Work, BP!Work

\* Every step of the plugin, its tenants and the host is one of the bridge, or
\* leaves the bridge and the bindings and roles alone.
LEMMA BridgeStep ==
    [Next]_vars => BP!Next \/ UNCHANGED <<bindings, roles, bridgeVars, crashes>>
<1>1. vcluster \in VClusters
  BY AdmissionAssumption
<1>2. EditsRBAC => BP!Next
  BY BridgeEdits DEF BP!Next
<1>3. BridgeWorks \/ BridgeFails \/ Crash \/ Restart => BP!Next
  BY <1>1, BridgeDeliver, BridgeWork, BridgeFailures, BridgeCrash, BridgeRestart
     DEF BridgeWorks, BridgeFails, Crash, Restart, BP!Next, BP!Faults
<1>4. QED
  BY <1>2, <1>3
     DEF Next, Mishap, EditsSCC, SyncerWorks, SyncerFails, HookWorks, HookFails, Admission,
         vars, budgets, rbacVars

LEMMA BridgeInit == Init => BP!Init
<1>1. Init => Bridge!Init
  BY DEF Init
<1>2. Bridge!Init => BP!Init
  BY BridgeNames, BridgeRules, SharedOperators
     DEF Bridge!Init, BP!Init, Bridge!Existing, BP!Existing, Bridge!Idle, BP!Idle
<1>3. QED
  BY <1>1, <1>2

\* The parts judge an SCC by the same ceiling.
LEMMA SyncerWithin == \A s, c : Syncer!Within(s, c) <=> SP!Within(s, c)
BY DEF Syncer!Within, SP!Within, Syncer!ValidateSCCAgainstCeiling,
       SP!ValidateSCCAgainstCeiling, Syncer!exceeds, SP!exceeds, Syncer!boolFields,
       SP!boolFields, Syncer!listFields, SP!listFields, Syncer!strategyFields,
       SP!strategyFields, Syncer!checkBool, SP!checkBool, Syncer!checkList, SP!checkList,
       Syncer!checkStrategy, SP!checkStrategy, Syncer!strategyOrder, SP!strategyOrder

\* Every step is one of the syncer, or leaves the syncer and its SCC alone.
LEMMA SyncerStep ==
    [Next]_vars => SP!Next \/ UNCHANGED <<scc, copy, remembered, pending, event, ceiling, restarts>>
<1>1. Syncer!Tenant => SP!Tenant
  BY DEF Syncer!Tenant, SP!Tenant, Syncer!TenantPuts, SP!TenantPuts, Syncer!TenantDeletes,
         SP!TenantDeletes
<1>2. Syncer!Read => SP!Read
  BY DEF Syncer!Read, SP!Read, Syncer!budgets, SP!budgets
<1>3. Syncer!Handle => SP!Handle
  <2>2. \A s, t : Syncer!syncFields(s, t) = SP!syncFields(s, t)
    BY DEF Syncer!syncFields, SP!syncFields, Syncer!sccSpecFields, SP!sccSpecFields
  <2>3. Syncer!Exceeding <=> SP!Exceeding
    BY SyncerWithin DEF Syncer!Exceeding, SP!Exceeding
  <2> USE DEF Syncer!Return, SP!Return, Syncer!DeleteHostObject, SP!DeleteHostObject,
          Syncer!DeleteVirtualObject, SP!DeleteVirtualObject, Syncer!Forgotten, SP!Forgotten,
          Syncer!Remembered, SP!Remembered, Syncer!budgets, SP!budgets
  <2>4. Syncer!SyncToHost => SP!SyncToHost
    BY <2>2, <2>3 DEF Syncer!SyncToHost, SP!SyncToHost
  <2>5. Syncer!Sync => SP!Sync
    BY <2>2, <2>3 DEF Syncer!Sync, SP!Sync
  <2>6. /\ Syncer!ReplaceStaleCopy => SP!ReplaceStaleCopy
        /\ Syncer!SyncToVirtual => SP!SyncToVirtual
        /\ Syncer!Nothing => SP!Nothing
    BY DEF Syncer!ReplaceStaleCopy, SP!ReplaceStaleCopy, Syncer!SyncToVirtual,
           SP!SyncToVirtual, Syncer!Nothing, SP!Nothing
  <2>7. QED
    BY <2>4, <2>5, <2>6 DEF Syncer!Handle, SP!Handle
<1>4. Syncer!CallFails => SP!CallFails
  BY SyncerWithin DEF Syncer!CallFails, SP!CallFails, Syncer!Exceeding, SP!Exceeding
<1>5. Syncer!Restart => SP!Restart
  BY DEF Syncer!Restart, SP!Restart, Syncer!Forgotten, SP!Forgotten
<1>6. EditsSCC \/ SyncerWorks \/ SyncerFails \/ Restart => SP!Next
  BY <1>1, <1>2, <1>3, <1>4, <1>5 DEF EditsSCC, SyncerWorks, SyncerFails, Restart, SP!Next
<1>7. QED
  BY <1>6
     DEF Next, Mishap, EditsRBAC, BridgeWorks, BridgeFails, HookWorks, HookFails, Admission,
         Crash, vars, syncerVars, budgets

\* The parts start as they do on their own.
LEMMA SyncerInit == Init => SP!Init
BY DEF Init, Syncer!Init, SP!Init, Syncer!Forgotten, SP!Forgotten

\* The used budgets that the parts share.
Budgets == edits \in 0..MaxEdits /\ faults \in 0..MaxFaults

\* No step uses more of them than there is.
LEMMA BudgetsKept == Budgets /\ [Next]_vars => Budgets'
<1> SUFFICES ASSUME Budgets, [Next]_vars PROVE Budgets'
  OBVIOUS
<1>0. MaxEdits \in Nat /\ MaxFaults \in Nat
  BY PartsAssumption
<1>1. CASE UNCHANGED <<edits, faults>>
  BY <1>1 DEF Budgets
<1>2. CASE edits < MaxEdits /\ edits' = edits + 1 /\ faults' = faults
  BY <1>0, <1>2 DEF Budgets
<1>3. CASE faults < MaxFaults /\ faults' = faults + 1 /\ edits' = edits
  BY <1>0, <1>3 DEF Budgets
<1>4. EditsRBAC => edits < MaxEdits /\ edits' = edits + 1 /\ faults' = faults
  BY DEF EditsRBAC, Bridge!DeleteBinding, Bridge!PutBinding, Bridge!DeleteRole, Bridge!PutRole,
         Bridge!ChangeRole, Bridge!Edit
<1>5. EditsSCC => edits < MaxEdits /\ edits' = edits + 1 /\ faults' = faults
  BY DEF EditsSCC, Syncer!Tenant, Syncer!TenantPuts, Syncer!TenantDeletes
<1>6. Bridge!Fail(vcluster) => faults < MaxFaults /\ faults' = faults + 1
  BY DEF Bridge!Fail
<1>7. BridgeWorks \/ BridgeFails =>
          edits' = edits /\ (faults' = faults \/ Bridge!Fail(vcluster))
  BY DEF BridgeWorks, BridgeFails, Bridge!HostCallFails, Bridge!Deliver, Bridge!budgets,
         Bridge!Work, Bridge!Reconcile, Bridge!GetRole, Bridge!ListSCCs, Bridge!EnsureClusterRole,
         Bridge!EnsureClusterRoleBinding, Bridge!ListHostBindings, Bridge!DeleteHostBinding,
         Bridge!ListHostRoles, Bridge!DeleteHostRole, Bridge!CleanupDone, Bridge!Step,
         Bridge!UnchangedByWork
<1>8. SyncerFails => faults < MaxFaults /\ faults' = faults + 1 /\ edits' = edits
  BY DEF SyncerFails, Syncer!CallFails
<1>9. HookFails => faults < MaxFaults /\ faults' = faults + 1 /\ edits' = edits
  BY DEF HookFails, Hook!ListFails, Hook!ResolveFails, Hook!GetPriorityFails, Hook!Fault
<1>10. SyncerWorks \/ HookWorks \/ Admission \/ Crash \/ Restart => UNCHANGED <<edits, faults>>
  BY DEF SyncerWorks, Syncer!Read, Syncer!Handle, Syncer!SyncToHost, Syncer!ReplaceStaleCopy,
         Syncer!Sync, Syncer!SyncToVirtual, Syncer!Nothing, Syncer!DeleteHostObject,
         Syncer!DeleteVirtualObject, Syncer!Return, Syncer!budgets, HookWorks,
         Hook!ListClusterRoleBindings, Hook!ListRoleBindings, Hook!ResolveRoleRef,
         Hook!ListAllVirtualSCCs, Hook!RBACRead, Hook!GetPriority, Hook!SelectBest, Hook!NoFault,
         Admission, budgets, Crash, Bridge!Crash, Restart, Syncer!Restart
<1>11. QED
  BY <1>1, <1>2, <1>3, <1>4, <1>5, <1>6, <1>7, <1>8, <1>9, <1>10
     DEF Next, Mishap, vars, budgets

-----------------------------------------------------------------------------
(* The types.                                                              *)

\* The hook's call, typed.
CallType ==
    /\ DOMAIN call = {"pc", "todo", "matches", "granted", "unread", "candidates"}
    /\ call.pc \in Hook!PCs
    /\ \A m \in call.matches : m.names \subseteq SCCNames
    /\ call.granted \subseteq SCCNames /\ call.unread \subseteq SCCNames
    /\ DOMAIN call.candidates \subseteq SCCNames

AnnotationType ==
    /\ required \in {None, defaultSCC, copyName}
    /\ required = None <=> call.pc # "done"

HistoryType == bound \in SUBSET Roles /\ granting \in SUBSET Roles

\* The inductive invariant: the types, with those of what a call has read.
TypeInv ==
    /\ BP!TypeOK /\ SP!TypeOK
    /\ CallType /\ AnnotationType
    /\ admitted \in {None, defaultSCC, copyName}
    /\ HistoryType

\* The parts' types are those their own theorems are about.
LEMMA BridgeTypes == Bridge!TypeOK <=> BP!TypeOK
<1>1. \A b, s : Bridge!hostSCCName(b, s) = BP!hostSCCName(b, s)
  BY DEF Bridge!hostSCCName, BP!hostSCCName
<1>2. Bridge!Labels = BP!Labels
  BY DEF Bridge!Labels, BP!Labels, Bridge!ownerLabels, BP!ownerLabels, Bridge!safeName,
         BP!safeName, Bridge!bindingKey, BP!bindingKey, Bridge!ClusterBinding, BP!ClusterBinding
<1>3. QED
  BY <1>1, <1>2, BridgeNames, BridgeRules, SharedOperators
     DEF Bridge!TypeOK, BP!TypeOK, Bridge!HostCopies, BP!HostCopies, Bridge!HostSubjectSets,
         BP!HostSubjectSets, Bridge!Workers, BP!Workers, Bridge!PCs, BP!PCs,
         Bridge!RuleMatches, BP!RuleMatches

LEMMA SyncerTypes == Syncer!TypeOK <=> SP!TypeOK
BY DEF Syncer!TypeOK, SP!TypeOK, SP!VirtualObject, Syncer!VirtualObject, SP!IsCopy, Syncer!IsCopy

LEMMA TypesHold == TypeInv => TypeOK
BY BridgeTypes, SyncerTypes DEF TypeInv, TypeOK, CallType, AnnotationType, HistoryType

\* Each part keeps its types in its own steps, by its own theorem, and the
\* others' steps leave them alone.
LEMMA BridgeTypeKept == BP!TypeOK /\ [Next]_vars => BP!TypeOK'
<1> SUFFICES ASSUME BP!TypeOK, [Next]_vars PROVE BP!TypeOK'
  OBVIOUS
<1>1. CASE BP!Next
  BY <1>1, BridgeAssumptions, BP!BridgeTypeStep
<1>2. CASE UNCHANGED <<bindings, roles, bridgeVars, crashes>>
  <2>1. [v \in VClusters |-> IF scc = None THEN {} ELSE SCCNames]'
            \in [VClusters -> SUBSET SCCNames]
    OBVIOUS
  <2>2. QED
    BY <1>2, <2>1 DEF BP!TypeOK, bridgeVars
<1>3. QED
  BY <1>1, <1>2, BridgeStep

LEMMA SyncerTypeKept == SP!TypeOK /\ [Next]_vars => SP!TypeOK'
<1> SUFFICES ASSUME SP!TypeOK, [Next]_vars PROVE SP!TypeOK'
  OBVIOUS
<1>1. CASE SP!Next
  BY <1>1, SyncerAssumptions, SP!SyncerStepType
<1>2. CASE UNCHANGED <<scc, copy, remembered, pending, event, ceiling, restarts>>
  <2>1. Budgets'
    BY BudgetsKept DEF Budgets, SP!TypeOK
  <2>2. QED
    BY <1>2, <2>1 DEF SP!TypeOK, SP!IsCopy, Budgets
<1>3. QED
  BY <1>1, <1>2, SyncerStep

\* What a role grants are names of SCCs.
LEMMA GrantNames ==
    ASSUME RBACType
    PROVE  \A r : \A m \in Hook!roleGrants(r) : m.names \subseteq SCCNames
<1> SUFFICES ASSUME NEW r, NEW m \in Hook!roleGrants(r) PROVE m.names \subseteq SCCNames
  OBVIOUS
<1>1. r \in Roles /\ roles[r] # None /\ m \in extractSCCRules(roles[r])
  BY SharedOperators DEF Hook!roleGrants
<1>2. roles[r] \in RuleSets
  BY <1>1 DEF RBACType
<1>3. PICK rule \in roles[r] :
          m = [names |-> rule.resourceNames, wildcard |-> rule.resourceNames = {}]
  BY <1>1 DEF extractSCCRules
<1>4. m.names = rule.resourceNames
  BY <1>3, Zenon
<1>5. QED
  BY <1>2, <1>4, ConstantsAssumption

\* And so is what they resolve to.
LEMMA ResolvedAreNames ==
    ASSUME NEW matches, \A m \in matches : m.names \subseteq SCCNames, NEW all \in SUBSET SCCNames
    PROVE  Hook!resolveSCCMatches(matches, all) \subseteq SCCNames
BY DEF Hook!resolveSCCMatches

\* The hook's steps keep the call's types, and give the pod a name it can have.
LEMMA HookTypeStep ==
    ASSUME RBACType, CallType, AnnotationType, HookWorks \/ HookFails
    PROVE  CallType' /\ AnnotationType'
<1> USE DEF CallType, AnnotationType, Hook!PCs
<1>1. ASSUME NEW s \in SCCNames \cup {defaultSCC}, Hook!Select(s)
      PROVE  CallType' /\ AnnotationType'
  <2>1. call' = [Hook!Start EXCEPT !.pc = "done"] /\ required' = Hook!hostSCCName(s)
    BY <1>1 DEF Hook!Select
  <2>2. CallType' /\ call'.pc = "done"
    BY <2>1 DEF Hook!Start
  <2>3. required' \in {defaultSCC, copyName}
    BY <2>1, AdmissionAssumption DEF Hook!hostSCCName, copyName
  <2>4. QED
    BY <2>2, <2>3, PartsAssumption
<1>2. CASE Hook!ListFails
  BY <1>1, <1>2 DEF Hook!ListFails
<1>3. CASE Hook!SelectBest
  <2> DEFINE candidates == DOMAIN call.candidates
             IsBest(m) == \A n \in candidates \ {m} : Hook!outranks(m, n, call.candidates)
  <2>1. Hook!Select(IF candidates = {} THEN defaultSCC ELSE CHOOSE m \in candidates : IsBest(m))
    BY <1>3 DEF Hook!SelectBest
  <2>2. candidates = {} \/ candidates = {sccName}
    BY AdmissionAssumption
  <2>3. (CHOOSE m \in {sccName} : \A n \in {sccName} \ {m} : Hook!outranks(m, n, call.candidates))
            = sccName
    OBVIOUS
  <2>4. QED
    BY <1>1, <2>1, <2>2, <2>3, AdmissionAssumption
<1>4. CASE Hook!ListClusterRoleBindings \/ Hook!ListRoleBindings \/ Hook!RBACRead
  BY <1>4 DEF Hook!ListClusterRoleBindings, Hook!ListRoleBindings, Hook!RBACRead, Hook!Continue
<1>5. CASE Hook!ResolveRoleRef
  <2>1. PICK t \in call.todo :
            LET matches == Hook!roleGrants(Hook!roleOf(t.key, t.ref)) IN
            Hook!Continue(IF Hook!Wild(matches)
                     THEN [call EXCEPT !.todo = @ \ {t}, !.matches = matches]
                     ELSE [call EXCEPT !.todo = @ \ {t},
                                       !.granted = @ \cup Hook!resolveSCCMatches(matches, {})])
    BY <1>5 DEF Hook!ResolveRoleRef
  <2> DEFINE matches == Hook!roleGrants(Hook!roleOf(t.key, t.ref))
  <2>2. \A m \in matches : m.names \subseteq SCCNames
    BY GrantNames
  <2>3. Hook!resolveSCCMatches(matches, {}) \subseteq SCCNames
    BY <2>2, ResolvedAreNames
  <2>4. Hook!Continue(IF Hook!Wild(matches)
                      THEN [call EXCEPT !.todo = @ \ {t}, !.matches = matches]
                      ELSE [call EXCEPT !.todo = @ \ {t},
                                        !.granted = @ \cup Hook!resolveSCCMatches(matches, {})])
    BY <2>1
  <2> HIDE DEF matches
  <2>5. QED
    BY <2>2, <2>3, <2>4 DEF Hook!Continue
<1>6. CASE Hook!ListAllVirtualSCCs
  <2>1. Hook!resolveSCCMatches(call.matches, Hook!existing) \subseteq SCCNames
    BY ResolvedAreNames DEF Hook!existing
  <2>2. QED
    BY <1>6, <2>1 DEF Hook!ListAllVirtualSCCs, Hook!Continue
<1>7. CASE Hook!ResolveFails
  BY <1>7 DEF Hook!ResolveFails, Hook!Continue
<1>8. CASE Hook!GetPriority
  BY <1>8 DEF Hook!GetPriority, Hook!Continue
<1>9. CASE Hook!GetPriorityFails
  BY <1>9 DEF Hook!GetPriorityFails, Hook!Continue
<1>10. QED
  BY <1>2, <1>3, <1>4, <1>5, <1>6, <1>7, <1>8, <1>9 DEF HookWorks, HookFails

\* The types hold at the start, and every step keeps them.
LEMMA TypesInitially == Init => TypeInv
<1> SUFFICES ASSUME Init PROVE TypeInv
  OBVIOUS
<1>1. BP!TypeOK
  BY BridgeInit, BridgeAssumptions, BP!InitType
<1>2. SP!TypeOK
  BY SyncerInit, SyncerAssumptions, SP!SyncerInitType
<1>3. CallType /\ AnnotationType
  BY DEF Init, Hook!Start, Hook!PCs, CallType, AnnotationType
<1>4. QED
  BY <1>1, <1>2, <1>3 DEF Init, TypeInv, HistoryType, BoundNow, GrantingNow

LEMMA TypesKept == RBACType /\ TypeInv /\ [Next]_vars => TypeInv'
<1> SUFFICES ASSUME RBACType, TypeInv, [Next]_vars PROVE TypeInv'
  OBVIOUS
<1>1. BP!TypeOK' /\ SP!TypeOK'
  BY BridgeTypeKept, SyncerTypeKept DEF TypeInv
<1>2. CallType' /\ AnnotationType'
  <2>1. CASE UNCHANGED hookVars
    BY <2>1 DEF hookVars, TypeInv, CallType, AnnotationType
  <2>2. CASE call' = Hook!Start /\ required' = None
    BY <2>2 DEF Hook!Start, Hook!PCs, CallType, AnnotationType
  <2>3. CASE HookWorks \/ HookFails
    BY <2>3, HookTypeStep DEF TypeInv
  <2>4. QED
    BY <2>1, <2>2, <2>3
       DEF Next, Mishap, vars, EditsRBAC, EditsSCC, BridgeWorks, BridgeFails, SyncerWorks,
           SyncerFails, Admission, Crash, Restart
<1>3. admitted' \in {None, defaultSCC, copyName}
  BY DEF TypeInv, AnnotationType, Next, Mishap, vars, podVars, EditsRBAC, EditsSCC, BridgeWorks,
         BridgeFails, SyncerWorks, SyncerFails, HookWorks, HookFails, Admission, Crash, Restart
<1>4. HistoryType'
  BY DEF TypeInv, HistoryType, Recorded, BoundNow, GrantingNow, Next, Mishap, vars, history,
         EditsRBAC, EditsSCC, BridgeWorks, BridgeFails, SyncerWorks, SyncerFails, HookWorks,
         HookFails, Admission, Crash, Restart
<1>5. QED
  BY <1>1, <1>2, <1>3, <1>4 DEF TypeInv

\* Every variable has its type, in each part of the plugin that shares it
\* (main.go); a pod is named the default SCC or the tenant's copy, no other.
THEOREM AdmissionTypeCorrect == Spec => []TypeOK
<1>1. Init => RBACType /\ TypeInv
  BY RBACInitially, TypesInitially
<1>2. RBACType /\ TypeInv /\ [Next]_vars => (RBACType /\ TypeInv)'
  BY RBACStep, TypesKept
<1>3. QED
  BY <1>1, <1>2, TypesHold, PTL DEF Spec

-----------------------------------------------------------------------------
(* UsableIsAdmitted.                                                       *)

\* What the theorem supposes: what the bridge's theorem does, and that the
\* tenant's SCC does not have the name of the default, as the hook takes that
\* one for the host's own SCC (hooks/scc.go:85).
Watched == BP!Watched /\ sccName # defaultSCC

\* The inductive invariant: each controller has made its host objects right, or
\* has something to do that will.
AdmissionInv == RBACType /\ BP!ConvergenceInv /\ SP!SettledInv

\* Each part has its own inductive invariant at the start.
LEMMA AdmissionInit == Init => AdmissionInv
BY RBACInitially, BridgeInit, SyncerInit, BridgeAssumptions, SyncerAssumptions,
   BP!ConvergenceInit, SP!SettledInitially
   DEF AdmissionInv

\* A part's steps keep its invariant, the others' leave it alone; the tenant's
\* SCC comes and goes without the bridge's knowing.
LEMMA AdmissionStep == Watched /\ AdmissionInv /\ [Next]_vars => AdmissionInv'
<1> SUFFICES ASSUME Watched, AdmissionInv, [Next]_vars PROVE AdmissionInv'
  OBVIOUS
<1>1. RBACType'
  BY RBACStep DEF AdmissionInv
<1>2. BP!ConvergenceInv'
  <2>1. CASE BP!Next
    <3>1. BP!ReadsSucceed
      BY DEF BP!ReadsSucceed, BP!MappingFails, BP!ResolveFails, BP!VirtualFault
    <3>2. QED
      BY <2>1, <3>1, BridgeAssumptions, BP!ConvergenceStep DEF Watched, AdmissionInv
  <2>2. CASE UNCHANGED <<bindings, roles, bridgeVars, crashes>>
    <3>1. [v \in VClusters |-> IF scc = None THEN {} ELSE SCCNames]'
              \in [VClusters -> SUBSET SCCNames]
      OBVIOUS
    <3>2. QED
      BY <2>2, <3>1, BridgeAssumptions, BP!SCCsKeepConvergence
         DEF Watched, AdmissionInv, bridgeVars
  <2>3. QED
    BY <2>1, <2>2, BridgeStep
<1>3. SP!SettledInv'
  <2>1. CASE SP!Next
    BY <2>1, SyncerAssumptions, SP!SettledStep DEF AdmissionInv
  <2>2. CASE UNCHANGED <<scc, copy, remembered, pending, event, ceiling, restarts>>
    <3>1. SP!TypeOK'
      BY SyncerTypeKept DEF AdmissionInv, SP!SettledInv
    <3>2. QED
      BY <2>2, <3>1
         DEF AdmissionInv, SP!SettledInv, SP!Fresh, SP!NoCopyWithoutLicence,
             SP!CopyOfWhatIsAllowed, SP!Settled
  <2>3. QED
    BY <2>1, <2>2, SyncerStep
<1>4. QED
  BY <1>1, <1>2, <1>3 DEF AdmissionInv

\* A binding of the account to a role that names the SCC grants it for good.
LEMMA NamedLasts ==
    ASSUME RBACType, Usable
    PROVE  \E b \in Bindings :
               hostAccount \in BP!grantedSubjects(b) /\ sccName \in BP!Lasting(b)
<1>1. PICK r \in BoundNow : NamedBy(r)
  BY DEF Usable
<1>2. r \in Roles /\ roles[r] # None /\ roles[r] \in RuleSets
  BY <1>1 DEF BoundNow, NamedBy, RBACType
<1>3. PICK b \in Bindings : Hook!applies(b, account) /\ r = roleOf(b, bindings[b].roleRef)
  BY HookFindsRoles, SharedOperators DEF Hook!boundRoles
<1>4. hostAccount \in BP!grantedSubjects(b)
  <2>1. BP!grantedSubjects(b) = Bridge!grantedSubjects(b)
    BY BridgeNames DEF BP!grantedSubjects, Bridge!grantedSubjects
  <2>2. QED
    BY <1>3, <2>1, BridgeBindsAccount
<1>5. PICK rule \in roles[r] : Allows(rule) /\ sccName \in rule.resourceNames
  BY <1>1, <1>2 DEF NamedBy
<1> DEFINE m == [names |-> rule.resourceNames, wildcard |-> rule.resourceNames = {}]
<1>6. m \in extractSCCRules(roles[r])
  <2>1. IsSCCRule(rule)
    BY <1>5 DEF IsSCCRule, Covers, Allows, sccAPIGroup, sccResource, sccUseVerb
  <2>2. QED
    BY <2>1 DEF extractSCCRules
<1>7. sccName \in m.names /\ ~m.wildcard
  BY <1>5
<1> HIDE DEF m
<1>8. bindings[b] # None /\ BP!roleOf(b, bindings[b].roleRef) = r
  BY <1>3, HookFindsBindings, BridgeRules
<1>9. m \in BP!roleMatches(b)
  BY <1>2, <1>6, <1>8, BridgeRules DEF BP!roleMatches, BP!relevant
<1>10. sccName \in BP!grantedSCCs(b)
  <2>1. BP!grantedSCCs(b) = BP!resolveSCCMatches(extractSCCRules(roles[r]),
            [v \in VClusters |-> IF scc = None THEN {} ELSE SCCNames][b.vc])
    BY <1>2, <1>8, BridgeRules DEF BP!grantedSCCs
  <2>2. QED
    BY <1>6, <1>7, <2>1 DEF BP!resolveSCCMatches
<1>11. QED
  BY <1>4, <1>7, <1>9, <1>10 DEF BP!Lasting

\* The hook selects the SCC that the account may use.
LEMMA HookSelects ==
    ASSUME RBACType, Usable
    PROVE  Hook!bestFor(account) = sccName
<1>1. scc # None /\ Existing = {sccName}
  BY AdmissionAssumption DEF Usable, Existing
<1>2. Allowed
  <2>1. \A r \in Roles : NamedBy(r) => Granting(r)
    BY DEF NamedBy, Granting
  <2>2. QED
    BY <2>1 DEF Usable, Allowed, BoundNow, GrantingNow
<1>3. Hook!grantedTo(account) \cap Hook!existing = {sccName}
  BY <1>1, <1>2, AgreementOfTypes, SameSCCs DEF HookAndBridgeAgree
<1>4. account.ns # << >>
  BY PartsAssumption
<1> DEFINE priority == [s \in SCCNames |-> IF scc = None THEN None ELSE 0]
<1>5. Hook!bestFor(account) = CHOOSE m \in {sccName} :
          \A n \in {sccName} \ {m} : Hook!outranks(m, n, priority)
  BY <1>3, <1>4 DEF Hook!bestFor
<1>6. QED
  BY <1>5

\* What has settled is what the host asks for.
LEMMA SettledAdmits ==
    ASSUME Watched, AdmissionInv
    PROVE  UsableIsAdmitted
<1> SUFFICES ASSUME Quiet, Usable
             PROVE  Admits(Hook!hostSCCName(Hook!bestFor(account)))
  BY DEF UsableIsAdmitted
<1>1. Hook!hostSCCName(Hook!bestFor(account)) = copyName
  BY HookSelects DEF AdmissionInv, Watched, Hook!hostSCCName, copyName
<1>2. copy # None
  <2>1. scc # None /\ SP!Within(scc.scc, ceiling)
    BY SyncerWithin DEF Usable
  <2>2. SP!Settled
    BY DEF Quiet, Syncer!Settled, SP!Settled
  <2>3. QED
    BY <2>1, <2>2 DEF AdmissionInv, SP!SettledInv, SP!CopyOfWhatIsAllowed
<1>3. HostGrants(copyName)
  <2>1. PICK b \in Bindings :
            hostAccount \in BP!grantedSubjects(b) /\ sccName \in BP!Lasting(b)
    BY NamedLasts DEF AdmissionInv
  <2>2. b.vc = vcluster
    BY ConstantsAssumption, AdmissionAssumption DEF Binding
  <2>3. BP!Settled(b.vc)
    BY <2>2 DEF Quiet, Bridge!Settled, BP!Settled, Bridge!Idle, BP!Idle
  <2>4. BP!InPlace(b, sccName)
    BY <2>1, <2>3, BridgeAssumptions, BP!SettledRight DEF AdmissionInv, BP!Right
  <2> DEFINE n == BP!hostName(b, sccName)
  <2>5. n \in Bridge!HostNames
    BY BridgeNames, AdmissionAssumption DEF BP!HostNames
  <2>6. hostCR[n] # None /\ hostCR[n].resourceName = copyName
    <3>1. hostCR[n] = Bridge!HostRole(b, sccName)
      BY <2>4, BridgeNames DEF BP!InPlace
    <3>2. Bridge!HostRole(b, sccName) # None
      BY PartsAssumption
    <3>3. Bridge!HostRole(b, sccName).resourceName = copyName
      BY <2>2 DEF Bridge!HostRole, Bridge!hostSCCName, copyName
    <3>4. QED
      BY <3>1, <3>2, <3>3
  <2>7. hostCRB[n] # None /\ hostAccount \in hostCRB[n].subjects
    <3>1. bindings[b] # None /\ bindings[b].subjects \in SubjectSets[b]
      BY <2>1 DEF BP!grantedSubjects, AdmissionInv, RBACType, Bodies
    <3>2. hostCRB[n] = Bridge!HostBinding(b, Bridge!translateSubjects(b, bindings[b].subjects))
      BY <2>4, <3>1, BridgeNames DEF BP!InPlace, BP!grantedSubjects
    <3>3. hostCRB[n] # None
      BY <3>1, <3>2, PartsAssumption
    <3>4. hostCRB[n].subjects = BP!grantedSubjects(b)
      BY <2>4 DEF BP!InPlace, BP!HostBinding
    <3>5. QED
      BY <2>1, <3>3, <3>4
  <2>8. QED
    BY <2>5, <2>6, <2>7 DEF HostGrants
<1>4. QED
  BY <1>1, <1>2, <1>3 DEF Admits

\* Once bridge and syncer have settled, the hook selects the SCC that the
\* account may use by name, and the host admits the pod under it: the syncer's
\* name of the copy, the bridge's account and role (sccrbac.go:235-280) and the
\* hook's annotation (hooks/scc.go:85-90) agree, whatever was edited, failed and
\* stopped before.
THEOREM SettledPartsAdmit == Watched => (Spec => []UsableIsAdmitted)
<1> SUFFICES ASSUME Watched PROVE Spec => []UsableIsAdmitted
  OBVIOUS
<1>1. AdmissionInv => UsableIsAdmitted
  BY SettledAdmits
<1>2. AdmissionInv /\ [Next]_vars => AdmissionInv'
  BY AdmissionStep
<1>3. QED
  BY <1>1, <1>2, AdmissionInit, PTL DEF Spec
=============================================================================
