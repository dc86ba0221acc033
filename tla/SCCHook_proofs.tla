--------------------------- MODULE SCCHook_proofs ---------------------------
(***************************************************************************)
(* Theorems about the pod hook, for every set of bindings, roles, SCCs,    *)
(* priorities and pods and every bound on edits and failures.              *)
(***************************************************************************)
EXTENDS SCCHook, FiniteSetTheorems, WellFoundedInduction, TLAPS

\* The grants of a role name SCCs of the system.
LEMMA GrantsNameSCCs ==
    ASSUME NEW rules \in RuleSets, NEW m \in extractSCCRules(rules)
    PROVE  m.names \subseteq SCCNames
BY ConstantsAssumption DEF extractSCCRules

LEMMA ResolvedNames ==
    ASSUME NEW matches,
           matches \subseteq UNION {extractSCCRules(rules) : rules \in RuleSets},
           NEW all \in SUBSET SCCNames
    PROVE  resolveSCCMatches(matches, all) \subseteq SCCNames
BY GrantsNameSCCs DEF resolveSCCMatches

LEMMA RoleGrantsType ==
    ASSUME TypeOK, NEW r
    PROVE  roleGrants(r) \subseteq UNION {extractSCCRules(rules) : rules \in RuleSets}
BY DEF TypeOK, roleGrants

-----------------------------------------------------------------------------
(* The order of the candidates (sort.Slice, scc.go:146).                    *)

LEMMA OutranksIsTotalOrder ==
    ASSUME NEW S \in SUBSET SCCNames, NEW P, \A n \in S : P[n] \in Nat,
           NEW l \in S, NEW m \in S, NEW n \in S
    PROVE  /\ ~outranks(m, m, P)
           /\ m # n => outranks(m, n, P) \/ outranks(n, m, P)
           /\ outranks(l, m, P) /\ outranks(m, n, P) => outranks(l, n, P)
<1>1. NameRank[l] \in Nat /\ NameRank[m] \in Nat /\ NameRank[n] \in Nat
  BY HookAssumption
<1>2. NameRank[m] = NameRank[n] => m = n
  BY HookAssumption
<1>3. P[l] \in Nat /\ P[m] \in Nat /\ P[n] \in Nat
  OBVIOUS
<1>4. QED
  BY <1>1, <1>2, <1>3 DEF outranks

\* Sorting finitely many candidates leaves one in the first place.
LEMMA BestExists ==
    ASSUME NEW S \in SUBSET SCCNames, IsFiniteSet(S), S # {},
           NEW P, \A n \in S : P[n] \in Nat
    PROVE  \E m \in S : \A n \in S \ {m} : outranks(m, n, P)
<1> DEFINE Above(m) == {n \in S : outranks(n, m, P)}
           Counts == {Cardinality(Above(m)) : m \in S}
<1>1. \A m \in S : IsFiniteSet(Above(m)) /\ Cardinality(Above(m)) \in Nat
  <2>1. \A m \in S : Above(m) \in SUBSET S
    OBVIOUS
  <2> HIDE DEF Above
  <2>2. QED
    BY <2>1, FS_Subset, FS_CardinalityType
<1> HIDE DEF Above
<1>2. \E x \in Counts : \A y \in Counts : ~ (<<y, x>> \in OpToRel(<, Nat))
  <2>1. Counts \subseteq Nat /\ Counts # {}
    BY <1>1
  <2> HIDE DEF Counts
  <2>2. QED
    BY <2>1, NatLessThanWellFounded, WFMin
<1>3. PICK m \in S : \A n \in S : ~(Cardinality(Above(n)) < Cardinality(Above(m)))
  BY <1>1, <1>2 DEF OpToRel
<1>4. ASSUME NEW n \in S, outranks(n, m, P)
      PROVE  FALSE
  <2>1. Above(n) \subseteq Above(m) /\ n \in Above(m) /\ n \notin Above(n)
    BY <1>4, OutranksIsTotalOrder DEF Above
  <2>2. Cardinality(Above(n)) <= Cardinality(Above(m))
        /\ Cardinality(Above(n)) # Cardinality(Above(m))
    BY <1>1, <2>1, FS_Subset
  <2>3. QED
    BY <1>1, <1>3, <2>2
<1>5. ASSUME NEW n \in S \ {m} PROVE outranks(m, n, P)
  BY <1>4, OutranksIsTotalOrder
<1>6. QED
  BY <1>5

-----------------------------------------------------------------------------
(* Types.                                                                  *)

\* TypeOK, with the candidates finitely many: each is read by a call of its own.
TypeInv == TypeOK /\ IsFiniteSet(DOMAIN call.candidates)

\* A call that goes on has not selected.
LEMMA Going ==
    ASSUME TypeOK, call.pc # "done"
    PROVE  required = None
BY DEF TypeOK

LEMMA CallFields == DOMAIN Start = {"pc", "todo", "matches", "granted", "unread", "candidates"}
BY DEF Start

\* What SelectBest selects: a candidate, or the default if there is none.
LEMMA SelectedIsACandidate ==
    ASSUME TypeInv, SelectBest
    PROVE  IF DOMAIN call.candidates = {} THEN required' = hostSCCName(defaultSCC)
           ELSE \E m \in DOMAIN call.candidates :
                    /\ required' = hostSCCName(m)
                    /\ \A n \in DOMAIN call.candidates \ {m} : outranks(m, n, call.candidates)
<1>1. CASE DOMAIN call.candidates = {}
  BY <1>1 DEF SelectBest, Select
<1>2. CASE DOMAIN call.candidates # {}
  <2> DEFINE C == DOMAIN call.candidates
             best == CHOOSE m \in C : \A n \in C \ {m} : outranks(m, n, call.candidates)
  <2>1. required' = hostSCCName(best)
    BY <1>2 DEF SelectBest, Select
  <2>2. C \in SUBSET SCCNames /\ IsFiniteSet(C) /\ C # {}
        /\ \A n \in C : call.candidates[n] \in Nat
    BY <1>2, HookAssumption DEF TypeInv, TypeOK
  <2>3. best \in C /\ \A n \in C \ {best} : outranks(best, n, call.candidates)
    BY <2>2, BestExists
  <2> HIDE DEF best
  <2>4. QED
    BY <1>2, <2>1, <2>3
<1>3. QED
  BY <1>1, <1>2

LEMMA HookInitType == Init => TypeInv
<1> SUFFICES ASSUME Init PROVE TypeInv
  OBVIOUS
<1>1. IsFiniteSet(DOMAIN call.candidates) /\ DOMAIN call.candidates = {}
  <2>1. DOMAIN call.candidates = {}
    BY DEF Init, Start
  <2>2. QED
    BY <2>1, FS_EmptySet
<1>2. QED
  BY <1>1, HookAssumption DEF Init, TypeInv, TypeOK, Start, PCs

LEMMA TenantKeepsType == TypeInv /\ Tenant => TypeInv'
<1> SUFFICES ASSUME TypeInv, Tenant PROVE TypeInv'
  OBVIOUS
<1>1. UNCHANGED <<pod, call, required, faults>> /\ edits' \in 0..MaxEdits
  BY HookAssumption DEF Tenant, EditBinding, EditRole, EditSCC, Edit, TypeInv, TypeOK
<1>2. /\ DOMAIN bindings' = Bindings
      /\ \A b \in Bindings : bindings'[b] \in Bodies(b) \cup {None}
  BY DEF Tenant, EditBinding, EditRole, EditSCC, TypeInv, TypeOK
<1>3. roles' \in [Roles -> RuleSets \cup {None}] /\ sccs' \in [SCCNames -> Priorities \cup {None}]
  BY DEF Tenant, EditBinding, EditRole, EditSCC, TypeInv, TypeOK
<1>4. QED
  BY <1>1, <1>2, <1>3 DEF TypeInv, TypeOK

\* What every step of the call leaves alone, and how it counts failures.
LEMMA HookFrame ==
    ASSUME TypeInv, Hook
    PROVE  /\ UNCHANGED <<virtual, pod, seen, edits>>
           /\ faults' \in 0..MaxFaults /\ (faults' = faults \/ faults' = faults + 1)
<1>1. NoFault \/ Fault
  BY DEF Hook, Unidentified, ListClusterRoleBindings, ListRoleBindings, ListFails,
         ResolveRoleRef, ListAllVirtualSCCs, ResolveFails, RBACRead, GetPriority,
         GetPriorityFails, SelectBest
<1>2. QED
  BY <1>1, HookAssumption DEF NoFault, Fault, TypeInv, TypeOK

\* The bindings listed for a kind refer to roles as their type says.
LEMMA TodoType ==
    ASSUME TypeOK, NEW kind, NEW t \in todoOf(kind)
    PROVE  /\ t.key \in Bindings /\ t.ref \in RoleRefs[t.key]
           /\ applies(t.key, sa) /\ t.key.kind = kind /\ t.ref = bindings[t.key].roleRef
BY DEF TypeOK, todoOf, matching, applies, Bodies

LEMMA HookKeepsType == TypeInv /\ Hook => TypeInv'
<1> SUFFICES ASSUME TypeInv, Hook PROVE TypeInv'
  OBVIOUS
<1>0. UNCHANGED <<virtual, pod, seen, edits>> /\ faults' \in 0..MaxFaults
  BY HookFrame
<1> USE DEF TypeInv, PCs
<1>1. ASSUME NEW scc \in SCCNames \cup {defaultSCC}, Select(scc) PROVE TypeInv'
  <2>1. required' # None /\ call'.pc = "done" /\ DOMAIN call' = DOMAIN Start
        /\ call'.todo = {} /\ call'.matches = {} /\ call'.granted = {} /\ call'.unread = {}
        /\ DOMAIN call'.candidates = {}
    BY <1>1, NoneAssumption DEF Select, Start
  <2>2. QED
    BY <1>0, <2>1, FS_EmptySet DEF TypeOK, virtual
<1>2. CASE ListClusterRoleBindings \/ ListRoleBindings
  <2>1. PICK kind \in {ClusterBinding, "RoleBinding"}, pc \in {"clusterBindings", "bindings"} :
            call' = [call EXCEPT !.pc = pc, !.todo = todoOf(kind)]
    BY <1>2 DEF ListClusterRoleBindings, ListRoleBindings, Continue
  <2>2. required' = required /\ call.pc # "done"
    BY <1>2 DEF ListClusterRoleBindings, ListRoleBindings, Continue
  <2>3. \A t \in todoOf(kind) : t.key \in Bindings /\ t.ref \in RoleRefs[t.key]
    BY TodoType
  <2>4. QED
    BY <1>0, <2>1, <2>2, <2>3, CallFields DEF TypeOK, virtual
<1>3. CASE ResolveRoleRef
  <2>1. PICK t \in call.todo :
            LET matches == roleGrants(roleOf(t.key, t.ref)) IN
            Continue(IF Wild(matches)
                     THEN [call EXCEPT !.todo = @ \ {t}, !.matches = matches]
                     ELSE [call EXCEPT !.todo = @ \ {t},
                                       !.granted = @ \cup resolveSCCMatches(matches, {})])
    BY <1>3 DEF ResolveRoleRef
  <2> DEFINE matches == roleGrants(roleOf(t.key, t.ref))
  <2>2. matches \subseteq UNION {extractSCCRules(rules) : rules \in RuleSets}
        /\ resolveSCCMatches(matches, {}) \subseteq SCCNames
    BY RoleGrantsType, ResolvedNames
  <2> HIDE DEF matches
  <2>3. QED
    BY <1>0, <1>3, <2>1, <2>2, CallFields DEF TypeOK, virtual, ResolveRoleRef, Continue, matches
<1>4. CASE ListAllVirtualSCCs
  <2>1. resolveSCCMatches(call.matches, existing) \subseteq SCCNames
    BY ResolvedNames DEF TypeOK, existing
  <2>2. QED
    BY <1>0, <1>4, <2>1, CallFields DEF TypeOK, virtual, ListAllVirtualSCCs, Continue
<1>5. CASE ResolveFails
  BY <1>0, <1>5, CallFields DEF TypeOK, virtual, ResolveFails, Continue
<1>6. CASE RBACRead
  BY <1>0, <1>6, CallFields DEF TypeOK, virtual, RBACRead, Continue
<1>7. CASE GetPriority
  <2>1. PICK scc \in call.unread :
            call' = [call EXCEPT !.unread = @ \ {scc},
                              !.candidates = IF sccs[scc] = None THEN @
                                             ELSE [n \in DOMAIN @ \cup {scc} |->
                                                      IF n = scc THEN sccs[scc] ELSE @[n]]]
    BY <1>7 DEF GetPriority, Continue
  <2>2. CASE sccs[scc] = None
    BY <1>0, <1>7, <2>1, <2>2, CallFields DEF TypeOK, virtual, GetPriority, Continue
  <2>3. CASE sccs[scc] # None
    <3>1. /\ call'.candidates = [n \in DOMAIN call.candidates \cup {scc} |->
                                    IF n = scc THEN sccs[scc] ELSE call.candidates[n]]
          /\ call'.granted = call.granted /\ call'.unread = call.unread \ {scc}
          /\ call'.pc = call.pc /\ call'.todo = call.todo /\ call'.matches = call.matches
          /\ DOMAIN call' = DOMAIN call
      BY <2>1, <2>3, CallFields DEF TypeOK
    <3>2. IsFiniteSet(DOMAIN call'.candidates)
      BY <3>1, FS_AddElement
    <3>3. required' = None /\ required = None
      BY <1>7 DEF TypeOK, GetPriority, Continue
    <3>4. sccs[scc] \in Priorities
      BY <2>3 DEF TypeOK
    <3>5. QED
      BY <1>0, <3>1, <3>2, <3>3, <3>4 DEF TypeOK, virtual
  <2>4. QED
    BY <2>2, <2>3
<1>8. CASE GetPriorityFails
  BY <1>0, <1>8, CallFields DEF TypeOK, virtual, GetPriorityFails, Continue
<1>9. CASE Unidentified \/ ListFails
  BY <1>1, <1>9 DEF Unidentified, ListFails
<1>10. CASE SelectBest
  <2>1. PICK scc \in SCCNames \cup {defaultSCC} : required' = hostSCCName(scc)
    BY <1>10, SelectedIsACandidate DEF TypeOK
  <2>2. Select(scc)
    BY <1>10, <2>1 DEF SelectBest, Select
  <2>3. QED
    BY <1>1, <2>2
<1>11. QED
  BY <1>2, <1>3, <1>4, <1>5, <1>6, <1>7, <1>8, <1>9, <1>10 DEF Hook

\* TypeInv holds for ever.
LEMMA TypeStep == TypeInv /\ [Next]_vars => TypeInv'
<1>1. TypeInv /\ UNCHANGED vars => TypeInv'
  BY DEF TypeInv, TypeOK, vars, virtual
<1>2. QED
  BY <1>1, TenantKeepsType, HookKeepsType DEF Next

\* Every variable of the hook's call has its type.
THEOREM HookType == Spec => []TypeOK
<1>1. TypeInv => TypeOK
  BY DEF TypeInv
<1>2. QED
  BY <1>1, HookInitType, TypeStep, PTL DEF Spec

-----------------------------------------------------------------------------
(* The history: what the call has read held at some instant of it.         *)

\* The history holds the present, but for its best SCC.
IsNow(i) ==
    /\ i.bound = boundRoles(sa) /\ i.existing = existing /\ i.granted = grantedTo(sa)
    /\ \A r \in Roles : i.grants[r] = roleGrants(r)

NowSeen == \E i \in seen : IsNow(i)

\* What the virtual objects say changes by an edit only.
LEMMA SameObjects ==
    ASSUME UNCHANGED virtual, UNCHANGED pod
    PROVE  /\ sa' = sa /\ existing' = existing /\ boundRoles(sa)' = boundRoles(sa)
           /\ \A r : roleGrants(r)' = roleGrants(r)
           /\ grantedTo(sa)' = grantedTo(sa)
<1>1. sa' = sa /\ existing' = existing /\ \A r : roleGrants(r)' = roleGrants(r)
  BY DEF virtual, sa, existing, roleGrants
<1>2. \A b : applies(b, sa)' = applies(b, sa)
  BY <1>1 DEF virtual, applies
<1>3. boundRoles(sa)' = boundRoles(sa)
  BY <1>2 DEF virtual, boundRoles
<1>4. grantedTo(sa)' = grantedTo(sa)
  BY <1>1, <1>3 DEF grantedTo
<1>5. QED
  BY <1>1, <1>3, <1>4

LEMMA InstantIsNow == IsNow(Instant)
BY DEF IsNow, Instant, sa

\* The history grows, by the present when the tenant edits.
LEMMA HistoryStep ==
    ASSUME TypeInv, NowSeen, [Next]_vars
    PROVE  NowSeen' /\ seen \subseteq seen'
<1>1. CASE UNCHANGED <<virtual, pod, seen>>
  <2>1. PICK i \in seen : IsNow(i)
    BY DEF NowSeen
  <2>2. IsNow(i)'
    BY <1>1, <2>1, SameObjects DEF IsNow
  <2>3. QED
    BY <1>1, <2>2 DEF NowSeen
<1>2. CASE Tenant
  <2>1. seen' = seen \cup {Instant'}
    BY <1>2 DEF Tenant, EditBinding, EditRole, EditSCC, Edit
  <2>2. IsNow(Instant)'
    BY InstantIsNow, PTL
  <2> HIDE DEF Instant
  <2>3. QED
    BY <2>1, <2>2 DEF NowSeen, IsNow
<1>3. QED
  BY <1>1, <1>2, HookFrame DEF Next, vars

-----------------------------------------------------------------------------
(* What each step of the call leaves in it.                                *)

Becomes(c, todo, matches, granted, unread) ==
    /\ c.todo = todo /\ c.matches = matches /\ c.granted = granted /\ c.unread = unread

\* A call that selects reads no more.
LEMMA AfterSelection ==
    ASSUME TypeInv, NEW scc, Select(scc)
    PROVE  call'.pc = "done" /\ Becomes(call', {}, {}, {}, {}) /\ DOMAIN call'.candidates = {}
BY DEF Select, Start, Becomes

LEMMA AfterList ==
    ASSUME TypeInv, ListClusterRoleBindings \/ ListRoleBindings
    PROVE  \E kind \in {ClusterBinding, "RoleBinding"} :
               /\ kind = ClusterBinding => call.pc = "start" /\ call'.pc = "clusterBindings"
               /\ kind = "RoleBinding" =>
                      call.pc = "clusterBindings" /\ Resolved /\ call'.pc = "bindings"
               /\ Becomes(call', todoOf(kind), call.matches, call.granted, call.unread)
               /\ call'.candidates = call.candidates
<1>1. DOMAIN call = {"pc", "todo", "matches", "granted", "unread", "candidates"}
  BY CallFields DEF TypeInv, TypeOK
<1>2. CASE ListClusterRoleBindings
  <2>1. /\ call.pc = "start" /\ call'.pc = "clusterBindings"
        /\ Becomes(call', todoOf(ClusterBinding), call.matches, call.granted, call.unread)
        /\ call'.candidates = call.candidates
    BY <1>1, <1>2 DEF ListClusterRoleBindings, Continue, Becomes
  <2>2. QED
    BY <2>1 DEF ClusterBinding
<1>3. CASE ListRoleBindings
  <2>1. /\ call.pc = "clusterBindings" /\ Resolved /\ call'.pc = "bindings"
        /\ Becomes(call', todoOf("RoleBinding"), call.matches, call.granted, call.unread)
        /\ call'.candidates = call.candidates
    BY <1>1, <1>3 DEF ListRoleBindings, Continue, Becomes
  <2>2. QED
    BY <2>1 DEF ClusterBinding
<1>4. QED
  BY <1>2, <1>3

LEMMA AfterRole ==
    ASSUME TypeInv, ResolveRoleRef
    PROVE  /\ call.matches = {} /\ call'.pc = call.pc /\ call'.candidates = call.candidates
           /\ call.pc \in {"clusterBindings", "bindings"}
           /\ \E t \in call.todo : \E matches \in SUBSET roleGrants(roleOf(t.key, t.ref)) :
                  /\ matches = {} \/ matches = roleGrants(roleOf(t.key, t.ref))
                  /\ matches = {} => ~Wild(roleGrants(roleOf(t.key, t.ref)))
                  /\ Becomes(call', call.todo \ {t}, matches,
                             IF matches # {} THEN call.granted
                             ELSE call.granted \cup
                                  resolveSCCMatches(roleGrants(roleOf(t.key, t.ref)), {}),
                             call.unread)
<1>1. PICK t \in call.todo :
          LET matches == roleGrants(roleOf(t.key, t.ref)) IN
          Continue(IF Wild(matches)
                   THEN [call EXCEPT !.todo = @ \ {t}, !.matches = matches]
                   ELSE [call EXCEPT !.todo = @ \ {t},
                                     !.granted = @ \cup resolveSCCMatches(matches, {})])
  BY DEF ResolveRoleRef
<1> DEFINE grants == roleGrants(roleOf(t.key, t.ref))
<1>2. DOMAIN call = {"pc", "todo", "matches", "granted", "unread", "candidates"}
      /\ call.matches = {} /\ call.pc \in {"clusterBindings", "bindings"}
  BY CallFields DEF TypeInv, TypeOK, ResolveRoleRef
<1>3. CASE Wild(grants)
  <2>1. grants # {}
    BY <1>3 DEF Wild
  <2> HIDE DEF grants
  <2>2. /\ Becomes(call', call.todo \ {t}, grants, call.granted, call.unread)
        /\ call'.pc = call.pc /\ call'.candidates = call.candidates
    BY <1>1, <1>2, <1>3 DEF Continue, Becomes, grants
  <2>3. QED
    BY <1>2, <2>1, <2>2 DEF grants
<1>4. CASE ~Wild(grants)
  <2> HIDE DEF grants
  <2>1. /\ Becomes(call', call.todo \ {t}, {}, call.granted \cup resolveSCCMatches(grants, {}),
                   call.unread)
        /\ call'.pc = call.pc /\ call'.candidates = call.candidates
    BY <1>1, <1>2, <1>4 DEF Continue, Becomes, grants
  <2>2. QED
    BY <1>2, <1>4, <2>1 DEF grants
<1>5. QED
  BY <1>3, <1>4

LEMMA AfterSCCList ==
    ASSUME TypeInv, ListAllVirtualSCCs
    PROVE  /\ call'.pc = call.pc /\ call'.candidates = call.candidates
           /\ Becomes(call', call.todo, {},
                      call.granted \cup resolveSCCMatches(call.matches, existing), call.unread)
BY CallFields DEF TypeInv, TypeOK, ListAllVirtualSCCs, Continue, Becomes

LEMMA AfterFailure ==
    ASSUME TypeInv, ResolveFails \/ GetPriorityFails
    PROVE  /\ call'.pc = call.pc /\ call'.candidates = call.candidates
           /\ \E todo \in SUBSET call.todo, matches \in SUBSET call.matches,
                 unread \in SUBSET call.unread :
                  Becomes(call', todo, matches, call.granted, unread)
BY CallFields DEF TypeInv, TypeOK, ResolveFails, GetPriorityFails, Continue, Becomes

LEMMA AfterRBAC ==
    ASSUME TypeInv, RBACRead
    PROVE  /\ call.pc = "bindings" /\ Resolved /\ call'.pc = "priorities"
           /\ call'.candidates = call.candidates
           /\ Becomes(call', call.todo, call.matches, call.granted, call.granted)
BY CallFields DEF TypeInv, TypeOK, RBACRead, Continue, Becomes

LEMMA AfterPriority ==
    ASSUME TypeInv, GetPriority
    PROVE  \E scc \in call.unread :
               /\ call.pc = "priorities" /\ call'.pc = "priorities"
               /\ Becomes(call', call.todo, call.matches, call.granted, call.unread \ {scc})
               /\ call'.candidates = IF sccs[scc] = None THEN call.candidates
                                     ELSE [n \in DOMAIN call.candidates \cup {scc} |->
                                              IF n = scc THEN sccs[scc] ELSE call.candidates[n]]
<1>1. DOMAIN call = {"pc", "todo", "matches", "granted", "unread", "candidates"}
  BY CallFields DEF TypeInv, TypeOK
<1>2. PICK scc \in call.unread :
          call' = [call EXCEPT !.unread = @ \ {scc},
                            !.candidates = IF sccs[scc] = None THEN @
                                           ELSE [n \in DOMAIN @ \cup {scc} |->
                                                    IF n = scc THEN sccs[scc] ELSE @[n]]]
  BY DEF GetPriority, Continue
<1>3. CASE sccs[scc] = None
  BY <1>1, <1>2, <1>3 DEF GetPriority, Becomes
<1>4. CASE sccs[scc] # None
  <2>1. call' = [call EXCEPT !.unread = @ \ {scc},
                          !.candidates = [n \in DOMAIN call.candidates \cup {scc} |->
                                             IF n = scc THEN sccs[scc] ELSE call.candidates[n]]]
    BY <1>2, <1>4
  <2>2. QED
    BY <1>1, <1>4, <2>1 DEF GetPriority, Becomes
<1>5. QED
  BY <1>3, <1>4

\* What a phase of the call leaves to do, and what it has not begun.
Phases ==
    /\ call.pc = "start" => Becomes(call, {}, {}, {}, {})
    /\ call.pc \in {"priorities", "done"} => Resolved
    /\ call.pc # "priorities" => call.unread = {} /\ DOMAIN call.candidates = {}

LEMMA PhasesInitially == Init => Phases
BY DEF Init, Phases, Start, Becomes, Resolved

LEMMA PhasesStep == TypeInv /\ Phases /\ [Next]_vars => Phases'
<1> SUFFICES ASSUME TypeInv, Phases, [Next]_vars PROVE Phases'
  OBVIOUS
<1> USE DEF Becomes, Resolved
<1>1. CASE call' = call
  BY <1>1 DEF Phases
<1>2. CASE ListClusterRoleBindings \/ ListRoleBindings
  BY <1>2, AfterList DEF ClusterBinding, Phases
<1>3. CASE ResolveRoleRef
  <2>1. call'.pc = call.pc /\ call'.candidates = call.candidates /\ call'.unread = call.unread
        /\ call.pc \in {"clusterBindings", "bindings"}
    BY <1>3, AfterRole
  <2>2. QED
    BY <2>1 DEF Phases
<1>4. CASE ListAllVirtualSCCs
  BY <1>4, AfterSCCList DEF Phases, ListAllVirtualSCCs
<1>5. CASE ResolveFails \/ GetPriorityFails
  <2>1. /\ call'.pc = call.pc /\ call'.candidates = call.candidates /\ call.pc # "start"
        /\ call'.todo \subseteq call.todo /\ call'.matches \subseteq call.matches
        /\ call'.unread \subseteq call.unread
    BY <1>5, AfterFailure DEF ResolveFails, GetPriorityFails
  <2>2. QED
    BY <2>1 DEF Phases
<1>6. CASE RBACRead
  BY <1>6, AfterRBAC DEF Phases
<1>7. CASE GetPriority
  <2>1. /\ call.pc = "priorities" /\ call'.pc = "priorities"
        /\ call'.todo = call.todo /\ call'.matches = call.matches
    BY <1>7, AfterPriority
  <2>2. QED
    BY <2>1 DEF Phases
<1>8. CASE Unidentified \/ ListFails \/ SelectBest
  BY <1>8, AfterSelection DEF Phases, Unidentified, ListFails, SelectBest
<1>9. QED
  BY <1>1, <1>2, <1>3, <1>4, <1>5, <1>6, <1>7, <1>8
     DEF Next, Hook, Tenant, EditBinding, EditRole, EditSCC, Edit, vars

-----------------------------------------------------------------------------
(* SelectionHasAGrant.                                                     *)

HasGrant(scc) ==
    \E i, j \in seen : \E r \in i.bound : \E m \in j.grants[r] : m.wildcard \/ scc \in m.names

\* Each thing the call has read held at an instant.
ListedWasBound ==
    \A t \in call.todo : roleOf(t.key, t.ref) \in Roles =>
        \E i \in seen : roleOf(t.key, t.ref) \in i.bound

MatchesWereGranted ==
    \A m \in call.matches : \E i, j \in seen : \E r \in i.bound : m \in j.grants[r]

GrantedHasGrant == \A scc \in call.granted : HasGrant(scc)

CandidatesExisted == \A scc \in DOMAIN call.candidates : \E k \in seen : scc \in k.existing

\* The inductive invariant of SelectionHasAGrant.
GrantInv ==
    /\ TypeInv /\ Phases /\ NowSeen
    /\ ListedWasBound /\ MatchesWereGranted /\ GrantedHasGrant /\ CandidatesExisted
    /\ SelectionHasAGrant

LEMMA GrantInitially == Init => GrantInv
<1> SUFFICES ASSUME Init PROVE GrantInv
  OBVIOUS
<1>1. NowSeen
  BY InstantIsNow DEF Init, NowSeen
<1>2. QED
  BY <1>1, HookInitType, PhasesInitially
     DEF Init, GrantInv, Start, ListedWasBound, MatchesWereGranted, GrantedHasGrant,
         CandidatesExisted, SelectionHasAGrant

\* What is listed, and what a role grants, is so now.
LEMMA ListedIsBound ==
    ASSUME TypeOK, NEW kind, NEW t \in todoOf(kind), roleOf(t.key, t.ref) \in Roles
    PROVE  roleOf(t.key, t.ref) \in boundRoles(sa)
BY TodoType DEF boundRoles

LEMMA GrantedByARole ==
    ASSUME NEW r, NEW m \in roleGrants(r)
    PROVE  r \in Roles
BY DEF roleGrants

\* What only depends on the history survives its growth.
LEMMA GrantsKept ==
    ASSUME seen \subseteq seen'
    PROVE  /\ \A scc : HasGrant(scc) => HasGrant(scc)'
           /\ ListedWasBound /\ call'.todo \subseteq call.todo => ListedWasBound'
           /\ MatchesWereGranted /\ call'.matches \subseteq call.matches => MatchesWereGranted'
           /\ GrantedHasGrant /\ call'.granted \subseteq call.granted => GrantedHasGrant'
           /\ CandidatesExisted /\ DOMAIN call'.candidates \subseteq DOMAIN call.candidates
                  => CandidatesExisted'
<1>1. \A scc : HasGrant(scc) => HasGrant(scc)'
  BY DEF HasGrant
<1>2. ListedWasBound /\ call'.todo \subseteq call.todo => ListedWasBound'
  BY DEF ListedWasBound
<1>3. MatchesWereGranted /\ call'.matches \subseteq call.matches => MatchesWereGranted'
  BY DEF MatchesWereGranted
<1>4. GrantedHasGrant /\ call'.granted \subseteq call.granted => GrantedHasGrant'
  BY <1>1 DEF GrantedHasGrant
<1>5. CandidatesExisted /\ DOMAIN call'.candidates \subseteq DOMAIN call.candidates
          => CandidatesExisted'
  BY DEF CandidatesExisted
<1>6. QED
  BY <1>1, <1>2, <1>3, <1>4, <1>5

\* A candidate that is selected had its grant.
LEMMA SelectedHasGrant ==
    ASSUME GrantInv, seen' = seen, NEW scc \in DOMAIN call.candidates,
           required' = hostSCCName(scc)
    PROVE  SelectionHasAGrant'
<1>1. scc \in call.granted
  BY DEF GrantInv, TypeInv, TypeOK
<1>2. PICK i \in seen, j \in seen : \E r \in i.bound : \E m \in j.grants[r] :
          m.wildcard \/ scc \in m.names
  BY <1>1 DEF GrantInv, GrantedHasGrant, HasGrant
<1>3. PICK k \in seen : scc \in k.existing
  BY DEF GrantInv, CandidatesExisted
<1>4. QED
  BY <1>2, <1>3 DEF SelectionHasAGrant

LEMMA GrantStep == GrantInv /\ [Next]_vars => GrantInv'
<1> SUFFICES ASSUME GrantInv, [Next]_vars PROVE GrantInv'
  OBVIOUS
<1>0. /\ TypeInv /\ TypeInv' /\ Phases /\ Phases' /\ NowSeen /\ NowSeen'
      /\ seen \subseteq seen'
  BY TypeStep, PhasesStep, HistoryStep DEF GrantInv
<1>1. PICK now \in seen : IsNow(now)
  BY <1>0 DEF NowSeen
<1>2. ASSUME required' = None PROVE SelectionHasAGrant'
  BY <1>2 DEF SelectionHasAGrant
<1>3. ASSUME call' = call, required' = required PROVE GrantInv'
  <2>1. SelectionHasAGrant'
    BY <1>0, <1>3 DEF GrantInv, SelectionHasAGrant
  <2>2. QED
    BY <1>0, <1>3, <2>1, GrantsKept DEF GrantInv
<1>4. CASE ListClusterRoleBindings \/ ListRoleBindings
  <2>1. PICK kind : Becomes(call', todoOf(kind), call.matches, call.granted, call.unread)
                    /\ call'.candidates = call.candidates /\ call'.pc # "done"
    BY <1>0, <1>4, AfterList DEF ClusterBinding
  <2>2. ListedWasBound'
    BY <1>0, <1>1, <2>1, ListedIsBound DEF Becomes, ListedWasBound, IsNow, TypeInv
  <2>3. QED
    BY <1>0, <1>2, <2>1, <2>2, GrantsKept DEF GrantInv, Becomes, TypeInv, TypeOK
<1>5. CASE ResolveRoleRef
  <2>1. PICK t \in call.todo : \E matches \in SUBSET roleGrants(roleOf(t.key, t.ref)) :
                  Becomes(call', call.todo \ {t}, matches,
                             IF matches # {} THEN call.granted
                             ELSE call.granted \cup
                                  resolveSCCMatches(roleGrants(roleOf(t.key, t.ref)), {}),
                             call.unread)
    BY <1>0, <1>5, AfterRole
  <2>2. call'.pc # "done" /\ call'.candidates = call.candidates
    BY <1>0, <1>5, AfterRole
  <2>3. ASSUME NEW m \in roleGrants(roleOf(t.key, t.ref))
        PROVE  \E i \in seen, j \in seen : \E r \in i.bound : m \in j.grants[r]
    <3>1. roleOf(t.key, t.ref) \in Roles
      BY GrantedByARole
    <3>2. PICK i \in seen : roleOf(t.key, t.ref) \in i.bound
      BY <3>1 DEF GrantInv, ListedWasBound
    <3>3. m \in now.grants[roleOf(t.key, t.ref)]
      BY <1>1, <3>1 DEF IsNow
    <3>4. QED
      BY <3>2, <3>3
  <2>4. MatchesWereGranted'
    BY <1>0, <2>1, <2>3 DEF Becomes, MatchesWereGranted
  <2>5. GrantedHasGrant'
    <3>1. ASSUME NEW scc \in resolveSCCMatches(roleGrants(roleOf(t.key, t.ref)), {})
          PROVE  HasGrant(scc)
      BY <2>3 DEF resolveSCCMatches, HasGrant
    <3>2. call'.granted \subseteq
              call.granted \cup resolveSCCMatches(roleGrants(roleOf(t.key, t.ref)), {})
      BY <2>1 DEF Becomes
    <3>3. QED
      BY <1>0, <3>1, <3>2, GrantsKept DEF GrantInv, GrantedHasGrant
  <2>6. QED
    BY <1>0, <1>2, <2>1, <2>2, <2>4, <2>5, GrantsKept DEF GrantInv, Becomes, TypeInv, TypeOK
<1>6. CASE ListAllVirtualSCCs
  <2>1. /\ call'.pc = call.pc /\ call'.candidates = call.candidates
        /\ Becomes(call', call.todo, {},
                   call.granted \cup resolveSCCMatches(call.matches, existing), call.unread)
    BY <1>0, <1>6, AfterSCCList
  <2>2. GrantedHasGrant'
    <3>1. ASSUME NEW scc \in resolveSCCMatches(call.matches, existing) PROVE HasGrant(scc)
      BY DEF resolveSCCMatches, HasGrant, GrantInv, MatchesWereGranted
    <3>2. QED
      BY <1>0, <2>1, <3>1, GrantsKept DEF GrantInv, GrantedHasGrant, Becomes
  <2>3. required' = None
    BY <1>0, <1>6 DEF ListAllVirtualSCCs, Continue, TypeInv, TypeOK, Phases, Resolved
  <2>4. QED
    BY <1>0, <1>2, <2>1, <2>2, <2>3, GrantsKept DEF GrantInv, Becomes
<1>7. CASE ResolveFails \/ GetPriorityFails
  <2>1. /\ call'.pc = call.pc /\ call'.candidates = call.candidates
        /\ call'.todo \subseteq call.todo /\ call'.matches \subseteq call.matches
        /\ call'.granted = call.granted
    BY <1>0, <1>7, AfterFailure DEF Becomes
  <2>2. required' = None
    BY <1>7 DEF ResolveFails, GetPriorityFails, Continue, GrantInv, TypeInv, TypeOK
  <2>3. QED
    BY <1>0, <1>2, <2>1, <2>2, GrantsKept DEF GrantInv
<1>8. CASE RBACRead
  BY <1>0, <1>2, <1>8, AfterRBAC, GrantsKept DEF GrantInv, Becomes, TypeInv, TypeOK
<1>9. CASE GetPriority
  <2>1. PICK scc \in call.unread :
               /\ call'.pc = "priorities"
               /\ Becomes(call', call.todo, call.matches, call.granted, call.unread \ {scc})
               /\ call'.candidates = IF sccs[scc] = None THEN call.candidates
                                     ELSE [n \in DOMAIN call.candidates \cup {scc} |->
                                              IF n = scc THEN sccs[scc] ELSE call.candidates[n]]
    BY <1>0, <1>9, AfterPriority
  <2>2. CandidatesExisted'
    <3>1. sccs[scc] # None => scc \in now.existing
      BY <1>0, <1>1 DEF IsNow, existing, TypeInv, TypeOK
    <3>2. QED
      BY <1>0, <2>1, <3>1 DEF GrantInv, CandidatesExisted
  <2>3. required' = None
    BY <1>0, <2>1 DEF TypeInv, TypeOK
  <2>4. QED
    BY <1>0, <1>2, <2>1, <2>2, <2>3, GrantsKept DEF GrantInv, Becomes
<1>10. CASE Unidentified \/ ListFails \/ SelectBest
  <2>1. PICK scc : Select(scc)
    BY <1>10 DEF Unidentified, ListFails, SelectBest
  <2>2. call'.pc = "done" /\ Becomes(call', {}, {}, {}, {}) /\ DOMAIN call'.candidates = {}
    BY <1>0, <2>1, AfterSelection
  <2>3. SelectionHasAGrant'
    <3>1. CASE required' = hostSCCName(defaultSCC)
      BY <3>1 DEF SelectionHasAGrant, hostSCCName
    <3>2. CASE SelectBest
      BY <1>0, <1>10, <3>1, <3>2, HookFrame, SelectedIsACandidate, SelectedHasGrant DEF Hook
    <3>3. QED
      BY <1>10, <3>1, <3>2 DEF Unidentified, ListFails, Select
  <2>4. QED
    BY <1>0, <2>2, <2>3, GrantsKept DEF GrantInv, Becomes
<1>11. QED
  BY <1>3, <1>4, <1>5, <1>6, <1>7, <1>8, <1>9, <1>10
     DEF Next, Hook, Tenant, EditBinding, EditRole, EditSCC, Edit, vars

\* However many edits and failures there are, the hook selects an SCC only if
\* at some instant of the call it existed, at some the account was bound to a
\* role, and at some that role granted it (resolveUsableSCCs, scc.go:66).
THEOREM SelectionsHaveAGrant == Spec => []SelectionHasAGrant
<1>1. GrantInv => SelectionHasAGrant
  BY DEF GrantInv
<1>2. QED
  BY <1>1, GrantInitially, GrantStep, PTL DEF Spec

-----------------------------------------------------------------------------
(* SelectionWasGranted.                                                    *)

\* An instant's SCCs are those its bound roles granted.
Coherent(i) ==
    i.granted = UNION {resolveSCCMatches(i.grants[r], i.existing) : r \in i.bound}

\* An instant of the grants and SCCs of the present.
SameGrants(i) == i.existing = existing /\ \A r \in Roles : i.grants[r] = roleGrants(r)

ListedWasBoundWithGrants ==
    \A t \in call.todo : roleOf(t.key, t.ref) \in Roles =>
        \E i \in seen : roleOf(t.key, t.ref) \in i.bound /\ SameGrants(i)

MatchesWereGrantedWithSCCs ==
    \A m \in call.matches : \E i \in seen : \E r \in i.bound :
        m \in i.grants[r] /\ i.existing = existing

GrantedAtAnInstant == \A scc \in call.granted : \E i \in seen : scc \in i.granted

\* Before the first edit the history is the present; until the second, all the
\* call has read of a role belongs to one instant.
GrantedInv ==
    /\ TypeInv /\ Phases /\ NowSeen
    /\ \A i \in seen : Coherent(i)
    /\ edits = 0 => \A i \in seen : IsNow(i)
    /\ edits <= 1 =>
           ListedWasBoundWithGrants /\ MatchesWereGrantedWithSCCs /\ GrantedAtAnInstant
    /\ SelectionWasGranted

LEMMA NowIsCoherent ==
    ASSUME NEW i, IsNow(i)
    PROVE  Coherent(i) /\ SameGrants(i)
<1>1. boundRoles(sa) \subseteq Roles
  BY DEF boundRoles
<1>2. QED
  BY <1>1 DEF IsNow, Coherent, SameGrants, grantedTo

LEMMA InstantIsCoherent == Coherent(Instant) /\ SameGrants(Instant)
BY InstantIsNow, NowIsCoherent

LEMMA GrantedInitially == Init => GrantedInv
<1> SUFFICES ASSUME Init PROVE GrantedInv
  OBVIOUS
<1>1. \A i \in seen : IsNow(i) /\ Coherent(i)
  BY InstantIsNow, NowIsCoherent DEF Init
<1>2. NowSeen
  BY InstantIsNow DEF Init, NowSeen
<1>3. QED
  BY <1>1, <1>2, HookInitType, PhasesInitially
     DEF Init, GrantedInv, Start, ListedWasBoundWithGrants, MatchesWereGrantedWithSCCs,
         GrantedAtAnInstant, SelectionWasGranted

\* An SCC that a role's grants resolve to at an instant was granted at it.
LEMMA ResolvedIsGranted ==
    ASSUME NEW i, Coherent(i), NEW r \in i.bound, NEW m \in i.grants[r],
           NEW scc, scc \in IF m.wildcard THEN i.existing ELSE m.names
    PROVE  scc \in i.granted
BY DEF Coherent, resolveSCCMatches

\* The tenant adds the present to the history and leaves the call alone.
LEMMA TenantFrame ==
    ASSUME TypeInv, Tenant
    PROVE  /\ UNCHANGED <<pod, call, required>> /\ required = None
           /\ seen' = seen \cup {Instant'} /\ IsNow(Instant)'
           /\ edits' = edits + 1 /\ edits \in Nat
<1>1. IsNow(Instant)'
  BY InstantIsNow, PTL
<1>2. QED
  BY <1>1, HookAssumption
     DEF Tenant, EditBinding, EditRole, EditSCC, Edit, TypeInv, TypeOK

\* One edit changes the bindings, or the roles' grants, or the SCCs.
LEMMA OneEdit ==
    ASSUME TypeInv, Tenant
    PROVE  \/ existing' = existing /\ \A r : roleGrants(r)' = roleGrants(r)
           \/ existing' = existing /\ boundRoles(sa)' = boundRoles(sa)
           \/ boundRoles(sa)' = boundRoles(sa) /\ \A r : roleGrants(r)' = roleGrants(r)
<1>0. sa' = sa
  BY TenantFrame DEF sa
<1>1. CASE UNCHANGED <<roles, sccs>>
  BY <1>1 DEF existing, roleGrants
<1>2. CASE UNCHANGED bindings
  <2>1. \A b : applies(b, sa)' = applies(b, sa)
    BY <1>0, <1>2 DEF applies
  <2>2. boundRoles(sa)' = boundRoles(sa)
    BY <1>2, <2>1 DEF boundRoles
  <2>3. QED
    BY <2>2 DEF Tenant, EditBinding, EditRole, EditSCC, existing, roleGrants
<1>3. QED
  BY <1>1, <1>2 DEF Tenant, EditBinding, EditRole, EditSCC

\* An edit, of one kind of object, leaves what was read at one instant.
LEMMA GrantedEdit == GrantedInv /\ Tenant => GrantedInv'
<1> SUFFICES ASSUME GrantedInv, Tenant PROVE GrantedInv'
  OBVIOUS
<1>0. /\ TypeInv /\ TypeInv' /\ Phases' /\ NowSeen' /\ UNCHANGED call /\ required' = None
      /\ seen' = seen \cup {Instant'} /\ IsNow(Instant)' /\ edits' = edits + 1 /\ edits \in Nat
  <2>1. TypeInv /\ Phases /\ NowSeen /\ Next
    BY DEF GrantedInv, Next
  <2>2. QED
    BY <2>1, TypeStep, PhasesStep, HistoryStep, TenantFrame
<1>1. Coherent(Instant)' /\ SameGrants(Instant)'
  BY InstantIsCoherent, PTL
<1>2. \A i \in seen' : Coherent(i)'
  <2>1. \A i \in seen : Coherent(i)'
    BY DEF GrantedInv, Coherent
  <2> HIDE DEF Instant
  <2>2. QED
    BY <1>0, <1>1, <2>1 DEF Coherent
<1>3. CASE edits # 0
  BY <1>0, <1>2, <1>3 DEF GrantedInv, SelectionWasGranted
<1>4. CASE edits = 0
  <2>0. PICK old \in seen : IsNow(old)
    BY DEF GrantedInv, NowSeen
  <2> DEFINE new == Instant'
  <2>2. /\ new.bound = boundRoles(sa)' /\ new.existing = existing'
        /\ \A r \in Roles : new.grants[r] = roleGrants(r)'
    BY <1>0 DEF IsNow
  <2>3. new \in seen' /\ old \in seen' /\ edits <= 1
    BY <1>0, <1>4
  <2> HIDE DEF new
  <2>4. /\ old.bound = boundRoles(sa) /\ old.existing = existing
        /\ \A r \in Roles : old.grants[r] = roleGrants(r)
    BY <2>0 DEF IsNow
  <2>5. boundRoles(sa) \subseteq Roles
    BY DEF boundRoles
  <2>6. /\ \A i \in seen : i.bound = boundRoles(sa) /\ i.existing = existing
        /\ \A i \in seen : \A r \in Roles : i.grants[r] = roleGrants(r)
    BY <1>4 DEF GrantedInv, IsNow
  <2>7. ListedWasBoundWithGrants'
    <3> SUFFICES ASSUME NEW t \in call.todo, roleOf(t.key, t.ref) \in Roles
                 PROVE  \E i \in seen' : roleOf(t.key, t.ref) \in i.bound /\ SameGrants(i)'
      BY <1>0 DEF ListedWasBoundWithGrants
    <3>1. roleOf(t.key, t.ref) \in boundRoles(sa)
      BY <2>3, <2>6 DEF GrantedInv, ListedWasBoundWithGrants
    <3>2. QED
      BY <1>0, <2>2, <2>3, <2>4, <3>1, OneEdit DEF SameGrants
  <2>8. MatchesWereGrantedWithSCCs'
    <3> SUFFICES ASSUME NEW m \in call.matches
                 PROVE  \E i \in seen' : \E r \in i.bound :
                            m \in i.grants[r] /\ i.existing = existing'
      BY <1>0 DEF MatchesWereGrantedWithSCCs
    <3>1. PICK r \in boundRoles(sa) : m \in roleGrants(r)
      BY <2>3, <2>5, <2>6 DEF GrantedInv, MatchesWereGrantedWithSCCs
    <3>2. QED
      BY <1>0, <2>2, <2>3, <2>4, <2>5, <3>1, OneEdit
  <2>9. GrantedAtAnInstant'
    BY <1>0, <2>3 DEF GrantedInv, GrantedAtAnInstant
  <2>10. QED
    BY <1>0, <1>2, <1>4, <2>7, <2>8, <2>9 DEF GrantedInv, SelectionWasGranted
<1>5. QED
  BY <1>3, <1>4

\* Each step of the call keeps what it read to one instant.
LEMMA GrantedCall == GrantedInv /\ Hook => GrantedInv'
<1> SUFFICES ASSUME GrantedInv, Hook PROVE GrantedInv'
  OBVIOUS
<1>0. /\ TypeInv /\ TypeInv' /\ Phases /\ Phases' /\ NowSeen /\ NowSeen'
      /\ UNCHANGED <<virtual, pod, seen, edits>>
  <2>1. TypeInv /\ Phases /\ NowSeen /\ Next
    BY DEF GrantedInv, Next
  <2>2. QED
    BY <2>1, TypeStep, PhasesStep, HistoryStep, HookFrame
<1>1. /\ \A i \in seen' : Coherent(i)'
      /\ \A i : IsNow(i)' <=> IsNow(i)
      /\ \A i : SameGrants(i)' <=> SameGrants(i)
      /\ existing' = existing
  BY <1>0, SameObjects DEF GrantedInv, Coherent, IsNow, SameGrants
<1>2. PICK now \in seen : IsNow(now)
  BY <1>0 DEF NowSeen
<1>3. ASSUME SelectionWasGranted',
             edits <= 1 => /\ ListedWasBoundWithGrants'
                           /\ MatchesWereGrantedWithSCCs' /\ GrantedAtAnInstant'
      PROVE  GrantedInv'
  BY <1>0, <1>1, <1>3 DEF GrantedInv
<1>4. CASE edits > 1
  BY <1>0, <1>3, <1>4 DEF SelectionWasGranted, TypeInv, TypeOK
<1> SUFFICES ASSUME edits <= 1 PROVE GrantedInv'
  BY <1>0, <1>4 DEF TypeInv, TypeOK
<1>5. ListedWasBoundWithGrants /\ MatchesWereGrantedWithSCCs /\ GrantedAtAnInstant
  BY DEF GrantedInv
<1>6. /\ call'.todo \subseteq call.todo => ListedWasBoundWithGrants'
      /\ call'.matches \subseteq call.matches => MatchesWereGrantedWithSCCs'
      /\ call'.granted \subseteq call.granted => GrantedAtAnInstant'
      /\ required' = None => SelectionWasGranted'
  BY <1>0, <1>1, <1>5
     DEF ListedWasBoundWithGrants, MatchesWereGrantedWithSCCs, GrantedAtAnInstant,
         SelectionWasGranted
<1> USE DEF Becomes
<1>7. CASE ListClusterRoleBindings \/ ListRoleBindings
  <2>1. PICK kind : Becomes(call', todoOf(kind), call.matches, call.granted, call.unread)
                    /\ call'.pc # "done"
    BY <1>0, <1>7, AfterList DEF ClusterBinding
  <2>2. ListedWasBoundWithGrants'
    <3>1. \A t \in call'.todo : roleOf(t.key, t.ref) \in Roles =>
              roleOf(t.key, t.ref) \in now.bound
      BY <1>0, <1>2, <2>1, ListedIsBound DEF IsNow, TypeInv
    <3>2. QED
      BY <1>0, <1>1, <1>2, <3>1, NowIsCoherent DEF ListedWasBoundWithGrants
  <2>3. QED
    BY <1>0, <1>3, <1>6, <2>1, <2>2 DEF TypeInv, TypeOK
<1>8. CASE ResolveRoleRef
  <2>1. PICK t \in call.todo : \E matches \in SUBSET roleGrants(roleOf(t.key, t.ref)) :
                  Becomes(call', call.todo \ {t}, matches,
                             IF matches # {} THEN call.granted
                             ELSE call.granted \cup
                                  resolveSCCMatches(roleGrants(roleOf(t.key, t.ref)), {}),
                             call.unread)
    BY <1>0, <1>8, AfterRole
  <2>2. call'.pc # "done"
    BY <1>0, <1>8, AfterRole
  <2>3. ASSUME NEW m \in roleGrants(roleOf(t.key, t.ref))
        PROVE  \E i \in seen : /\ roleOf(t.key, t.ref) \in i.bound /\ i.existing = existing
                               /\ m \in i.grants[roleOf(t.key, t.ref)]
    BY <1>5, GrantedByARole DEF ListedWasBoundWithGrants, SameGrants
  <2>4. MatchesWereGrantedWithSCCs'
    BY <1>0, <1>1, <2>1, <2>3 DEF MatchesWereGrantedWithSCCs
  <2>5. GrantedAtAnInstant'
    <3>1. ASSUME NEW scc \in resolveSCCMatches(roleGrants(roleOf(t.key, t.ref)), {})
          PROVE  \E i \in seen : scc \in i.granted
      <4>1. PICK m \in roleGrants(roleOf(t.key, t.ref)) : ~m.wildcard /\ scc \in m.names
        BY <3>1 DEF resolveSCCMatches
      <4>2. QED
        BY <2>3, <4>1, ResolvedIsGranted DEF GrantedInv
    <3>2. call'.granted \subseteq
              call.granted \cup resolveSCCMatches(roleGrants(roleOf(t.key, t.ref)), {})
      BY <2>1
    <3>3. QED
      BY <1>0, <1>5, <3>1, <3>2 DEF GrantedAtAnInstant
  <2>6. QED
    BY <1>0, <1>3, <1>6, <2>1, <2>2, <2>4, <2>5 DEF TypeInv, TypeOK
<1>9. CASE ListAllVirtualSCCs
  <2>1. call'.pc = call.pc
        /\ Becomes(call', call.todo, {},
                   call.granted \cup resolveSCCMatches(call.matches, existing), call.unread)
    BY <1>0, <1>9, AfterSCCList
  <2>2. GrantedAtAnInstant'
    <3>1. ASSUME NEW scc \in resolveSCCMatches(call.matches, existing)
          PROVE  \E i \in seen : scc \in i.granted
      <4>1. PICK m \in call.matches : scc \in IF m.wildcard THEN existing ELSE m.names
        BY <3>1 DEF resolveSCCMatches
      <4>2. QED
        BY <1>5, <4>1, ResolvedIsGranted DEF GrantedInv, MatchesWereGrantedWithSCCs
    <3>2. QED
      BY <1>0, <1>5, <2>1, <3>1 DEF GrantedAtAnInstant
  <2>3. required' = None
    BY <1>0, <1>9 DEF ListAllVirtualSCCs, Continue, TypeInv, TypeOK, Phases, Resolved
  <2>4. QED
    BY <1>3, <1>6, <2>1, <2>2, <2>3
<1>10. CASE ResolveFails \/ GetPriorityFails
  <2>1. /\ call'.pc = call.pc /\ call'.todo \subseteq call.todo
        /\ call'.matches \subseteq call.matches /\ call'.granted = call.granted
    BY <1>0, <1>10, AfterFailure
  <2>2. required' = None
    BY <1>10 DEF ResolveFails, GetPriorityFails, Continue, GrantedInv, TypeInv, TypeOK
  <2>3. QED
    BY <1>3, <1>6, <2>1, <2>2
<1>11. CASE RBACRead
  BY <1>0, <1>3, <1>6, <1>11, AfterRBAC DEF TypeInv, TypeOK
<1>12. CASE GetPriority
  <2>1. /\ call'.pc = "priorities" /\ call'.todo = call.todo
        /\ call'.matches = call.matches /\ call'.granted = call.granted
    BY <1>0, <1>12, AfterPriority
  <2>2. QED
    BY <1>0, <1>3, <1>6, <2>1 DEF TypeInv, TypeOK
<1>13. CASE Unidentified \/ ListFails \/ SelectBest
  <2>1. PICK scc : Select(scc)
    BY <1>13 DEF Unidentified, ListFails, SelectBest
  <2>2. Becomes(call', {}, {}, {}, {})
    BY <1>0, <2>1, AfterSelection
  <2>3. SelectionWasGranted'
    <3>1. CASE required' = hostSCCName(defaultSCC)
      BY <3>1 DEF SelectionWasGranted, hostSCCName
    <3>2. CASE SelectBest
      <4>1. required' = hostSCCName(defaultSCC)
            \/ \E m \in DOMAIN call.candidates : required' = hostSCCName(m)
        BY <1>0, <3>2, SelectedIsACandidate
      <4>2. DOMAIN call.candidates \subseteq call.granted
        BY <1>0 DEF TypeInv, TypeOK
      <4>3. QED
        BY <1>0, <1>5, <3>1, <4>1, <4>2 DEF SelectionWasGranted, GrantedAtAnInstant
    <3>3. QED
      BY <1>13, <3>1, <3>2 DEF Unidentified, ListFails, Select
  <2>4. QED
    BY <1>3, <1>6, <2>2, <2>3
<1>14. QED
  BY <1>7, <1>8, <1>9, <1>10, <1>11, <1>12, <1>13 DEF Hook

\* Whatever reads fail, with at most one edit during the call the hook selects
\* the default or an SCC that the account was granted at an instant of the call
\* (resolveUsableSCCs, scc.go:66, resolveRoleRef, :240).
THEOREM SelectionsWereGranted == Spec => []SelectionWasGranted
<1>1. GrantedInv /\ UNCHANGED vars => GrantedInv'
  <2> SUFFICES ASSUME GrantedInv, UNCHANGED vars PROVE GrantedInv'
    OBVIOUS
  <2>1. TypeInv' /\ Phases' /\ NowSeen'
    BY TypeStep, PhasesStep, HistoryStep DEF GrantedInv
  <2>2. /\ \A i : IsNow(i)' <=> IsNow(i)
        /\ \A i : SameGrants(i)' <=> SameGrants(i)
        /\ \A i : Coherent(i)' <=> Coherent(i)
        /\ existing' = existing
    BY SameObjects DEF vars, Coherent, IsNow, SameGrants
  <2>3. QED
    BY <2>1, <2>2 DEF GrantedInv, vars, ListedWasBoundWithGrants,
       MatchesWereGrantedWithSCCs, GrantedAtAnInstant, SelectionWasGranted
<1>2. GrantedInv /\ [Next]_vars => GrantedInv'
  BY <1>1, GrantedEdit, GrantedCall DEF Next
<1>3. GrantedInv => SelectionWasGranted
  BY DEF GrantedInv
<1>4. QED
  BY <1>2, <1>3, GrantedInitially, PTL DEF Spec

-----------------------------------------------------------------------------
(* SelectionIsBestOfAnInstant.                                             *)

\* What a role grants the account of the SCCs that exist.
Contribution(r) == resolveSCCMatches(roleGrants(r), existing)

\* The roles of the bindings still to resolve; those bound by one kind of
\* binding; those of the kinds already listed, and of the kinds not yet listed.
RolesOf(todo) == Roles \cap {roleOf(t.key, t.ref) : t \in todo}
BoundBy(kind) == RolesOf(todoOf(kind))
Listed ==
    CASE call.pc = "start" -> {}
      [] call.pc = "clusterBindings" -> BoundBy(ClusterBinding)
      [] OTHER -> boundRoles(sa)
Unlisted ==
    CASE call.pc = "start" -> boundRoles(sa)
      [] call.pc = "clusterBindings" -> BoundBy("RoleBinding")
      [] OTHER -> {}

\* What the call has found, what it would find in the end without a further
\* edit, and the priorities it would give those SCCs.
Got == call.granted \cup resolveSCCMatches(call.matches, existing)
ToFind == UNION {Contribution(r) : r \in RolesOf(call.todo) \cup Unlisted}
Usable ==
    IF call.pc = "priorities" THEN DOMAIN call.candidates \cup (call.unread \cap existing)
    ELSE (Got \cup ToFind) \cap existing
PriorityRead ==
    [n \in SCCNames |-> IF n \in DOMAIN call.candidates THEN call.candidates[n] ELSE sccs[n]]

IsBest(best, S, P) ==
    IF S = {} THEN best = defaultSCC
    ELSE best \in S /\ \A n \in S \ {best} : outranks(best, n, P)

\* The best SCC of the instant is the best one of the present.
BestNow(i) ==
    IF sa.ns = << >> THEN i.best = defaultSCC
    ELSE IsBest(i.best, grantedTo(sa) \cap existing, sccs)

\* Before the first edit and failure: what has been found is all of what some
\* listed roles grant, and each listed role is found or still to resolve.
Coverage ==
    /\ RolesOf(call.todo) \subseteq Listed
    /\ \A m \in call.matches : \E r \in Listed : m \in roleGrants(r)
    /\ \A n \in Got : \E r \in Listed : n \in Contribution(r) /\ Contribution(r) \subseteq Got
    /\ \A r \in Listed : r \in RolesOf(call.todo) \/ Contribution(r) \subseteq Got
    /\ DOMAIN call.candidates \subseteq existing
    /\ \A n \in DOMAIN call.candidates : call.candidates[n] = sccs[n]
    /\ call.pc = "priorities" => call.granted \cap existing = Usable

\* Until the second edit the call is bound to select the best SCC of an instant.
Foreseen ==
    \E i \in seen : IF sa.ns = << >> THEN i.best = defaultSCC
                     ELSE IsBest(i.best, Usable, PriorityRead)

BestInv ==
    /\ TypeInv /\ Phases
    /\ sa.ns = << >> => call.pc \in {"start", "done"}
    /\ call.unread \cap DOMAIN call.candidates = {}
    /\ \E i \in seen : BestNow(i)
    /\ faults = 0 /\ edits = 0 /\ required = None => Coverage
    /\ faults = 0 /\ edits <= 1 /\ required = None => Foreseen
    /\ SelectionIsBestOfAnInstant

\* The first of an order is one, and depends on the set and the order in it only.
LEMMA BestIsUnique ==
    ASSUME NEW S \in SUBSET SCCNames, NEW P, \A n \in S : P[n] \in Nat,
           NEW a, IsBest(a, S, P), NEW b, IsBest(b, S, P)
    PROVE  a = b
<1>1. CASE S = {}
  BY <1>1 DEF IsBest
<1>2. CASE S # {}
  <2>1. a \in S /\ b \in S
    BY <1>2 DEF IsBest
  <2>2. ASSUME a # b PROVE outranks(a, b, P) /\ outranks(b, a, P)
    BY <1>2, <2>1, <2>2 DEF IsBest
  <2>3. QED
    BY <2>1, <2>2, OutranksIsTotalOrder
<1>3. QED
  BY <1>1, <1>2

LEMMA BestIsLocal ==
    ASSUME NEW S, NEW P, NEW Q, \A n \in S : P[n] = Q[n], NEW b
    PROVE  IsBest(b, S, P) <=> IsBest(b, S, Q)
BY DEF IsBest, outranks

\* The first of two sets together is the first of one of them.
LEMMA BestOfUnion ==
    ASSUME NEW S \in SUBSET SCCNames, NEW T \in SUBSET SCCNames,
           NEW P, \A n \in S \cup T : P[n] \in Nat,
           NEW a, IsBest(a, S, P), NEW b, IsBest(b, T, P)
    PROVE  IsBest(a, S \cup T, P) \/ IsBest(b, S \cup T, P)
<1>1. CASE S = {} \/ T = {}
  <2>1. S = {} => S \cup T = T
    OBVIOUS
  <2>2. T = {} => S \cup T = S
    OBVIOUS
  <2>3. QED
    BY <1>1, <2>1, <2>2
<1>2. CASE S # {} /\ T # {}
  <2>1. a \in S /\ b \in T /\ S \cup T # {}
    BY <1>2 DEF IsBest
  <2>2. ASSUME NEW n \in S PROVE n = a \/ outranks(a, n, P)
    BY <1>2 DEF IsBest
  <2>3. ASSUME NEW n \in T PROVE n = b \/ outranks(b, n, P)
    BY <1>2 DEF IsBest
  <2>4. a = b \/ outranks(a, b, P) \/ outranks(b, a, P)
    BY <2>1, OutranksIsTotalOrder
  <2>5. ASSUME NEW m \in S \cup T, NEW n \in S \cup T, NEW l \in S \cup T,
               outranks(l, m, P), outranks(m, n, P)
        PROVE  outranks(l, n, P)
    <3>1. S \cup T \in SUBSET SCCNames
      OBVIOUS
    <3>2. QED
      BY <2>5, <3>1, OutranksIsTotalOrder
  <2>6. CASE a = b
    BY <2>1, <2>2, <2>3, <2>6 DEF IsBest
  <2>7. CASE outranks(a, b, P)
    <3>1. \A n \in (S \cup T) \ {a} : outranks(a, n, P)
      BY <2>1, <2>2, <2>3, <2>5, <2>7
    <3>2. QED
      BY <2>1, <3>1 DEF IsBest
  <2>8. CASE outranks(b, a, P)
    <3>1. \A n \in (S \cup T) \ {b} : outranks(b, n, P)
      BY <2>1, <2>2, <2>3, <2>5, <2>8
    <3>2. QED
      BY <2>1, <3>1 DEF IsBest
  <2>9. QED
    BY <2>4, <2>6, <2>7, <2>8
<1>3. QED
  BY <1>1, <1>2

\* What the account is granted is its bound roles' contributions.
LEMMA GrantedByContributions ==
    grantedTo(sa) = UNION {Contribution(r) : r \in boundRoles(sa)}
BY DEF grantedTo, Contribution

LEMMA BoundByKinds ==
    /\ boundRoles(sa) = BoundBy(ClusterBinding) \cup BoundBy("RoleBinding")
    /\ boundRoles(sa) = Listed \cup Unlisted
<1>1. \A b \in Bindings : b.kind = ClusterBinding \/ b.kind = "RoleBinding"
  BY ConstantsAssumption DEF Binding
<1>2. boundRoles(sa) = BoundBy(ClusterBinding) \cup BoundBy("RoleBinding")
  <2> DEFINE ref(b) == roleOf(b, bindings[b].roleRef)
  <2>1. \A r : r \in boundRoles(sa) <=>
            r \in Roles /\ \E b \in Bindings : applies(b, sa) /\ r = ref(b)
    BY DEF boundRoles
  <2>2. ASSUME NEW kind
        PROVE  \A r : r \in BoundBy(kind) <=>
                   r \in Roles /\ \E b \in Bindings : b.kind = kind /\ applies(b, sa) /\ r = ref(b)
    <3> DEFINE entry(b) == [key |-> b, ref |-> bindings[b].roleRef]
               role(t) == roleOf(t.key, t.ref)
    <3>1. todoOf(kind) = {entry(b) : b \in matching(kind)}
      BY DEF todoOf
    <3>2. \A b : role(entry(b)) = ref(b)
      OBVIOUS
    <3> HIDE DEF ref, entry
    <3>3. {role(t) : t \in todoOf(kind)} = {ref(b) : b \in matching(kind)}
      <4> HIDE DEF role
      <4>1. QED
        BY <3>1, <3>2
    <3>4. QED
      BY <3>3 DEF BoundBy, RolesOf, matching
  <2> HIDE DEF ref
  <2>3. QED
    BY <1>1, <2>1, <2>2
<1>3. CASE call.pc = "start"
  BY <1>2, <1>3 DEF Listed, Unlisted
<1>4. CASE call.pc = "clusterBindings"
  BY <1>2, <1>4 DEF Listed, Unlisted
<1>5. CASE call.pc \notin {"start", "clusterBindings"}
  BY <1>2, <1>5 DEF Listed, Unlisted
<1>6. QED
  BY <1>2, <1>3, <1>4, <1>5

\* The priority of an SCC that exists is a number.
LEMMA PrioritiesOfExisting ==
    ASSUME TypeOK
    PROVE  /\ existing \in SUBSET SCCNames
           /\ \A n \in existing : sccs[n] \in Nat
BY HookAssumption DEF TypeOK, existing

LEMMA InstantIsBest ==
    ASSUME TypeOK
    PROVE  BestNow(Instant)
<1>1. Instant.best = bestFor(sa)
  BY DEF Instant, sa
<1> DEFINE S == grantedTo(sa) \cap existing
<1>2. S \in SUBSET SCCNames /\ IsFiniteSet(S) /\ \A n \in S : sccs[n] \in Nat
  <2>1. S \in SUBSET SCCNames /\ \A n \in S : sccs[n] \in Nat
    BY PrioritiesOfExisting
  <2> HIDE DEF S
  <2>2. QED
    BY <2>1, HookAssumption, FS_Subset
<1>3. CASE sa.ns = << >>
  BY <1>1, <1>3 DEF BestNow, bestFor
<1>4. CASE sa.ns # << >> /\ S = {}
  BY <1>1, <1>4 DEF BestNow, bestFor, IsBest
<1>5. CASE sa.ns # << >> /\ S # {}
  <2> DEFINE best == CHOOSE m \in S : \A n \in S \ {m} : outranks(m, n, sccs)
  <2>1. Instant.best = best
    BY <1>1, <1>5 DEF bestFor
  <2>2. best \in S /\ \A n \in S \ {best} : outranks(best, n, sccs)
    <3>1. \E m \in S : \A n \in S \ {m} : outranks(m, n, sccs)
      <4> HIDE DEF S
      <4>1. QED
        BY <1>2, <1>5, BestExists
    <3>2. QED
      BY <3>1
  <2> HIDE DEF best
  <2>3. QED
    BY <1>5, <2>1, <2>2 DEF BestNow, IsBest
<1>6. QED
  BY <1>3, <1>4, <1>5

\* Before the first edit the call is bound to find what a call at one instant finds.
LEMMA FoundBefore ==
    ASSUME TypeInv, Phases, Coverage
    PROVE  /\ Got \cup ToFind = grantedTo(sa)
           /\ Usable = grantedTo(sa) \cap existing
           /\ \A n \in SCCNames : PriorityRead[n] = sccs[n]
<1>1. Got \cup ToFind = grantedTo(sa)
  <2>1. Got \cup ToFind \subseteq UNION {Contribution(r) : r \in boundRoles(sa)}
    BY BoundByKinds DEF Coverage, ToFind
  <2>2. ASSUME NEW r \in boundRoles(sa), NEW n \in Contribution(r)
        PROVE  n \in Got \cup ToFind
    BY BoundByKinds DEF Coverage, ToFind
  <2>3. QED
    BY <2>1, <2>2, GrantedByContributions
<1>2. Usable = grantedTo(sa) \cap existing
  <2>1. CASE call.pc = "priorities"
    <3>1. call.todo = {} /\ call.matches = {} /\ Unlisted = {}
      BY <2>1 DEF Phases, Resolved, Unlisted
    <3>2. Got \cup ToFind = call.granted
      BY <3>1 DEF Got, ToFind, RolesOf, resolveSCCMatches
    <3>3. QED
      BY <1>1, <2>1, <3>2 DEF Coverage
  <2>2. CASE call.pc # "priorities"
    BY <1>1, <2>2 DEF Usable
  <2>3. QED
    BY <2>1, <2>2
<1>3. QED
  BY <1>1, <1>2 DEF PriorityRead, Coverage

\* A step of the call that reads and does not fail leaves what the call is
\* bound to find as it was.
SamePlan ==
    /\ Usable' = Usable
    /\ \A n \in Usable : PriorityRead'[n] = PriorityRead[n]

LEMMA SameContributions ==
    ASSUME UNCHANGED virtual, UNCHANGED pod
    PROVE  /\ \A r : Contribution(r)' = Contribution(r)
           /\ \A kind : BoundBy(kind)' = BoundBy(kind)
<1>1. \A r : Contribution(r)' = Contribution(r)
  BY SameObjects DEF Contribution
<1>2. \A b : applies(b, sa)' = applies(b, sa)
  BY SameObjects DEF virtual, applies
<1>3. \A kind : todoOf(kind)' = todoOf(kind)
  BY <1>2 DEF todoOf, matching, virtual
<1>4. QED
  BY <1>1, <1>3 DEF BoundBy

\* The plan depends on these parts of the call.
LEMMA PlanBeforePriorities ==
    ASSUME TypeInv, Phases, Phases', UNCHANGED virtual, UNCHANGED pod,
           call.pc # "priorities", call'.pc # "priorities",
           Got' \cup ToFind' = Got \cup ToFind
    PROVE  SamePlan
<1>1. existing' = existing /\ sccs' = sccs
  BY SameObjects DEF virtual
<1>2. DOMAIN call.candidates = {} /\ DOMAIN call'.candidates = {}
  BY DEF Phases
<1>3. Usable' = Usable
  BY <1>1 DEF Usable
<1>4. Usable \subseteq SCCNames
  BY PrioritiesOfExisting DEF Usable, TypeInv
<1>5. QED
  BY <1>1, <1>2, <1>3, <1>4 DEF SamePlan, PriorityRead

LEMMA ListKeepsPlan ==
    ASSUME TypeInv, Phases, Phases', ListClusterRoleBindings \/ ListRoleBindings,
           UNCHANGED virtual, UNCHANGED pod
    PROVE  SamePlan /\ (Coverage => Coverage')
<1>1. PICK kind \in {ClusterBinding, "RoleBinding"} :
               /\ kind = ClusterBinding => call.pc = "start" /\ call'.pc = "clusterBindings"
               /\ kind = "RoleBinding" =>
                      call.pc = "clusterBindings" /\ Resolved /\ call'.pc = "bindings"
               /\ Becomes(call', todoOf(kind), call.matches, call.granted, call.unread)
               /\ call'.candidates = call.candidates
  BY AfterList
<1>2. /\ existing' = existing /\ sccs' = sccs /\ boundRoles(sa)' = boundRoles(sa)
      /\ \A r : Contribution(r)' = Contribution(r) /\ roleGrants(r)' = roleGrants(r)
      /\ \A k : BoundBy(k)' = BoundBy(k)
  BY SameObjects, SameContributions DEF virtual
<1>3. Got' = Got /\ RolesOf(call'.todo) = BoundBy(kind) /\ RolesOf(call.todo) = {}
  BY <1>1, <1>2 DEF Got, Becomes, RolesOf, BoundBy, Phases, Resolved
<1>4. Unlisted = BoundBy(kind) \cup Unlisted' /\ Listed' = Listed \cup BoundBy(kind)
  <2>1. CASE kind = ClusterBinding
    <3>1. call.pc = "start" /\ call'.pc = "clusterBindings"
      BY <1>1, <2>1
    <3>2. QED
      BY <1>2, <2>1, <3>1, BoundByKinds DEF Listed, Unlisted
  <2>2. CASE kind = "RoleBinding"
    <3>1. call.pc = "clusterBindings" /\ call'.pc = "bindings"
      BY <1>1, <2>2
    <3>2. QED
      BY <1>2, <2>2, <3>1, BoundByKinds DEF Listed, Unlisted
  <2>3. QED
    BY <2>1, <2>2
<1>5. call.pc # "priorities" /\ call'.pc # "priorities"
  BY <1>1 DEF ClusterBinding
<1>6. SamePlan
  <2>1. ToFind' = ToFind
    BY <1>2, <1>3, <1>4 DEF ToFind
  <2>2. QED
    BY <1>3, <1>5, <2>1, PlanBeforePriorities
<1>7. Coverage => Coverage'
  <2> SUFFICES ASSUME Coverage PROVE Coverage'
    OBVIOUS
  <2>1. call'.matches = {} /\ DOMAIN call'.candidates = {}
    BY <1>1 DEF Becomes, Phases, Resolved
  <2>2. QED
    BY <1>2, <1>3, <1>4, <1>5, <2>1 DEF Coverage
<1>8. QED
  BY <1>6, <1>7

\* A role read is found, as far as the list of SCCs allows.
LEMMA RoleKeepsPlan ==
    ASSUME TypeInv, Phases, Phases', ResolveRoleRef, UNCHANGED virtual, UNCHANGED pod
    PROVE  SamePlan /\ (Coverage => Coverage')
<1>1. PICK t \in call.todo : \E matches \in SUBSET roleGrants(roleOf(t.key, t.ref)) :
                  /\ matches = {} \/ matches = roleGrants(roleOf(t.key, t.ref))
                  /\ matches = {} => ~Wild(roleGrants(roleOf(t.key, t.ref)))
                  /\ Becomes(call', call.todo \ {t}, matches,
                             IF matches # {} THEN call.granted
                             ELSE call.granted \cup
                                  resolveSCCMatches(roleGrants(roleOf(t.key, t.ref)), {}),
                             call.unread)
  BY AfterRole
<1>2. /\ call.matches = {} /\ call'.pc = call.pc /\ call'.candidates = call.candidates
      /\ call.pc \in {"clusterBindings", "bindings"}
  BY AfterRole
<1>3. /\ existing' = existing /\ sccs' = sccs /\ boundRoles(sa)' = boundRoles(sa)
      /\ \A r : Contribution(r)' = Contribution(r) /\ roleGrants(r)' = roleGrants(r)
      /\ \A k : BoundBy(k)' = BoundBy(k)
  BY SameObjects, SameContributions DEF virtual
<1> DEFINE role == roleOf(t.key, t.ref)
<1>4. Got' = Got \cup Contribution(role) /\ call'.matches \subseteq roleGrants(role)
  <2>1. Got = call.granted
    BY <1>2 DEF Got, resolveSCCMatches
  <2>2. PICK matches \in SUBSET roleGrants(role) :
                  /\ matches = {} \/ matches = roleGrants(role)
                  /\ matches = {} => ~Wild(roleGrants(role))
                  /\ Becomes(call', call.todo \ {t}, matches,
                             IF matches # {} THEN call.granted
                             ELSE call.granted \cup resolveSCCMatches(roleGrants(role), {}),
                             call.unread)
    BY <1>1
  <2> HIDE DEF role
  <2>3. CASE matches # {}
    BY <1>3, <2>1, <2>2, <2>3 DEF Got, Becomes, Contribution
  <2>4. CASE matches = {}
    <3>1. resolveSCCMatches(roleGrants(role), {}) = Contribution(role)
      BY <2>2, <2>4 DEF Contribution, resolveSCCMatches, Wild
    <3>2. resolveSCCMatches({}, existing') = {}
      BY DEF resolveSCCMatches
    <3>3. QED
      BY <2>1, <2>2, <2>4, <3>1, <3>2 DEF Got, Becomes
  <2>5. QED
    BY <2>3, <2>4
<1>5. call'.todo = call.todo \ {t}
  BY <1>1 DEF Becomes
<1>6. RolesOf(call.todo) = RolesOf(call'.todo) \cup ({role} \cap Roles)
  BY <1>5 DEF RolesOf
<1>7. role \notin Roles => Contribution(role) = {} /\ roleGrants(role) = {}
  BY DEF Contribution, roleGrants, resolveSCCMatches
<1>8. Listed' = Listed /\ Unlisted' = Unlisted
  BY <1>2, <1>3 DEF Listed, Unlisted
<1> HIDE DEF role
<1>9. SamePlan
  <2>1. Got' \cup ToFind' = Got \cup ToFind
    <3>1. ToFind' \cup Contribution(role) = ToFind
      BY <1>3, <1>6, <1>7, <1>8 DEF ToFind
    <3>2. QED
      BY <1>4, <3>1
  <2>2. QED
    BY <1>2, <2>1, PlanBeforePriorities
<1>10. Coverage => Coverage'
  <2> SUFFICES ASSUME Coverage PROVE Coverage'
    OBVIOUS
  <2>0. Contribution(role) # {} \/ roleGrants(role) # {} => role \in Listed
    BY <1>6, <1>7 DEF Coverage
  <2>1. \A n \in Got' : \E r \in Listed : n \in Contribution(r) /\ Contribution(r) \subseteq Got'
    BY <1>4, <2>0 DEF Coverage
  <2>2. \A r \in Listed : r \in RolesOf(call'.todo) \/ Contribution(r) \subseteq Got'
    BY <1>4, <1>6 DEF Coverage
  <2>3. \A m \in call'.matches : \E r \in Listed : m \in roleGrants(r)
    BY <1>4, <2>0
  <2>4. RolesOf(call'.todo) \subseteq Listed
    BY <1>6 DEF Coverage
  <2>5. QED
    BY <1>2, <1>3, <1>8, <2>1, <2>2, <2>3, <2>4 DEF Coverage
<1>11. QED
  BY <1>9, <1>10

LEMMA SCCListKeepsPlan ==
    ASSUME TypeInv, Phases, Phases', ListAllVirtualSCCs, UNCHANGED virtual, UNCHANGED pod
    PROVE  SamePlan /\ (Coverage => Coverage')
<1>1. /\ call'.pc = call.pc /\ call'.candidates = call.candidates
      /\ Becomes(call', call.todo, {},
                 call.granted \cup resolveSCCMatches(call.matches, existing), call.unread)
  BY AfterSCCList
<1>2. /\ existing' = existing /\ sccs' = sccs /\ boundRoles(sa)' = boundRoles(sa)
      /\ \A r : Contribution(r)' = Contribution(r) /\ roleGrants(r)' = roleGrants(r)
      /\ \A k : BoundBy(k)' = BoundBy(k)
  BY SameObjects, SameContributions DEF virtual
<1>3. Got' = Got
  <2>1. resolveSCCMatches({}, existing') = {}
    BY DEF resolveSCCMatches
  <2>2. QED
    BY <1>1, <2>1 DEF Got, Becomes
<1>4. call'.todo = call.todo /\ call'.matches = {} /\ call.pc # "priorities"
  BY <1>1 DEF Becomes, Phases, Resolved, ListAllVirtualSCCs
<1>5. Listed' = Listed /\ Unlisted' = Unlisted
  BY <1>1, <1>2 DEF Listed, Unlisted
<1>6. SamePlan
  <2>1. ToFind' = ToFind
    BY <1>2, <1>4, <1>5 DEF ToFind
  <2>2. QED
    BY <1>1, <1>3, <1>4, <2>1, PlanBeforePriorities
<1>7. Coverage => Coverage'
  BY <1>1, <1>2, <1>3, <1>4, <1>5 DEF Coverage
<1>8. QED
  BY <1>6, <1>7

LEMMA RBACKeepsPlan ==
    ASSUME TypeInv, Phases, Phases', RBACRead, UNCHANGED virtual, UNCHANGED pod
    PROVE  SamePlan /\ (Coverage => Coverage')
<1>1. /\ call.pc = "bindings" /\ Resolved /\ call'.pc = "priorities"
      /\ call'.candidates = call.candidates
      /\ Becomes(call', call.todo, call.matches, call.granted, call.granted)
  BY AfterRBAC
<1>2. /\ existing' = existing /\ sccs' = sccs /\ boundRoles(sa)' = boundRoles(sa)
      /\ \A r : Contribution(r)' = Contribution(r) /\ roleGrants(r)' = roleGrants(r)
  BY SameObjects, SameContributions DEF virtual
<1>3. /\ call.todo = {} /\ call.matches = {} /\ DOMAIN call.candidates = {}
      /\ call'.todo = {} /\ call'.matches = {} /\ call'.granted = call.granted
      /\ call'.unread = call.granted
  BY <1>1 DEF Becomes, Resolved, Phases
<1>4. Got = call.granted /\ Got' = Got /\ ToFind = {}
  <2>1. resolveSCCMatches({}, existing) = {} /\ resolveSCCMatches({}, existing') = {}
    BY DEF resolveSCCMatches
  <2>2. Unlisted = {} /\ RolesOf(call.todo) = {}
    BY <1>1, <1>3 DEF Unlisted, RolesOf
  <2>3. QED
    BY <1>3, <2>1, <2>2 DEF Got, ToFind
<1>5. Listed' = Listed
  BY <1>1, <1>2 DEF Listed
<1>6. Usable = call.granted \cap existing /\ Usable' = call.granted \cap existing
  BY <1>1, <1>2, <1>3, <1>4 DEF Usable
<1>7. SamePlan
  <2>1. Usable \subseteq SCCNames
    BY <1>6, PrioritiesOfExisting DEF TypeInv
  <2>2. QED
    BY <1>1, <1>2, <1>6, <2>1 DEF SamePlan, PriorityRead
<1>8. Coverage => Coverage'
  BY <1>1, <1>2, <1>3, <1>4, <1>5, <1>6 DEF Coverage
<1>9. QED
  BY <1>7, <1>8

LEMMA PriorityKeepsPlan ==
    ASSUME TypeInv, Phases, Phases', GetPriority, UNCHANGED virtual, UNCHANGED pod,
           call.unread \cap DOMAIN call.candidates = {}
    PROVE  SamePlan /\ (Coverage => Coverage') /\ call'.unread \cap DOMAIN call'.candidates = {}
<1>1. PICK scc \in call.unread :
               /\ call.pc = "priorities" /\ call'.pc = "priorities"
               /\ Becomes(call', call.todo, call.matches, call.granted, call.unread \ {scc})
               /\ call'.candidates = IF sccs[scc] = None THEN call.candidates
                                     ELSE [n \in DOMAIN call.candidates \cup {scc} |->
                                              IF n = scc THEN sccs[scc] ELSE call.candidates[n]]
  BY AfterPriority
<1>2. /\ existing' = existing /\ sccs' = sccs /\ boundRoles(sa)' = boundRoles(sa)
      /\ \A r : Contribution(r)' = Contribution(r) /\ roleGrants(r)' = roleGrants(r)
  BY SameObjects, SameContributions DEF virtual
<1>3. /\ call'.todo = call.todo /\ call'.matches = call.matches
      /\ call'.granted = call.granted /\ call'.unread = call.unread \ {scc}
  BY <1>1 DEF Becomes
<1>4. scc \in SCCNames /\ scc \notin DOMAIN call.candidates /\ Usable \subseteq SCCNames
      /\ (scc \in existing <=> sccs[scc] # None)
  BY <1>1 DEF TypeInv, TypeOK, existing, Usable
<1>5. \/ /\ scc \notin existing /\ call'.candidates = call.candidates
      \/ /\ scc \in existing /\ DOMAIN call'.candidates = DOMAIN call.candidates \cup {scc}
         /\ call'.candidates[scc] = sccs[scc]
         /\ \A n \in DOMAIN call.candidates : call'.candidates[n] = call.candidates[n]
  BY <1>1, <1>4
<1>6. Usable' = Usable
  BY <1>1, <1>2, <1>3, <1>5 DEF Usable
<1>7. SamePlan
  BY <1>2, <1>4, <1>5, <1>6 DEF SamePlan, PriorityRead
<1>8. Got' = Got /\ Listed' = Listed
  BY <1>1, <1>2, <1>3 DEF Got, Listed
<1>9. Coverage => Coverage'
  BY <1>1, <1>2, <1>3, <1>5, <1>6, <1>8 DEF Coverage
<1>10. call'.unread \cap DOMAIN call'.candidates = {}
  BY <1>3, <1>5
<1>11. QED
  BY <1>7, <1>9, <1>10

\* The steps of the call keep BestInv.
LEMMA BestCall == BestInv /\ Hook => BestInv'
<1> SUFFICES ASSUME BestInv, Hook PROVE BestInv'
  OBVIOUS
<1>0. /\ TypeInv /\ TypeInv' /\ Phases /\ Phases'
      /\ UNCHANGED <<virtual, pod, seen, edits>> /\ UNCHANGED virtual /\ UNCHANGED pod
      /\ faults \in Nat /\ (faults' = faults \/ faults' = faults + 1) /\ edits \in Nat
  <2>1. TypeInv /\ Phases /\ Next
    BY DEF BestInv, Next
  <2>2. QED
    BY <2>1, TypeStep, PhasesStep, HookFrame DEF TypeInv, TypeOK
<1>1. sa' = sa /\ \E i \in seen' : BestNow(i)'
  <2>1. sa' = sa /\ existing' = existing /\ grantedTo(sa)' = grantedTo(sa) /\ sccs' = sccs
    BY <1>0, SameObjects DEF virtual
  <2>2. \A i : BestNow(i)' <=> BestNow(i)
    BY <2>1 DEF BestNow
  <2>3. QED
    BY <1>0, <2>1, <2>2 DEF BestInv
<1>2. ASSUME Fault,
             call'.unread \cap DOMAIN call'.candidates = {},
             sa.ns = << >> => call'.pc \in {"start", "done"}
      PROVE  BestInv'
  <2>1. faults' # 0
    BY <1>0, <1>2 DEF Fault
  <2>2. QED
    BY <1>0, <1>1, <1>2, <2>1 DEF BestInv, SelectionIsBestOfAnInstant
<1>3. ASSUME required = None, required' = None, faults' = faults,
             SamePlan, Coverage => Coverage',
             call'.unread \cap DOMAIN call'.candidates = {},
             sa.ns # << >>
      PROVE  BestInv'
  <2>1. faults = 0 /\ edits <= 1 => Foreseen'
    <3> SUFFICES ASSUME faults = 0, edits <= 1 PROVE Foreseen'
      OBVIOUS
    <3>1. PICK i \in seen : IsBest(i.best, Usable, PriorityRead)
      BY <1>3 DEF BestInv, Foreseen
    <3>2. IsBest(i.best, Usable', PriorityRead')
      BY <1>3, <3>1, BestIsLocal DEF SamePlan
    <3>3. QED
      BY <1>0, <1>1, <1>3, <3>2 DEF Foreseen
  <2>2. QED
    BY <1>0, <1>1, <1>3, <2>1 DEF BestInv, SelectionIsBestOfAnInstant
<1>4. CASE ListClusterRoleBindings \/ ListRoleBindings
  <2>1. required = None /\ required' = None /\ faults' = faults /\ sa.ns # << >>
    BY <1>0, <1>4 DEF ListClusterRoleBindings, ListRoleBindings, Continue, NoFault, BestInv,
       TypeInv, TypeOK
  <2>2. call'.unread \cap DOMAIN call'.candidates = {}
    BY <1>0, <1>4, AfterList DEF Becomes, BestInv
  <2>3. QED
    BY <1>0, <1>3, <1>4, <2>1, <2>2, ListKeepsPlan
<1>5. CASE ResolveRoleRef
  <2>1. required = None /\ required' = None /\ faults' = faults /\ sa.ns # << >>
    BY <1>0, <1>5 DEF ResolveRoleRef, Continue, NoFault, BestInv, TypeInv, TypeOK
  <2>2. call'.unread \cap DOMAIN call'.candidates = {}
    BY <1>0, <1>5, AfterRole DEF Becomes, BestInv
  <2>3. QED
    BY <1>0, <1>3, <1>5, <2>1, <2>2, RoleKeepsPlan
<1>6. CASE ListAllVirtualSCCs
  <2>1. required = None /\ required' = None /\ faults' = faults /\ sa.ns # << >>
    BY <1>0, <1>6 DEF ListAllVirtualSCCs, Continue, NoFault, BestInv, TypeInv, TypeOK,
       Phases, Resolved, Becomes
  <2>2. call'.unread \cap DOMAIN call'.candidates = {}
    BY <1>0, <1>6, AfterSCCList DEF Becomes, BestInv
  <2>3. QED
    BY <1>0, <1>3, <1>6, <2>1, <2>2, SCCListKeepsPlan
<1>7. CASE ResolveFails \/ GetPriorityFails
  <2>1. Fault
    BY <1>7 DEF ResolveFails, GetPriorityFails
  <2>2. call'.pc = call.pc /\ call'.candidates = call.candidates /\ call'.unread \subseteq call.unread
    BY <1>0, <1>7, AfterFailure DEF Becomes
  <2>3. QED
    BY <1>2, <2>1, <2>2 DEF BestInv
<1>8. CASE RBACRead
  <2>1. required = None /\ required' = None /\ faults' = faults /\ sa.ns # << >>
    BY <1>0, <1>8 DEF RBACRead, Continue, NoFault, BestInv, TypeInv, TypeOK
  <2>2. call'.unread \cap DOMAIN call'.candidates = {}
    BY <1>0, <1>8, AfterRBAC DEF Phases
  <2>3. QED
    BY <1>0, <1>3, <1>8, <2>1, <2>2, RBACKeepsPlan
<1>9. CASE GetPriority
  <2>1. required = None /\ required' = None /\ faults' = faults /\ sa.ns # << >>
    BY <1>0, <1>9 DEF GetPriority, Continue, NoFault, BestInv, TypeInv, TypeOK
  <2>2. QED
    BY <1>0, <1>3, <1>9, <2>1, PriorityKeepsPlan DEF BestInv
<1>10. CASE Unidentified \/ ListFails \/ SelectBest
  <2>1. PICK scc : Select(scc)
    BY <1>10 DEF Unidentified, ListFails, SelectBest
  <2>2. call'.pc = "done" /\ Becomes(call', {}, {}, {}, {}) /\ required' # None
    BY <1>0, <2>1, AfterSelection DEF TypeInv, TypeOK
  <2>3. SelectionIsBestOfAnInstant'
    <3> SUFFICES ASSUME faults' = 0, edits <= 1
                 PROVE  \E i \in seen : required' = hostSCCName(i.best)
      BY <1>0 DEF SelectionIsBestOfAnInstant
    <3>1. faults = 0 /\ required = None /\ ~ListFails
      BY <1>0, <1>10 DEF Unidentified, ListFails, SelectBest, Fault, TypeInv, TypeOK
    <3>2. Foreseen
      BY <3>1 DEF BestInv
    <3>3. CASE Unidentified
      BY <3>2, <3>3 DEF Foreseen, Unidentified, Select
    <3>4. CASE SelectBest
      <4>1. sa.ns # << >> /\ call.pc = "priorities" /\ call.unread = {}
        BY <3>4 DEF SelectBest, BestInv
      <4>2. PICK i \in seen : IsBest(i.best, DOMAIN call.candidates, PriorityRead)
        BY <3>2, <4>1 DEF Foreseen, Usable
      <4>3. /\ DOMAIN call.candidates \in SUBSET SCCNames
            /\ \A n \in DOMAIN call.candidates : PriorityRead[n] \in Nat
            /\ \A n \in DOMAIN call.candidates : PriorityRead[n] = call.candidates[n]
        BY <1>0, HookAssumption DEF TypeInv, TypeOK, PriorityRead
      <4>4. CASE DOMAIN call.candidates = {}
        BY <1>0, <3>4, <4>2, <4>4, SelectedIsACandidate DEF IsBest
      <4>5. CASE DOMAIN call.candidates # {}
        <5>1. PICK m \in DOMAIN call.candidates :
                    /\ required' = hostSCCName(m)
                    /\ \A n \in DOMAIN call.candidates \ {m} : outranks(m, n, call.candidates)
          BY <1>0, <3>4, <4>5, SelectedIsACandidate
        <5>2. IsBest(m, DOMAIN call.candidates, call.candidates)
          BY <4>5, <5>1 DEF IsBest
        <5>3. m = i.best
          BY <4>2, <4>3, <5>2, BestIsLocal, BestIsUnique
        <5>4. QED
          BY <5>1, <5>3
      <4>6. QED
        BY <4>4, <4>5
    <3>5. QED
      BY <1>10, <3>1, <3>3, <3>4
  <2>4. QED
    BY <1>0, <1>1, <2>2, <2>3 DEF BestInv, Becomes
<1>11. QED
  BY <1>4, <1>5, <1>6, <1>7, <1>8, <1>9, <1>10 DEF Hook

-----------------------------------------------------------------------------
(* The one edit: what the call is bound to find becomes what the old        *)
(* instant, the new one, or both together have.                            *)

OldBest == grantedTo(sa) \cap existing

\* Both by member, before and after a step.
LEMMA Members ==
    /\ \A n : n \in OldBest <=> n \in existing /\ \E r \in boundRoles(sa) : n \in Contribution(r)
    /\ \A n : n \in OldBest' <=>
           n \in existing' /\ \E r \in boundRoles(sa)' : n \in Contribution(r)'
    /\ \A n : n \in ToFind <=> \E r \in RolesOf(call.todo) \cup Unlisted : n \in Contribution(r)
    /\ \A n : n \in ToFind' <=>
           \E r \in RolesOf(call'.todo) \cup Unlisted' : n \in Contribution(r)'
<1>1. \A n : n \in grantedTo(sa) <=> \E r \in boundRoles(sa) : n \in Contribution(r)
  BY DEF grantedTo, Contribution
<1>2. \A n : n \in grantedTo(sa)' <=> \E r \in boundRoles(sa)' : n \in Contribution(r)'
  BY DEF grantedTo, Contribution
<1>3. \A n : n \in ToFind <=> \E r \in RolesOf(call.todo) \cup Unlisted : n \in Contribution(r)
  BY DEF ToFind
<1>4. \A n : n \in ToFind' <=>
          \E r \in RolesOf(call'.todo) \cup Unlisted' : n \in Contribution(r)'
  BY DEF ToFind
<1>5. QED
  BY <1>1, <1>2, <1>3, <1>4 DEF OldBest

LEMMA BoundByKindsAfter == boundRoles(sa)' = BoundBy(ClusterBinding)' \cup BoundBy("RoleBinding")'
<1>1. (boundRoles(sa) = BoundBy(ClusterBinding) \cup BoundBy("RoleBinding"))'
  BY BoundByKinds, PTL
<1>2. QED
  BY <1>1

\* An edit leaves the parts of the call that read no virtual object.
LEMMA EditKeepsCall ==
    ASSUME TypeInv, Phases, Tenant
    PROVE  /\ call' = call /\ sa' = sa
           /\ call.pc # "priorities" => DOMAIN call.candidates = {}
           /\ call.pc = "priorities" => call.todo = {} /\ call.matches = {}
BY TenantFrame DEF sa, Phases, Resolved

LEMMA BindingEdit ==
    ASSUME TypeInv, Phases, Coverage, NEW b \in Bindings, EditBinding(b)
    PROVE  /\ Usable' = OldBest \/ Usable' = OldBest'
           /\ \A n \in SCCNames : PriorityRead'[n] = sccs[n] /\ sccs'[n] = sccs[n]
<1>0. Tenant /\ call' = call /\ sa' = sa /\ roles' = roles /\ sccs' = sccs
  BY EditKeepsCall DEF Tenant, EditBinding
<1>1. existing' = existing /\ \A r : roleGrants(r)' = roleGrants(r)
  BY <1>0 DEF existing, roleGrants
<1>2. \A r : Contribution(r)' = Contribution(r)
  BY <1>1 DEF Contribution
<1>3. \A c \in Bindings : c # b => bindings'[c] = bindings[c]
  BY DEF EditBinding, TypeInv, TypeOK
<1>4. \A kind : b.kind # kind => BoundBy(kind)' = BoundBy(kind)
  <2> SUFFICES ASSUME NEW kind, b.kind # kind PROVE BoundBy(kind)' = BoundBy(kind)
    OBVIOUS
  <2>1. matching(kind)' = matching(kind)
    BY <1>0, <1>3 DEF matching, applies
  <2>2. \A c \in matching(kind) : bindings'[c] = bindings[c]
    BY <1>3 DEF matching
  <2>3. todoOf(kind)' = todoOf(kind)
    BY <2>1, <2>2 DEF todoOf
  <2>4. QED
    BY <2>3 DEF BoundBy
<1>5. Got' = Got /\ PriorityRead' = PriorityRead
  BY <1>0, <1>1 DEF Got, PriorityRead
<1>6. \A n : n \in OldBest' <=> n \in existing /\ \E r \in boundRoles(sa)' : n \in Contribution(r)
  BY <1>1, <1>2, Members
<1>7. Usable = OldBest /\ \A n \in SCCNames : PriorityRead[n] = sccs[n]
  BY FoundBefore DEF OldBest
<1>8. ASSUME call.pc = "priorities" \/ Unlisted' = Unlisted
      PROVE  Usable' = OldBest
  <2>1. Usable' = Usable
    <3>1. CASE call.pc = "priorities"
      BY <1>0, <1>1, <3>1 DEF Usable
    <3>2. CASE call.pc # "priorities" /\ Unlisted' = Unlisted
      BY <1>0, <1>1, <1>2, <1>5, <3>2 DEF Usable, ToFind
    <3>3. QED
      BY <1>8, <3>1, <3>2
  <2>2. QED
    BY <1>7, <2>1
<1>9. CASE call.pc = "start"
  <2>1. call.granted = {} /\ call.matches = {} /\ call.todo = {}
    BY <1>9 DEF Phases, Becomes
  <2>2. Got = {} /\ RolesOf(call.todo) = {}
    BY <2>1 DEF Got, RolesOf, resolveSCCMatches
  <2>3. Unlisted' = boundRoles(sa)'
    BY <1>0, <1>9 DEF Unlisted
  <2>4. Usable' = OldBest'
    <3>1. Usable' = ToFind' \cap existing
      BY <1>0, <1>1, <1>5, <1>9, <2>2 DEF Usable
    <3>2. \A n : n \in ToFind' <=> \E r \in boundRoles(sa)' : n \in Contribution(r)
      BY <1>0, <1>2, <2>2, <2>3, Members
    <3>3. QED
      BY <1>6, <3>1, <3>2
  <2>5. QED
    BY <1>0, <1>5, <1>7, <2>4
<1>10. CASE call.pc = "clusterBindings"
  <2>1. CASE b.kind # "RoleBinding"
    <3>1. Unlisted' = Unlisted
      BY <1>0, <1>4, <1>10, <2>1 DEF Unlisted
    <3>2. QED
      BY <1>0, <1>5, <1>7, <1>8, <3>1
  <2>2. CASE b.kind = "RoleBinding"
    <3>1. Listed = BoundBy(ClusterBinding) /\ BoundBy(ClusterBinding)' = BoundBy(ClusterBinding)
          /\ Unlisted' = BoundBy("RoleBinding")'
      BY <1>0, <1>4, <1>10, <2>2 DEF Listed, Unlisted, ClusterBinding
    <3>2. boundRoles(sa)' = BoundBy(ClusterBinding)' \cup BoundBy("RoleBinding")'
      BY BoundByKindsAfter
    <3>3. boundRoles(sa)' = Listed \cup Unlisted'
      BY <3>1, <3>2
    <3>4. \A n : n \in Got \/ (\E r \in RolesOf(call.todo) : n \in Contribution(r))
                    <=> \E r \in Listed : n \in Contribution(r)
      BY DEF Coverage
    <3>5. \A n : n \in Usable' <=>
              /\ n \in existing
              /\ n \in Got \/ \E r \in RolesOf(call.todo) \cup Unlisted' : n \in Contribution(r)
      BY <1>0, <1>1, <1>2, <1>5, <1>10, Members DEF Usable
    <3>6. Usable' = OldBest'
      BY <1>6, <3>3, <3>4, <3>5
    <3>7. QED
      BY <1>0, <1>5, <1>7, <3>6
  <2>3. QED
    BY <2>1, <2>2
<1>11. CASE call.pc \notin {"start", "clusterBindings"}
  <2>1. Unlisted = {} /\ Unlisted' = {}
    BY <1>0, <1>11 DEF Unlisted
  <2>2. QED
    BY <1>0, <1>5, <1>7, <1>8, <2>1
<1>12. QED
  BY <1>9, <1>10, <1>11

LEMMA RoleEdit ==
    ASSUME TypeInv, Phases, Coverage, NEW role \in Roles, EditRole(role)
    PROVE  /\ Usable' = OldBest \/ Usable' = OldBest' \/ Usable' = OldBest \cup OldBest'
           /\ \A n \in SCCNames : PriorityRead'[n] = sccs[n] /\ sccs'[n] = sccs[n]
<1>0. Tenant /\ call' = call /\ sa' = sa /\ bindings' = bindings /\ sccs' = sccs
      /\ existing' = existing
  BY EditKeepsCall DEF Tenant, EditRole, existing
<1>1. \A r : r # role => Contribution(r)' = Contribution(r)
  <2>1. \A r \in Roles : r # role => roles'[r] = roles[r]
    BY DEF EditRole, TypeInv, TypeOK
  <2>2. \A r : r # role => roleGrants(r)' = roleGrants(r)
    BY <2>1 DEF roleGrants
  <2>3. QED
    BY <1>0, <2>2 DEF Contribution
<1>2. boundRoles(sa)' = boundRoles(sa) /\ \A kind : BoundBy(kind)' = BoundBy(kind)
  <2>1. \A b : applies(b, sa)' = applies(b, sa)
    BY <1>0 DEF applies
  <2>2. \A kind : todoOf(kind)' = todoOf(kind)
    BY <1>0, <2>1 DEF todoOf, matching
  <2>3. QED
    BY <1>0, <2>1, <2>2 DEF boundRoles, BoundBy
<1>3. Got' = Got /\ PriorityRead' = PriorityRead /\ Unlisted' = Unlisted
  BY <1>0, <1>2 DEF Got, PriorityRead, Unlisted
<1>4. \A n : n \in OldBest' <=> n \in existing /\ \E r \in boundRoles(sa) : n \in Contribution(r)'
  BY <1>0, <1>2, Members
<1>5. Usable = OldBest /\ \A n \in SCCNames : PriorityRead[n] = sccs[n]
  BY FoundBefore DEF OldBest
<1>6. CASE call.pc = "priorities"
  BY <1>0, <1>3, <1>5, <1>6 DEF Usable
<1>7. CASE call.pc # "priorities"
  <2> DEFINE left == RolesOf(call.todo) \cup Unlisted
  <2>1. \A n : n \in Usable' <=>
            n \in existing /\ (n \in Got \/ \E r \in left : n \in Contribution(r)')
    BY <1>0, <1>3, <1>7, Members DEF Usable
  <2>2. left \subseteq boundRoles(sa)
        /\ \A r \in boundRoles(sa) : r \in left \/ (r \in Listed /\ Contribution(r) \subseteq Got)
    BY BoundByKinds DEF Coverage
  <2>3. /\ \A n : n \in OldBest <=>
               n \in existing /\ \E r \in boundRoles(sa) : n \in Contribution(r)
        /\ \A n \in Got : \E r \in boundRoles(sa) : n \in Contribution(r)
    BY Members, BoundByKinds DEF Coverage
  <2>4. \A n : n \in Usable <=>
            n \in existing /\ (n \in Got \/ \E r \in left : n \in Contribution(r))
    BY <1>7, Members DEF Usable
  <2>5. \A n \in Got : \E r \in boundRoles(sa) : n \in Contribution(r) /\ Contribution(r) \subseteq Got
    BY BoundByKinds DEF Coverage
  <2> HIDE DEF left
  <2>6. CASE role \notin left
    <3>1. Usable' = Usable
      BY <1>1, <2>1, <2>4, <2>6
    <3>2. QED
      BY <1>0, <1>3, <1>5, <3>1
  <2>7. CASE role \in left
    <3>1. OldBest' \subseteq Usable'
      BY <1>1, <1>4, <2>1, <2>2, <2>7
    <3>2. CASE Contribution(role) \subseteq Got
      <4>1. OldBest \subseteq Usable'
        BY <1>1, <2>1, <2>2, <2>3, <3>2
      <4>2. Usable' \subseteq OldBest \cup OldBest'
        BY <1>4, <2>1, <2>2, <2>3
      <4>3. QED
        BY <1>0, <1>3, <1>5, <3>1, <4>1, <4>2
    <3>3. CASE ~(Contribution(role) \subseteq Got)
      <4>1. \A n \in Got : \E r \in boundRoles(sa) : n \in Contribution(r)'
        BY <1>1, <2>5, <3>3
      <4>2. Usable' \subseteq OldBest'
        BY <1>4, <2>1, <2>2, <4>1
      <4>3. QED
        BY <1>0, <1>3, <1>5, <3>1, <4>2
    <3>4. QED
      BY <3>2, <3>3
  <2>8. QED
    BY <2>6, <2>7
<1>8. QED
  BY <1>6, <1>7

\* An SCC that appears, disappears or changes its priority.
LEMMA SCCEdit ==
    ASSUME TypeInv, Phases, Coverage, NEW scc \in SCCNames, EditSCC(scc)
    PROVE  \/ Usable' = OldBest /\ \A n \in OldBest : PriorityRead'[n] = sccs[n]
           \/ Usable' = OldBest' /\ \A n \in OldBest' : PriorityRead'[n] = sccs'[n]
<1>0. Tenant /\ call' = call /\ sa' = sa /\ bindings' = bindings /\ roles' = roles
  BY EditKeepsCall DEF Tenant, EditSCC
<1>1. /\ \A n \in SCCNames : n # scc => sccs'[n] = sccs[n]
      /\ \A n : n # scc => (n \in existing' <=> n \in existing)
  BY DEF EditSCC, TypeInv, TypeOK, existing
<1>2. boundRoles(sa)' = boundRoles(sa) /\ (\A kind : BoundBy(kind)' = BoundBy(kind))
      /\ \A r : roleGrants(r)' = roleGrants(r)
  <2>1. \A b : applies(b, sa)' = applies(b, sa)
    BY <1>0 DEF applies
  <2>2. \A kind : todoOf(kind)' = todoOf(kind)
    BY <1>0, <2>1 DEF todoOf, matching
  <2>3. QED
    BY <1>0, <2>1, <2>2 DEF boundRoles, BoundBy, roleGrants
<1>3. ASSUME NEW matches, NEW n
      PROVE  /\ n \in resolveSCCMatches(matches, existing) <=>
                    \E m \in matches : IF m.wildcard THEN n \in existing ELSE n \in m.names
             /\ n \in resolveSCCMatches(matches, existing)' <=>
                    \E m \in matches : IF m.wildcard THEN n \in existing' ELSE n \in m.names
  BY DEF resolveSCCMatches
<1>4. \A n : n # scc \/ (n \in existing' <=> n \in existing) =>
          /\ \A r : n \in Contribution(r)' <=> n \in Contribution(r)
          /\ n \in Got' <=> n \in Got
  <2> SUFFICES ASSUME NEW n, n \in existing' <=> n \in existing
               PROVE  /\ \A r : n \in Contribution(r)' <=> n \in Contribution(r)
                      /\ n \in Got' <=> n \in Got
    BY <1>1
  <2>1. \A r : n \in Contribution(r)' <=> n \in Contribution(r)
    BY <1>2, <1>3 DEF Contribution
  <2>2. n \in Got' <=> n \in Got
    BY <1>0, <1>3 DEF Got
  <2>3. QED
    BY <2>1, <2>2
<1>5. scc \in existing' => \A r : scc \in Contribution(r) => scc \in Contribution(r)'
  BY <1>2, <1>3 DEF Contribution
<1>6. Unlisted' = Unlisted
  BY <1>0, <1>2 DEF Unlisted
<1>7. Usable = OldBest /\ \A n \in SCCNames : PriorityRead[n] = sccs[n]
  BY FoundBefore DEF OldBest
<1>8. OldBest \subseteq SCCNames /\ OldBest' \subseteq SCCNames
  BY DEF OldBest, existing
<1>9. \A n : n \in OldBest' <=> n \in existing' /\ \E r \in boundRoles(sa) : n \in Contribution(r)'
  BY <1>2, Members
<1>10. \A n : n # scc => (n \in OldBest' <=> n \in OldBest)
  BY <1>1, <1>4, <1>9, Members
<1>11. ASSUME scc \in Got, scc \in existing' PROVE scc \in OldBest'
  BY <1>5, <1>9, <1>11, BoundByKinds DEF Coverage
<1>12. CASE call.pc = "priorities"
  <2>1. /\ Usable = DOMAIN call.candidates \cup (call.unread \cap existing)
        /\ Usable' = DOMAIN call.candidates \cup (call.unread \cap existing')
    BY <1>0, <1>12 DEF Usable
  <2>2. \A n : n # scc => (n \in Usable' <=> n \in OldBest)
    BY <1>1, <1>7, <2>1
  <2>3. \A n \in SCCNames : n \in DOMAIN call.candidates => PriorityRead'[n] = sccs[n]
    BY <1>0 DEF PriorityRead, Coverage
  <2>4. \A n \in SCCNames : n \notin DOMAIN call.candidates => PriorityRead'[n] = sccs'[n]
    BY <1>0 DEF PriorityRead
  <2>5. CASE scc \in DOMAIN call.candidates
    <3>1. Usable' = OldBest
      BY <1>7, <2>1, <2>2, <2>5
    <3>2. \A n \in OldBest : PriorityRead'[n] = sccs[n]
      BY <1>1, <1>8, <2>3, <2>4, <2>5
    <3>3. QED
      BY <3>1, <3>2
  <2>6. CASE scc \notin DOMAIN call.candidates /\ scc \in call.unread
    <3>1. scc \in Got
      BY <2>6 DEF Got, TypeInv, TypeOK
    <3>2. scc \in Usable' <=> scc \in OldBest'
      BY <1>9, <1>11, <2>1, <2>6, <3>1
    <3>3. Usable' = OldBest'
      BY <1>10, <2>2, <3>2
    <3>4. \A n \in OldBest' : PriorityRead'[n] = sccs'[n]
      BY <1>1, <1>8, <2>3, <2>4, <2>6
    <3>5. QED
      BY <3>3, <3>4
  <2>7. CASE scc \notin DOMAIN call.candidates /\ scc \notin call.unread
    <3>1. Usable' = OldBest /\ scc \notin OldBest
      BY <1>7, <2>1, <2>2, <2>7
    <3>2. \A n \in OldBest : PriorityRead'[n] = sccs[n]
      BY <1>1, <1>8, <2>3, <2>4, <3>1
    <3>3. QED
      BY <3>1, <3>2
  <2>8. QED
    BY <2>5, <2>6, <2>7
<1>13. CASE call.pc # "priorities"
  <2> DEFINE left == RolesOf(call.todo) \cup Unlisted
  <2>1. \A n \in SCCNames : PriorityRead'[n] = sccs'[n]
    BY <1>0, <1>13 DEF PriorityRead, Phases
  <2>2. \A n : n \in Usable' <=>
            n \in existing' /\ (n \in Got' \/ \E r \in left : n \in Contribution(r)')
    BY <1>0, <1>6, <1>13, Members DEF Usable
  <2>3. \A n : n \in OldBest <=>
            n \in existing /\ (n \in Got \/ \E r \in left : n \in Contribution(r))
    BY <1>7, <1>13, Members DEF Usable
  <2>4. left \subseteq boundRoles(sa)
    BY BoundByKinds DEF Coverage
  <2> HIDE DEF left
  <2>5. \A n : n # scc => (n \in Usable' <=> n \in OldBest)
    BY <1>1, <1>4, <2>2, <2>3
  <2>6. scc \in Usable' => scc \in OldBest'
    <3> SUFFICES ASSUME scc \in Usable' PROVE scc \in OldBest'
      OBVIOUS
    <3>1. CASE \E r \in left : scc \in Contribution(r)'
      BY <1>9, <2>2, <2>4, <3>1
    <3>2. CASE scc \in call.granted
      BY <1>11, <2>2, <3>2 DEF Got
    <3>3. CASE scc \in resolveSCCMatches(call.matches, existing)'
      <4>1. PICK m \in call.matches : IF m.wildcard THEN scc \in existing' ELSE scc \in m.names
        BY <1>0, <1>3, <3>3
      <4>2. PICK r \in Listed : m \in roleGrants(r)
        BY <4>1 DEF Coverage
      <4>3. scc \in Contribution(r)'
        BY <1>2, <1>3, <4>1, <4>2 DEF Contribution
      <4>4. QED
        BY <1>9, <2>2, <4>3, BoundByKinds
    <3>4. QED
      BY <1>0, <2>2, <3>1, <3>2, <3>3 DEF Got
  <2>7. scc \in existing' /\ scc \in OldBest => scc \in Usable'
    BY <1>4, <2>2, <2>3
  <2>8. CASE scc \in Usable' \/ scc \notin existing'
    <3>1. scc \in Usable' <=> scc \in OldBest'
      BY <1>9, <2>2, <2>6, <2>8
    <3>2. Usable' = OldBest'
      BY <1>10, <2>5, <3>1
    <3>3. QED
      BY <1>8, <2>1, <3>2
  <2>9. CASE scc \notin Usable' /\ scc \in existing'
    <3>1. Usable' = OldBest /\ scc \notin OldBest
      BY <2>5, <2>7, <2>9
    <3>2. QED
      BY <1>1, <1>8, <2>1, <3>1
  <2>10. QED
    BY <2>8, <2>9
<1>14. QED
  BY <1>12, <1>13

\* Whatever the edit, the call is bound to select the best SCC of the instant
\* before it or of the one after it.
LEMMA EditIsForeseen ==
    ASSUME TypeInv, TypeInv', Phases, Coverage, Tenant, sa.ns # << >>,
           NEW old, BestNow(old), NEW new, BestNow(new)'
    PROVE  IsBest(old.best, Usable', PriorityRead') \/ IsBest(new.best, Usable', PriorityRead')
<1>1. sa' = sa
  BY EditKeepsCall
<1>2. IsBest(old.best, OldBest, sccs) /\ IsBest(new.best, OldBest', sccs')
  BY <1>1 DEF BestNow, OldBest
<1>3. /\ OldBest \in SUBSET SCCNames /\ \A n \in OldBest : sccs[n] \in Nat
      /\ OldBest' \in SUBSET SCCNames /\ \A n \in OldBest' : sccs'[n] \in Nat
  BY HookAssumption DEF OldBest, existing, TypeInv, TypeOK
<1>4. CASE \E scc \in SCCNames : EditSCC(scc)
  BY <1>2, <1>4, SCCEdit, BestIsLocal
<1>5. CASE (\E b \in Bindings : EditBinding(b)) \/ \E r \in Roles : EditRole(r)
  <2>1. /\ Usable' = OldBest \/ Usable' = OldBest' \/ Usable' = OldBest \cup OldBest'
        /\ \A n \in SCCNames : PriorityRead'[n] = sccs[n] /\ sccs'[n] = sccs[n]
    BY <1>5, BindingEdit, RoleEdit
  <2>2. IsBest(old.best, OldBest, PriorityRead') /\ IsBest(new.best, OldBest', PriorityRead')
    BY <1>2, <1>3, <2>1, BestIsLocal
  <2>3. \A n \in OldBest \cup OldBest' : PriorityRead'[n] \in Nat
    BY <1>3, <2>1
  <2>4. QED
    BY <1>3, <2>1, <2>2, <2>3, BestOfUnion
<1>6. QED
  BY <1>4, <1>5 DEF Tenant

LEMMA BestEdit == BestInv /\ Tenant => BestInv'
<1> SUFFICES ASSUME BestInv, Tenant PROVE BestInv'
  OBVIOUS
<1>0. /\ TypeInv /\ TypeInv' /\ Phases /\ Phases' /\ required = None /\ required' = None
      /\ call' = call /\ sa' = sa /\ faults' = faults
      /\ seen' = seen \cup {Instant'} /\ edits' = edits + 1 /\ edits \in Nat
  <2>1. TypeInv /\ Phases /\ Next
    BY DEF BestInv, Next
  <2>2. faults' = faults
    BY DEF Tenant, EditBinding, EditRole, EditSCC, Edit
  <2>3. QED
    BY <2>1, <2>2, TypeStep, PhasesStep, TenantFrame DEF sa
<1>1. BestNow(Instant)'
  <2>1. TypeOK'
    BY <1>0 DEF TypeInv
  <2>2. QED
    BY <2>1, InstantIsBest, PTL
<1> HIDE DEF Instant
<1>2. (\E i \in seen : BestNow(i))'
  BY <1>0, <1>1
<1>3. faults = 0 /\ edits' <= 1 => Foreseen'
  <2> SUFFICES ASSUME faults = 0, edits = 0 PROVE Foreseen'
    BY <1>0
  <2>1. PICK old \in seen : BestNow(old)
    BY DEF BestInv
  <2>2. CASE sa.ns = << >>
    <3>1. old.best = defaultSCC
      BY <2>1, <2>2 DEF BestNow
    <3>2. QED
      BY <1>0, <2>2, <3>1 DEF Foreseen
  <2>3. CASE sa.ns # << >>
    <3>1. Coverage
      BY <1>0 DEF BestInv
    <3> DEFINE new == Instant'
    <3>2. \E i \in {old, new} : IsBest(i.best, Usable', PriorityRead')
      BY <1>0, <1>1, <2>1, <2>3, <3>1, EditIsForeseen
    <3>3. QED
      BY <1>0, <2>3, <3>2 DEF Foreseen
  <2>4. QED
    BY <2>2, <2>3
<1>4. QED
  BY <1>0, <1>2, <1>3 DEF BestInv, SelectionIsBestOfAnInstant

LEMMA BestInitially == Init => BestInv
<1> SUFFICES ASSUME Init PROVE BestInv
  OBVIOUS
<1>1. /\ TypeInv /\ TypeOK /\ Phases /\ call.pc = "start" /\ call.todo = {} /\ call.matches = {}
      /\ call.granted = {} /\ call.unread = {} /\ DOMAIN call.candidates = {} /\ required = None
  BY HookInitType, PhasesInitially DEF Init, Start, TypeInv
<1>2. Instant \in seen /\ BestNow(Instant)
  BY <1>1, InstantIsBest DEF Init
<1>3. Coverage
  BY <1>1 DEF Coverage, RolesOf, Listed, Got, resolveSCCMatches
<1>4. Foreseen
  <2> HIDE DEF Instant
  <2>1. Usable = OldBest /\ (\A n \in SCCNames : PriorityRead[n] = sccs[n]) /\ OldBest \subseteq SCCNames
    BY <1>1, <1>3, FoundBefore DEF OldBest, existing
  <2>2. sa.ns # << >> => IsBest(Instant.best, Usable, PriorityRead)
    BY <1>2, <2>1, BestIsLocal DEF BestNow, OldBest
  <2>3. QED
    BY <1>2, <2>2 DEF Foreseen, BestNow
<1>5. QED
  BY <1>1, <1>2, <1>3, <1>4 DEF BestInv, SelectionIsBestOfAnInstant

\* When all reads succeed and the tenant edits at most once during the call, the
\* hook selects the best SCC of an instant of the call (MutateCreatePhysical,
\* scc.go:31, resolveUsableSCCs, :66).
THEOREM SelectionsAreTheBest == Spec => []SelectionIsBestOfAnInstant
<1>1. BestInv /\ UNCHANGED vars => BestInv'
  <2> SUFFICES ASSUME BestInv, UNCHANGED vars PROVE BestInv'
    OBVIOUS
  <2>1. TypeInv' /\ Phases' /\ UNCHANGED virtual /\ UNCHANGED pod
        /\ call' = call /\ seen' = seen /\ required' = required /\ edits' = edits /\ faults' = faults
    BY TypeStep, PhasesStep DEF BestInv, vars
  <2>2. /\ sa' = sa /\ existing' = existing /\ grantedTo(sa)' = grantedTo(sa) /\ sccs' = sccs
        /\ (\A r : Contribution(r)' = Contribution(r)) /\ boundRoles(sa)' = boundRoles(sa)
        /\ (\A kind : BoundBy(kind)' = BoundBy(kind)) /\ \A r : roleGrants(r)' = roleGrants(r)
    BY <2>1, SameObjects, SameContributions DEF virtual
  <2>3. /\ Listed' = Listed /\ Unlisted' = Unlisted /\ Got' = Got /\ PriorityRead' = PriorityRead
    BY <2>1, <2>2 DEF Listed, Unlisted, Got, PriorityRead
  <2>4. ToFind' = ToFind
    BY <2>1, <2>2, <2>3 DEF ToFind
  <2>5. Usable' = Usable
    BY <2>1, <2>2, <2>3, <2>4 DEF Usable
  <2>6. Coverage' <=> Coverage
    BY <2>1, <2>2, <2>3, <2>5 DEF Coverage
  <2>7. (Foreseen' <=> Foreseen) /\ \A i : BestNow(i)' <=> BestNow(i)
    BY <2>1, <2>2, <2>3, <2>5 DEF Foreseen, BestNow
  <2>8. QED
    BY <2>1, <2>2, <2>6, <2>7 DEF BestInv, SelectionIsBestOfAnInstant
<1>2. BestInv /\ [Next]_vars => BestInv'
  BY <1>1, BestEdit, BestCall DEF Next
<1>3. BestInv => SelectionIsBestOfAnInstant
  BY DEF BestInv
<1>4. QED
  BY <1>2, <1>3, BestInitially, PTL DEF Spec
=============================================================================
