------------------------- MODULE CompositionProofs -------------------------
(* Machine-checked proofs about Composition. *)
EXTENDS Composition, TLAPS

-----------------------------------------------------------------------------
(* Names and what the function answers. *)

\* A Usage is told by its name, and no other resource has such a name.
LEMMA NamesDiffer ==
  /\ \A r \in Resources : r[1] # "usage"
  /\ \A b, c : UsageName(b) = UsageName(c) => b = c
  /\ \A b : UsageName(b)[1] = "usage"
  /\ \A b : UsageName(b) \notin Resources
  <1>1. \A r \in Resources : r[1] # "usage"
    BY DEF Resources, SqlResources, Creds, Role, Db, Grant
  <1>2. \A b : UsageName(b)[1] = "usage" /\ UsageName(b)[2] = b
    BY DEF UsageName
  <1> QED
    BY <1>1, <1>2

\* The resources of an access list.
LEMMA WantedType ==
  ASSUME NEW acc \in Access
  PROVE  /\ Wanted(acc) \subseteq Resources
         /\ \A r \in Wanted(acc) : r # Creds => r \in SqlResources
         /\ \A u \in Listed(acc) : u \in Users /\ acc[u] \in Databases
  <1>1. \A u \in Listed(acc) : u \in Users /\ acc[u] \in Databases
    BY DEF Listed, Access
  <1> QED
    BY <1>1 DEF Wanted, Resources, SqlResources

\* The function desires nothing but the resources of the access list.
LEMMA UserManagementType ==
  ASSUME NEW s, s.access \in Access
  PROVE  UserManagement(s) \subseteq Resources
  <1>1. \A u \in Listed(s.access) : u \in Users /\ s.access[u] \in Databases
    BY WantedType
  <1> QED
    BY <1>1 DEF UserManagement, Resources, SqlResources

\* What exists and is wanted stays desired, whatever is not ready.
LEMMA KeepsExisting ==
  ASSUME NEW s, s.access \in Access, NEW r \in Wanted(s.access), r \in s.exists
  PROVE  {Creds, r} \subseteq UserManagement(s)
  <1>1. PICK u \in Listed(s.access) :
          r = Creds \/ r \in {Role(u), Db(s.access[u]), Grant(u, s.access[u])}
    BY DEF Wanted
  <1> QED
    BY <1>1 DEF UserManagement, AddsDatabase, AddsGrants

\* If all that is desired is ready then nothing that is wanted is missing: what
\* a resource waits for is desired before it.
LEMMA ReadyIsComplete ==
  ASSUME NEW s, s.access \in Access, CheckReadiness(s)
  PROVE  Wanted(s.access) \subseteq s.ready
  <1> SUFFICES ASSUME NEW r \in Wanted(s.access) PROVE r \in s.ready
    OBVIOUS
  <1>1. UserManagement(s) \subseteq s.ready
    BY DEF CheckReadiness, Desired
  <1>2. PICK u \in Listed(s.access) :
          r = Creds \/ r \in {Role(u), Db(s.access[u]), Grant(u, s.access[u])}
    BY DEF Wanted
  <1>3. Creds \in s.ready /\ Role(u) \in s.ready
    BY <1>1 DEF UserManagement
  <1>4. Db(s.access[u]) \in s.ready
    BY <1>1, <1>3 DEF UserManagement, AddsDatabase
  <1>5. Grant(u, s.access[u]) \in s.ready
    BY <1>1, <1>3, <1>4 DEF UserManagement, AddsGrants
  <1> QED
    BY <1>2, <1>3, <1>4, <1>5

\* A Usage is desired together with its user.
LEMMA UsageDesired ==
  ASSUME NEW s, s.access \in Access, NEW b \in SqlResources
  PROVE  /\ UsageName(b) \in Desired(s) <=> Usages(s)[b] # "none"
         /\ UsageName(b) \in Desired(s) => b \in Desired(s)
  <1>1. UsageName(b) \notin UserManagement(s)
    BY UserManagementType, NamesDiffer
  <1>2. UsageName(b) \in Desired(s) <=> Usages(s)[b] # "none"
    BY <1>1, NamesDiffer DEF Desired
  <1>3. Usages(s)[b] # "none" => b \in UserManagement(s)
    BY DEF Usages
  <1> QED
    BY <1>2, <1>3 DEF Desired

\* The answer of the function has the shape of an answer.
LEMMA AnswerType ==
  ASSUME NEW s \in Snapshot
  PROVE  /\ Desired(s) \subseteq Names /\ CheckReadiness(s) \in BOOLEAN
         /\ Usages(s) \in [SqlResources -> {"none", "observe", "usage"}]
  <1>1. s.access \in Access /\ s.wrapper \in [SqlResources -> {"none", "full", "observe"}]
    BY DEF Snapshot
  <1>2. UserManagement(s) \subseteq Resources
    BY <1>1, UserManagementType
  <1>3. \A w \in {"none", "full", "observe"} : UnwrapUsage(w) \in {"none", "observe", "usage"}
    BY DEF UnwrapUsage
  <1>4. Usages(s) \in [SqlResources -> {"none", "observe", "usage"}]
    BY <1>1, <1>3 DEF Usages
  <1> QED
    BY <1>2, <1>4 DEF Desired, Names, CheckReadiness
-----------------------------------------------------------------------------
(* The steps. *)

\* What the three properties say of a step.
Keeps == \A r \in deleting' \ deleting : r \notin Wanted(pass.input.access)
Survives ==
  \A b \in SqlResources : usage[b] = "owned" /\ usage'[b] # "owned" =>
    \/ b \notin Existing
    \/ pass # None /\ b \notin Wanted(pass.input.access)

\* Members of Existing.
LEMMA ExistingNames ==
  /\ \A r \in Resources : r \in Existing <=> store[r] # "none"
  /\ \A b \in SqlResources : UsageName(b) \in Existing <=> usage[b] # "none" \/ wrapper[b] # "none"
  /\ Existing \subseteq Names
  BY NamesDiffer DEF Existing, Names

\* A pass starts.
LEMMA Starts ==
  ASSUME IInv, RunFunction
  PROVE  IInv' /\ Keeps /\ Survives
  <1> DEFINE s == [access |-> access, wrapper |-> wrapper,
                   exists |-> refs \cap Existing, ready |-> refs \cap Ready]
  <1>1. /\ pass' = [input |-> s, desired |-> Desired(s), usages |-> Usages(s),
                    ready |-> CheckReadiness(s)]
        /\ UNCHANGED <<cluster, owner, refs, reported, faults>>
    BY DEF RunFunction
  <1>2. s \in Snapshot
    BY DEF Snapshot, IInv, TypeOK
  <1>3. s.wrapper = wrapper /\ s.exists = refs \cap Existing
    OBVIOUS
  <1> HIDE DEF s
  <1>4. pass' \in Pass
    BY <1>1, <1>2, AnswerType DEF Pass
  <1>5. PassInv'
    BY <1>1, <1>3 DEF PassInv, cluster, Existing
  <1>6. Keeps /\ Survives
    BY <1>1 DEF Keeps, Survives, cluster
  <1> QED
    BY <1>1, <1>4, <1>5, <1>6 DEF IInv, TypeOK, RefsInv, cluster, owner

\* What a pass deletes is not wanted, and it takes away a Usage only after its
\* user, or with a wrapper that does not matter any more.
LEMMA FinishKeeps ==
  ASSUME IInv, pass # None, NEW gone \in SUBSET Garbage, NEW made, FinishPass(gone, made)
  PROVE  Keeps /\ Survives
  <1> DEFINE s == pass.input
  <1>1. s.access \in Access /\ wrapper \in [SqlResources -> {"none", "full", "observe"}]
    BY DEF IInv, TypeOK, Pass, Snapshot
  <1>2. /\ pass.desired = Desired(s) /\ s.wrapper = wrapper
        /\ s.exists \subseteq refs /\ refs \cap Existing \subseteq s.exists
    BY DEF IInv, PassInv
  <1>3. Keeps
    <2> SUFFICES ASSUME NEW r \in deleting' \ deleting, r \in Wanted(s.access)
                 PROVE  FALSE
      BY DEF Keeps
    <2>1. r \in s.exists /\ r \notin Desired(s)
      BY <1>2 DEF FinishPass, Garbage
    <2> QED
      BY <1>1, <2>1, KeepsExisting DEF Desired
  <1>4. Survives
    <2> SUFFICES ASSUME NEW b \in SqlResources, usage[b] = "owned", usage'[b] # "owned",
                        b \in Existing, b \in Wanted(s.access)
                 PROVE  FALSE
      BY DEF Survives
    <2>1. UsageName(b) \in gone /\ wrapper[b] # "observe"
      BY DEF FinishPass, UsageWithout
    <2>2. UsageName(b) \in s.exists /\ UsageName(b) \notin Desired(s)
      BY <1>2, <2>1 DEF Garbage
    <2>3. b \in s.exists
      BY <1>2, <2>2 DEF IInv, RefsInv
    <2>4. {Creds, b} \subseteq UserManagement(s)
      BY <1>1, <2>3, KeepsExisting
    <2>5. Usages(s)[b] = UnwrapUsage(wrapper[b])
      BY <1>2, <2>4 DEF Usages
    <2>6. UnwrapUsage(wrapper[b]) # "none"
      BY <1>1, <2>1 DEF UnwrapUsage
    <2> QED
      BY <1>1, <2>2, <2>5, <2>6, UsageDesired
  <1> QED
    BY <1>3, <1>4

\* A pass ends, or breaks off.
LEMMA FinishType ==
  ASSUME IInv, pass # None, NEW gone \in SUBSET Garbage, NEW made \in SUBSET pass.desired,
         FinishPass(gone, made), faults' \in 0..MaxFaults
  PROVE  IInv'
  <1>1. /\ pass' = None /\ access' = access /\ edits' = edits
        /\ refs' = refs \/ refs' = pass.desired
        /\ reported' = reported \/ reported' = pass.ready
    BY DEF FinishPass, owner
  <1>2. pass \in Pass /\ pass.desired \subseteq Names /\ pass.ready \in BOOLEAN
        /\ pass.input.access \in Access
    BY DEF IInv, TypeOK, Pass, Snapshot
  <1>3. /\ store' \in [Resources -> {"none", "unready", "ready"}]
        /\ deleting' \subseteq Resources
    BY DEF FinishPass, IInv, TypeOK
  <1>4. usage' \in [SqlResources -> {"none", "new", "owned", "deleting"}]
    BY DEF FinishPass, UsageWithout, EndUsage, IInv, TypeOK
  <1>5. wrapper' \in [SqlResources -> {"none", "full", "observe"}]
    BY DEF FinishPass, WrapperWithout, IInv, TypeOK
  <1>6. TypeOK'
    BY <1>1, <1>2, <1>3, <1>4, <1>5 DEF IInv, TypeOK
  <1>7. \A b \in SqlResources : UsageName(b) \in pass.desired => b \in pass.desired
    BY <1>2, UsageDesired DEF IInv, PassInv
  <1>8. RefsInv'
    BY <1>1, <1>7 DEF IInv, RefsInv
  <1> QED
    BY <1>1, <1>6, <1>8 DEF IInv, PassInv

\* Both ways a pass can end.
LEMMA Ends ==
  ASSUME IInv, Finish \/ BreakOff
  PROVE  IInv' /\ Keeps /\ Survives
  <1>1. CASE Finish
    <2> DEFINE gone == {r \in Garbage : ~Denied(r)}
               made == IF gone = Garbage THEN pass.desired ELSE {}
    <2>1. /\ pass # None /\ gone \in SUBSET Garbage /\ made \in SUBSET pass.desired
          /\ FinishPass(gone, made) /\ faults' \in 0..MaxFaults
      BY <1>1 DEF Finish, IInv, TypeOK
    <2> HIDE DEF gone, made
    <2> QED
      BY <2>1, FinishKeeps, FinishType
  <1>2. CASE BreakOff
    <2>1. PICK gone \in SUBSET Garbage, made \in SUBSET pass.desired : FinishPass(gone, made)
      BY <1>2 DEF BreakOff
    <2>2. pass # None /\ faults' \in 0..MaxFaults
      BY <1>2, CompositionAssumption DEF BreakOff, IInv, TypeOK
    <2> QED
      BY <2>1, <2>2, FinishKeeps, FinishType
  <1> QED
    BY <1>1, <1>2

\* Everything the providers, the Usage controller and the user do: nothing comes
\* to exist, no wrapper changes.
LEMMA Others ==
  ASSUME IInv, UNCHANGED <<wrapper, refs, pass, reported>>, TypeOK',
         \A r \in Resources : store'[r] # "none" => store[r] # "none",
         \A b \in SqlResources : usage'[b] # "none" => usage[b] # "none"
  PROVE  IInv'
  <1>1. Existing' \subseteq Existing
    BY DEF Existing
  <1>2. PassInv'
    BY <1>1 DEF IInv, PassInv
  <1> QED
    BY <1>2 DEF IInv, RefsInv

\* The provider.
LEMMA Providers ==
  ASSUME IInv, NEW r \in Resources, BecomeReady(r) \/ BecomeUnready(r) \/ Finalize(r)
  PROVE  IInv' /\ Keeps /\ Survives
  <1>1. /\ UNCHANGED <<usage, wrapper, owner, refs, pass, reported>>
        /\ deleting' \subseteq deleting
    BY DEF BecomeReady, BecomeUnready, Finalize, IInv, TypeOK
  <1>2. faults' \in 0..MaxFaults
    BY CompositionAssumption DEF BecomeReady, BecomeUnready, Finalize, IInv, TypeOK
  <1>3. /\ store' \in [Resources -> {"none", "unready", "ready"}]
        /\ \A q \in Resources : store'[q] # "none" => store[q] # "none"
    BY DEF BecomeReady, BecomeUnready, Finalize, IInv, TypeOK
  <1>4. TypeOK'
    BY <1>1, <1>2, <1>3 DEF IInv, TypeOK, owner
  <1> QED
    BY <1>1, <1>3, <1>4, Others DEF Keeps, Survives

\* The Usage controller: it ends a Usage only when its user is gone.
LEMMA UsageController ==
  ASSUME IInv, NEW b \in SqlResources, OwnUsage(b) \/ ReleaseUsage(b)
  PROVE  IInv' /\ Keeps /\ Survives
  <1>1. UNCHANGED <<store, deleting, wrapper, owner, refs, pass, reported, faults>>
    BY DEF OwnUsage, ReleaseUsage
  <1>2. /\ usage' \in [SqlResources -> {"none", "new", "owned", "deleting"}]
        /\ \A c \in SqlResources : usage'[c] # "none" => usage[c] # "none"
    BY DEF OwnUsage, ReleaseUsage, IInv, TypeOK
  <1>3. TypeOK'
    BY <1>1, <1>2 DEF IInv, TypeOK, owner
  <1>4. Survives
    BY DEF Survives, OwnUsage, ReleaseUsage, IInv, TypeOK
  <1> QED
    BY <1>1, <1>2, <1>3, <1>4, Others DEF Keeps

\* The user.
LEMMA Edits ==
  ASSUME IInv, NEW u \in Users, NEW d \in Databases \cup {None}, SetAccess(u, d)
  PROVE  IInv' /\ Keeps /\ Survives
  <1>1. UNCHANGED <<store, deleting, usage, wrapper, refs, pass, reported, faults>>
    BY DEF SetAccess, cluster
  <1>2. access' \in Access /\ edits' \in 0..MaxEdits
    BY CompositionAssumption DEF SetAccess, Access, IInv, TypeOK
  <1>3. TypeOK'
    BY <1>1, <1>2 DEF IInv, TypeOK
  <1> QED
    BY <1>1, <1>3, Others DEF Keeps, Survives
-----------------------------------------------------------------------------
(* The theorems. *)

\* A service that has everything it wants, from an older version or not.
LEMMA Initially == Init => IInv
  <1> SUFFICES ASSUME Init PROVE IInv
    OBVIOUS
  <1> DEFINE old == Wanted(access)
             used == old \ {Creds}
  <1>1. access \in Access
    BY DEF Init
  <1>2. old \subseteq Resources /\ used \subseteq SqlResources
    BY <1>1, WantedType
  <1>3. refs = old \cup {UsageName(b) : b \in used}
    BY DEF Init
  <1>4. /\ store \in [Resources -> {"none", "unready", "ready"}]
        /\ usage \in [SqlResources -> {"none", "new", "owned", "deleting"}]
        /\ wrapper \in [SqlResources -> {"none", "full", "observe"}]
    BY DEF Init
  <1> HIDE DEF old
  <1>5. refs \subseteq Names
    BY <1>2, <1>3 DEF Names
  <1>6. RefsInv
    BY <1>2, <1>3, NamesDiffer DEF RefsInv
  <1>7. /\ deleting = {} /\ reported = FALSE /\ pass = None
        /\ edits \in 0..MaxEdits /\ faults \in 0..MaxFaults
    BY CompositionAssumption DEF Init
  <1> QED
    BY <1>1, <1>4, <1>5, <1>6, <1>7 DEF IInv, TypeOK, PassInv

\* Every step keeps the invariant, what is wanted and the Usages in force.
LEMMA Step == IInv /\ [Next]_vars => IInv' /\ [Keeps]_vars /\ [Survives]_vars
  <1> SUFFICES ASSUME IInv, [Next]_vars PROVE IInv' /\ [Keeps]_vars /\ [Survives]_vars
    OBVIOUS
  <1>1. CASE UNCHANGED vars
    BY <1>1 DEF vars, IInv, TypeOK, PassInv, RefsInv, Existing
  <1>2. CASE Next
    BY <1>2, Starts, Ends, Providers, UsageController, Edits
       DEF Next, Crossplane, Provider, Owner
  <1> QED
    BY <1>1, <1>2

\* Resources, Usages, wrappers, references and passes keep their shape.
THEOREM TypeCorrect == Spec => []TypeOK
  <1>1. IInv => TypeOK
    BY DEF IInv
  <1> QED
    BY <1>1, Initially, Step, PTL DEF Spec

\* Whatever becomes unready and wherever passes break off, no pass deletes what
\* the access list asks for, for any number of users and databases.
THEOREM WantedIsKept == Spec => KeepsWanted
  <1>1. IInv /\ [Next]_vars
        => [\A r \in deleting' \ deleting : r \notin Wanted(pass.input.access)]_vars
    BY Step DEF Keeps
  <1> QED
    BY <1>1, Initially, Step, PTL DEF Spec, KeepsWanted

\* A composite that is called ready has every user, database and grant, although
\* these are desired one after the other.
THEOREM ReadyIsMeant == Spec => []ReadyMeansComplete
  <1>1. IInv => ReadyMeansComplete
    BY ReadyIsComplete DEF IInv, TypeOK, PassInv, Pass, Snapshot, ReadyMeansComplete
  <1> QED
    BY <1>1, Initially, Step, PTL DEF Spec

\* A Usage in force outlives the migration that unwraps it, and every pass that
\* breaks off on the way.
THEOREM UsagesSurvive == Spec => UsageSurvives
  <1>1. IInv /\ [Next]_vars
        => [\A b \in SqlResources : usage[b] = "owned" /\ usage'[b] # "owned" =>
              \/ b \notin Existing
              \/ pass # None /\ b \notin Wanted(pass.input.access)]_vars
    BY Step DEF Survives
  <1> QED
    BY <1>1, Initially, Step, PTL DEF Spec, UsageSurvives
============================================================================
