---------------------------- MODULE Composition ----------------------------
(***************************************************************************)
(* The composition functions of a service, at the example of the users of  *)
(* a database: the step that decides which users, databases and grants are *)
(* desired (vshnmariadb/user_management.go), the runtime that adds Usages  *)
(* and computes readiness (comp-functions/runtime/function_mgr.go), and    *)
(* Crossplane and the providers around them.                               *)
(*                                                                         *)
(* A function sees a snapshot and answers with everything it desires.      *)
(* What exists and is not desired gets deleted, so forgetting a resource   *)
(* for one pass, because what it depends on is not ready, destroys it.     *)
(***************************************************************************)
EXTENDS Naturals, FiniteSets

CONSTANTS
  Users, Databases,  \* names an access entry may use
  None,              \* no access
  MaxEdits,          \* bound: changes of the access list
  MaxFaults          \* bound: passes that break off and resources that become unready

ASSUME CompositionAssumption ==
  /\ None \notin Databases
  /\ MaxEdits \in Nat /\ MaxFaults \in Nat

VARIABLES
  access,     \* spec.parameters.service.access of the composite: user to database
  store,      \* the composed resources in the cluster
  deleting,   \* those with a deletion timestamp
  usage,      \* for every resource, the Usage that protects the credentials for it
  wrapper,    \* the kube Object around that Usage, from older versions
  refs,       \* the composed resources the composite refers to, by name
  pass,       \* what the function saw and answered, None between passes
  reported,   \* the Ready condition of the composite
  edits, faults

vars == <<access, store, deleting, usage, wrapper, refs, pass, reported,
          edits, faults>>
cluster == <<store, deleting, usage, wrapper>>
owner == <<access, edits>>

Creds == <<"provider-conf-credentials">>
Role(u) == <<"role", u>>
Db(d) == <<"database", d>>
Grant(u, d) == <<"grants", u, d>>

\* What provider-sql manages: each of these protects the credentials.
SqlResources ==
  {Role(u) : u \in Users} \cup {Db(d) : d \in Databases}
    \cup {Grant(u, d) : u \in Users, d \in Databases}
Resources == {Creds} \cup SqlResources

UsageName(b) == <<"usage", b>>
Names == Resources \cup {UsageName(b) : b \in SqlResources}

Access == [Users -> Databases \cup {None}]
\* The input of the function.
Snapshot == [access: Access, exists: SUBSET Names, ready: SUBSET Names,
             wrapper: [SqlResources -> {"none", "full", "observe"}]]
Pass == [input: Snapshot, desired: SUBSET Names, ready: BOOLEAN,
         usages: [SqlResources -> {"none", "observe", "usage"}]]

\* A Usage is composed under the name its wrapper had.
Existing ==
  {r \in Resources : store[r] # "none"}
    \cup {UsageName(b) : b \in {b \in SqlResources : usage[b] # "none" \/ wrapper[b] # "none"}}
Ready ==
  {r \in Resources : store[r] = "ready"}
    \cup {UsageName(b) : b \in {b \in SqlResources : usage[b] \in {"owned", "deleting"}}}
Listed(acc) == {u \in Users : acc[u] # None}
-----------------------------------------------------------------------------
(* The function. *)

\* Mutant: the database is desired only while its user is ready.
AddsDatabase_OnlyIfReady(s, u) == Role(u) \in s.ready

\* "We also check for self-existence to prevent deletion when the depending
\* resource turns unready."
AddsDatabase(s, u) == Role(u) \in s.ready \/ Db(s.access[u]) \in s.exists

\* Mutant: the grants have to exist already.
AddsGrants_AndExists(s, u) ==
  /\ {Role(u), Db(s.access[u])} \subseteq s.ready
  /\ Grant(u, s.access[u]) \in s.exists

AddsGrants(s, u) ==
  \/ {Role(u), Db(s.access[u])} \subseteq s.ready
  \/ Grant(u, s.access[u]) \in s.exists

UserManagement(s) ==
  LET users == Listed(s.access)
  IN IF users = {} THEN {}
     ELSE {Creds}
            \cup {Role(u) : u \in users}
            \cup {Db(s.access[u]) : u \in {u \in users : AddsDatabase(s, u)}}
            \cup {Grant(u, s.access[u]) : u \in {u \in users : AddsGrants(s, u)}}

\* Mutant: the wrapper is dropped at once.
UnwrapUsage_Drop(w) == IF w = "none" THEN "usage" ELSE "none"

\* What unwrapUsage desires, given the wrapper that was observed: at first the
\* wrapper that only observes, then nothing, then the Usage itself.
UnwrapUsage(w) ==
  CASE w = "full" -> "observe" [] w = "observe" -> "none" [] w = "none" -> "usage"

\* addUsages and UsageOfBy: both ends have to be desired.
Usages(s) ==
  LET desired == UserManagement(s)
  IN [b \in SqlResources |->
       IF {Creds, b} \subseteq desired THEN UnwrapUsage(s.wrapper[b]) ELSE "none"]

Desired(s) ==
  UserManagement(s) \cup {UsageName(b) : b \in {b \in SqlResources : Usages(s)[b] # "none"}}

\* Mutant: resources that do not exist yet are not counted.
CheckReadiness_Observed(s) == (Desired(s) \cap s.exists) \subseteq s.ready

\* checkReadiness: every desired resource was observed with Ready=True.
CheckReadiness(s) == Desired(s) \subseteq s.ready
-----------------------------------------------------------------------------
(* Crossplane runs the function and applies its answer. *)

RunFunction ==
  /\ pass = None
  /\ LET s == [access |-> access, wrapper |-> wrapper,
               exists |-> refs \cap Existing, ready |-> refs \cap Ready]
     IN pass' = [input |-> s, desired |-> Desired(s), usages |-> Usages(s),
                 ready |-> CheckReadiness(s)]
  /\ UNCHANGED <<cluster, owner, refs, reported, faults>>

\* The deletion of the credentials is denied while a Usage is in force.
Denied(r) == r = Creds /\ \E b \in SqlResources : usage[b] \in {"owned", "deleting"}

\* A Usage that is not in force yet goes at once, others wait for their user.
EndUsage(x) == IF x = "new" THEN "none" ELSE IF x = "owned" THEN "deleting" ELSE x

\* What is left of the Usages and wrappers when names are deleted: a wrapper
\* takes its Usage with it, unless it only observes.
UsageWithout(names) ==
  [b \in SqlResources |-> IF UsageName(b) \in names /\ wrapper[b] # "observe"
                          THEN EndUsage(usage[b]) ELSE usage[b]]
WrapperWithout(names) ==
  [b \in SqlResources |-> IF UsageName(b) \in names THEN "none" ELSE wrapper[b]]

Garbage == pass.input.exists \ pass.desired

\* What is observed and not desired is deleted, then everything desired is
\* applied.  The pass may break off anywhere: gone and made are what it got to.
FinishPass(gone, made) ==
  LET done == gone = Garbage
      want == pass.usages
  IN /\ \A r \in gone : ~Denied(r)
     /\ done \/ made = {}
     /\ deleting' = deleting \cup (gone \cap Resources \cap Existing)
     /\ store' = [r \in Resources |-> IF r \in made \ Existing THEN "unready" ELSE store[r]]
     /\ usage' = [b \in SqlResources |->
          IF UsageName(b) \in made /\ want[b] = "usage" /\ usage[b] = "none" THEN "new"
          ELSE UsageWithout(gone)[b]]
     /\ wrapper' = [b \in SqlResources |->
          IF UsageName(b) \in made /\ want[b] = "observe" THEN "observe"
          ELSE WrapperWithout(gone)[b]]
     /\ refs' = IF done THEN pass.desired ELSE refs
     /\ reported' = IF done /\ made = pass.desired THEN pass.ready ELSE reported
     /\ pass' = None
     /\ UNCHANGED owner

BreakOff ==
  /\ pass # None /\ faults < MaxFaults
  /\ \E gone \in SUBSET Garbage, made \in SUBSET pass.desired : FinishPass(gone, made)
  /\ faults' = faults + 1

\* Deletions are tried in any order, and the pass ends at one that is denied.
Finish ==
  /\ pass # None /\ UNCHANGED faults
  /\ LET gone == {r \in Garbage : ~Denied(r)}
     IN FinishPass(gone, IF gone = Garbage THEN pass.desired ELSE {})
-----------------------------------------------------------------------------
(* The providers, the Usage controller and the garbage collector. *)

\* provider-sql connects with the credentials.
BecomeReady(r) ==
  /\ store[r] = "unready" /\ (r = Creds \/ store[Creds] # "none")
  /\ store' = [store EXCEPT ![r] = "ready"]
  /\ UNCHANGED <<deleting, usage, wrapper, owner, refs, pass, reported, faults>>

BecomeUnready(r) ==
  /\ store[r] = "ready" /\ faults < MaxFaults
  /\ store' = [store EXCEPT ![r] = "unready"]
  /\ faults' = faults + 1
  /\ UNCHANGED <<deleting, usage, wrapper, owner, refs, pass, reported>>

\* The finalizer of a deleted resource goes; nothing is deleted in the database.
Finalize(r) ==
  /\ r \in deleting
  /\ store' = [store EXCEPT ![r] = "none"]
  /\ deleting' = deleting \ {r}
  /\ UNCHANGED <<usage, wrapper, owner, refs, pass, reported, faults>>

\* The Usage is in force: it has a finalizer and is owned by its user.
OwnUsage(b) ==
  /\ usage[b] = "new" /\ {b, Creds} \subseteq Existing
  /\ usage' = [usage EXCEPT ![b] = "owned"]
  /\ UNCHANGED <<store, deleting, wrapper, owner, refs, pass, reported, faults>>

ReleaseUsage(b) ==
  /\ usage[b] \in {"owned", "deleting"} /\ b \notin Existing
  /\ usage' = [usage EXCEPT ![b] = "none"]
  /\ UNCHANGED <<store, deleting, wrapper, owner, refs, pass, reported, faults>>

\* The user changes the access list.
SetAccess(u, d) ==
  /\ edits < MaxEdits /\ access[u] # d
  /\ access' = [access EXCEPT ![u] = d]
  /\ edits' = edits + 1
  /\ UNCHANGED <<cluster, refs, pass, reported, faults>>
-----------------------------------------------------------------------------
\* The resources of an access list.
Wanted(acc) ==
  LET users == Listed(acc)
  IN IF users = {} THEN {}
     ELSE {Creds} \cup UNION {{Role(u), Db(acc[u]), Grant(u, acc[u])} : u \in users}

\* A service that has everything it wants, perhaps from an older version that
\* wrapped the Usages; it is new if nobody has access.
Init ==
  /\ reported = FALSE /\ pass = None
  /\ edits = 0 /\ faults = 0 /\ deleting = {}
  /\ access \in Access
  /\ \E wrapped \in BOOLEAN :
       LET old == Wanted(access)
           used == old \ {Creds}
       IN /\ store = [r \in Resources |-> IF r \in old THEN "ready" ELSE "none"]
          /\ usage = [b \in SqlResources |-> IF b \in used THEN "owned" ELSE "none"]
          /\ wrapper = [b \in SqlResources |-> IF b \in used /\ wrapped THEN "full" ELSE "none"]
          /\ refs = old \cup {UsageName(b) : b \in used}

Crossplane ==
  \/ RunFunction \/ Finish \/ BreakOff
  \/ \E b \in SqlResources : OwnUsage(b) \/ ReleaseUsage(b)
Provider == \E r \in Resources : BecomeReady(r) \/ BecomeUnready(r) \/ Finalize(r)
Owner == \E u \in Users, d \in Databases \cup {None} : SetAccess(u, d)

Next == Crossplane \/ Provider \/ Owner

Spec == Init /\ [][Next]_vars

\* What the controllers around the function do.
Progress ==
  \/ \E b \in SqlResources : OwnUsage(b) \/ ReleaseUsage(b)
  \/ \E r \in Resources : BecomeReady(r) \/ Finalize(r)

\* Composites are reconciled again and again, and the other controllers and the
\* providers do not all stop; passes break off only finitely often.
FairSpec == Spec /\ WF_vars(RunFunction \/ Finish) /\ WF_vars(Progress)
-----------------------------------------------------------------------------
(* Properties. *)

TypeOK ==
  /\ access \in Access
  /\ store \in [Resources -> {"none", "unready", "ready"}]
  /\ deleting \subseteq Resources
  /\ usage \in [SqlResources -> {"none", "new", "owned", "deleting"}]
  /\ wrapper \in [SqlResources -> {"none", "full", "observe"}]
  /\ refs \subseteq Names /\ pass \in Pass \cup {None}
  /\ reported \in BOOLEAN /\ edits \in 0..MaxEdits /\ faults \in 0..MaxFaults

\* A pass never deletes what the access list asks for, whatever else is not
\* ready, and a database that another user needs stays.
KeepsWanted ==
  [][\A r \in deleting' \ deleting : r \notin Wanted(pass.input.access)]_vars

\* A composite is only called ready when every user, database and grant of
\* the access list was ready, although they are desired one after the other.
ReadyMeansComplete ==
  pass # None /\ pass.ready => Wanted(pass.input.access) \subseteq pass.input.ready

\* A Usage in force stays in force while its user exists and is wanted, in
\* particular while it loses its wrapper.
UsageSurvives ==
  [][\A b \in SqlResources : usage[b] = "owned" /\ usage'[b] # "owned" =>
       \/ b \notin Existing
       \/ pass # None /\ b \notin Wanted(pass.input.access)]_vars

\* In the end every user, database and grant of the access list is there, and
\* the composite says so.
EventuallyComplete == <>[](reported /\ Wanted(access) \subseteq Ready)
-----------------------------------------------------------------------------
(* The inductive invariant behind KeepsWanted, ReadyMeansComplete and         *)
(* UsageSurvives.                                                             *)

\* A pass carries out the answer to what it saw; meanwhile nothing comes to
\* exist and no wrapper changes.
PassInv ==
  pass # None =>
    /\ pass.desired = Desired(pass.input) /\ pass.usages = Usages(pass.input)
    /\ pass.ready = CheckReadiness(pass.input)
    /\ pass.input.wrapper = wrapper
    /\ pass.input.exists \subseteq refs /\ refs \cap Existing \subseteq pass.input.exists

\* The composite refers to no Usage without its user, so it never sees a Usage
\* whose user it has forgotten.
RefsInv == \A b \in SqlResources : UsageName(b) \in refs => b \in refs

IInv == TypeOK /\ PassInv /\ RefsInv
============================================================================
