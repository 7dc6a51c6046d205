----------------------------- MODULE PkgdProofs -----------------------------
(***************************************************************************)
(* Proofs about the package daemon, for every repository, medium and file  *)
(* system.  What the resolver computes they leave open, or assume to be    *)
(* right where that matters (ResolverIsRight).                             *)
(***************************************************************************)
EXTENDS Pkgd, TLAPS, FiniteSetTheorems, WellFoundedInduction

(* Steps that leave alone what these proofs are about. *)
Quiet == UNCHANGED <<stage, roots, installed, running, output, store, held>>

(* A step that does not, by name. *)
Mutation(pkg, q) == InstallBegins(pkg, q) \/ RemoveBegins(pkg, q) \/ LaunchStarts(pkg, q)

LEMMA StepCases ==
    ASSUME PkgdNext
    PROVE  \/ Quiet \/ Crash \/ Boot \/ ChangeEnds
           \/ \E pkg \in Name, q \in Tag : Mutation(pkg, q)
<1>1. CASE Boot \/ ChangeEnds \/ Crash
      BY <1>1
<1>2. CASE \E k \in Kinds, b \in Budgets : SandboxReports(k, b)
      BY <1>2 DEF SandboxReports, Quiet, memory
<1>3. CASE HandleMalformed
      BY <1>3 DEF HandleMalformed, Unchanged, Quiet, memory
<1>4. ASSUME NEW pkg \in Name \union {NoName}, NEW q \in Tag, Handle(pkg, q)
      PROVE  Quiet \/ \E p \in Name, r \in Tag : Mutation(p, r)
  <2>1. ASSUME NEW op, Duplicate(op, pkg, q) \/ HandleInvalid(op, pkg, q)
        PROVE  Quiet
        BY <2>1 DEF Duplicate, HandleInvalid, Unchanged, Quiet, memory
  <2>2. CASE DoList(pkg, q)
        BY <2>2 DEF DoList, Unchanged, Quiet, memory
  <2>3. CASE DoExplain(pkg, q)
        BY <2>3 DEF DoExplain, Unchanged, Quiet
  <2>4. CASE InstallRefused(pkg, q)
        BY <2>4 DEF InstallRefused, Unchanged, Quiet
  <2>5. CASE RemoveMissing(pkg, q) \/ LaunchRefused(pkg, q)
        BY <2>5 DEF RemoveMissing, LaunchRefused, Unchanged, Quiet, memory
  <2>6. CASE pkg # NoName /\ Mutation(pkg, q)
        BY <2>6
  <2> QED
      BY <1>4, <2>1, <2>2, <2>3, <2>4, <2>5, <2>6 DEF Handle, Mutation
<1> QED
    BY <1>1, <1>2, <1>3, <1>4 DEF PkgdNext

-----------------------------------------------------------------------------
(* The running set between the installed set and its autostarted part.     *)

Lifecycle == RunningIsInstalled /\ AutostartRuns

(* Whatever the roots are, the rederived sets fit together. *)
LEMMA RederivedLifecycle ==
    ASSUME NEW rs, NEW pl, Rederive(rs, pl)
    PROVE  Lifecycle'
BY DEF Rederive, RunningAfter, Lifecycle, RunningIsInstalled, AutostartRuns

LEMMA LifecycleStep == Lifecycle /\ [PkgdNext]_pkgdVars => Lifecycle'
<1> SUFFICES ASSUME Lifecycle, [PkgdNext]_pkgdVars
             PROVE  Lifecycle'
    OBVIOUS
<1> USE DEF Lifecycle, RunningIsInstalled, AutostartRuns
<1>1. CASE Quiet
      BY <1>1 DEF Quiet
<1>2. CASE Crash
      BY <1>2 DEF Crash
<1>3. CASE Boot
  <2>1. CASE BootSeeds
        BY <2>1 DEF BootSeeds
  <2>2. CASE BootRestores \/ BootSeeded
        BY <2>2, RederivedLifecycle DEF BootRestores, BootSeeded, Finish
  <2> QED
      BY <1>3, <2>1, <2>2 DEF Boot
<1>4. CASE ChangeEnds
      BY <1>4 DEF ChangeEnds, memory
<1>5. ASSUME NEW pkg \in Name, NEW q \in Tag, Mutation(pkg, q)
      PROVE  Lifecycle'
  <2>1. CASE InstallBegins(pkg, q) \/ RemoveBegins(pkg, q)
        BY <2>1, RederivedLifecycle DEF InstallBegins, RemoveBegins
  <2>2. CASE LaunchStarts(pkg, q)
        BY <2>2 DEF LaunchStarts, LaunchStatus
  <2> QED
      BY <1>5, <2>1, <2>2 DEF Mutation
<1>6. CASE UNCHANGED pkgdVars
      BY <1>6 DEF pkgdVars, memory
<1> QED
    BY <1>1, <1>2, <1>3, <1>4, <1>5, <1>6, StepCases

LEMMA LifecycleCorrect == PkgdSpec => []Lifecycle
<1>1. PkgdInit => Lifecycle
      BY DEF PkgdInit, Lifecycle, RunningIsInstalled, AutostartRuns
<1> QED
    BY <1>1, LifecycleStep, PTL DEF PkgdSpec

(* No sandbox is ever told to run what is not installed, whatever the      *)
(* requests, restarts and failing writes.                                  *)
THEOREM RunningIsInstalledHolds == PkgdSpec => []RunningIsInstalled
<1>1. Lifecycle => RunningIsInstalled
      BY DEF Lifecycle
<1> QED
    BY <1>1, LifecycleCorrect, PTL

(* Every installed autostart package runs. *)
THEOREM AutostartRunsHolds == PkgdSpec => []AutostartRuns
<1>1. Lifecycle => AutostartRuns
      BY DEF Lifecycle
<1> QED
    BY <1>1, LifecycleCorrect, PTL

-----------------------------------------------------------------------------
(* The published reports. *)

(* What is published now is what now is the case: a configuration lists    *)
(* the installed and running packages, and those are the running ones.     *)
LEMMA PublishedNow ==
    ASSUME PublishState, Lifecycle'
    PROVE  PublishedAgrees'
<1>1. installed' \intersect running' = running'
      BY DEF Lifecycle, RunningIsInstalled
<1> QED
    BY <1>1 DEF PublishState, PublishedAgrees

LEMMA PublishedStep ==
    Lifecycle /\ PublishedAgrees /\ [PkgdNext]_pkgdVars => PublishedAgrees'
<1> SUFFICES ASSUME Lifecycle, PublishedAgrees, [PkgdNext]_pkgdVars
             PROVE  PublishedAgrees'
    OBVIOUS
<1>0. Lifecycle'
      BY LifecycleStep
<1>1. CASE Quiet
      BY <1>1 DEF Quiet, output, PublishedAgrees
<1>2. CASE Crash
      BY <1>2 DEF Crash, PublishedAgrees
<1>3. CASE Boot
  <2>1. CASE BootSeeds
        BY <2>1 DEF BootSeeds, PublishedAgrees
  <2>2. CASE BootRestores \/ BootSeeded
        BY <2>2, <1>0, PublishedNow DEF BootRestores, BootSeeded, Finish
  <2> QED
      BY <1>3, <2>1, <2>2 DEF Boot
<1>4. CASE ChangeEnds
      BY <1>4, <1>0, PublishedNow DEF ChangeEnds
<1>5. ASSUME NEW pkg \in Name, NEW q \in Tag, Mutation(pkg, q)
      PROVE  PublishedAgrees'
  <2>1. CASE InstallBegins(pkg, q) \/ RemoveBegins(pkg, q)
        BY <2>1 DEF InstallBegins, RemoveBegins, PublishedAgrees
  <2>2. CASE LaunchStarts(pkg, q)
        BY <2>2, <1>0, PublishedNow DEF LaunchStarts
  <2> QED
      BY <1>5, <2>1, <2>2 DEF Mutation
<1>6. CASE UNCHANGED pkgdVars
      BY <1>6 DEF pkgdVars, memory, output, PublishedAgrees
<1> QED
    BY <1>1, <1>2, <1>3, <1>4, <1>5, <1>6, StepCases

(* An idle daemon has told both sandboxes and every watcher what it        *)
(* believes, on every path: boot, install, remove, launch, failed writes.  *)
THEOREM PublishedAgreesHolds == PkgdSpec => []PublishedAgrees
<1>1. PkgdInit => PublishedAgrees
      BY DEF PkgdInit, PublishedAgrees
<1> QED
    BY <1>1, PublishedStep, LifecycleCorrect, PTL DEF PkgdSpec

-----------------------------------------------------------------------------
(* What runs keeps running. *)

LEMMA NothingIsStoppedStep ==
    PkgdNext => (stage' # "down" => running \intersect installed' \subseteq running')
<1> SUFFICES ASSUME PkgdNext, stage' # "down"
             PROVE  running \intersect installed' \subseteq running'
    OBVIOUS
<1>1. ASSUME NEW rs, NEW pl, Rederive(rs, pl)
      PROVE  running \intersect installed' \subseteq running'
      BY <1>1 DEF Rederive, RunningAfter
<1>2. CASE Quiet
      BY <1>2 DEF Quiet
<1>3. CASE Crash
      BY <1>3 DEF Crash
<1>4. CASE Boot
      BY <1>4, <1>1 DEF Boot, BootSeeds, BootRestores, BootSeeded, Finish
<1>5. CASE ChangeEnds
      BY <1>5 DEF ChangeEnds, memory
<1>6. ASSUME NEW pkg \in Name, NEW q \in Tag, Mutation(pkg, q)
      PROVE  running \intersect installed' \subseteq running'
  <2>1. CASE InstallBegins(pkg, q) \/ RemoveBegins(pkg, q)
        BY <2>1, <1>1 DEF InstallBegins, RemoveBegins
  <2>2. CASE LaunchStarts(pkg, q)
        BY <2>2 DEF LaunchStarts
  <2> QED
      BY <1>6, <2>1, <2>2 DEF Mutation
<1> QED
    BY <1>2, <1>3, <1>4, <1>5, <1>6, StepCases

(* No install, remove or launch stops a running package that stays         *)
(* installed.                                                              *)
THEOREM NothingIsStoppedHolds == PkgdSpec => NothingIsStopped
BY NothingIsStoppedStep, PTL DEF PkgdSpec, NothingIsStopped

-----------------------------------------------------------------------------
(* Exclusive groups. *)

(* The gate of launch, read from the inside.                               *)
LEMMA LaunchGate ==
    ASSUME NEW pkg, LaunchStatus(pkg) = "ok"
    PROVE  pkg \in installed /\ Peers(pkg) = {}
BY DEF LaunchStatus

LEMMA GroupsStep ==
    Lifecycle /\ OnlyAutostartCollides /\ [PkgdNext]_pkgdVars => OnlyAutostartCollides'
<1> SUFFICES ASSUME Lifecycle, OnlyAutostartCollides, [PkgdNext]_pkgdVars
             PROVE  OnlyAutostartCollides'
    OBVIOUS
<1>1. ASSUME NEW rs, NEW pl, Rederive(rs, pl)
      PROVE  OnlyAutostartCollides'
  <2>1. running' \subseteq running \union Autostart
        BY <1>1 DEF Rederive, RunningAfter
  <2> QED
      BY <2>1 DEF OnlyAutostartCollides
<1>2. CASE Quiet
      BY <1>2 DEF Quiet, OnlyAutostartCollides
<1>3. CASE Crash
      BY <1>3 DEF Crash, OnlyAutostartCollides
<1>4. CASE Boot
  <2>1. CASE BootSeeds
        BY <2>1 DEF BootSeeds, OnlyAutostartCollides
  <2>2. CASE BootRestores \/ BootSeeded
        BY <2>2, <1>1 DEF BootRestores, BootSeeded, Finish
  <2> QED
      BY <1>4, <2>1, <2>2 DEF Boot
<1>5. CASE ChangeEnds
      BY <1>5 DEF ChangeEnds, memory, OnlyAutostartCollides
<1>6. ASSUME NEW pkg \in Name, NEW q \in Tag, Mutation(pkg, q)
      PROVE  OnlyAutostartCollides'
  <2>1. CASE InstallBegins(pkg, q) \/ RemoveBegins(pkg, q)
        BY <2>1, <1>1 DEF InstallBegins, RemoveBegins
  <2>2. CASE LaunchStarts(pkg, q)
    <3>1. running' = running \union {pkg} /\ Peers(pkg) = {}
          BY <2>2, LaunchGate DEF LaunchStarts
    <3>2. \A o \in running \ {pkg} : Group[pkg] # NoGroup => Group[o] # Group[pkg]
          BY <3>1 DEF Peers, Lifecycle, RunningIsInstalled
    <3> QED
        BY <3>1, <3>2 DEF OnlyAutostartCollides
  <2> QED
      BY <1>6, <2>1, <2>2 DEF Mutation
<1>7. CASE UNCHANGED pkgdVars
      BY <1>7 DEF pkgdVars, memory, OnlyAutostartCollides
<1> QED
    BY <1>2, <1>3, <1>4, <1>5, <1>6, <1>7, StepCases

(* Of two running packages of one exclusive group, one is marked           *)
(* <autostart/>: launch never lets a second one in, and nothing else starts *)
(* a package that is not so marked (_exclusive_peer, _sync_running_state). *)
THEOREM OnlyAutostartCollidesHolds == PkgdSpec => []OnlyAutostartCollides
<1>1. PkgdInit => OnlyAutostartCollides
      BY DEF PkgdInit, OnlyAutostartCollides
<1> QED
    BY <1>1, GroupsStep, LifecycleCorrect, PTL DEF PkgdSpec

-----------------------------------------------------------------------------
(* The store. *)

HeldIsStored == held # Unsaved => Stored = held

LEMMA StoreStep == HeldIsStored /\ [PkgdNext]_pkgdVars => HeldIsStored'
<1> SUFFICES ASSUME HeldIsStored, [PkgdNext]_pkgdVars, held' # Unsaved
             PROVE  Stored' = held'
    BY DEF HeldIsStored
<1>1. ASSUME SaveSucceeds \/ SaveFails
      PROVE  Stored' = held'
  <2>1. store' = Intact(ToSet(roots)) /\ held' = ToSet(roots)
        BY <1>1 DEF SaveSucceeds, SaveFails, Holds
  <2> QED
      BY <2>1 DEF Stored, Intact
<1>2. ASSUME store' = store, held' = held
      PROVE  Stored' = held'
      BY <1>2 DEF HeldIsStored, Stored
<1>3. CASE BootRestores
      BY <1>3 DEF BootRestores, Stored
<1>4. CASE BootSeeds
      BY <1>4 DEF BootSeeds
<1>5. CASE BootSeeded \/ ChangeEnds
      BY <1>5, <1>1 DEF BootSeeded, ChangeEnds
<1>6. CASE Crash
      BY <1>2, <1>6 DEF Crash
<1>7. ASSUME NEW pkg \in Name, NEW q \in Tag, Mutation(pkg, q)
      PROVE  Stored' = held'
      BY <1>2, <1>7 DEF Mutation, InstallBegins, RemoveBegins, LaunchStarts
<1>8. CASE Quiet \/ UNCHANGED pkgdVars
      BY <1>2, <1>8 DEF Quiet, pkgdVars
<1> QED
    BY <1>3, <1>4, <1>5, <1>6, <1>7, <1>8, StepCases DEF Boot

LEMMA RestartStep ==
    ASSUME HeldIsStored, PkgdNext, stage = "down", held # Unsaved,
           ~UNCHANGED <<stage, roots>>
    PROVE  ToSet(roots') = IF held = {} THEN ToSet(Seeds) ELSE held
<1>1. CASE BootRestores
  <2>1. PICK rs \in InNameOrder(Stored) : Finish(rs)
        BY <1>1 DEF BootRestores
  <2>2. roots' = rs /\ ToSet(rs) = held
        BY <2>1 DEF Finish, Rederive, InNameOrder, ToSet, HeldIsStored
  <2>3. held = {} => ToSet(Seeds) = {}
        BY <1>1 DEF BootRestores, HeldIsStored, ToSet
  <2> QED
      BY <2>2, <2>3
<1>2. CASE BootSeeds
      BY <1>2 DEF BootSeeds, HeldIsStored
<1>3. CASE BootSeeded \/ ChangeEnds \/ Crash
      BY <1>3 DEF BootSeeded, ChangeEnds, Crash
<1>4. ASSUME NEW pkg \in Name, NEW q \in Tag, Mutation(pkg, q)
      PROVE  FALSE
      BY <1>4 DEF Mutation, InstallBegins, RemoveBegins, LaunchStarts, Fresh
<1> QED
    BY <1>1, <1>2, <1>3, <1>4, StepCases DEF Boot, Quiet

(* A restart brings back the roots the latest save has stored, whatever    *)
(* failed before and however often the machine stops; an emptied set alone *)
(* is taken for a first start, and seeded (_save_store, _load_store,       *)
(* _seed_roots_from_bake).                                                 *)
THEOREM RestartBringsBackHolds == PkgdSpec => RestartBringsBack
<1>1. PkgdInit => HeldIsStored
      BY DEF PkgdInit, HeldIsStored
<1>2. /\ HeldIsStored /\ [PkgdNext]_pkgdVars
      => [stage = "down" /\ held # Unsaved
          => ToSet(roots') = IF held = {} THEN ToSet(Seeds) ELSE held]_<<stage, roots>>
      BY RestartStep DEF pkgdVars, memory
<1> QED
    BY <1>1, <1>2, StoreStep, PTL DEF PkgdSpec, RestartBringsBack

-----------------------------------------------------------------------------
(* What is installed is what the roots call for. *)

Derived == stage \in {"idle", "saving"} => installed = InstalledFrom(roots)

LEMMA DerivedStep == Derived /\ [PkgdNext]_pkgdVars => Derived'
<1> SUFFICES ASSUME Derived, [PkgdNext]_pkgdVars, stage' \in {"idle", "saving"}
             PROVE  installed' = InstalledFrom(roots')
    BY DEF Derived, InstalledFrom
<1>1. ASSUME NEW rs, NEW pl, Rederive(rs, pl)
      PROVE  installed' = InstalledFrom(roots')
      BY <1>1 DEF Rederive
<1>2. ASSUME stage' = stage \/ stage \in {"idle", "saving"},
             roots' = roots, installed' = installed
      PROVE  installed' = InstalledFrom(roots')
      BY <1>2 DEF Derived
<1>3. CASE Boot
      BY <1>3, <1>1 DEF Boot, BootSeeds, BootRestores, BootSeeded, Finish
<1>4. CASE ChangeEnds
      BY <1>4, <1>2 DEF ChangeEnds, memory
<1>5. CASE Crash
      BY <1>5 DEF Crash
<1>6. ASSUME NEW pkg \in Name, NEW q \in Tag, Mutation(pkg, q)
      PROVE  installed' = InstalledFrom(roots')
      BY <1>1, <1>2, <1>6 DEF Mutation, InstallBegins, RemoveBegins, LaunchStarts
<1>7. CASE Quiet \/ UNCHANGED pkgdVars
      BY <1>2, <1>7 DEF Quiet, pkgdVars, memory
<1> QED
    BY <1>3, <1>4, <1>5, <1>6, <1>7, StepCases

LEMMA DerivedHolds == PkgdSpec => []Derived
<1>1. PkgdInit => Derived
      BY DEF PkgdInit, Derived
<1> QED
    BY <1>1, DerivedStep, PTL DEF PkgdSpec

(* A right resolver makes of roots what they need. *)
LEMMA NeededByRoots ==
    ASSUME ResolverIsRight, NEW rs, ToSet(rs) \subseteq Name
    PROVE  InstalledFrom(rs) = UNION {Closure[r] : r \in ToSet(rs)}
<1>1. ASSUME NEW r \in ToSet(rs)
      PROVE  /\ Closure[r] = IF Resolvable(Deps, r) THEN Needs(Deps, {r}) ELSE {}
             /\ Resolved(r).verdict = "ok" <=> Resolvable(Deps, r)
             /\ Resolvable(Deps, r) => ToSet(Resolved(r).plan) = Needs(Deps, {r})
      BY <1>1 DEF Closure, ResolverIsRight
<1> QED
    BY <1>1 DEF InstalledFrom

(* Roots are names of a set that has the profile, what an earlier image    *)
(* has left, and all that resolves.                                        *)
Resolving(P) ==
    /\ P \subseteq Name /\ Profile \in Seq(P) /\ \A S \in Earlier : S \subseteq P
    /\ \A p \in Name : Resolved(p).verdict = "ok" => p \in P

RootsIn(P) ==
    /\ roots \in Seq(P) /\ store.roots \subseteq P
    /\ store = [state |-> store.state, roots |-> store.roots]

LEMMA NamesAreFinite == IsFiniteSet(Name) /\ \A S \in SUBSET Name : IsFiniteSet(S)
<1>0. /\ Len(NameOrder) \in Nat /\ DOMAIN NameOrder = 1..Len(NameOrder)
      /\ NameOrder \in [1..Len(NameOrder) -> Name]
      BY RepositoryAssumption
<1>1. NameOrder \in Surjection(1..Len(NameOrder), Name)
      BY <1>0 DEF Name, ToSet, Surjection
<1>2. IsFiniteSet(1..Len(NameOrder))
      BY <1>0, FS_Interval
<1>3. IsFiniteSet(Name)
      BY <1>1, <1>2, FS_Surjection
<1> QED
    BY <1>3, FS_Subset

LEMMA InOrderIsSeq ==
    ASSUME NEW P \in SUBSET Name, NEW S \in SUBSET P, NEW rs \in InNameOrder(S)
    PROVE  rs \in Seq(P) /\ IsInjective(rs)
<1>1. Cardinality(S) \in Nat
      BY NamesAreFinite, FS_CardinalityType
<1>2. rs \in Seq(P)
      BY <1>1 DEF InNameOrder
<1>3. \A p : ~Before(p, p)
      BY RepositoryAssumption DEF Before
<1> QED
    BY <1>1, <1>2, <1>3 DEF InNameOrder, IsInjective

LEMMA FrontIsSeq ==
    ASSUME NEW P, NEW s \in Seq(P), NEW m \in 0..Len(s)
    PROVE  /\ SubSeq(s, 1, m) \in Seq(P)
           /\ IsInjective(s) => IsInjective(SubSeq(s, 1, m))
BY DEF IsInjective

LEMMA SeedsIsSeq ==
    ASSUME NEW P, Profile \in Seq(P)
    PROVE  Seeds \in Seq(P) /\ (IsInjective(Profile) => IsInjective(Seeds))
<1>1. MaxPackages \in Nat
      BY DeploymentAssumption
<1> QED
    BY <1>1, FrontIsSeq DEF Seeds

LEMMA WithRootIsSeq ==
    ASSUME NEW P, roots \in Seq(P), NEW p \in P
    PROVE  WithRoot(p) \in Seq(P) /\ (IsInjective(roots) => IsInjective(WithRoot(p)))
<1>1. CASE p \in ToSet(roots) \/ Len(roots) >= MaxPackages
      BY <1>1 DEF WithRoot
<1>2. CASE ~(p \in ToSet(roots) \/ Len(roots) >= MaxPackages)
  <2>1. WithRoot(p) = Append(roots, p)
        BY <1>2 DEF WithRoot
  <2>2. \A i \in DOMAIN roots : roots[i] # p
        BY <1>2 DEF ToSet
  <2> QED
      BY <2>1, <2>2 DEF IsInjective
<1> QED
    BY <1>1, <1>2

(* This holds wherever the place is that the last root goes to. *)
LEMMA WithoutRootIsSeq ==
    ASSUME NEW P, roots \in Seq(P), NEW p
    PROVE  WithoutRoot(p) \in Seq(P) /\ (IsInjective(roots) => IsInjective(WithoutRoot(p)))
<1>1. CASE p \notin ToSet(roots)
      BY <1>1 DEF WithoutRoot
<1>2. ASSUME NEW i, NEW n, n = Len(roots), p \in ToSet(roots),
             WithoutRoot(p) = SubSeq([roots EXCEPT ![i] = roots[n]], 1, n - 1)
      PROVE  WithoutRoot(p) \in Seq(P) /\ (IsInjective(roots) => IsInjective(WithoutRoot(p)))
  <2> DEFINE s == [roots EXCEPT ![i] = roots[n]]
             t == SubSeq(s, 1, n - 1)
  <2>1. n \in Nat \ {0} /\ DOMAIN roots = 1..n
        BY <1>2 DEF ToSet
  <2>2. s \in Seq(P) /\ Len(s) = n
    <3>1. roots \in [1..n -> P] /\ roots[n] \in P
          BY <2>1
    <3>2. s \in [1..n -> P]
          BY <3>1
    <3> QED
        BY <2>1, <3>2
  <2>3. \A j \in 1..n : s[j] = IF j = i THEN roots[n] ELSE roots[j]
        BY <2>1
  <2> HIDE DEF s
  <2>4. t \in Seq(P) /\ DOMAIN t = 1..n - 1 /\ \A j \in 1..n - 1 : t[j] = s[j]
        BY <2>1, <2>2
  <2>5. IsInjective(roots) => IsInjective(t)
        BY <2>1, <2>3, <2>4 DEF IsInjective
  <2> QED
      BY <1>2, <2>4, <2>5 DEF s
<1> QED
    BY <1>1, <1>2 DEF WithoutRoot

(* Every step leaves the roots what they are or forms them anew. *)
LEMMA RootsStep ==
    ASSUME NEW P, Resolving(P), RootsIn(P), [PkgdNext]_pkgdVars
    PROVE  RootsIn(P)'
<1>0. /\ roots \in Seq(P) /\ store.roots \subseteq P /\ P \subseteq Name
      /\ store = [state |-> store.state, roots |-> store.roots]
      BY DEF RootsIn, Resolving
<1>1. ASSUME SaveSucceeds \/ SaveFails
      PROVE  store'.roots \subseteq P /\ store' = [state |-> store'.state, roots |-> store'.roots]
      BY <1>0, <1>1 DEF SaveSucceeds, SaveFails, Intact, ToSet
<1>2. ASSUME Truncate
      PROVE  store'.roots \subseteq P /\ store' = [state |-> store'.state, roots |-> store'.roots]
  <2>1. Cut(store) = [state |-> "torn", roots |-> store.roots]
        BY <1>0 DEF Cut
  <2> QED
      BY <1>0, <1>2, <2>1 DEF Truncate
<1>3. CASE BootRestores
  <2>1. PICK rs \in InNameOrder(Stored) : Finish(rs)
        BY <1>3 DEF BootRestores
  <2>2. roots' = rs /\ store' = store
        BY <1>3, <2>1 DEF BootRestores, Finish, Rederive
  <2>3. Stored \subseteq P
        BY <1>0 DEF Stored
  <2>4. rs \in Seq(P)
        BY <1>0, <2>1, <2>3, InOrderIsSeq
  <2> QED
      BY <1>0, <2>2, <2>4 DEF RootsIn
<1>4. CASE BootSeeds
  <2>1. Seeds \in Seq(P)
        BY SeedsIsSeq DEF Resolving
  <2> QED
      BY <1>2, <1>4, <2>1 DEF BootSeeds, RootsIn
<1>5. CASE BootSeeded
      BY <1>0, <1>1, <1>5 DEF BootSeeded, Finish, Rederive, RootsIn
<1>6. CASE ChangeEnds
      BY <1>0, <1>1, <1>6 DEF ChangeEnds, memory, RootsIn
<1>7. CASE Crash
      BY <1>0, <1>7 DEF Crash, RootsIn
<1>8. ASSUME NEW pkg \in Name, NEW q \in Tag, Mutation(pkg, q)
      PROVE  RootsIn(P)'
  <2>1. CASE InstallBegins(pkg, q)
    <3>1. pkg \in P
          BY <2>1 DEF InstallBegins, Resolving
    <3> QED
        BY <1>0, <1>2, <2>1, <3>1, WithRootIsSeq DEF InstallBegins, Rederive, RootsIn
  <2>2. CASE RemoveBegins(pkg, q)
        BY <1>0, <1>2, <2>2, WithoutRootIsSeq DEF RemoveBegins, Rederive, RootsIn
  <2>3. CASE LaunchStarts(pkg, q)
        BY <1>0, <2>3 DEF LaunchStarts, RootsIn
  <2> QED
      BY <1>8, <2>1, <2>2, <2>3 DEF Mutation
<1>9. CASE Quiet \/ UNCHANGED pkgdVars
      BY <1>0, <1>9 DEF Quiet, pkgdVars, memory, RootsIn
<1> QED
    BY <1>3, <1>4, <1>5, <1>6, <1>7, <1>8, <1>9, StepCases DEF Boot

LEMMA RootsInit ==
    ASSUME NEW P, Resolving(P), PkgdInit
    PROVE  RootsIn(P)
<1>1. roots \in Seq(P)
      BY DEF PkgdInit
<1>2. CASE store = Absent
      BY <1>1, <1>2 DEF Absent, RootsIn
<1>3. ASSUME NEW S \in Earlier, store = Intact(S)
      PROVE  RootsIn(P)
      BY <1>1, <1>3 DEF Intact, RootsIn, Resolving
<1> QED
    BY <1>2, <1>3 DEF PkgdInit

LEMMA RootsAreNames == PkgdSpec => []RootsIn(Name)
<1>1. Resolving(Name)
      BY DeploymentAssumption DEF Resolving
<1>2. PkgdInit => RootsIn(Name)
      BY <1>1, RootsInit
<1>3. RootsIn(Name) /\ [PkgdNext]_pkgdVars => RootsIn(Name)'
      BY <1>1, RootsStep
<1> QED
    BY <1>2, <1>3, PTL DEF PkgdSpec

(* With a resolver that is right, nothing is installed that no root needs, *)
(* and nothing a root needs is missing, after installs, removes, restarts  *)
(* and failed writes in any order (_sync_installed_from_roots).            *)
THEOREM InstalledIsNeededHolds ==
    ASSUME ResolverIsRight
    PROVE  PkgdSpec => []InstalledIsNeeded
<1>1. Derived /\ RootsIn(Name) => InstalledIsNeeded
  <2> SUFFICES ASSUME Derived, RootsIn(Name), stage \in {"idle", "saving"}
               PROVE  installed = UNION {Closure[r] : r \in ToSet(roots)}
      BY DEF InstalledIsNeeded
  <2>1. ToSet(roots) \subseteq Name
        BY DEF RootsIn, ToSet
  <2> QED
      BY <2>1, NeededByRoots DEF Derived
<1> QED
    BY <1>1, DerivedHolds, RootsAreNames, PTL

-----------------------------------------------------------------------------
(* What was answered is still so when it is answered again.  A profile     *)
(* that lists each of its packages once, and only such as can be loaded,   *)
(* and an earlier image that stored no others, leave room for every root:  *)
(* then an install that is answered "ok" has made its package a root.      *)

ProfileIsLoadable ==
    /\ Profile \in Seq(Loadable) /\ IsInjective(Profile)
    /\ \A S \in Earlier : S \subseteq Loadable

IsTrue(r, inst, run) ==
    /\ r.op = "install" /\ r.status = "ok" => {r.pkg} \union r.items \subseteq inst
    /\ r.op = "remove" /\ r.status = "ok" => r.items \intersect inst = {}
    /\ r.op = "remove" /\ r.status = "error" => r.pkg \notin inst
    /\ r.op = "launch" /\ r.status = "not-installed" => r.pkg \notin inst
    /\ r.op = "launch" /\ r.status \in {"ok", "already-running"} => r.pkg \in run

LEMMA ReplayIsTrueMeans ==
    ReplayIsTrue <=> (stage = "idle" => IsTrue(last, installed, running))
BY DEF ReplayIsTrue, IsTrue

(* What waits for the store is done in memory. *)
JobDone(j, inst) ==
    \/ j.op = "install" /\ j.pkg \in inst
    \/ j.op = "remove"

ReplayInv ==
    /\ RootsIn(Loadable) /\ IsInjective(roots) /\ Derived
    /\ stage \in {"down", "seeding"} => last = NoResult
    /\ stage = "saving" => JobDone(job, installed)
    /\ stage = "idle" => IsTrue(last, installed, running)

LEMMA ResolvedIsPlanned ==
    ASSUME ResolverIsRight, NEW p \in Name, Resolved(p).verdict = "ok"
    PROVE  p \in ToSet(Resolved(p).plan) /\ ToSet(Resolved(p).plan) \subseteq Loadable
<1>1. Unloadable(Deps, p) = {} /\ ToSet(Resolved(p).plan) = Needs(Deps, {p})
      BY DEF ResolverIsRight, Resolvable
<1>2. p \in Needs(Deps, {p})
      BY DEF Needs
<1> QED
    BY <1>1, <1>2 DEF Unloadable, Loadable

LEMMA LoadableIsResolving ==
    ASSUME ResolverIsRight, ProfileIsLoadable
    PROVE  Resolving(Loadable)
BY ResolvedIsPlanned, RepositoryAssumption DEF Resolving, ProfileIsLoadable

LEMMA InstalledIsLoadable ==
    ASSUME ResolverIsRight, RootsIn(Loadable), Derived, stage = "idle"
    PROVE  installed \subseteq Loadable /\ NoName \notin installed
<1>1. ToSet(roots) \subseteq Name /\ NoName \notin Loadable
      BY RepositoryAssumption DEF RootsIn, ToSet
<1>2. InstalledFrom(roots) \subseteq Loadable
      BY <1>1, ResolvedIsPlanned DEF InstalledFrom
<1> QED
    BY <1>1, <1>2 DEF Derived

(* Roots that fill the array are all there is. *)
LEMMA RootIsAdded ==
    ASSUME RootsIn(Loadable), IsInjective(roots), NEW p \in Loadable
    PROVE  p \in ToSet(WithRoot(p))
<1>0. roots \in Seq(Loadable) /\ Len(roots) \in Nat /\ DOMAIN roots = 1..Len(roots)
      BY DEF RootsIn
<1>1. CASE p \in ToSet(roots)
      BY <1>1 DEF WithRoot
<1>2. CASE p \notin ToSet(roots) /\ Len(roots) >= MaxPackages
  <2>1. roots \in Injection(1..Len(roots), Loadable)
        BY <1>0 DEF Injection, IsInjective
  <2>2. IsFiniteSet(Loadable) /\ Cardinality(Loadable) \in Nat
        BY NamesAreFinite, RepositoryAssumption, FS_CardinalityType
  <2>3. /\ Cardinality(1..Len(roots)) <= Cardinality(Loadable)
        /\ Cardinality(1..Len(roots)) = Cardinality(Loadable)
               => roots \in Surjection(1..Len(roots), Loadable)
        BY <2>1, <2>2, FS_Injection
  <2>4. Cardinality(1..Len(roots)) = Len(roots)
        BY <1>0, FS_Interval
  <2>5. Cardinality(Loadable) <= MaxPackages /\ MaxPackages \in Nat
        BY RepositoryAssumption, DeploymentAssumption
  <2>6. Len(roots) = Cardinality(Loadable)
        BY <1>0, <1>2, <2>2, <2>3, <2>4, <2>5
  <2>7. roots \in Surjection(1..Len(roots), Loadable)
        BY <2>3, <2>4, <2>6
  <2>8. p \in ToSet(roots)
        BY <1>0, <2>7 DEF Surjection, ToSet
  <2> QED
      BY <1>2, <2>8
<1>3. CASE p \notin ToSet(roots) /\ ~(Len(roots) >= MaxPackages)
  <2>1. WithRoot(p) = Append(roots, p)
        BY <1>3 DEF WithRoot
  <2>2. Len(roots) + 1 \in DOMAIN WithRoot(p) /\ WithRoot(p)[Len(roots) + 1] = p
        BY <1>0, <2>1
  <2> QED
      BY <2>2 DEF ToSet
<1> QED
    BY <1>1, <1>2, <1>3

LEMMA DistinctStep ==
    ASSUME ResolverIsRight, ProfileIsLoadable, RootsIn(Loadable), IsInjective(roots),
           [PkgdNext]_pkgdVars
    PROVE  IsInjective(roots)'
<1>0. roots \in Seq(Loadable) /\ Loadable \subseteq Name /\ store.roots \subseteq Loadable
      BY RepositoryAssumption DEF RootsIn
<1>1. ASSUME roots' = roots
      PROVE  IsInjective(roots)'
      BY <1>1 DEF IsInjective
<1>2. ASSUME NEW rs, roots' = rs, IsInjective(rs)
      PROVE  IsInjective(roots)'
      BY <1>2 DEF IsInjective
<1>3. CASE BootRestores
  <2>1. PICK rs \in InNameOrder(Stored) : Finish(rs)
        BY <1>3 DEF BootRestores
  <2>2. Stored \subseteq Loadable
        BY <1>0 DEF Stored
  <2>3. IsInjective(rs)
        BY <1>0, <2>1, <2>2, InOrderIsSeq
  <2> QED
      BY <1>2, <2>1, <2>3 DEF Finish, Rederive
<1>4. CASE BootSeeds
      BY <1>2, <1>4, SeedsIsSeq DEF BootSeeds, ProfileIsLoadable
<1>5. CASE BootSeeded
      BY <1>1, <1>5 DEF BootSeeded, Finish, Rederive
<1>6. CASE ChangeEnds
      BY <1>1, <1>6 DEF ChangeEnds, memory
<1>7. CASE Crash
      BY <1>7 DEF Crash, IsInjective
<1>8. ASSUME NEW pkg \in Name, NEW q \in Tag, Mutation(pkg, q)
      PROVE  IsInjective(roots)'
  <2>1. CASE InstallBegins(pkg, q)
    <3>1. pkg \in Loadable
          BY <2>1, ResolvedIsPlanned DEF InstallBegins
    <3> QED
        BY <1>0, <1>2, <2>1, <3>1, WithRootIsSeq DEF InstallBegins, Rederive
  <2>2. CASE RemoveBegins(pkg, q)
        BY <1>0, <1>2, <2>2, WithoutRootIsSeq DEF RemoveBegins, Rederive
  <2>3. CASE LaunchStarts(pkg, q)
        BY <1>1, <2>3 DEF LaunchStarts
  <2> QED
      BY <1>8, <2>1, <2>2, <2>3 DEF Mutation
<1>9. CASE Quiet \/ UNCHANGED pkgdVars
      BY <1>1, <1>9 DEF Quiet, pkgdVars, memory
<1> QED
    BY <1>3, <1>4, <1>5, <1>6, <1>7, <1>8, <1>9, StepCases DEF Boot

LEMMA ResultFields ==
    ASSUME NEW o, NEW p, NEW s
    PROVE  Result(o, p, s) = [op |-> o, pkg |-> p, status |-> s, items |-> {}]
<1> DEFINE r0 == [op |-> "none", pkg |-> NoName, status |-> "none", items |-> {}]
           r1 == [r0 EXCEPT !.op = o]
           r2 == [r1 EXCEPT !.pkg = p]
           r3 == [r2 EXCEPT !.status = s]
<1>1. r1 = [op |-> o, pkg |-> NoName, status |-> "none", items |-> {}]
      OBVIOUS
<1> HIDE DEF r1
<1>2. r2 = [op |-> o, pkg |-> p, status |-> "none", items |-> {}]
      BY <1>1
<1> HIDE DEF r2
<1>3. r3 = [op |-> o, pkg |-> p, status |-> s, items |-> {}]
      BY <1>2
<1>4. Result(o, p, s) = r3
      BY DEF Result, NoResult, r1, r2
<1> QED
    BY <1>3, <1>4

(* What the handlers answer, of the two results that are more than that.   *)
LEMMA Answers ==
    /\ ListResult.op = "list"
    /\ Outcome.op = job.op /\ Outcome.pkg = job.pkg /\ Outcome.status = "ok"
    /\ Outcome.items = IF job.op = "install" THEN installed \ job.before
                                            ELSE job.before \ installed
BY ResultFields DEF ListResult, Outcome

LEMMA ReplayedIsTrue ==
    ASSUME IsTrue(last, installed, running)
    PROVE  IsTrue(Replayed, installed, running)
<1>1. CASE Replayed = last
      BY <1>1
<1>2. CASE Replayed = ListResult
      BY <1>2, Answers DEF IsTrue
<1>3. ASSUME NEW p, Replayed = Result("install", p, "conflict")
      PROVE  IsTrue(Replayed, installed, running)
      BY <1>3, ResultFields DEF IsTrue
<1> QED
    BY <1>1, <1>2, <1>3 DEF Replayed

LEMMA HandledIsTrue ==
    ASSUME ResolverIsRight, ReplayInv, NEW pkg \in Name \union {NoName}, NEW q \in Tag,
           Handle(pkg, q), stage' = "idle"
    PROVE  IsTrue(last', installed', running')
<1>0. stage = "idle" => /\ IsTrue(last, installed, running)
                        /\ NoName \notin installed
      BY InstalledIsLoadable DEF ReplayInv
<1>1. ASSUME NEW op, Duplicate(op, pkg, q)
      PROVE  IsTrue(last', installed', running')
      BY <1>0, <1>1, ReplayedIsTrue DEF Duplicate, Report, memory
<1>2. ASSUME NEW op, HandleInvalid(op, pkg, q)
      PROVE  IsTrue(last', installed', running')
  <2>1. /\ last' = [op |-> op, pkg |-> pkg, status |-> "error", items |-> {}]
        /\ installed' = installed /\ stage = "idle"
        /\ op = "remove" => pkg = NoName
        BY <1>2, ResultFields DEF HandleInvalid, Report, Fresh, memory, PackageOps
  <2> QED
      BY <1>0, <2>1 DEF IsTrue
<1>3. CASE DoList(pkg, q)
      BY <1>3, Answers DEF DoList, Report, IsTrue
<1>4. CASE DoExplain(pkg, q)
      BY <1>4, ResultFields DEF DoExplain, Report, IsTrue
<1>5. CASE InstallRefused(pkg, q)
  <2>1. \E p, s : last' = Result("install", p, s) /\ s # "ok"
        BY <1>5 DEF InstallRefused, Report
  <2> QED
      BY <2>1, ResultFields DEF IsTrue
<1>6. CASE RemoveMissing(pkg, q)
      BY <1>6, ResultFields DEF RemoveMissing, Report, memory, IsTrue
<1>7. CASE LaunchRefused(pkg, q)
  <2>1. /\ last' = [op |-> "launch", pkg |-> pkg, status |-> LaunchStatus(pkg), items |-> {}]
        /\ installed' = installed /\ running' = running
        BY <1>7, ResultFields DEF LaunchRefused, Report, memory
  <2>2. /\ LaunchStatus(pkg) = "not-installed" => pkg \notin installed
        /\ LaunchStatus(pkg) = "already-running" => pkg \in running
        BY DEF LaunchStatus
  <2>3. LaunchStatus(pkg) # "ok"
        BY <1>7 DEF LaunchRefused
  <2> QED
      BY <2>1, <2>2, <2>3 DEF IsTrue
<1>8. CASE LaunchStarts(pkg, q)
      BY <1>8, ResultFields DEF LaunchStarts, Report, IsTrue
<1>9. CASE InstallBegins(pkg, q) \/ RemoveBegins(pkg, q)
      BY <1>9 DEF InstallBegins, RemoveBegins
<1> QED
    BY <1>1, <1>2, <1>3, <1>4, <1>5, <1>6, <1>7, <1>8, <1>9 DEF Handle

LEMMA ReplayStep ==
    ASSUME ResolverIsRight, ProfileIsLoadable, ReplayInv, [PkgdNext]_pkgdVars
    PROVE  ReplayInv'
<1>1. RootsIn(Loadable)' /\ IsInjective(roots)' /\ Derived'
      BY LoadableIsResolving, RootsStep, DistinctStep, DerivedStep DEF ReplayInv
<1>2. stage' \in {"down", "seeding"} => last' = NoResult
  <2>1. CASE Boot
        BY <2>1 DEF Boot, BootRestores, BootSeeds, BootSeeded, Finish, ReplayInv
  <2>2. CASE Crash
        BY <2>2 DEF Crash
  <2>3. CASE ChangeEnds
        BY <2>3 DEF ChangeEnds
  <2>4. ASSUME NEW k, NEW b, SandboxReports(k, b)
        PROVE  stage' \in {"down", "seeding"} => last' = NoResult
        BY <2>4 DEF SandboxReports, ReplayInv
  <2>5. CASE HandleMalformed
        BY <2>5 DEF HandleMalformed
  <2>6. ASSUME NEW pkg, NEW q, Handle(pkg, q)
        PROVE  stage' \notin {"down", "seeding"}
        BY <2>6 DEF Handle, Duplicate, HandleInvalid, DoList, DoExplain, InstallRefused,
                    InstallBegins, RemoveMissing, RemoveBegins, LaunchRefused,
                    LaunchStarts, Fresh
  <2>7. CASE UNCHANGED pkgdVars
        BY <2>7 DEF pkgdVars, ReplayInv
  <2> QED
      BY <2>1, <2>2, <2>3, <2>4, <2>5, <2>6, <2>7 DEF PkgdNext
<1>3. stage' = "saving" => JobDone(job', installed')
  <2>1. ASSUME NEW pkg \in Name, NEW q \in Tag, InstallBegins(pkg, q)
        PROVE  JobDone(job', installed')
    <3>1. /\ Resolved(pkg).verdict = "ok" /\ pkg \in ToSet(Resolved(pkg).plan)
          /\ pkg \in Loadable
          BY <2>1, ResolvedIsPlanned DEF InstallBegins
    <3>2. pkg \in ToSet(WithRoot(pkg))
          BY <3>1, RootIsAdded DEF ReplayInv
    <3>3. installed' = InstalledFrom(WithRoot(pkg)) /\ job'.op = "install" /\ job'.pkg = pkg
          BY <2>1 DEF InstallBegins, Rederive
    <3> QED
        BY <3>1, <3>2, <3>3 DEF InstalledFrom, JobDone
  <2>2. ASSUME NEW pkg, NEW q, RemoveBegins(pkg, q)
        PROVE  JobDone(job', installed')
        BY <2>2 DEF RemoveBegins, JobDone
  <2>3. ASSUME stage' = "saving", stage' = stage, job' = job, installed' = installed
        PROVE  JobDone(job', installed')
        BY <2>3 DEF ReplayInv
  <2>4. CASE Boot \/ Crash \/ ChangeEnds
        BY <2>4 DEF Boot, BootRestores, BootSeeds, BootSeeded, Finish, Crash, ChangeEnds
  <2>5. ASSUME NEW k, NEW b, SandboxReports(k, b)
        PROVE  stage' = stage /\ job' = job /\ installed' = installed
        BY <2>5 DEF SandboxReports, memory
  <2>6. CASE HandleMalformed
        BY <2>6 DEF HandleMalformed
  <2>7. ASSUME NEW pkg \in Name \union {NoName}, NEW q \in Tag, Handle(pkg, q)
        PROVE  \/ stage' = "idle"
               \/ pkg \in Name /\ (InstallBegins(pkg, q) \/ RemoveBegins(pkg, q))
        BY <2>7 DEF Handle, Duplicate, HandleInvalid, DoList, DoExplain, InstallRefused,
                    RemoveMissing, LaunchRefused, LaunchStarts, Fresh
  <2>8. CASE UNCHANGED pkgdVars
        BY <2>3, <2>8 DEF pkgdVars, memory
  <2> QED
      BY <2>1, <2>2, <2>3, <2>4, <2>5, <2>6, <2>7, <2>8 DEF PkgdNext
<1>4. stage' = "idle" => IsTrue(last', installed', running')
  <2> SUFFICES ASSUME stage' = "idle"
               PROVE  IsTrue(last', installed', running')
      OBVIOUS
  <2>1. CASE Boot
    <3>1. last' = NoResult
          BY <2>1 DEF Boot, BootRestores, BootSeeds, BootSeeded, ReplayInv
    <3> QED
        BY <3>1 DEF NoResult, IsTrue
  <2>2. CASE ChangeEnds
    <3>1. stage = "saving" /\ installed' = installed /\ last' = Outcome
          BY <2>2 DEF ChangeEnds, memory, Report
    <3> QED
        BY <3>1, Answers DEF ReplayInv, IsTrue, JobDone
  <2>3. CASE Crash
        BY <2>3 DEF Crash
  <2>4. ASSUME stage' = stage, last' = last, installed' = installed, running' = running
        PROVE  IsTrue(last', installed', running')
        BY <2>4 DEF ReplayInv
  <2>5. ASSUME NEW k, NEW b, SandboxReports(k, b)
        PROVE  IsTrue(last', installed', running')
        BY <2>4, <2>5 DEF SandboxReports, memory
  <2>6. CASE HandleMalformed
        BY <2>6, ResultFields DEF HandleMalformed, Report, IsTrue
  <2>7. CASE UNCHANGED pkgdVars
        BY <2>4, <2>7 DEF pkgdVars, memory
  <2> QED
      BY <2>1, <2>2, <2>3, <2>5, <2>6, <2>7, HandledIsTrue DEF PkgdNext
<1> QED
    BY <1>1, <1>2, <1>3, <1>4 DEF ReplayInv

(* The recipe that is replayed to a duplicate is still true, however long  *)
(* ago the answer was given (_replay_last_result).                         *)
THEOREM ReplayIsTrueHolds ==
    ASSUME ResolverIsRight, ProfileIsLoadable
    PROVE  PkgdSpec => []ReplayIsTrue
<1>1. PkgdInit => ReplayInv
  <2> SUFFICES ASSUME PkgdInit PROVE ReplayInv
      OBVIOUS
  <2>1. RootsIn(Loadable)
        BY LoadableIsResolving, RootsInit
  <2> QED
      BY <2>1 DEF PkgdInit, ReplayInv, IsInjective, Derived
<1>2. ReplayInv /\ [PkgdNext]_pkgdVars => ReplayInv'
      BY ReplayStep
<1>3. ReplayInv => ReplayIsTrue
      BY ReplayIsTrueMeans DEF ReplayInv
<1> QED
    BY <1>1, <1>2, <1>3, PTL DEF PkgdSpec

-----------------------------------------------------------------------------
(* The admission pre-flight. *)

(* SelectInSeq answers a least place: of the sets 1..i, i in I, one is     *)
(* within all the others.                                                  *)
LEMMA LeastOf ==
    ASSUME NEW n \in Nat, NEW I \in SUBSET (1..n), I # {}
    PROVE  Min(I) \in I
<1> DEFINE Upto == {1..i : i \in I}
<1>1. Upto \subseteq FiniteSubsetsOf(1..n) /\ Upto # {}
  <2>1. ASSUME NEW i \in I PROVE 1..i \in FiniteSubsetsOf(1..n)
    <3>1. 1 \in Int /\ i \in Int /\ 1..i \subseteq 1..n
          OBVIOUS
    <3>2. IsFiniteSet(1..i)
          BY <3>1, FS_Interval
    <3> QED
        BY <3>1, <3>2 DEF FiniteSubsetsOf
  <2> QED
      BY <2>1
<1>2. IsWellFoundedOn(StrictSubsetOrdering(1..n), FiniteSubsetsOf(1..n))
      BY FS_StrictSubsetOrderingWellFounded
<1>3. PICK s \in Upto : \A t \in Upto : <<t, s>> \notin StrictSubsetOrdering(1..n)
  <2> HIDE DEF Upto
  <2> QED
      BY <1>1, <1>2, WFMin
<1>4. PICK i \in I : s = 1..i
      OBVIOUS
<1>5. \A j \in I : i <= j
  <2> SUFFICES ASSUME NEW j \in I, ~(i <= j)
               PROVE  FALSE
      OBVIOUS
  <2>1. 1..j \subseteq 1..i /\ 1..i \subseteq 1..n /\ i \in 1..i /\ i \notin 1..j
        OBVIOUS
  <2>2. <<1..j, s>> \in StrictSubsetOrdering(1..n)
        BY <2>1, <1>4 DEF StrictSubsetOrdering
  <2> QED
      BY <2>2, <1>3
<1> QED
    BY <1>5 DEF Min

(* If the walk refuses nothing, it has either passed every package of the  *)
(* plan or ended at one that would start without a known budget.           *)
LEMMA NothingRefused ==
    ASSUME NEW pkg, pkg # NoName, NEW pl \in Seq(Loadable), Armed # {},
           Refusal(pkg, pl) = NoName
    PROVE  \/ \A p \in ToSet(pl) : ~Deciding(p)
           \/ \E p \in ToSet(pl) : Spawned(p) /\ ~KnownBudget(p)
<1> DEFINE I == {i \in 1..Len(pl) : Deciding(pl[i])}
<1>0. Len(pl) \in Nat /\ DOMAIN pl = 1..Len(pl) /\ \A i \in DOMAIN pl : pl[i] \in Loadable
      OBVIOUS
<1>1. CASE I = {}
      BY <1>0, <1>1 DEF ToSet
<1>2. CASE I # {}
  <2>1. Min(I) \in I
        BY <1>0, <1>2, LeastOf
  <2>2. SelectInSeq(pl, Deciding) = Min(I)
        BY <1>2 DEF SelectInSeq
  <2> DEFINE p == pl[Min(I)]
  <2>3. Min(I) # 0 /\ p \in ToSet(pl) /\ p \in Loadable /\ Deciding(p)
    <3> HIDE DEF I
    <3>1. Min(I) \in 1..Len(pl) /\ Deciding(pl[Min(I)])
          BY <2>1 DEF I
    <3> QED
        BY <1>0, <3>1 DEF ToSet
  <2>4. p # NoName
        BY <2>3, RepositoryAssumption
  <2>5. ~KnownBudget(p)
        BY <2>2, <2>3, <2>4 DEF Refusal
  <2> QED
      BY <2>3, <2>5 DEF Deciding
<1> QED
    BY <1>1, <1>2

(* Nothing but an install that is let through writes its name down.        *)
LEMMA InstallsOnly ==
    ASSUME [PkgdNext]_pkgdVars, job' # job, job'.op = "install"
    PROVE  \E pkg \in Name, q \in Tag : pkg # NoName /\ InstallBegins(pkg, q)
<1>1. ~UNCHANGED pkgdVars
      BY DEF pkgdVars
<1>2. CASE Boot \/ ChangeEnds \/ Crash
      BY <1>2 DEF Boot, BootRestores, BootSeeds, BootSeeded, ChangeEnds, Crash, NoJob
<1>3. CASE HandleMalformed \/ \E k \in Kinds, b \in Budgets : SandboxReports(k, b)
      BY <1>3 DEF HandleMalformed, SandboxReports
<1>4. ASSUME NEW pkg \in Name \union {NoName}, NEW q \in Tag, Handle(pkg, q)
      PROVE  pkg # NoName /\ InstallBegins(pkg, q)
      BY <1>4 DEF Handle, Duplicate, HandleInvalid, DoList, DoExplain, InstallRefused,
                  RemoveMissing, RemoveBegins, LaunchRefused, LaunchStarts
<1> QED
    BY <1>1, <1>2, <1>3, <1>4 DEF PkgdNext

(* What an install starts was in its plan, and its plan starts nothing     *)
(* else, unless there is no place for the root.                            *)
LEMMA InstallStarts ==
    ASSUME Derived, Lifecycle, NEW pkg \in Name, NEW q \in Tag, InstallBegins(pkg, q),
           roots \in Seq(Name)
    PROVE  \/ running' \ running = {}
           \/ running' \ running = {p \in ToSet(Resolved(pkg).plan) : Spawned(p)}
<1>1. /\ installed = InstalledFrom(roots) /\ installed' = InstalledFrom(WithRoot(pkg))
      /\ running' = (running \intersect installed') \union (Autostart \intersect installed')
      /\ Resolved(pkg).verdict = "ok"
      BY DEF Derived, InstallBegins, Fresh, Rederive, RunningAfter
<1>2. CASE WithRoot(pkg) = roots
      BY <1>1, <1>2 DEF Lifecycle, AutostartRuns
<1>3. CASE WithRoot(pkg) = Append(roots, pkg)
  <2>1. ToSet(WithRoot(pkg)) = ToSet(roots) \union {pkg}
    <3>1. /\ DOMAIN roots = 1..Len(roots) /\ Len(roots) \in Nat
          /\ DOMAIN Append(roots, pkg) = 1..Len(roots) + 1
          /\ \A i \in 1..Len(roots) : Append(roots, pkg)[i] = roots[i]
          /\ Append(roots, pkg)[Len(roots) + 1] = pkg
          OBVIOUS
    <3>2. Len(roots) + 1 \in 1..Len(roots) + 1 /\ 1..Len(roots) \subseteq 1..Len(roots) + 1
          BY <3>1
    <3>3. \A i \in 1..Len(roots) + 1 : i \in 1..Len(roots) \/ i = Len(roots) + 1
          BY <3>1
    <3> QED
        BY <1>3, <3>1, <3>2, <3>3 DEF ToSet
  <2>2. installed' = installed \union ToSet(Resolved(pkg).plan)
        BY <1>1, <2>1 DEF InstalledFrom
  <2> QED
      BY <1>1, <2>2 DEF Lifecycle, RunningIsInstalled, AutostartRuns, Spawned
<1> QED
    BY <1>2, <1>3 DEF WithRoot

(* An install starts nothing that the budget of its sandbox, less the      *)
(* margin, cannot hold (the admission pre-flight of _do_install).          *)
THEOREM InstallsAreAdmittedHolds ==
    ASSUME PlansAreSequences
    PROVE  PkgdSpec => InstallsAreAdmitted
<1>1. ASSUME Derived, Lifecycle, RootsIn(Name), [PkgdNext]_pkgdVars,
             job' # job, job'.op = "install",
             \A p \in running' \ running : KnownBudget(p)
      PROVE  \A p \in running' \ running : Need[p] + Margin <= free[Kind(p)]
  <2>1. PICK pkg \in Name, q \in Tag : pkg # NoName /\ InstallBegins(pkg, q)
        BY <1>1, InstallsOnly
  <2> DEFINE pl == Resolved(pkg).plan
  <2>2. pl \in Seq(Loadable) /\ Refusal(pkg, pl) = NoName
        BY <2>1 DEF PlansAreSequences, InstallBegins
  <2> HIDE DEF pl
  <2> SUFFICES ASSUME NEW p \in running' \ running
               PROVE  Need[p] + Margin <= free[Kind(p)]
      OBVIOUS
  <2>3. running' \ running = {o \in ToSet(pl) : Spawned(o)}
        BY <1>1, <2>1, InstallStarts DEF RootsIn, pl
  <2>4. KnownBudget(p) /\ Armed # {}
        BY <1>1 DEF KnownBudget
  <2>5. \A o \in ToSet(pl) : Spawned(o) => KnownBudget(o)
        BY <1>1, <2>3
  <2>6. ~Deciding(p)
        BY <2>1, <2>2, <2>3, <2>4, <2>5, NothingRefused
  <2>7. Fits(p)
        BY <2>3, <2>6 DEF Deciding
  <2>8. p \in Loadable
        BY <2>3, RepositoryAssumption DEF Spawned
  <2> QED
      BY <2>7, <2>8 DEF Fits
<1> QED
    BY <1>1, DerivedHolds, LifecycleCorrect, RootsAreNames, PTL DEF PkgdSpec, InstallsAreAdmitted
=============================================================================
