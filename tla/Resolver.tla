------------------------------ MODULE Resolver ------------------------------
(***************************************************************************)
(* The resolver run step by step on any dependency graph: cycles, missing  *)
(* packages, diamonds and packages that list a dependency twice.           *)
(***************************************************************************)
EXTENDS Packages

CONSTANTS
    Loadable,  \* packages of the repository
    Foreign,   \* names that are not
    MaxDeps    \* bound: dependencies a package declares; MAX_DEPS is 16

ASSUME ResolverAssumption == MaxDeps \in Nat

VARIABLES
    deps,      \* the repository, fixed from the start
    root,      \* the package asked for
    s          \* the resolver's state

resolverVars == <<deps, root, s>>

ResolverInit ==
    /\ deps \in [Loadable -> BoundedSeq(Loadable \union Foreign, MaxDeps)]
    /\ root \in Loadable \union Foreign
    /\ s = ResolveStart(deps, root)

ResolverNext ==
    /\ s.verdict = "open"
    /\ s' = ResolveStep(deps, s)
    /\ UNCHANGED <<deps, root>>

(* The resolver is a loop of one thread that waits for nothing. *)
ResolverSpec ==
    ResolverInit /\ [][ResolverNext]_resolverVars /\ WF_resolverVars(ResolverNext)

-----------------------------------------------------------------------------
(* Until it fails, the plan can be installed from its front: a package is  *)
(* planned only after everything it needs.                                 *)
PlanInOrder == s.verdict \in {"open", "ok"} => DependenciesFirst(deps, s.plan)

(* The verdict is the right one: a resolution succeeds exactly when all    *)
(* that is needed exists and nothing depends on itself, a failure names a  *)
(* reason that is there, and what a success plans is what is needed and    *)
(* nothing else.                                                           *)
VerdictIsRight ==
    /\ s.verdict = "ok" => Resolvable(deps, root) /\ ToSet(s.plan) = Needs(deps, {root})
    /\ s.verdict = "missing" => Unloadable(deps, root) # {}
    /\ s.verdict = "cycle" => Cyclic(deps, root)

(* It ends, on cyclic graphs too. *)
ResolutionEnds == <>(s.verdict # "open")

=============================================================================
