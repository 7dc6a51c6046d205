------------------------------ MODULE Packages ------------------------------
(***************************************************************************)
(* The dependency resolver of repos/sponge/src/sponge_pkgd/main.cc         *)
(* (_resolve, _visit) as a step function, and what it is supposed to       *)
(* compute.                                                                *)
(*                                                                         *)
(* "deps" maps every package that can be loaded - listed in the index,     *)
(* metadata well formed - to its dependencies in declared order.  A name   *)
(* outside its domain cannot be loaded.  pkgd lists at most MAX_PACKAGES   *)
(* packages in its index, so none of the resolver's arrays, which hold     *)
(* that many, can fill up.                                                 *)
(***************************************************************************)
EXTENDS Naturals, SequencesExt

Verdicts == {"open", "ok", "missing", "cycle"}

(* stack is _visiting, each name with the dependency _visit is at; _done   *)
(* and _plan always list the same names and are one sequence here.         *)
ResolverStates(deps) ==
    [stack   : Seq([name : DOMAIN deps, next : Nat]),
     plan    : Seq(DOMAIN deps),
     verdict : Verdicts]

OnStack(s) == {s.stack[i].name : i \in DOMAIN s.stack}

(* A failure unwinds the stack, and what is on it is planned on the way.   *)
Fail(s, verdict) ==
    [stack   |-> <<>>,
     plan    |-> s.plan \o Reverse([i \in DOMAIN s.stack |-> s.stack[i].name]),
     verdict |-> verdict]

(* Mutant of Visit: a package that cannot be loaded is passed over. *)
VisitForgiving(deps, s, name) ==
    CASE name \in ToSet(s.plan) \/ name \notin DOMAIN deps -> s
      [] name \in OnStack(s) -> Fail(s, "cycle")
      [] OTHER -> [s EXCEPT !.stack = Append(@, [name |-> name, next |-> 1])]

(* _visit up to its first dependency. *)
Visit(deps, s, name) ==
    CASE name \in ToSet(s.plan)  -> s
      [] name \in OnStack(s)     -> Fail(s, "cycle")
      [] name \notin DOMAIN deps -> Fail(s, "missing")
      [] OTHER -> [s EXCEPT !.stack = Append(@, [name |-> name, next |-> 1])]

ResolveStart(deps, root) ==
    Visit(deps, [stack |-> <<>>, plan |-> <<>>, verdict |-> "open"], root)

(* Mutants of ResolveStep: dependents are planned first; a dependency is   *)
(* visited over and over.                                                  *)
ResolveStepReversed(deps, s) ==
    LET top == Len(s.stack)
        f   == s.stack[top]
    IN  CASE top = 0 -> [s EXCEPT !.verdict = "ok"]
          [] top > 0 /\ f.next <= Len(deps[f.name]) ->
                Visit(deps, [s EXCEPT !.stack[top].next = @ + 1],
                      deps[f.name][f.next])
          [] OTHER ->
                [s EXCEPT !.stack = SubSeq(@, 1, top - 1),
                          !.plan  = <<f.name>> \o @]

ResolveStepStuck(deps, s) ==
    LET top == Len(s.stack)
        f   == s.stack[top]
    IN  CASE top = 0 -> [s EXCEPT !.verdict = "ok"]
          [] top > 0 /\ f.next <= Len(deps[f.name]) ->
                Visit(deps, s, deps[f.name][f.next])
          [] OTHER ->
                [s EXCEPT !.stack = SubSeq(@, 1, top - 1),
                          !.plan  = Append(@, f.name)]

(* The next dependency of the package on top of the stack is visited, or,  *)
(* with none left, the package is planned.                                 *)
ResolveStep(deps, s) ==
    LET top == Len(s.stack)
        f   == s.stack[top]
    IN  CASE top = 0 -> [s EXCEPT !.verdict = "ok"]
          [] top > 0 /\ f.next <= Len(deps[f.name]) ->
                Visit(deps, [s EXCEPT !.stack[top].next = @ + 1],
                      deps[f.name][f.next])
          [] OTHER ->
                [s EXCEPT !.stack = SubSeq(@, 1, top - 1),
                          !.plan  = Append(@, f.name)]

(* The whole resolution. *)
Resolve(deps, root) ==
    LET Run[s \in ResolverStates(deps)] ==
            IF s.verdict = "open" THEN Run[ResolveStep(deps, s)] ELSE s
    IN  Run[ResolveStart(deps, root)]

-----------------------------------------------------------------------------
(* What the resolver promises, without saying how. *)

(* S and everything its members need: the least set that holds S and the   *)
(* dependencies of its members.                                            *)
Needs(deps, S) ==
    LET names     == S \union DOMAIN deps
                       \union UNION {ToSet(deps[p]) : p \in DOMAIN deps}
        Closed(T) == \A p \in T \intersect DOMAIN deps : ToSet(deps[p]) \subseteq T
    IN  {p \in names : \A T \in SUBSET names :
                           S \subseteq T /\ Closed(T) => p \in T}

Unloadable(deps, root) == Needs(deps, {root}) \ DOMAIN deps

Cyclic(deps, root) ==
    \E p \in Needs(deps, {root}) \intersect DOMAIN deps :
        p \in Needs(deps, ToSet(deps[p]))

Resolvable(deps, root) == Unloadable(deps, root) = {} /\ ~Cyclic(deps, root)

(* Every package comes after all it depends on. *)
DependenciesFirst(deps, plan) ==
    \A i \in DOMAIN plan : \A d \in ToSet(deps[plan[i]]) :
        \E j \in 1..i - 1 : plan[j] = d
=============================================================================
