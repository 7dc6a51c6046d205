--------------------------- MODULE ResolverProofs ---------------------------
(***************************************************************************)
(* Proofs about the resolver, for every dependency graph: any number of    *)
(* packages, any cycles, any missing names.                                *)
(***************************************************************************)
EXTENDS Resolver, SequenceTheorems, TLAPS

Name == Loadable \union Foreign
Graph == [Loadable -> Seq(Name)]

-----------------------------------------------------------------------------
(* Needs is the least set that holds S and the dependencies of its members. *)

LEMMA NeedsHolds ==
    ASSUME NEW D, NEW S
    PROVE  S \subseteq Needs(D, S)
BY DEF Needs

LEMMA NeedsClosed ==
    ASSUME NEW D, NEW S, NEW p \in Needs(D, S) \intersect DOMAIN D
    PROVE  ToSet(D[p]) \subseteq Needs(D, S)
BY DEF Needs

LEMMA NeedsLeast ==
    ASSUME NEW D, NEW S, NEW T, S \subseteq T,
           \A p \in T \intersect DOMAIN D : ToSet(D[p]) \subseteq T
    PROVE  Needs(D, S) \subseteq T
<1> DEFINE names == S \union DOMAIN D \union UNION {ToSet(D[p]) : p \in DOMAIN D}
           T0 == T \intersect names
<1>1. S \subseteq T0
      OBVIOUS
<1>2. \A p \in T0 \intersect DOMAIN D : ToSet(D[p]) \subseteq T0
      OBVIOUS
<1>3. T0 \in SUBSET names
      OBVIOUS
<1>4. \A p \in Needs(D, S) : p \in T0
      BY <1>1, <1>2, <1>3 DEF Needs
<1> QED
    BY <1>4

-----------------------------------------------------------------------------
(* The inductive invariant, of a resolution r of x in the graph D.         *)

Frame == [name : Loadable, next : Nat \ {0}]

State ==
    [stack   : Seq(Frame),
     plan    : Seq(Loadable),
     verdict : Verdicts]

Planned(r, p) == \E j \in DOMAIN r.plan : r.plan[j] = p

(* Nothing is visited or planned twice, or both at once. *)
Once(r) ==
    /\ \A i, j \in DOMAIN r.stack : r.stack[i].name = r.stack[j].name => i = j
    /\ \A i, j \in DOMAIN r.plan : r.plan[i] = r.plan[j] => i = j
    /\ \A i \in DOMAIN r.stack : ~Planned(r, r.stack[i].name)

(* What a package on the stack has behind it is planned, save the one that *)
(* is visited for it.                                                      *)
Behind(D, r) ==
    \A i \in DOMAIN r.stack : \A k \in DOMAIN D[r.stack[i].name] :
        k < r.stack[i].next =>
            \/ Planned(r, D[r.stack[i].name][k])
            \/ /\ i + 1 \in DOMAIN r.stack
               /\ r.stack[i + 1].name = D[r.stack[i].name][k]
               /\ k = r.stack[i].next - 1

(* Only what the root needs is visited, each package because those below   *)
(* it on the stack need it.                                                *)
Wanted(D, x, r) ==
    /\ \A i \in DOMAIN r.stack : r.stack[i].name \in Needs(D, {x})
    /\ \A i \in DOMAIN r.plan : r.plan[i] \in Needs(D, {x})
    /\ \A i, j \in DOMAIN r.stack :
           i < j => r.stack[j].name \in Needs(D, ToSet(D[r.stack[i].name]))

(* The root is not forgotten. *)
Rooted(x, r) ==
    \/ r.stack # <<>> /\ r.stack[1].name = x
    \/ Planned(r, x)

Progress(D, x, r) ==
    /\ Once(r)
    /\ DependenciesFirst(D, r.plan)
    /\ Behind(D, r)
    /\ Wanted(D, x, r)
    /\ Rooted(x, r)
    /\ r.verdict = "ok" => r.stack = <<>>

Sound(D, x, r) ==
    /\ r \in State
    /\ r.verdict \in {"open", "ok"} => Progress(D, x, r)
    /\ r.verdict = "missing" => Unloadable(D, x) # {}
    /\ r.verdict = "cycle" => Cyclic(D, x)

ResolverInv ==
    /\ deps \in Graph /\ root \in Name
    /\ Sound(deps, root, s)

-----------------------------------------------------------------------------
LEMMA FailState ==
    ASSUME NEW r \in State, NEW v \in {"missing", "cycle"}
    PROVE  Fail(r, v) \in State /\ Fail(r, v).verdict = v
<1> DEFINE n  == Len(r.stack)
           st == [i \in DOMAIN r.stack |-> r.stack[i].name]
<1>1. r.stack \in Seq(Frame) /\ r.plan \in Seq(Loadable)
      BY DEF State
<1>2. n \in Nat /\ DOMAIN r.stack = 1..n
      BY <1>1
<1>3. \A i \in 1..n : r.stack[i].name \in Loadable
  <2> TAKE i \in 1..n
  <2>1. r.stack[i] \in Frame
        BY <1>1, <1>2
  <2> QED
      BY <2>1 DEF Frame
<1>4. st \in [1..n -> Loadable]
      BY <1>2, <1>3
<1>5. st \in Seq(Loadable) /\ Len(st) = n
      BY <1>2, <1>4
<1> HIDE DEF st
<1>6. \A i \in 1..n : st[(n - i) + 1] \in Loadable
      BY <1>2, <1>4
<1>7. Reverse(st) = [i \in 1..n |-> st[(n - i) + 1]]
      BY <1>5 DEF Reverse
<1>8. Reverse(st) \in [1..n -> Loadable]
      BY <1>6, <1>7
<1>9. Reverse(st) \in Seq(Loadable)
      BY <1>8, <1>2
<1>10. r.plan \o Reverse(st) \in Seq(Loadable)
      BY <1>1, <1>9
<1>11. Fail(r, v) = [stack |-> <<>>, plan |-> r.plan \o Reverse(st), verdict |-> v]
      BY DEF Fail, st
<1> QED
    BY <1>10, <1>11 DEF State, Verdicts

(* What is due for a visit of a package, besides what the visit finds out. *)
Ready(D, x, r, p) ==
    /\ r \in State /\ r.verdict = "open"
    /\ Once(r) /\ DependenciesFirst(D, r.plan) /\ Wanted(D, x, r)
    /\ Rooted(x, r) \/ (r.stack = <<>> /\ p = x)
    /\ p \in Needs(D, {x})
    /\ \A i \in DOMAIN r.stack : p \in Needs(D, ToSet(D[r.stack[i].name]))
    /\ \A i \in DOMAIN r.stack : \A k \in DOMAIN D[r.stack[i].name] :
           k < r.stack[i].next =>
               \/ Planned(r, D[r.stack[i].name][k])
               \/ /\ i + 1 \in DOMAIN r.stack
                  /\ r.stack[i + 1].name = D[r.stack[i].name][k]
                  /\ k = r.stack[i].next - 1
               \/ /\ i = Len(r.stack)
                  /\ p = D[r.stack[i].name][k]
                  /\ k = r.stack[i].next - 1

LEMMA StateParts ==
    ASSUME NEW r \in State
    PROVE  /\ r.stack \in Seq(Frame)
           /\ r.plan \in Seq(Loadable)
           /\ DOMAIN r.stack = 1..Len(r.stack) /\ Len(r.stack) \in Nat
           /\ DOMAIN r.plan = 1..Len(r.plan) /\ Len(r.plan) \in Nat
           /\ \A i \in DOMAIN r.stack : /\ r.stack[i].name \in Loadable
                                       /\ r.stack[i].next \in Nat \ {0}
           /\ \A i \in DOMAIN r.plan : r.plan[i] \in Loadable
<1>1. r.stack \in Seq(Frame) /\ r.plan \in Seq(Loadable)
      BY DEF State
<1>2. \A i \in DOMAIN r.stack : r.stack[i] \in Frame
      BY <1>1
<1> QED
    BY <1>1, <1>2 DEF Frame

(* A state from its parts. *)
LEMMA Parts ==
    ASSUME NEW a \in Seq(Frame), NEW b \in Seq(Loadable), NEW c \in Verdicts,
           NEW q, q = [stack |-> a, plan |-> b, verdict |-> c]
    PROVE  q \in State /\ q.stack = a /\ q.plan = b /\ q.verdict = c
BY DEF State

LEMMA Changed ==
    ASSUME NEW r \in State, NEW a, NEW b, NEW c
    PROVE  /\ [r EXCEPT !.stack = a, !.plan = b]
                   = [stack |-> a, plan |-> b, verdict |-> r.verdict]
           /\ [r EXCEPT !.verdict = c]
                   = [stack |-> r.stack, plan |-> r.plan, verdict |-> c]
<1> DEFINE A == Seq(Frame)
           B == Seq(Loadable)
<1>1. r \in [stack : A, plan : B, verdict : Verdicts]
      BY DEF State
<1> HIDE DEF A, B
<1>2. [r EXCEPT !.stack = a, !.plan = b]
          = [stack |-> a, plan |-> b, verdict |-> r.verdict]
  <2> DEFINE r1 == [r EXCEPT !.stack = a]
  <2>1. r1 = [stack |-> a, plan |-> r.plan, verdict |-> r.verdict]
        BY <1>1
  <2>2. [r EXCEPT !.stack = a, !.plan = b] = [r1 EXCEPT !.plan = b]
        OBVIOUS
  <2> HIDE DEF r1
  <2> QED
      BY <2>1, <2>2
<1>3. [r EXCEPT !.verdict = c]
          = [stack |-> r.stack, plan |-> r.plan, verdict |-> c]
      BY <1>1
<1> QED
    BY <1>2, <1>3

LEMMA PushSound ==
    ASSUME NEW D \in Graph, NEW x \in Name, NEW r, NEW p \in Loadable,
           Ready(D, x, r, p), ~Planned(r, p), p \notin OnStack(r),
           NEW q, q = [r EXCEPT !.stack = Append(@, [name |-> p, next |-> 1])]
    PROVE  q \in State /\ q.verdict = "open" /\ Progress(D, x, q)
<1> DEFINE n == Len(r.stack)
           f == [name |-> p, next |-> 1]
<1>1. r \in State
      BY DEF Ready
<1>2. /\ r.stack \in Seq(Frame)
      /\ DOMAIN r.stack = 1..n /\ n \in Nat
      BY <1>1, StateParts
<1>3. f \in Frame /\ f.name = p /\ f.next = 1
      BY DEF Frame
<1> HIDE DEF f
<1>4. /\ q.stack = Append(r.stack, f) /\ q.plan = r.plan /\ q.verdict = r.verdict
      /\ q \in State
  <2>1. Append(r.stack, f) \in Seq(Frame)
        BY <1>2, <1>3
  <2>2. q = [r EXCEPT !.stack = Append(r.stack, f)]
        BY DEF f
  <2> QED
      BY <1>1, <2>1, <2>2 DEF State
<1>5. /\ DOMAIN q.stack = 1..n + 1 /\ q.stack[n + 1] = f
      /\ \A i \in 1..n : q.stack[i] = r.stack[i]
      BY <1>4, <1>2, <1>3
<1>6. \A i \in 1..n : r.stack[i].name # p
      BY <1>2 DEF OnStack
<1>7. \A y : Planned(q, y) <=> Planned(r, y)
      BY <1>4 DEF Planned
<1>8. \A i \in 1..n + 1 : i \in 1..n \/ i = n + 1
      BY <1>2
<1>9. Once(q)
  <2>1. \A i, j \in 1..n + 1 : q.stack[i].name = q.stack[j].name => i = j
        BY <1>5, <1>6, <1>8, <1>2, <1>3 DEF Ready, Once
  <2>2. \A i \in 1..n + 1 : ~Planned(q, q.stack[i].name)
        BY <1>5, <1>7, <1>8, <1>2, <1>3 DEF Ready, Once
  <2> QED
      BY <2>1, <2>2, <1>4, <1>5 DEF Ready, Once
<1>10. Wanted(D, x, q)
  <2>1. \A i \in 1..n + 1 : q.stack[i].name \in Needs(D, {x})
        BY <1>5, <1>8, <1>2, <1>3 DEF Ready, Wanted
  <2>2. \A i, j \in 1..n + 1 :
            i < j => q.stack[j].name \in Needs(D, ToSet(D[q.stack[i].name]))
    <3> SUFFICES ASSUME NEW i \in 1..n + 1, NEW j \in 1..n + 1, i < j
                 PROVE  q.stack[j].name \in Needs(D, ToSet(D[q.stack[i].name]))
        OBVIOUS
    <3>1. i \in 1..n /\ q.stack[i] = r.stack[i]
          BY <1>2, <1>5
    <3>2. CASE j \in 1..n
          BY <3>1, <3>2, <1>5, <1>2 DEF Ready, Wanted
    <3>3. CASE j = n + 1
          BY <3>1, <3>3, <1>5, <1>2, <1>3 DEF Ready
    <3> QED
        BY <3>2, <3>3, <1>8
  <2> QED
      BY <2>1, <2>2, <1>4, <1>5 DEF Ready, Wanted
<1>11. Behind(D, q)
  <2> SUFFICES ASSUME NEW i \in 1..n + 1, NEW k \in DOMAIN D[q.stack[i].name],
                      k < q.stack[i].next
               PROVE  \/ Planned(q, D[q.stack[i].name][k])
                      \/ /\ i + 1 \in DOMAIN q.stack
                         /\ q.stack[i + 1].name = D[q.stack[i].name][k]
                         /\ k = q.stack[i].next - 1
      BY <1>5 DEF Behind
  <2>1. CASE i = n + 1
    <3>1. D[p] \in Seq(Name)
          BY DEF Graph
    <3>2. k \in 1..Len(D[p]) /\ k < 1
          BY <2>1, <3>1, <1>5, <1>3
    <3> QED
        BY <3>2, <3>1
  <2>2. CASE i \in 1..n
    <3>1. q.stack[i] = r.stack[i]
          BY <2>2, <1>5
    <3>2. CASE Planned(r, D[r.stack[i].name][k])
          BY <3>1, <3>2, <1>7
    <3>3. CASE /\ i + 1 \in DOMAIN r.stack
               /\ r.stack[i + 1].name = D[r.stack[i].name][k]
               /\ k = r.stack[i].next - 1
          BY <3>1, <3>3, <1>5, <1>2
    <3>4. CASE /\ i = n
               /\ p = D[r.stack[i].name][k]
               /\ k = r.stack[i].next - 1
      <4>1. i + 1 = n + 1 /\ n + 1 \in 1..n + 1
            BY <3>4, <1>2
      <4>2. q.stack[i + 1].name = p
            BY <4>1, <1>5, <1>3
      <4> QED
          BY <3>1, <3>4, <4>1, <4>2, <1>5
    <3> QED
        BY <3>1, <3>2, <3>3, <3>4, <2>2, <1>2 DEF Ready
  <2> QED
      BY <2>1, <2>2, <1>8
<1>12. Rooted(x, q)
  <2>1. q.stack # <<>>
        BY <1>4, <1>2, <1>3
  <2>2. CASE Planned(r, x)
        BY <2>2, <1>7 DEF Rooted
  <2>3. CASE r.stack # <<>> /\ r.stack[1].name = x
    <3>1. 1 \in 1..n
          BY <2>3, <1>2
    <3> QED
        BY <2>1, <2>3, <3>1, <1>5 DEF Rooted
  <2>4. CASE r.stack = <<>> /\ p = x
    <3>1. n = 0
          BY <2>4
    <3>2. q.stack[1] = f
          BY <3>1, <1>5
    <3> QED
        BY <2>1, <3>2, <2>4, <1>3 DEF Rooted
  <2> QED
      BY <2>2, <2>3, <2>4 DEF Ready, Rooted
<1> QED
    BY <1>4, <1>9, <1>10, <1>11, <1>12 DEF Progress, Ready

LEMMA VisitSound ==
    ASSUME NEW D \in Graph, NEW x \in Name, NEW r, NEW p, Ready(D, x, r, p)
    PROVE  Sound(D, x, Visit(D, r, p))
<1>1. DOMAIN D = Loadable
      BY DEF Graph
<1>2. p \in ToSet(r.plan) <=> Planned(r, p)
      BY DEF ToSet, Planned
<1>3. r \in State
      BY DEF Ready
<1>4. CASE Planned(r, p)
  <2>0. p \notin OnStack(r) /\ p \in Loadable
        BY <1>4, <1>3, StateParts DEF Ready, Once, OnStack, Planned
  <2>1. Visit(D, r, p) = r
        BY <1>4, <1>2, <2>0, <1>1 DEF Visit
  <2>2. Behind(D, r)
        BY <1>4 DEF Behind, Ready
  <2>3. Rooted(x, r)
        BY <1>4 DEF Ready, Rooted
  <2> QED
      BY <2>1, <2>2, <2>3 DEF Sound, Progress, Ready
<1>5. CASE ~Planned(r, p) /\ p \in OnStack(r)
  <2>0. p \in Loadable
        BY <1>5, <1>3, StateParts DEF OnStack
  <2>1. Visit(D, r, p) = Fail(r, "cycle")
        BY <1>5, <1>2, <2>0, <1>1 DEF Visit
  <2>2. PICK i \in DOMAIN r.stack : p = r.stack[i].name
        BY <1>5 DEF OnStack
  <2>3. p \in Loadable /\ p \in Needs(D, {x}) /\ p \in Needs(D, ToSet(D[p]))
        BY <2>2, <1>3, StateParts DEF Ready
  <2>4. Cyclic(D, x)
        BY <2>3, <1>1 DEF Cyclic
  <2> QED
      BY <2>1, <2>4, <1>3, FailState DEF Sound
<1>6. CASE ~Planned(r, p) /\ p \notin OnStack(r) /\ p \notin Loadable
  <2>1. Visit(D, r, p) = Fail(r, "missing")
        BY <1>6, <1>2, <1>1 DEF Visit
  <2>2. Unloadable(D, x) # {}
        BY <1>6, <1>1 DEF Ready, Unloadable
  <2> QED
      BY <2>1, <2>2, <1>3, FailState DEF Sound
<1>7. CASE ~Planned(r, p) /\ p \notin OnStack(r) /\ p \in Loadable
  <2>1. Visit(D, r, p) = [r EXCEPT !.stack = Append(@, [name |-> p, next |-> 1])]
        BY <1>7, <1>2, <1>1 DEF Visit
  <2> DEFINE q == Visit(D, r, p)
  <2>2. q \in State /\ q.verdict = "open" /\ Progress(D, x, q)
        BY <2>1, <1>7, PushSound
  <2> QED
      BY <2>2 DEF Sound
<1> QED
    BY <1>4, <1>5, <1>6, <1>7

LEMMA StepSound ==
    ASSUME NEW D \in Graph, NEW x \in Name, NEW r, Sound(D, x, r), r.verdict = "open"
    PROVE  Sound(D, x, ResolveStep(D, r))
<1> DEFINE top == Len(r.stack)
           f   == r.stack[top]
<1>1. r \in State /\ Progress(D, x, r)
      BY DEF Sound
<1>2. /\ r.stack \in Seq(Frame) /\ r.plan \in Seq(Loadable)
      /\ DOMAIN r.stack = 1..top /\ top \in Nat
      /\ DOMAIN r.plan = 1..Len(r.plan) /\ Len(r.plan) \in Nat
      /\ \A i \in DOMAIN r.stack : /\ r.stack[i].name \in Loadable
                                  /\ r.stack[i].next \in Nat \ {0}
      BY <1>1, StateParts
<1>3. DOMAIN D = Loadable /\ \A p \in Loadable : D[p] \in Seq(Name)
      BY DEF Graph
<1>4. CASE top = 0
  <2> DEFINE q == [r EXCEPT !.verdict = "ok"]
  <2>1. ResolveStep(D, r) = q
        BY <1>4 DEF ResolveStep
  <2>2. q \in State /\ q.stack = r.stack /\ q.plan = r.plan /\ q.verdict = "ok"
    <3>1. q = [stack |-> r.stack, plan |-> r.plan, verdict |-> "ok"]
          BY <1>1, Changed
    <3> HIDE DEF q
    <3>2. "ok" \in Verdicts
          BY DEF Verdicts
    <3> QED
        BY <3>1, <3>2, <1>2, Parts
  <2>3. q.stack = <<>>
        BY <2>2, <1>4, <1>2
  <2> HIDE DEF q
  <2>4. Progress(D, x, q)
    <3>1. \A y : Planned(q, y) <=> Planned(r, y)
          BY <2>2 DEF Planned
    <3>2. DOMAIN q.stack = {}
          BY <2>3
    <3>3. Once(q)
          BY <2>2, <3>2, <1>1 DEF Progress, Once
    <3>4. Behind(D, q)
          BY <3>2 DEF Behind
    <3>5. Wanted(D, x, q)
          BY <2>2, <3>2, <1>1 DEF Progress, Wanted
    <3>6. Rooted(x, q)
          BY <2>2, <3>1, <1>1 DEF Progress, Rooted
    <3> QED
        BY <2>2, <2>3, <3>3, <3>6, <3>4, <3>5, <1>1 DEF Progress
  <2> QED
      BY <2>1, <2>2, <2>4 DEF Sound
<1>5. CASE top > 0 /\ f.next <= Len(D[f.name])
  <2> DEFINE p  == D[f.name][f.next]
             r1 == [r EXCEPT !.stack[top].next = @ + 1]
             g  == [f EXCEPT !.next = @ + 1]
  <2>1. ResolveStep(D, r) = Visit(D, r1, p)
        BY <1>5, <1>2 DEF ResolveStep
  <2>2. top \in 1..top /\ f \in Frame
        BY <1>5, <1>2
  <2>3. /\ f.name \in Loadable /\ f.next \in 1..Len(D[f.name])
        /\ p \in ToSet(D[f.name])
        BY <2>2, <1>2, <1>3, <1>5 DEF Frame, ToSet
  <2>4. g \in Frame /\ g.name = f.name /\ g.next = f.next + 1
        BY <2>2 DEF Frame
  <2> HIDE DEF g, p
  <2>5. /\ r1 \in State /\ r1.verdict = "open" /\ r1.plan = r.plan
        /\ r1.stack = [r.stack EXCEPT ![top] = g]
    <3>1. r1 = [r EXCEPT !.stack = [r.stack EXCEPT ![top] = g]]
          BY DEF g
    <3>2. [r.stack EXCEPT ![top] = g] \in Seq(Frame)
          BY <1>2, <2>2, <2>4
    <3> QED
        BY <3>1, <3>2, <1>1 DEF State
  <2>6. /\ DOMAIN r1.stack = 1..top /\ Len(r1.stack) = top
        /\ r1.stack[top] = g
        /\ \A i \in 1..top : i # top => r1.stack[i] = r.stack[i]
        /\ \A i \in 1..top : r1.stack[i].name = r.stack[i].name
        BY <2>5, <1>2, <2>2, <2>4
  <2> HIDE DEF r1
  <2>7. \A y : Planned(r1, y) <=> Planned(r, y)
        BY <2>5 DEF Planned
  <2>8. Once(r1)
    <3>1. \A i, j \in 1..top : r1.stack[i].name = r1.stack[j].name => i = j
          BY <2>6, <1>1, <1>2 DEF Progress, Once
    <3>2. \A i \in 1..top : ~Planned(r1, r1.stack[i].name)
          BY <2>6, <2>7, <1>1, <1>2 DEF Progress, Once
    <3> QED
        BY <3>1, <3>2, <2>5, <2>6, <1>1 DEF Progress, Once
  <2>9. Wanted(D, x, r1)
        BY <2>5, <2>6, <1>1, <1>2 DEF Progress, Wanted
  <2>10. Rooted(x, r1)
    <3>1. r1.stack # <<>> /\ r.stack # <<>> /\ 1 \in 1..top
          BY <2>6, <2>2, <1>2, <1>5
    <3> QED
        BY <3>1, <2>6, <2>7, <1>1 DEF Progress, Rooted
  <2>11. p \in Needs(D, {x})
        BY <2>2, <2>3, <1>1, <1>2, <1>3, NeedsClosed DEF Progress, Wanted
  <2>12. \A i \in 1..top : p \in Needs(D, ToSet(D[r.stack[i].name]))
    <3> TAKE i \in 1..top
    <3>1. CASE i = top
          BY <3>1, <2>3, NeedsHolds
    <3>2. CASE i # top
      <4>1. f.name \in Needs(D, ToSet(D[r.stack[i].name]))
            BY <3>2, <2>2, <1>1, <1>2 DEF Progress, Wanted
      <4> QED
          BY <4>1, <2>3, <1>3, NeedsClosed
    <3> QED
        BY <3>1, <3>2
  <2>13. ASSUME NEW i \in 1..top, NEW k \in DOMAIN D[r1.stack[i].name],
                k < r1.stack[i].next
         PROVE  \/ Planned(r1, D[r1.stack[i].name][k])
                \/ /\ i + 1 \in DOMAIN r1.stack
                   /\ r1.stack[i + 1].name = D[r1.stack[i].name][k]
                   /\ k = r1.stack[i].next - 1
                \/ /\ i = Len(r1.stack)
                   /\ p = D[r1.stack[i].name][k]
                   /\ k = r1.stack[i].next - 1
    <3>1. k \in DOMAIN D[r.stack[i].name] /\ k \in Nat
          BY <2>13, <2>6, <1>2, <1>3
    <3>2. CASE i # top
      <4>1. r1.stack[i] = r.stack[i]
            BY <3>2, <2>6
      <4>2. CASE Planned(r, D[r.stack[i].name][k])
            BY <4>1, <4>2, <2>7
      <4>3. CASE /\ i + 1 \in DOMAIN r.stack
                 /\ r.stack[i + 1].name = D[r.stack[i].name][k]
                 /\ k = r.stack[i].next - 1
            BY <4>1, <4>3, <2>6, <1>2
      <4> QED
          BY <4>1, <4>2, <4>3, <3>1, <2>13, <1>1, <1>2 DEF Progress, Behind
    <3>3. CASE i = top
      <4>1. k < f.next + 1 /\ f.next \in Nat
            BY <3>3, <2>13, <2>6, <2>4, <2>3, <1>2, <1>3
      <4>2. CASE k = f.next
            BY <4>1, <4>2, <3>3, <2>6, <2>4 DEF p
      <4>3. CASE k # f.next
        <5>1. k < f.next /\ top + 1 \notin 1..top
              BY <4>1, <4>3, <3>1, <1>2
        <5>2. Planned(r, D[r.stack[i].name][k])
              BY <5>1, <3>1, <3>3, <1>1, <1>2 DEF Progress, Behind
        <5> QED
            BY <5>2, <2>6, <2>7
      <4> QED
          BY <4>2, <4>3
    <3> QED
        BY <3>2, <3>3
  <2>14. Ready(D, x, r1, p)
        BY <2>5, <2>6, <2>8, <2>9, <2>10, <2>11, <2>12, <2>13, <1>1
           DEF Ready, Progress
  <2> QED
      BY <2>1, <2>14, VisitSound
<1>6. CASE top > 0 /\ ~(f.next <= Len(D[f.name]))
  <2> DEFINE q == [r EXCEPT !.stack = SubSeq(@, 1, top - 1),
                            !.plan  = Append(@, f.name)]
             m == Len(r.plan)
  <2>1. ResolveStep(D, r) = q
        BY <1>6, <1>2 DEF ResolveStep
  <2>2. top \in 1..top /\ top - 1 \in Nat /\ f.name \in Loadable /\ f.next \in Nat
        BY <1>6, <1>2
  <2>3. /\ SubSeq(r.stack, 1, top - 1) \in Seq(Frame)
        /\ Len(SubSeq(r.stack, 1, top - 1)) = top - 1
        /\ \A i \in 1..top - 1 : SubSeq(r.stack, 1, top - 1)[i] = r.stack[i]
        BY <1>2, <2>2
  <2>4. /\ q \in State /\ q.stack = SubSeq(r.stack, 1, top - 1)
        /\ q.plan = Append(r.plan, f.name) /\ q.verdict = "open"
    <3> DEFINE st == SubSeq(r.stack, 1, top - 1)
               pl == Append(r.plan, f.name)
    <3>1. st \in Seq(Frame) /\ pl \in Seq(Loadable)
          BY <2>2, <2>3, <1>2
    <3>2. q = [r EXCEPT !.stack = st, !.plan = pl]
          OBVIOUS
    <3> HIDE DEF st, pl
    <3>3. [r EXCEPT !.stack = st, !.plan = pl]
              = [stack |-> st, plan |-> pl, verdict |-> r.verdict]
          BY <1>1, Changed
    <3> HIDE DEF q
    <3>4. "open" \in Verdicts
          BY DEF Verdicts
    <3>5. q = [stack |-> st, plan |-> pl, verdict |-> "open"]
          BY <3>2, <3>3
    <3>6. q \in State /\ q.stack = st /\ q.plan = pl /\ q.verdict = "open"
          BY <3>1, <3>5, <3>4, Parts
    <3> QED
        BY <3>6 DEF st, pl
  <2> HIDE DEF q
  <2>5. /\ DOMAIN q.stack = 1..top - 1
        /\ \A i \in 1..top - 1 : q.stack[i] = r.stack[i] /\ i \in 1..top
        BY <2>3, <2>4, <2>2
  <2>6. /\ DOMAIN q.plan = 1..m + 1 /\ q.plan[m + 1] = f.name
        /\ \A i \in 1..m : q.plan[i] = r.plan[i]
        /\ \A i \in 1..m + 1 : i \in 1..m \/ i = m + 1
        BY <2>4, <2>2, <1>2
  <2>7. \A y : Planned(q, y) <=> Planned(r, y) \/ y = f.name
    <3> TAKE y
    <3>1. ASSUME Planned(q, y) PROVE Planned(r, y) \/ y = f.name
          BY <3>1, <2>6, <1>2 DEF Planned
    <3>2. ASSUME Planned(r, y) PROVE Planned(q, y)
      <4>1. PICK j \in 1..m : r.plan[j] = y
            BY <3>2, <1>2 DEF Planned
      <4>2. j \in 1..m + 1 /\ q.plan[j] = y
            BY <4>1, <2>6, <1>2
      <4> QED
          BY <4>2, <2>6 DEF Planned
    <3>3. m + 1 \in 1..m + 1
          BY <1>2
    <3>4. Planned(q, f.name)
          BY <3>3, <2>6 DEF Planned
    <3> QED
        BY <3>1, <3>2, <3>4
  <2>8. ~Planned(r, f.name)
        BY <2>2, <1>1, <1>2 DEF Progress, Once
  <2>9. \A i \in 1..top - 1 : r.stack[i].name # f.name
        BY <2>2, <1>1, <1>2 DEF Progress, Once
  <2>10. Once(q)
    <3>1. \A i, j \in 1..m + 1 : q.plan[i] = q.plan[j] => i = j
      <4>1. \A i \in 1..m : r.plan[i] # f.name
            BY <2>8, <1>2 DEF Planned
      <4> QED
          BY <4>1, <2>6, <1>1, <1>2 DEF Progress, Once
    <3>2. \A i, j \in 1..top - 1 : q.stack[i].name = q.stack[j].name => i = j
          BY <2>5, <1>1, <1>2 DEF Progress, Once
    <3>3. \A i \in 1..top - 1 : ~Planned(q, q.stack[i].name)
          BY <2>5, <2>7, <2>9, <1>1, <1>2 DEF Progress, Once
    <3> QED
        BY <3>1, <3>2, <3>3, <2>5, <2>6 DEF Once
  <2>11. Wanted(D, x, q)
    <3>1. \A i \in 1..m + 1 : q.plan[i] \in Needs(D, {x})
          BY <2>2, <2>6, <1>1, <1>2 DEF Progress, Wanted
    <3> QED
        BY <3>1, <2>5, <2>6, <1>1, <1>2 DEF Progress, Wanted
  <2>12. DependenciesFirst(D, q.plan)
    <3> SUFFICES ASSUME NEW i \in 1..m + 1, NEW d \in ToSet(D[q.plan[i]])
                 PROVE  \E j \in 1..i - 1 : q.plan[j] = d
        BY <2>6 DEF DependenciesFirst
    <3>1. CASE i \in 1..m
      <4>1. PICK j \in 1..i - 1 : r.plan[j] = d
            BY <3>1, <2>6, <1>1, <1>2 DEF Progress, DependenciesFirst
      <4> QED
          BY <4>1, <3>1, <2>6, <1>2
    <3>2. CASE i = m + 1
      <4>1. d \in ToSet(D[f.name])
            BY <3>2, <2>6
      <4>2. PICK k \in DOMAIN D[f.name] : d = D[f.name][k]
            BY <4>1 DEF ToSet
      <4>3. k \in Nat /\ k < f.next /\ top + 1 \notin 1..top
            BY <1>3, <1>6, <2>2, <1>2
      <4>4. Planned(r, d)
            BY <4>2, <4>3, <2>2, <1>1, <1>2 DEF Progress, Behind
      <4>5. PICK j \in 1..m : r.plan[j] = d
            BY <4>4, <1>2 DEF Planned
      <4>6. j \in 1..i - 1
            BY <3>2, <1>2
      <4> QED
          BY <4>5, <4>6, <2>6
    <3> QED
        BY <3>1, <3>2, <2>6
  <2>13. Behind(D, q)
    <3> SUFFICES ASSUME NEW i \in 1..top - 1, NEW k \in DOMAIN D[r.stack[i].name],
                        k < r.stack[i].next
                 PROVE  \/ Planned(q, D[r.stack[i].name][k])
                        \/ /\ i + 1 \in DOMAIN q.stack
                           /\ q.stack[i + 1].name = D[r.stack[i].name][k]
                           /\ k = r.stack[i].next - 1
        BY <2>5 DEF Behind
    <3>1. CASE Planned(r, D[r.stack[i].name][k])
          BY <3>1, <2>7
    <3>2. CASE /\ r.stack[i + 1].name = D[r.stack[i].name][k]
               /\ k = r.stack[i].next - 1
      <4>1. CASE i + 1 = top
            BY <3>2, <4>1, <2>7
      <4>2. CASE i + 1 # top
        <5>1. i + 1 \in 1..top - 1
              BY <4>2, <1>2
        <5> QED
            BY <3>2, <5>1, <2>5
      <4> QED
          BY <4>1, <4>2
    <3> QED
        BY <3>1, <3>2, <2>5, <1>1, <1>2 DEF Progress, Behind
  <2>14. Rooted(x, q)
    <3>1. CASE Planned(r, x)
          BY <3>1, <2>7 DEF Rooted
    <3>2. CASE r.stack[1].name = x
      <4>1. CASE top = 1
            BY <3>2, <4>1, <2>7 DEF Rooted
      <4>2. CASE top # 1
        <5>1. 1 \in 1..top - 1
          <6> DEFINE n == top
          <6>1. n \in Nat /\ n # 1 /\ n > 0
                BY <4>2, <1>2, <1>6
          <6> HIDE DEF n
          <6>2. 1 \in 1..n - 1
                BY <6>1
          <6> QED
              BY <6>2 DEF n
        <5>2. q.stack[1].name = x /\ q.stack # <<>>
              BY <5>1, <3>2, <2>5
        <5> QED
            BY <5>2 DEF Rooted
      <4> QED
          BY <4>1, <4>2
    <3> QED
        BY <3>1, <3>2, <1>1 DEF Progress, Rooted
  <2>15. Progress(D, x, q)
        BY <2>4, <2>10, <2>11, <2>12, <2>13, <2>14 DEF Progress
  <2> QED
      BY <2>1, <2>4, <2>15 DEF Sound
<1> QED
    BY <1>4, <1>5, <1>6, <1>2

LEMMA StartSound ==
    ASSUME NEW D \in Graph, NEW x \in Name
    PROVE  Sound(D, x, ResolveStart(D, x))
<1> DEFINE r == [stack |-> <<>>, plan |-> <<>>, verdict |-> "open"]
<1>1. r \in State /\ r.stack = <<>> /\ r.plan = <<>> /\ r.verdict = "open"
      BY DEF State, Verdicts
<1>2. DOMAIN r.stack = {} /\ DOMAIN r.plan = {}
      BY <1>1
<1>3. ResolveStart(D, x) = Visit(D, r, x)
      BY DEF ResolveStart
<1>4. x \in Needs(D, {x})
      BY NeedsHolds
<1> HIDE DEF r
<1>5. Ready(D, x, r, x)
      BY <1>1, <1>2, <1>4 DEF Ready, Once, Wanted, DependenciesFirst
<1> QED
    BY <1>3, <1>5, VisitSound

(* What a finished resolution has planned is what is needed, and nothing   *)
(* in it depends on itself: the packages planned before one hold all that  *)
(* it needs, and it is not among them.                                     *)
LEMMA PlanIsComplete ==
    ASSUME NEW D \in Graph, NEW x \in Name, NEW r \in State,
           Progress(D, x, r), r.verdict = "ok"
    PROVE  Resolvable(D, x) /\ ToSet(r.plan) = Needs(D, {x})
<1>1. /\ DOMAIN r.plan = 1..Len(r.plan) /\ Len(r.plan) \in Nat
      /\ \A i \in DOMAIN r.plan : r.plan[i] \in Loadable
      BY StateParts
<1>2. DOMAIN D = Loadable
      BY DEF Graph
<1>3. Planned(r, x)
      BY DEF Progress, Rooted
<1>4. \A i \in DOMAIN r.plan : ToSet(D[r.plan[i]]) \subseteq {r.plan[j] : j \in 1..i - 1}
      BY DEF Progress, DependenciesFirst
<1>5. Needs(D, {x}) \subseteq ToSet(r.plan)
  <2>1. {x} \subseteq ToSet(r.plan)
        BY <1>3 DEF Planned, ToSet
  <2>2. \A p \in ToSet(r.plan) : ToSet(D[p]) \subseteq ToSet(r.plan)
    <3> TAKE p \in ToSet(r.plan)
    <3>1. PICK i \in DOMAIN r.plan : p = r.plan[i]
          BY DEF ToSet
    <3>2. \A j \in 1..i - 1 : j \in DOMAIN r.plan
          BY <1>1
    <3> QED
        BY <3>1, <3>2, <1>4 DEF ToSet
  <2> QED
      BY <2>1, <2>2, NeedsLeast
<1>6. ToSet(r.plan) \subseteq Needs(D, {x})
      BY DEF Progress, Wanted, ToSet
<1>7. Unloadable(D, x) = {}
      BY <1>1, <1>2, <1>5 DEF Unloadable, ToSet
<1>8. ~Cyclic(D, x)
  <2> SUFFICES ASSUME NEW p \in Needs(D, {x}), p \in Needs(D, ToSet(D[p]))
               PROVE  FALSE
      BY DEF Cyclic
  <2>1. PICK i \in DOMAIN r.plan : p = r.plan[i]
        BY <1>5 DEF ToSet
  <2> DEFINE T == {r.plan[j] : j \in 1..i - 1}
  <2>2. \A q \in T : ToSet(D[q]) \subseteq T
    <3> TAKE q \in T
    <3>1. PICK j \in 1..i - 1 : q = r.plan[j]
          OBVIOUS
    <3>2. j \in DOMAIN r.plan /\ \A h \in 1..j - 1 : h \in 1..i - 1
          BY <1>1
    <3> QED
        BY <3>1, <3>2, <1>4
  <2>3. ToSet(D[p]) \subseteq T
        BY <2>1, <1>4
  <2> HIDE DEF T
  <2>4. Needs(D, ToSet(D[p])) \subseteq T
        BY <2>2, <2>3, NeedsLeast
  <2>5. PICK j \in 1..i - 1 : p = r.plan[j]
        BY <2>4 DEF T
  <2>6. j \in DOMAIN r.plan /\ j # i
        BY <1>1
  <2> QED
      BY <2>1, <2>5, <2>6 DEF Progress, Once
<1> QED
    BY <1>5, <1>6, <1>7, <1>8 DEF Resolvable

-----------------------------------------------------------------------------
(* The invariant holds in every state, and with it both properties.        *)

LEMMA ResolverInvariant == ResolverSpec => []ResolverInv
<1>1. ResolverInit => ResolverInv
  <2> SUFFICES ASSUME ResolverInit
               PROVE  ResolverInv
      OBVIOUS
  <2>1. \A S : BoundedSeq(S, MaxDeps) \subseteq Seq(S)
        BY ResolverAssumption DEF BoundedSeq, SeqOf
  <2>2. deps \in Graph /\ root \in Name
        BY <2>1 DEF ResolverInit, Graph, Name
  <2> QED
      BY <2>2, StartSound DEF ResolverInit, ResolverInv
<1>2. ResolverInv /\ [ResolverNext]_resolverVars => ResolverInv'
  <2> SUFFICES ASSUME ResolverInv, [ResolverNext]_resolverVars
               PROVE  ResolverInv'
      OBVIOUS
  <2>1. CASE ResolverNext
    <3>1. Sound(deps, root, ResolveStep(deps, s))
          BY <2>1, StepSound DEF ResolverInv, ResolverNext
    <3> QED
        BY <2>1, <3>1 DEF ResolverInv, ResolverNext
  <2>2. CASE UNCHANGED resolverVars
        BY <2>2 DEF ResolverInv, resolverVars
  <2> QED
      BY <2>1, <2>2
<1> QED
    BY <1>1, <1>2, PTL DEF ResolverSpec

(* Until a resolution fails, its plan can be installed from the front.     *)
THEOREM PlanIsInOrder == ResolverSpec => []PlanInOrder
<1>1. ResolverInv => PlanInOrder
      BY DEF ResolverInv, Sound, Progress, PlanInOrder
<1> QED
    BY <1>1, ResolverInvariant, PTL

(* _resolve succeeds exactly on what can be installed, plans all of it and *)
(* nothing else, and reports a missing package or a cycle only where there *)
(* is one.                                                                 *)
THEOREM VerdictIsTrue == ResolverSpec => []VerdictIsRight
<1>1. ResolverInv => VerdictIsRight
  <2> SUFFICES ASSUME ResolverInv
               PROVE  VerdictIsRight
      OBVIOUS
  <2>1. s.verdict = "ok" => Resolvable(deps, root) /\ ToSet(s.plan) = Needs(deps, {root})
        BY PlanIsComplete DEF ResolverInv, Sound
  <2> QED
      BY <2>1 DEF VerdictIsRight, ResolverInv, Sound
<1> QED
    BY <1>1, ResolverInvariant, PTL
=============================================================================
